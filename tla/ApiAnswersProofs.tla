-------------------------- MODULE ApiAnswersProofs ---------------------------
(***************************************************************************)
(* Theorems about the answers of the API, for any requests: an invariant   *)
(* says that what is asked comes from where the requests come from, and    *)
(* about each answer there is a theorem of its operators.  Those about     *)
(* outgoing servers are in OutgoingSmtpProofs; those about filing,         *)
(* listing and grades are here.                                            *)
(*                                                                         *)
(* The loops of the code are folds over sets of places. What they compute  *)
(* is proved by induction over a set of numbers: the least number that is  *)
(* not in it cannot be there.                                              *)
(***************************************************************************)
EXTENDS ApiAnswers, OutgoingSmtpProofs, SequenceTheorems, FiniteSetTheorems

-----------------------------------------------------------------------------
(* How mail is filed, listed and counted. *)

(* The places ahead of each place are those of an order on all of them. *)
Ranks(ahead) ==
  LET P == DOMAIN ahead
  IN  /\ IsFiniteSet(P)
      /\ ahead \in [P -> SUBSET P]
      /\ \A i \in P : i \notin ahead[i]
      /\ \A i, j, k \in P : i \in ahead[j] /\ j \in ahead[k] => i \in ahead[k]
      /\ \A i, j \in P : i = j \/ i \in ahead[j] \/ j \in ahead[i]

(* How many places are ahead. *)
Rank(ahead, i) == Cardinality(ahead[i])

(* In such an order every rank below the number of places is taken, by one *)
(* place.                                                                  *)
LEMMA RanksAreAll ==
  ASSUME NEW ahead, Ranks(ahead)
  PROVE  /\ Cardinality(DOMAIN ahead) \in Nat
         /\ \A i \in DOMAIN ahead :
              Rank(ahead, i) \in Nat /\ Rank(ahead, i) < Cardinality(DOMAIN ahead)
         /\ \A i, j \in DOMAIN ahead :
              i \in ahead[j] => Rank(ahead, i) < Rank(ahead, j)
         /\ \A i, j \in DOMAIN ahead : Rank(ahead, i) = Rank(ahead, j) => i = j
         /\ \A k \in 1 .. Cardinality(DOMAIN ahead) :
              \E i \in DOMAIN ahead : Rank(ahead, i) = k - 1
<1> DEFINE P == DOMAIN ahead
           n == Cardinality(P)
<1>1. /\ IsFiniteSet(P)
      /\ ahead \in [P -> SUBSET P]
      /\ \A i \in P : i \notin ahead[i]
      /\ \A i, j, k \in P : i \in ahead[j] /\ j \in ahead[k] => i \in ahead[k]
      /\ \A i, j \in P : i = j \/ i \in ahead[j] \/ j \in ahead[i]
  BY DEF Ranks
<1>2. n \in Nat
  BY <1>1, FS_CardinalityType
<1>3. ASSUME NEW i \in P
      PROVE  IsFiniteSet(ahead[i]) /\ Rank(ahead, i) \in Nat /\ Rank(ahead, i) < n
  <2>1. ahead[i] \in SUBSET P /\ ahead[i] # P
    BY <1>1
  <2>2. IsFiniteSet(ahead[i]) /\ Cardinality(ahead[i]) <= n /\ Cardinality(ahead[i]) # n
    BY <1>1, <2>1, FS_Subset
  <2>3. Cardinality(ahead[i]) \in Nat
    BY <2>2, FS_CardinalityType
  <2> QED  BY <1>2, <2>2, <2>3 DEF Rank
<1>4. ASSUME NEW i \in P, NEW j \in P, i \in ahead[j]
      PROVE  Rank(ahead, i) < Rank(ahead, j)
  <2>1. ahead[i] \in SUBSET ahead[j] /\ ahead[i] # ahead[j]
    BY <1>1, <1>4
  <2>2. Cardinality(ahead[i]) <= Cardinality(ahead[j])
        /\ Cardinality(ahead[i]) # Cardinality(ahead[j])
    BY <1>3, <2>1, FS_Subset
  <2> QED  BY <1>3, <2>2 DEF Rank
<1>5. ASSUME NEW i \in P, NEW j \in P, Rank(ahead, i) = Rank(ahead, j)
      PROVE  i = j
  BY <1>1, <1>3, <1>4, <1>5
<1>6. ASSUME NEW k \in 1 .. n
      PROVE  \E i \in P : Rank(ahead, i) = k - 1
  <2> DEFINE place == [i \in P |-> Rank(ahead, i) + 1]
  <2>1. place \in Injection(P, 1 .. n)
    BY <1>2, <1>3, <1>5 DEF Injection, IsInjective
  <2>2. IsFiniteSet(1 .. n) /\ Cardinality(1 .. n) = n
    BY <1>2, FS_Interval
  <2>3. place \in Surjection(P, 1 .. n)
    BY <2>1, <2>2, FS_Injection
  <2>4. PICK i \in P : place[i] = k
    BY <2>3 DEF Surjection
  <2> QED  BY <1>3, <2>4
<1> QED  BY <1>2, <1>3, <1>4, <1>5, <1>6

(* So Arranged puts every place at its rank, and at every rank a place. *)
LEMMA ArrangedByRank ==
  ASSUME NEW list, NEW ahead, Ranks(ahead)
  PROVE  /\ DOMAIN Arranged(list, ahead) = 1 .. Cardinality(DOMAIN ahead)
         /\ Cardinality(DOMAIN ahead) \in Nat
         /\ \A i \in DOMAIN ahead :
              /\ Rank(ahead, i) + 1 \in 1 .. Cardinality(DOMAIN ahead)
              /\ Arranged(list, ahead)[Rank(ahead, i) + 1] = list[i]
         /\ \A k \in 1 .. Cardinality(DOMAIN ahead) : \E i \in DOMAIN ahead :
              Rank(ahead, i) + 1 = k /\ Arranged(list, ahead)[k] = list[i]
<1> DEFINE P == DOMAIN ahead
           n == Cardinality(P)
           At(k) == CHOOSE i \in P : Cardinality(ahead[i]) = k - 1
           s == Arranged(list, ahead)
<1>1. /\ n \in Nat
      /\ \A i \in P : Rank(ahead, i) \in Nat /\ Rank(ahead, i) < n
      /\ \A i, j \in P : Rank(ahead, i) = Rank(ahead, j) => i = j
      /\ \A k \in 1 .. n : \E i \in P : Rank(ahead, i) = k - 1
  BY RanksAreAll
<1>2. s = [k \in 1 .. n |-> list[At(k)]]
  BY DEF Arranged
<1>3. \A k \in 1 .. n : At(k) \in P /\ Rank(ahead, At(k)) = k - 1
  BY <1>1 DEF Rank
<1> HIDE DEF P, n, At, s
<1>4. ASSUME NEW i \in P
      PROVE  Rank(ahead, i) + 1 \in 1 .. n /\ At(Rank(ahead, i) + 1) = i
  BY <1>1, <1>3
<1>5. \A k \in 1 .. n : Rank(ahead, At(k)) + 1 = k
  BY <1>1, <1>3
<1>6. /\ DOMAIN s = 1 .. n
      /\ \A k \in 1 .. n : s[k] = list[At(k)]
  BY <1>2
<1>7. \A i \in P : s[Rank(ahead, i) + 1] = list[i]
  BY <1>4, <1>6
<1>8. \A k \in 1 .. n : \E i \in P : Rank(ahead, i) + 1 = k /\ s[k] = list[i]
  BY <1>3, <1>5, <1>6
<1> QED  BY <1>1, <1>4, <1>6, <1>7, <1>8 DEF P, n, s

(* What is arranged is a sequence of what the list has at the places. *)
LEMMA ArrangedIsSeq ==
  ASSUME NEW list, NEW ahead, Ranks(ahead), NEW S, \A i \in DOMAIN ahead : list[i] \in S
  PROVE  /\ Arranged(list, ahead) \in Seq(S)
         /\ Len(Arranged(list, ahead)) = Cardinality(DOMAIN ahead)
<1>1. /\ DOMAIN Arranged(list, ahead) = 1 .. Cardinality(DOMAIN ahead)
      /\ Cardinality(DOMAIN ahead) \in Nat
      /\ \A k \in 1 .. Cardinality(DOMAIN ahead) : Arranged(list, ahead)[k] \in S
  BY ArrangedByRank
<1>2. Arranged(list, ahead)
        = [k \in 1 .. Cardinality(DOMAIN ahead) |-> Arranged(list, ahead)[k]]
  BY DEF Arranged
<1> QED  BY <1>1, <1>2

(* The places a loop visits are in an order. *)
LEMMA PickedInOrder ==
  ASSUME NEW n \in Nat, NEW places \in SUBSET (1 .. n)
  PROVE  Ranks([i \in places |-> {j \in places : j < i}])
<1>1. IsFiniteSet(1 .. n)
  BY FS_Interval
<1>2. IsFiniteSet(places)
  BY <1>1, FS_Subset
<1> QED  BY <1>2 DEF Ranks

(* A loop that keeps some of a list keeps just those, each once. *)
LEMMA PickedIsPicked ==
  ASSUME NEW S, NEW list \in Seq(S), NEW places \in SUBSET DOMAIN list
  PROVE  /\ Picked(list, places) \in Seq(S)
         /\ Len(Picked(list, places)) = Cardinality(places)
         /\ IsFiniteSet(places)
         /\ \A k \in DOMAIN Picked(list, places) : \E i \in places :
              Picked(list, places)[k] = list[i]
         /\ \A i \in places : \E k \in DOMAIN Picked(list, places) :
              Picked(list, places)[k] = list[i]
         /\ \A k, l \in DOMAIN Picked(list, places) : k # l =>
              \E i, j \in places : i # j /\ Picked(list, places)[k] = list[i]
                                         /\ Picked(list, places)[l] = list[j]
<1> DEFINE ahead == [i \in places |-> {j \in places : j < i}]
<1>1. DOMAIN list = 1 .. Len(list) /\ Len(list) \in Nat
  OBVIOUS
<1>2. Ranks(ahead)
  BY <1>1, PickedInOrder
<1>3. Picked(list, places) = Arranged(list, ahead) /\ DOMAIN ahead = places
  BY DEF Picked
<1> HIDE DEF ahead
<1>4. /\ Arranged(list, ahead) \in Seq(S)
      /\ Len(Arranged(list, ahead)) = Cardinality(places)
  BY <1>2, <1>3, ArrangedIsSeq
<1> DEFINE s == Arranged(list, ahead)
<1>5. /\ DOMAIN s = 1 .. Cardinality(places)
      /\ \A i \in places :
           Rank(ahead, i) + 1 \in DOMAIN s /\ s[Rank(ahead, i) + 1] = list[i]
      /\ \A k \in DOMAIN s : \E i \in places : Rank(ahead, i) + 1 = k /\ s[k] = list[i]
  BY <1>2, <1>3, ArrangedByRank
<1>6. IsFiniteSet(places)
  BY <1>2, <1>3 DEF Ranks
<1> HIDE DEF s
<1>7. \A k, l \in DOMAIN s : k # l =>
        \E i, j \in places : i # j /\ s[k] = list[i] /\ s[l] = list[j]
  BY <1>5
<1> QED  BY <1>3, <1>4, <1>5, <1>6, <1>7 DEF s

(* The order of a listing: what sortMessagesByCreated compares             *)
(* (v2.go:1280-1299).                                                      *)
Ordered(order, m, n) == IF order = "asc" THEN Earlier(m, n) ELSE Earlier(n, m)

(* It is a strict order, and total where ids differ. *)
LEMMA OrderedIsTotal ==
  ASSUME NEW m, m.created \in Nat, m.id \in Nat,
         NEW n, n.created \in Nat, n.id \in Nat,
         NEW o, o.created \in Nat, o.id \in Nat, NEW order
  PROVE  /\ ~Ordered(order, m, m)
         /\ Ordered(order, m, n) => ~Ordered(order, n, m)
         /\ Ordered(order, m, n) /\ Ordered(order, n, o) => Ordered(order, m, o)
         /\ m.id # n.id => Ordered(order, m, n) \/ Ordered(order, n, m)
BY DEF Ordered, Earlier

(* The rank of a message among those of a set. *)
Place(M, order, m) == Cardinality({x \in M : Ordered(order, x, m)})

(* A sorted list has every message at its rank among the messages, in      *)
(* whatever order the storage listed them.                                 *)
LEMMA SortedInOrder ==
  ASSUME NEW messages, IsListing(messages), NEW order
  PROVE  LET sorted == SortByCreated(messages, order)
             M == ToSet(messages)
         IN  /\ IsFiniteSet(M)
             /\ sorted \in Seq(M)
             /\ Len(sorted) = Cardinality(M)
             /\ \A m \in M : /\ Place(M, order, m) + 1 \in 1 .. Len(sorted)
                            /\ sorted[Place(M, order, m) + 1] = m
             /\ \A k \in 1 .. Len(sorted) : Place(M, order, sorted[k]) + 1 = k
<1> DEFINE M == ToSet(messages)
           D == DOMAIN messages
           Sooner(j, i) == \/ Ordered(order, messages[j], messages[i])
                           \/ j < i /\ ~Ordered(order, messages[i], messages[j])
           ahead == [i \in D |-> {j \in D : Sooner(j, i)}]
           sorted == SortByCreated(messages, order)
<1>1. sorted = Arranged(messages, ahead)
  BY DEF SortByCreated, Sorted, Ordered
<1>2. /\ messages \in Seq(M) /\ D = 1 .. Len(messages) /\ Len(messages) \in Nat
      /\ \A i \in D : messages[i] \in M
      /\ \A m \in M : \E i \in D : messages[i] = m
  BY DEF IsListing, ToSet
<1>3. IsFiniteSet(D)
  BY <1>2, FS_Interval
<1> HIDE DEF M
<1>4. \A i \in D : messages[i].created \in Nat /\ messages[i].id \in Nat
  BY <1>2 DEF IsListing, M, Stamped
<1>5. \A i, j \in D : i # j => messages[i].id # messages[j].id
  BY DEF IsListing
<1>6. \A i, j \in D : Sooner(j, i) <=> Ordered(order, messages[j], messages[i])
  BY <1>2, <1>4, <1>5, OrderedIsTotal
<1>7. ahead = [i \in D |-> {j \in D : Ordered(order, messages[j], messages[i])}]
  BY <1>6
<1> HIDE DEF ahead, D
<1>8. Ranks(ahead)
  <2>1. \A i \in D : i \notin ahead[i]
    BY <1>4, <1>7, OrderedIsTotal
  <2>2. \A i, j, k \in D : i \in ahead[j] /\ j \in ahead[k] => i \in ahead[k]
    BY <1>4, <1>7, OrderedIsTotal
  <2>3. \A i, j \in D : i = j \/ i \in ahead[j] \/ j \in ahead[i]
    BY <1>4, <1>5, <1>7, OrderedIsTotal
  <2>4. DOMAIN ahead = D /\ ahead \in [D -> SUBSET D]
    BY <1>7
  <2> QED  BY <1>3, <2>1, <2>2, <2>3, <2>4 DEF Ranks
<1>9. DOMAIN ahead = D
  BY <1>7
<1>10. \A i \in D : Rank(ahead, i) = Place(M, order, messages[i])
  <2> SUFFICES ASSUME NEW i \in D
               PROVE  Rank(ahead, i) = Place(M, order, messages[i])
    OBVIOUS
  <2> DEFINE T == {x \in M : Ordered(order, x, messages[i])}
             f == [j \in ahead[i] |-> messages[j]]
  <2>1. ahead[i] = {j \in D : Ordered(order, messages[j], messages[i])}
    BY <1>7
  <2>2. f \in [ahead[i] -> T] /\ \A j \in ahead[i] : f[j] = messages[j]
    BY <1>2, <2>1
  <2>3. \A x \in T : \E j \in ahead[i] : messages[j] = x
    BY <1>2, <2>1
  <2> HIDE DEF f, T
  <2>4. \A j, k \in ahead[i] : f[j] = f[k] => j = k
    BY <1>5, <2>1, <2>2
  <2>5. f \in Bijection(ahead[i], T)
    BY <2>2, <2>3, <2>4 DEF Bijection, Injection, IsInjective, Surjection
  <2>6. IsFiniteSet(ahead[i])
    BY <1>3, <2>1, FS_Subset
  <2>7. Cardinality(T) = Cardinality(ahead[i])
    BY <2>5, <2>6, FS_Bijection DEF ExistsBijection
  <2> QED  BY <2>7 DEF Rank, Place, T
<1>11. IsFiniteSet(M) /\ Cardinality(M) = Cardinality(D)
  <2> DEFINE f == [j \in D |-> messages[j]]
  <2>1. f \in [D -> M] /\ \A j \in D : f[j] = messages[j]
    BY <1>2
  <2> HIDE DEF f
  <2>2. \A m \in M : \E j \in D : f[j] = m
    BY <1>2, <2>1
  <2>3. \A i, j \in D : f[i] = f[j] => i = j
    BY <1>5, <2>1
  <2>4. f \in Bijection(D, M)
    BY <2>1, <2>2, <2>3 DEF Bijection, Injection, IsInjective, Surjection
  <2> QED  BY <1>3, <2>4, FS_Bijection DEF ExistsBijection
<1>12. sorted \in Seq(M) /\ Len(sorted) = Cardinality(M)
  BY <1>1, <1>2, <1>8, <1>9, <1>11, ArrangedIsSeq
<1>13. /\ \A i \in D : /\ Rank(ahead, i) + 1 \in 1 .. Cardinality(D)
                       /\ sorted[Rank(ahead, i) + 1] = messages[i]
       /\ \A k \in 1 .. Cardinality(D) : \E i \in D :
            Rank(ahead, i) + 1 = k /\ sorted[k] = messages[i]
  BY <1>1, <1>8, <1>9, ArrangedByRank
<1> HIDE DEF sorted
<1>14. \A m \in M : /\ Place(M, order, m) + 1 \in 1 .. Len(sorted)
                   /\ sorted[Place(M, order, m) + 1] = m
  <2> SUFFICES ASSUME NEW m \in M
               PROVE  /\ Place(M, order, m) + 1 \in 1 .. Len(sorted)
                      /\ sorted[Place(M, order, m) + 1] = m
    OBVIOUS
  <2>1. PICK i \in D : messages[i] = m
    BY <1>2
  <2> QED  BY <2>1, <1>10, <1>11, <1>12, <1>13
<1>15. \A k \in 1 .. Len(sorted) : Place(M, order, sorted[k]) + 1 = k
  BY <1>10, <1>11, <1>12, <1>13
<1> QED  BY <1>11, <1>12, <1>14, <1>15 DEF sorted, M

(* A filter of a listing is a listing of the messages it asks for. *)
LEMMA PickedIsListing ==
  ASSUME NEW messages, IsListing(messages), NEW W,
         NEW places \in SUBSET DOMAIN messages,
         \A i \in DOMAIN messages : i \in places <=> messages[i] \in W
  PROVE  /\ IsListing(Picked(messages, places))
         /\ ToSet(Picked(messages, places)) = ToSet(messages) \cap W
<1> DEFINE M == ToSet(messages)
           D == DOMAIN messages
           s == Picked(messages, places)
<1>1. /\ messages \in Seq(M) /\ places \subseteq D
      /\ \A i \in D : messages[i] \in M
      /\ \A m \in M : \E i \in D : messages[i] = m
      /\ \A i, j \in D : messages[i].id = messages[j].id => i = j
      /\ \A m \in M : m.created \in Nat /\ m.id \in Nat
  BY DEF IsListing, ToSet, Stamped
<1> HIDE DEF M
<1>2. /\ s \in Seq(M)
      /\ \A k \in DOMAIN s : \E i \in places : s[k] = messages[i]
      /\ \A i \in places : \E k \in DOMAIN s : s[k] = messages[i]
      /\ \A k, l \in DOMAIN s : k # l =>
           \E i, j \in places : i # j /\ s[k] = messages[i] /\ s[l] = messages[j]
  BY <1>1, PickedIsPicked, SMTT(60)
<1> HIDE DEF s, D
<1>3. ToSet(s) = {s[k] : k \in DOMAIN s} /\ \A i \in D : i \in places <=> messages[i] \in W
  BY DEF ToSet, D
<1>4. ToSet(s) = M \cap W
  <2>1. ASSUME NEW k \in DOMAIN s PROVE s[k] \in M \cap W
    BY <1>1, <1>2, <1>3
  <2>2. ASSUME NEW m \in M \cap W PROVE m \in ToSet(s)
    BY <1>1, <1>2, <1>3
  <2> QED  BY <1>3, <2>1, <2>2
<1>5. s \in Seq(ToSet(s))
  <2>1. s \in [1 .. Len(s) -> M] /\ Len(s) \in Nat
    BY <1>2
  <2>2. s \in [1 .. Len(s) -> ToSet(s)]
    BY <1>3, <2>1
  <2> QED  BY <2>1, <2>2
<1>6. ASSUME NEW k \in DOMAIN s, NEW l \in DOMAIN s, k # l
      PROVE  s[k].id # s[l].id
  <2>1. PICK i \in places, j \in places :
          i # j /\ s[k] = messages[i] /\ s[l] = messages[j]
    BY <1>2, <1>6
  <2> QED  BY <1>1, <1>3, <2>1
<1>7. IsListing(s)
  BY <1>1, <1>4, <1>5, <1>6 DEF IsListing, Stamped
<1> QED  BY <1>4, <1>7 DEF s, M

(* A message that a request asks for, by its folder and its tag. *)
IsAskedFor(m, q) ==
  Norm[m.folder] = Norm[q.folder] /\ (q.tag = NoTag \/ HasTag(m, q.tag))

(* A listing is the sorted list of the messages asked for (v2.go:171-223). *)
LEMMA ListingIsSorted ==
  ASSUME NEW messages, IsListing(messages), NEW q
  PROVE  \E listed : /\ IsListing(listed)
                     /\ ToSet(listed) = {m \in ToSet(messages) : IsAskedFor(m, q)}
                     /\ Listing(messages, q) = SortByCreated(listed, q.order)
<1> DEFINE M == ToSet(messages)
           inFolder == FilterByFolder(messages, q.folder)
           W == {m \in M : Norm[m.folder] = Norm[q.folder]}
           T == {m \in M : HasTag(m, q.tag)}
           folderPlaces == {i \in DOMAIN messages :
                              Norm[messages[i].folder] = Norm[q.folder]}
           tagPlaces == {i \in DOMAIN inFolder : HasTag(inFolder[i], q.tag)}
<1>1. \A i \in DOMAIN messages : messages[i] \in M
  BY DEF ToSet
<1>2. inFolder = Picked(messages, folderPlaces)
  BY DEF FilterByFolder
<1> HIDE DEF M
<1>3. /\ folderPlaces \in SUBSET DOMAIN messages
      /\ \A i \in DOMAIN messages : i \in folderPlaces <=> messages[i] \in W
  BY <1>1
<1> HIDE DEF folderPlaces, W
<1>4. IsListing(inFolder) /\ ToSet(inFolder) = M \cap W
  BY <1>2, <1>3, PickedIsListing DEF M
<1> HIDE DEF inFolder
<1>5. CASE q.tag = NoTag
  <2>1. ToSet(inFolder) = {m \in M : IsAskedFor(m, q)}
    BY <1>4, <1>5 DEF IsAskedFor, W
  <2>2. Listing(messages, q) = SortByCreated(inFolder, q.order)
    BY <1>5 DEF Listing, inFolder
  <2> QED  BY <1>4, <2>1, <2>2 DEF M
<1>6. CASE q.tag # NoTag
  <2> DEFINE listed == FilterByTag(inFolder, q.tag)
  <2>1. listed = Picked(inFolder, tagPlaces)
    BY DEF FilterByTag
  <2>2. \A i \in DOMAIN inFolder : inFolder[i] \in M
    BY <1>4 DEF ToSet
  <2>3. /\ tagPlaces \in SUBSET DOMAIN inFolder
        /\ \A i \in DOMAIN inFolder : i \in tagPlaces <=> inFolder[i] \in T
    BY <2>2
  <2>4. Listing(messages, q) = SortByCreated(listed, q.order)
    BY <1>6 DEF Listing, inFolder
  <2> HIDE DEF tagPlaces, T, listed
  <2>5. IsListing(listed) /\ ToSet(listed) = ToSet(inFolder) \cap T
    BY <1>4, <2>1, <2>3, PickedIsListing
  <2>6. ToSet(listed) = {m \in M : IsAskedFor(m, q)}
    BY <1>4, <1>6, <2>5 DEF IsAskedFor, W, T
  <2> QED  BY <2>4, <2>5, <2>6 DEF M
<1> QED  BY <1>5, <1>6

(* Min of two numbers is the smaller. *)
LEMMA MinOfTwo ==
  ASSUME NEW a \in Int, NEW b \in Int
  PROVE  Min({a, b}) = IF a <= b THEN a ELSE b
<1> DEFINE m == IF a <= b THEN a ELSE b
<1>1. \A x \in {a, b} : (\A y \in {a, b} : x <= y) <=> x = m
  OBVIOUS
<1>2. m \in {a, b}
  OBVIOUS
<1> HIDE DEF m
<1>3. Min({a, b}) = m
  BY <1>1, <1>2 DEF Min
<1> QED  BY <1>3 DEF m

(* A page has room for a message, whatever limit is asked for              *)
(* (v2.go:171-189).                                                        *)
LEMMA LimitIsPositive ==
  ASSUME NEW limit \in Int
  PROVE  LimitOf(limit) \in Nat \ {0}
<1>1. MaxLimit \in Nat \ {0} /\ DefaultLimit \in Nat \ {0}
  BY QueryAssumption
<1>2. Min({limit, MaxLimit}) = IF limit <= MaxLimit THEN limit ELSE MaxLimit
  BY <1>1, MinOfTwo
<1> QED  BY <1>1, <1>2 DEF LimitOf

(* A page shows the messages at its places, as far as there are any. *)
LEMMA PageShows ==
  ASSUME NEW S, NEW s \in Seq(S), NEW start \in Nat, NEW limit \in Nat, limit > 0
  PROVE  ToSet(Page(s, start, limit))
           = {s[i] : i \in {j \in DOMAIN s : start < j /\ j <= start + limit}}
<1> DEFINE n == Len(s)
           shown == {j \in 1 .. n : start < j /\ j <= start + limit}
<1>1. DOMAIN s = 1 .. n /\ n \in Nat /\ \A i \in 1 .. n : s[i] \in S
  OBVIOUS
<1>2. CASE start >= n
  <2>1. Page(s, start, limit) = <<>> /\ shown = {}
    BY <1>1, <1>2 DEF Page
  <2>2. ToSet(<<>>) = {}
    BY DEF ToSet
  <2> QED  BY <1>1, <2>1, <2>2
<1>3. CASE ~(start >= n)
  <2> DEFINE last == Min({start + limit, n})
             p == SubSeq(s, start + 1, last)
  <2>1. Page(s, start, limit) = p
    BY <1>3 DEF Page
  <2> HIDE DEF n
  <2>2. last = IF start + limit <= n THEN start + limit ELSE n
    <3>1. start + limit \in Int /\ n \in Int
      BY <1>1
    <3> QED  BY <3>1, MinOfTwo
  <2> HIDE DEF last
  <2>3. last \in Nat /\ last <= n /\ start + 1 <= last
    BY <1>1, <1>3, <2>2
  <2>4. \A i \in start + 1 .. last : s[i] \in S
    BY <1>1, <2>3
  <2>5. /\ p \in Seq(S) /\ Len(p) = last - start
        /\ \A i \in 1 .. last - start : p[i] = s[start + i]
    <3>1. start + 1 \in Int /\ last \in Int
      BY <2>3
    <3>2. /\ p \in Seq(S)
          /\ Len(p) = IF start + 1 <= last THEN last - (start + 1) + 1 ELSE 0
          /\ \A i \in 1 .. last - (start + 1) + 1 : p[i] = s[(start + 1) + i - 1]
      BY <2>4, <3>1, SubSeqProperties
    <3> HIDE DEF p
    <3> QED  BY <2>3, <3>2
  <2> HIDE DEF p
  <2>6. DOMAIN p = 1 .. last - start
    BY <2>5
  <2>7. \A j \in shown : j - start \in DOMAIN p /\ p[j - start] = s[j]
    BY <1>1, <2>2, <2>3, <2>5, <2>6, SMTT(60)
  <2>8. \A i \in DOMAIN p : start + i \in shown /\ p[i] = s[start + i]
    BY <1>1, <2>2, <2>3, <2>5, <2>6, SMTT(60)
  <2>9. ToSet(p) = {p[i] : i \in DOMAIN p}
    BY DEF ToSet
  <2> HIDE DEF shown
  <2>10. ToSet(p) = {s[i] : i \in shown}
    BY <2>7, <2>8, <2>9
  <2> QED  BY <1>1, <2>1, <2>10 DEF shown
<1> QED  BY <1>2, <1>3

(* Messages that arrived move those that were there by d places, all or    *)
(* none.                                                                   *)
Shifted(M, N, order, d) ==
  \A m \in M : /\ Place(M, order, m) \in Nat
               /\ Place(N, order, m) = Place(M, order, m) + d

(* What arrives is newer, so it stands before everything that was there,   *)
(* or behind it.                                                           *)
LEMMA ArrivalsShift ==
  ASSUME NEW M, NEW N, IsFiniteSet(N), Stamped(N), Arrived(M, N),
         NEW order \in {"asc", "desc"}
  PROVE  \E d \in Nat : Shifted(M, N, order, d)
<1> USE DEF Shifted
<1> DEFINE In(T, m) == {x \in T : Ordered(order, x, m)}
           new == N \ M
<1> USE DEF Arrived, Stamped
<1>1. IsFiniteSet(M) /\ IsFiniteSet(new) /\ Cardinality(new) \in Nat
  BY FS_Subset, FS_Difference, FS_CardinalityType
<1>2. \A m \in M : IsFiniteSet(In(M, m)) /\ Place(M, order, m) \in Nat
  <2> TAKE m \in M
  <2>1. In(M, m) \in SUBSET M
    OBVIOUS
  <2>2. IsFiniteSet(In(M, m))
    BY <1>1, <2>1, FS_Subset
  <2> QED  BY <2>2, FS_CardinalityType DEF Place
<1>3. CASE order = "asc"
  <2>1. \A m \in M, x \in new : ~Ordered(order, x, m)
    <3> TAKE m \in M, x \in new
    <3>1. Ordered(order, m, x)
      BY <1>3 DEF Ordered
    <3>2. m \in N /\ x \in N
      OBVIOUS
    <3> QED  BY <3>1, <3>2, OrderedIsTotal
  <2>2. \A m \in M : In(N, m) = In(M, m)
    BY <2>1
  <2>3. \A m \in M : Place(N, order, m) = Place(M, order, m)
    BY <2>2 DEF Place
  <2>4. \A m \in M : Place(N, order, m) = Place(M, order, m) + 0
    <3> HIDE DEF In
    <3> TAKE m \in M
    <3>1. Place(M, order, m) \in Nat /\ Place(N, order, m) = Place(M, order, m)
      BY <1>2, <2>3
    <3> QED  BY <3>1
  <2> QED  BY <1>2, <2>4
<1>4. CASE order = "desc"
  <2>1. \A m \in M, x \in new : Ordered(order, x, m)
    BY <1>4 DEF Ordered
  <2>2. ASSUME NEW m \in M
        PROVE  Place(N, order, m) = Place(M, order, m) + Cardinality(new)
    <3>1. In(N, m) = In(M, m) \cup new /\ In(M, m) \cap new = {}
      BY <2>1
    <3> HIDE DEF new
    <3>2. /\ Cardinality(In(M, m) \cup new)
               = Cardinality(In(M, m)) + Cardinality(new) - Cardinality(In(M, m) \cap new)
          /\ IsFiniteSet(In(M, m))
      BY <1>1, <1>2, FS_Union
    <3>3. Cardinality(In(M, m) \cap new) = 0 /\ Cardinality(In(M, m)) \in Nat
      BY <3>1, <3>2, FS_EmptySet, FS_CardinalityType
    <3> HIDE DEF In, Arrived, Stamped
    <3>4. Cardinality(In(N, m)) = Cardinality(In(M, m)) + Cardinality(new)
      BY <1>1, <3>1, <3>2, <3>3
    <3> QED  BY <3>4 DEF Place, In
  <2> QED  BY <1>1, <1>2, <2>2
<1> QED  BY <1>3, <1>4

(* Two pages taken while mail arrives show a beginning of the list there   *)
(* was, as long as the pages or the list.                                  *)
LEMMA NothingIsMissed ==
  ASSUME NEW q, q.order \in {"asc", "desc"}, NEW limit \in Int,
         NEW before, IsListing(before), NEW after, IsListing(after),
         Arrived(ToSet(before), ToSet(after))
  PROVE  PagesMissNothing(q, before, after, limit)
<1> DEFINE order == q.order
           l == LimitOf(limit)
           full == Listing(before, q)
           later == Listing(after, q)
           seen == ToSet(Messages(before, q, 0, limit))
                     \cup ToSet(Messages(after, q, l, limit))
           again == {i \in DOMAIN full : full[i] \in seen}
<1>1. l \in Nat /\ l > 0 /\ order \in {"asc", "desc"}
  BY LimitIsPositive
<1>2. PICK old : /\ IsListing(old)
                 /\ ToSet(old) = {m \in ToSet(before) : IsAskedFor(m, q)}
                 /\ full = SortByCreated(old, order)
  BY ListingIsSorted
<1>3. PICK all : /\ IsListing(all)
                 /\ ToSet(all) = {m \in ToSet(after) : IsAskedFor(m, q)}
                 /\ later = SortByCreated(all, order)
  BY ListingIsSorted
<1> DEFINE M == ToSet(old)
           N == ToSet(all)
<1> HIDE DEF l, full, later, order
<1>4. Arrived(M, N) /\ M \subseteq N
  BY <1>2, <1>3 DEF Arrived
<1>5. /\ full \in Seq(M)
      /\ \A m \in M : /\ Place(M, order, m) + 1 \in 1 .. Len(full)
                     /\ full[Place(M, order, m) + 1] = m
      /\ \A k \in 1 .. Len(full) : Place(M, order, full[k]) + 1 = k
  BY <1>2, SortedInOrder
<1>6. /\ later \in Seq(N) /\ IsFiniteSet(N)
      /\ \A m \in N : /\ Place(N, order, m) + 1 \in 1 .. Len(later)
                     /\ later[Place(N, order, m) + 1] = m
      /\ \A k \in 1 .. Len(later) : Place(N, order, later[k]) + 1 = k
  BY <1>3, SortedInOrder
<1>7. Stamped(N)
  BY <1>3 DEF IsListing
<1> HIDE DEF M, N
<1>8. PICK d \in Nat : Shifted(M, N, order, d)
  BY <1>1, <1>4, <1>6, <1>7, ArrivalsShift
<1>9. /\ DOMAIN full = 1 .. Len(full) /\ Len(full) \in Nat
      /\ \A k \in 1 .. Len(full) : full[k] \in M
  BY <1>5
<1>10. DOMAIN later = 1 .. Len(later) /\ Len(later) \in Nat
  BY <1>6
<1>11. \A k \in DOMAIN full : k + d \in DOMAIN later /\ later[k + d] = full[k]
  <2> TAKE k \in DOMAIN full
  <2>1. full[k] \in M /\ full[k] \in N /\ Place(M, order, full[k]) + 1 = k
    BY <1>4, <1>5, <1>9
  <2>2. Place(N, order, full[k]) + 1 = k + d
    BY <1>8, <1>9, <2>1 DEF Shifted
  <2> QED  BY <1>6, <1>10, <2>1, <2>2
<1>12. /\ \A i, k \in DOMAIN full : full[i] = full[k] => i = k
       /\ \A i, k \in DOMAIN later : later[i] = later[k] => i = k
  BY <1>5, <1>6, <1>9, <1>10
<1>13. ToSet(Messages(before, q, 0, limit))
         = {full[i] : i \in {j \in DOMAIN full : 0 < j /\ j <= 0 + l}}
  BY <1>1, <1>5, PageShows DEF Messages, full, l
<1>14. ToSet(Messages(after, q, l, limit))
         = {later[i] : i \in {j \in DOMAIN later : l < j /\ j <= l + l}}
  BY <1>1, <1>6, PageShows DEF Messages, later, l
<1>15. \A i \in DOMAIN full :
         full[i] \in seen <=> i <= l \/ (l < i + d /\ i + d <= l + l)
  <2> TAKE i \in DOMAIN full
  <2>1. i \in Nat /\ i > 0 /\ i + d \in DOMAIN later /\ later[i + d] = full[i]
    BY <1>9, <1>11
  <2>2. full[i] \in ToSet(Messages(before, q, 0, limit)) <=> i <= l
    BY <1>1, <1>12, <1>13, <2>1
  <2>3. full[i] \in ToSet(Messages(after, q, l, limit)) <=> l < i + d /\ i + d <= l + l
    BY <1>12, <1>14, <2>1
  <2> QED  BY <2>2, <2>3
<1> DEFINE reach == IF l + l - d > l THEN l + l - d ELSE l
           last == IF reach <= Len(full) THEN reach ELSE Len(full)
<1> HIDE DEF seen
<1>16. again = 1 .. last /\ last \in Nat
  <2>1. \A i \in 1 .. Len(full) :
          i \in 1 .. last <=> i <= l \/ (l < i + d /\ i + d <= l + l)
    BY <1>1, <1>8, <1>9
  <2>2. again = {i \in 1 .. Len(full) : i <= l \/ (l < i + d /\ i + d <= l + l)}
    BY <1>9, <1>15
  <2>3. last \in Nat /\ last <= Len(full)
    BY <1>1, <1>8, <1>9
  <2> HIDE DEF again, last
  <2> QED  BY <1>9, <2>1, <2>2, <2>3
<1>17. Cardinality(again) = last
  <2> HIDE DEF again, last
  <2>1. Cardinality(1 .. last) = IF 1 > last THEN 0 ELSE last - 1 + 1
    BY <1>16, FS_Interval
  <2> QED  BY <1>16, <2>1
<1>18. Min({l, Len(full)}) = IF l <= Len(full) THEN l ELSE Len(full)
  BY <1>1, <1>9, MinOfTwo
<1> HIDE DEF again
<1>19. last >= Min({l, Len(full)})
  BY <1>1, <1>9, <1>18
<1> HIDE DEF last
<1>20. again = 1 .. Cardinality(again) /\ Cardinality(again) >= Min({l, Len(full)})
  BY <1>16, <1>17, <1>19
<1> QED  BY <1>20 DEF PagesMissNothing, again, seen, full, l
-----------------------------------------------------------------------------
(* The names in a list, as they read: trimmed, in lower case, without      *)
(* blanks.                                                                 *)
Read(names) == {Norm[n] : n \in ToSet(names)} \ {0}

(* Sanitize keeps what a list reads, each name once and no blank one       *)
(* (sanitizeTagNames, sanitizeFolderNames).                                *)
LEMMA SanitizedReadsOnce ==
  ASSUME NEW names \in Seq(Spellings)
  PROVE  /\ Sanitize(names) \in Seq(Spellings)
         /\ Read(Sanitize(names)) = Read(names)
         /\ \A i, j \in DOMAIN Sanitize(names) :
              i # j => Norm[Sanitize(names)[i]] # Norm[Sanitize(names)[j]]
         /\ \A i \in DOMAIN Sanitize(names) : Norm[Sanitize(names)[i]] # 0
<1> DEFINE First(i) == \A j \in 1 .. i - 1 : Norm[names[j]] # Norm[names[i]]
           places == {i \in DOMAIN names : Norm[names[i]] # 0 /\ First(i)}
           s == Picked(names, places)
<1>1. Sanitize(names) = s
  BY DEF Sanitize
<1>2. DOMAIN names = 1 .. Len(names) /\ Len(names) \in Nat
  OBVIOUS
<1>3. \A i, j \in places : i # j => Norm[names[i]] # Norm[names[j]]
  BY <1>2
<1>4. ASSUME NEW i \in DOMAIN names, Norm[names[i]] # 0
      PROVE  \E j \in places : Norm[names[j]] = Norm[names[i]]
  <2> DEFINE T == {j \in 1 .. Len(names) : Norm[names[j]] = Norm[names[i]]}
  <2>1. T \in SUBSET Nat /\ T # {}
    BY <1>2
  <2>2. PICK j \in T : \A k \in T : j <= k
    BY <2>1, LeastExists
  <2>3. j \in places
    BY <1>2, <1>4, <2>2
  <2> QED  BY <2>2, <2>3
<1>5. places \in SUBSET DOMAIN names /\ \A i \in places : Norm[names[i]] # 0
  OBVIOUS
<1> HIDE DEF places
<1>6. /\ s \in Seq(Spellings)
      /\ \A k \in DOMAIN s : \E i \in places : s[k] = names[i]
      /\ \A i \in places : \E k \in DOMAIN s : s[k] = names[i]
      /\ \A k, l \in DOMAIN s : k # l =>
           \E i, j \in places : i # j /\ s[k] = names[i] /\ s[l] = names[j]
  BY <1>5, PickedIsPicked
<1> HIDE DEF s
<1>7. /\ ToSet(s) = {s[k] : k \in DOMAIN s}
      /\ ToSet(names) = {names[i] : i \in DOMAIN names}
  BY DEF ToSet
<1>8. Read(s) = Read(names)
  <2> DEFINE R(x) == {Norm[n] : n \in ToSet(x)} \ {0}
  <2>1. ASSUME NEW v \in R(s) PROVE v \in R(names)
    BY <1>5, <1>6, <1>7
  <2>2. ASSUME NEW v \in R(names) PROVE v \in R(s)
    <3>1. PICK i \in DOMAIN names : v = Norm[names[i]] /\ v # 0
      BY <1>7
    <3>2. PICK j \in places : Norm[names[j]] = v
      BY <1>4, <3>1
    <3> QED  BY <1>6, <1>7, <3>1, <3>2
  <2> QED  BY <2>1, <2>2 DEF Read
<1>9. ASSUME NEW k \in DOMAIN s, NEW l \in DOMAIN s, k # l
      PROVE  Norm[s[k]] # Norm[s[l]]
  <2>1. PICK i \in places, j \in places :
          i # j /\ s[k] = names[i] /\ s[l] = names[j]
    BY <1>6, <1>9
  <2> QED  BY <1>3, <2>1
<1>10. \A k \in DOMAIN s : Norm[s[k]] # 0
  BY <1>5, <1>6
<1> QED  BY <1>1, <1>6, <1>8, <1>9, <1>10

(* The first place where two paths part. *)
Parts(p, q, i) ==
  /\ i \in 1 .. Len(q)
  /\ i > Len(p) \/ p[i] < q[i]
  /\ \A j \in 1 .. i - 1 : j <= Len(p) /\ p[j] = q[j]

(* Before, by that place. *)
LEMMA BeforeParts ==
  ASSUME NEW p \in Seq(Nat), NEW q \in Seq(Nat)
  PROVE  Before(p, q) <=> \E i \in Nat : Parts(p, q, i)
<1> DEFINE PartsAt(i) == /\ \A j \in 1 .. i - 1 : j \in DOMAIN p /\ p[j] = q[j]
                         /\ i \in DOMAIN p => p[i] < q[i]
<1>1. /\ DOMAIN p = 1 .. Len(p) /\ Len(p) \in Nat
      /\ DOMAIN q = 1 .. Len(q) /\ Len(q) \in Nat
  OBVIOUS
<1>2. Before(p, q) <=> \E i \in DOMAIN q : PartsAt(i)
  BY Zenon DEF Before
<1>3. \A i \in 1 .. Len(q) : Parts(p, q, i) <=> PartsAt(i)
  <2> TAKE i \in 1 .. Len(q)
  <2>1. i \in Nat /\ i > 0 /\ i <= Len(q)
    BY <1>1
  <2>2. (i > Len(p) \/ p[i] < q[i]) <=> (i \in DOMAIN p => p[i] < q[i])
    BY <1>1, <2>1
  <2>3. ASSUME NEW j \in 1 .. i - 1
        PROVE  j <= Len(p) <=> j \in DOMAIN p
    BY <1>1, <2>1
  <2> QED  BY <2>2, <2>3 DEF Parts
<1> HIDE DEF PartsAt
<1>4. \A i \in Nat : Parts(p, q, i) => i \in 1 .. Len(q)
  BY DEF Parts
<1>5. \A i \in 1 .. Len(q) : i \in Nat
  BY <1>1
<1> QED  BY <1>1, <1>2, <1>3, <1>4, <1>5

(* Of two parts one comes before the other, depth first: the first place   *)
(* where the paths differ decides.                                         *)
LEMMA BeforeIsTotal ==
  ASSUME NEW p \in Seq(Nat), NEW q \in Seq(Nat)
  PROVE  /\ ~Before(p, p)
         /\ p = q \/ Before(p, q) \/ Before(q, p)
<1>0. /\ Len(p) \in Nat /\ Len(q) \in Nat
      /\ \A i \in 1 .. Len(p) : p[i] \in Nat
      /\ \A i \in 1 .. Len(q) : q[i] \in Nat
  OBVIOUS
<1>1. ~Before(p, p)
  <2>1. \A i \in Nat : ~Parts(p, p, i)
    BY <1>0 DEF Parts
  <2> QED  BY <2>1, BeforeParts
<1>2. ASSUME p # q
      PROVE  Before(p, q) \/ Before(q, p)
  <2> DEFINE Same(i) == i <= Len(p) /\ i <= Len(q) /\ p[i] = q[i]
             Over(i) == i > Len(p) /\ i > Len(q)
             T == {i \in Nat : i > 0 /\ ~Same(i) /\ ~Over(i)}
  <2>1. T # {}
    <3> SUFFICES ASSUME T = {} PROVE FALSE
      OBVIOUS
    <3>1. \A i \in Nat : i > 0 => Same(i) \/ Over(i)
      OBVIOUS
    <3> HIDE DEF T
    <3>2. Len(p) = Len(q)
      <4>1. Len(p) + 1 \in Nat /\ Len(p) + 1 > 0 /\ Len(q) + 1 \in Nat /\ Len(q) + 1 > 0
        BY <1>0
      <4>2. Over(Len(p) + 1) /\ Over(Len(q) + 1)
        BY <1>0, <3>1, <4>1
      <4> QED  BY <1>0, <4>2
    <3>3. \A i \in 1 .. Len(p) : p[i] = q[i]
      BY <1>0, <3>1, <3>2
    <3> QED  BY <1>2, <3>2, <3>3, SeqEqual
  <2>2. T \subseteq Nat
    OBVIOUS
  <2>3. PICK i \in T : \A j \in T : i <= j
    BY <2>1, <2>2, LeastExists
  <2>4. i \in Nat /\ i > 0 /\ ~Same(i) /\ ~Over(i)
    BY <2>3
  <2>5. \A j \in 1 .. i - 1 : j \in Nat /\ j > 0 /\ ~(i <= j)
    BY <2>4
  <2>6. \A j \in 1 .. i - 1 : Same(j) \/ Over(j)
    BY <2>3, <2>5
  <2> HIDE DEF T
  <2>7. \A j \in 1 .. i - 1 : Same(j)
    BY <1>0, <2>4, <2>5, <2>6, SMTT(60)
  <2>8. CASE i > Len(p)
    <3>1. Parts(p, q, i)
      BY <1>0, <2>4, <2>7, <2>8 DEF Parts
    <3> QED  BY <2>4, <3>1, BeforeParts
  <2>9. CASE i > Len(q)
    <3>1. Parts(q, p, i)
      BY <1>0, <2>4, <2>7, <2>9 DEF Parts
    <3> QED  BY <2>4, <3>1, BeforeParts
  <2>10. CASE i <= Len(p) /\ i <= Len(q)
    <3>1. p[i] < q[i] \/ q[i] < p[i]
      BY <1>0, <2>4, <2>10, SMTT(60)
    <3>2. Parts(p, q, i) \/ Parts(q, p, i)
      BY <1>0, <2>4, <2>7, <2>10, <3>1 DEF Parts
    <3> QED  BY <2>4, <3>2, BeforeParts
  <2> QED  BY <1>0, <2>4, <2>8, <2>9, <2>10
<1> QED  BY <1>1, <1>2

(* And that is an order. *)
LEMMA BeforeIsTransitive ==
  ASSUME NEW p \in Seq(Nat), NEW q \in Seq(Nat), NEW r \in Seq(Nat),
         Before(p, q), Before(q, r)
  PROVE  Before(p, r)
<1>0. /\ Len(p) \in Nat /\ Len(q) \in Nat /\ Len(r) \in Nat
      /\ \A i \in 1 .. Len(p) : p[i] \in Nat
      /\ \A i \in 1 .. Len(q) : q[i] \in Nat
      /\ \A i \in 1 .. Len(r) : r[i] \in Nat
  OBVIOUS
<1>1. PICK i \in Nat : Parts(p, q, i)
  BY BeforeParts
<1>2. PICK j \in Nat : Parts(q, r, j)
  BY BeforeParts
<1>3. CASE i < j
  <2>1. Parts(p, r, i)
    BY <1>0, <1>1, <1>2, <1>3, SMTT(60) DEF Parts
  <2> QED  BY <2>1, BeforeParts
<1>4. CASE j <= i
  <2>1. j \in 1 .. Len(r) /\ j \in 1 .. Len(q) /\ i \in 1 .. Len(q)
    BY <1>0, <1>1, <1>2, <1>4 DEF Parts
  <2>2. q[j] < r[j] /\ q[j] \in Nat /\ r[j] \in Nat
    BY <1>0, <1>2, <2>1 DEF Parts
  <2>3. j > Len(p) \/ p[j] < r[j]
    <3>0. i \in 1 .. Len(q) /\ (i > Len(p) \/ p[i] < q[i])
          /\ \A k \in 1 .. i - 1 : k <= Len(p) /\ p[k] = q[k]
      BY <1>1 DEF Parts
    <3>1. CASE j < i
      <4>1. p[j] = q[j]
        BY <2>1, <3>0, <3>1
      <4> QED  BY <2>2, <4>1
    <3>2. CASE j = i
      <4>1. j > Len(p) \/ p[j] < q[j]
        BY <3>0, <3>2
      <4>2. ASSUME ~(j > Len(p)) PROVE p[j] \in Nat /\ p[j] < q[j]
        <5>1. j \in 1 .. Len(p)
          BY <1>0, <2>1, <4>2
        <5> QED  BY <1>0, <4>1, <4>2, <5>1
      <4> QED  BY <2>2, <4>2, SMTT(60)
    <3> QED  BY <1>4, <3>1, <3>2
  <2>4. \A k \in 1 .. j - 1 : k <= Len(p) /\ p[k] = r[k]
    <3>1. \A k \in 1 .. i - 1 : k <= Len(p) /\ p[k] = q[k]
      BY <1>1 DEF Parts
    <3>2. \A k \in 1 .. j - 1 : k <= Len(q) /\ q[k] = r[k]
      BY <1>2 DEF Parts
    <3>3. \A k \in 1 .. j - 1 : k \in 1 .. i - 1
      BY <1>4
    <3> QED  BY <3>1, <3>2, <3>3
  <2>5. Parts(p, r, j)
    BY <2>1, <2>3, <2>4 DEF Parts
  <2> QED  BY <2>5, BeforeParts
<1> QED  BY <1>3, <1>4

(* So findMessageContentByMIME finds a part of the type asked for when     *)
(* there is one.                                                           *)
LEMMA FirstPartIsOne ==
  ASSUME NEW m, IsParts(m.parts), NEW mimeType, PartsOf(m, mimeType) # {}
  PROVE  FirstPart(m, mimeType) \in PartsOf(m, mimeType)
<1> DEFINE P == PartsOf(m, mimeType)
           ahead == [p \in P |-> {q \in P : Before(q, p)}]
<1>1. P \subseteq Seq(Nat) /\ IsFiniteSet(P)
  <2>1. P \in SUBSET DOMAIN m.parts /\ IsFiniteSet(DOMAIN m.parts)
    BY DEF PartsOf, IsParts
  <2> QED  BY <2>1, FS_Subset DEF IsParts
<1> HIDE DEF P
<1>2. Ranks(ahead)
  <2>1. \A p \in P : p \notin ahead[p]
    BY <1>1, BeforeIsTotal
  <2>2. \A p, q, r \in P : p \in ahead[q] /\ q \in ahead[r] => p \in ahead[r]
    BY <1>1, BeforeIsTransitive
  <2>3. \A p, q \in P : p = q \/ p \in ahead[q] \/ q \in ahead[p]
    BY <1>1, BeforeIsTotal
  <2> QED  BY <1>1, <2>1, <2>2, <2>3 DEF Ranks
<1>3. DOMAIN ahead = P /\ \A p \in P : ahead[p] = {q \in P : Before(q, p)}
  OBVIOUS
<1> HIDE DEF ahead
<1>4. /\ Cardinality(P) \in Nat
      /\ \A p \in P : Rank(ahead, p) \in Nat
      /\ \A p, q \in P : q \in ahead[p] => Rank(ahead, q) < Rank(ahead, p)
      /\ \A k \in 1 .. Cardinality(P) : \E p \in P : Rank(ahead, p) = k - 1
  BY <1>2, <1>3, RanksAreAll
<1>5. Cardinality(P) # 0
  BY <1>1, FS_EmptySet DEF P
<1>6. PICK p \in P : Rank(ahead, p) = 0
  BY <1>4, <1>5
<1>7. \A q \in P : ~Before(q, p)
  BY <1>3, <1>4, <1>6
<1>8. \A q \in P : p = q \/ Before(p, q)
  BY <1>1, <1>7, BeforeIsTotal
<1> QED  BY <1>6, <1>8 DEF FirstPart, P

(* The tags shown of a message read each once, and are those of its        *)
(* headers when those name any; its text counts only when they do not      *)
(* (v2.go:1121-1237).                                                      *)
LEMMA TagsReadOnce ==
  ASSUME NEW m, IsParts(m.parts), m.tags \in Seq(Spellings)
  PROVE  /\ \A i, j \in DOMAIN MessageTags(m) :
              i # j => Norm[MessageTags(m)[i]] # Norm[MessageTags(m)[j]]
         /\ Read(m.tags) # {} => {Norm[t] : t \in ToSet(MessageTags(m))} = Read(m.tags)
<1> DEFINE Once(s) == \A i, j \in DOMAIN s : i # j => Norm[s[i]] # Norm[s[j]]
           In(mimeType) == IF PartsOf(m, mimeType) = {} THEN <<>>
                           ELSE Sanitize(m.parts[FirstPart(m, mimeType)].tags)
           body == Sanitize(m.parts[<<>>].tags)
<1>1. Once(<<>>)
  OBVIOUS
<1>2. \A p \in DOMAIN m.parts : Once(Sanitize(m.parts[p].tags))
  BY SanitizedReadsOnce DEF IsParts
<1>3. Once(body)
  BY <1>2 DEF IsParts
<1>4. ASSUME NEW mimeType PROVE Once(In(mimeType))
  <2>1. CASE PartsOf(m, mimeType) = {}
    BY <1>1, <2>1
  <2>2. CASE PartsOf(m, mimeType) # {}
    <3>1. FirstPart(m, mimeType) \in DOMAIN m.parts
      BY <2>2, FirstPartIsOne DEF PartsOf
    <3> QED  BY <1>2, <2>2, <3>1
  <2> QED  BY <2>1, <2>2
<1> HIDE DEF Once
<1>5. Once(FallbackTags(m))
  BY <1>3, <1>4 DEF FallbackTags
<1>6. Once(Sanitize(m.tags)) /\ Read(Sanitize(m.tags)) = Read(m.tags)
  BY SanitizedReadsOnce DEF Once
<1>7. Once(MessageTags(m))
  BY <1>5, <1>6 DEF MessageTags
<1>8. Read(<<>>) = {}
  BY DEF Read, ToSet
<1>9. ASSUME Read(m.tags) # {}
      PROVE  {Norm[t] : t \in ToSet(MessageTags(m))} = Read(m.tags)
  <2> DEFINE s == Sanitize(m.tags)
  <2>1. /\ s \in Seq(Spellings) /\ Read(s) = Read(m.tags)
        /\ \A i \in DOMAIN s : Norm[s[i]] # 0
    BY SanitizedReadsOnce
  <2>2. MessageTags(m) = s
    BY <1>8, <1>9, <2>1 DEF MessageTags
  <2> HIDE DEF s
  <2>3. \A t \in ToSet(s) : Norm[t] # 0
    BY <2>1 DEF ToSet
  <2> QED  BY <2>1, <2>2, <2>3 DEF Read
<1> QED  BY <1>7, <1>9 DEF Once
-----------------------------------------------------------------------------
(* Induction on the natural numbers, over a set. *)
LEMMA SuccessorsReachAll ==
  ASSUME NEW T, 0 \in T, \A m \in Nat : m \in T => m + 1 \in T
  PROVE  Nat \subseteq T
<1> SUFFICES ASSUME Nat \ T # {} PROVE FALSE
  OBVIOUS
<1>1. PICK m \in Nat \ T : \A k \in Nat \ T : m <= k
  BY LeastExists
<1>2. m # 0 /\ m - 1 \in Nat /\ ~(m <= m - 1)
  BY <1>1
<1>3. m - 1 \in T
  BY <1>1, <1>2
<1>4. (m - 1) + 1 \in T
  BY <1>2, <1>3
<1> QED  BY <1>1, <1>4

(* The greatest number of a set up to the greatest allowed. *)
LEMMA MaxOfUpTo ==
  ASSUME NEW m \in Nat, NEW t \in SUBSET (1 .. m + 1), m + 1 \in t
  PROVE  Max(t) = m + 1
<1>1. \A x \in t : (\A y \in t : x >= y) <=> x = m + 1
  OBVIOUS
<1> QED  BY <1>1 DEF Max

(* What a fold of FoldLeft computes for each set of places: one step for   *)
(* the greatest of them, after the others.                                 *)
IsFold(iter, S, first, step, n) ==
  /\ DOMAIN iter = SUBSET (1 .. n)
  /\ \A t \in SUBSET (1 .. n) :
       IF t = {} THEN iter[t] = first
       ELSE iter[t \ {Max(t)}] \in S => iter[t] = step[Max(t)][iter[t \ {Max(t)}]]

(* A run: the value after each of n steps. *)
IsRun(f, S, first, step, n) ==
  /\ f \in [0 .. n -> S]
  /\ f[0] = first
  /\ \A k \in 1 .. n : f[k] = step[k][f[k - 1]]

(* There is one function that folds over all sets of places. *)
LEMMA FoldExists ==
  ASSUME NEW S, NEW first \in S, NEW n \in Nat, NEW step \in [1 .. n -> [S -> S]]
  PROVE  \E iter \in [SUBSET (1 .. n) -> S] : IsFold(iter, S, first, step, n)
<1> DEFINE Folds(iter, m) == /\ iter \in [SUBSET (1 .. m) -> S]
                             /\ IsFold(iter, S, first, step, m)
           T == {m \in Nat : m <= n => \E iter : Folds(iter, m)}
<1> USE DEF IsFold
<1>1. 0 \in T
  <2> DEFINE iter == [t \in SUBSET (1 .. 0) |-> first]
  <2>1. \A t \in SUBSET (1 .. 0) : t = {}
    OBVIOUS
  <2>2. Folds(iter, 0)
    BY <2>1
  <2> HIDE DEF Folds, IsFold, iter
  <2> QED  BY <2>2
<1>2. ASSUME NEW m \in Nat, m \in T PROVE m + 1 \in T
  <2> HIDE DEF Folds, IsFold
  <2> SUFFICES ASSUME m + 1 <= n PROVE \E iter : Folds(iter, m + 1)
    OBVIOUS
  <2>0. m <= n
    OBVIOUS
  <2>1. PICK old : Folds(old, m)
    BY <1>2, <2>0
  <2> USE DEF Folds, IsFold
  <2> DEFINE before(t) == t \ {m + 1}
             iter == [t \in SUBSET (1 .. m + 1) |->
                        IF m + 1 \in t THEN step[m + 1][old[before(t)]] ELSE old[t]]
  <2>2. step[m + 1] \in [S -> S]
    OBVIOUS
  <2>3. \A t \in SUBSET (1 .. m + 1) : before(t) \in SUBSET (1 .. m)
    OBVIOUS
  <2>4. \A t \in SUBSET (1 .. m + 1) : m + 1 \notin t => t \in SUBSET (1 .. m)
    OBVIOUS
  <2>5. \A t \in SUBSET (1 .. m) :
          old[t] \in S /\ t \in SUBSET (1 .. m + 1) /\ m + 1 \notin t
    BY <2>1
  <2>6. iter \in [SUBSET (1 .. m + 1) -> S]
    BY <2>2, <2>3, <2>4, <2>5, SMTT(60)
  <2>7. \A t \in SUBSET (1 .. m) : iter[t] = old[t]
    BY <2>5
  <2>8. ASSUME NEW t \in SUBSET (1 .. m + 1)
        PROVE  iter[t] = IF t = {} THEN first ELSE step[Max(t)][iter[t \ {Max(t)}]]
    <3>1. CASE m + 1 \in t
      <4>1. Max(t) = m + 1 /\ t # {}
        BY <3>1, MaxOfUpTo
      <4>2. iter[before(t)] = old[before(t)]
        BY <2>3, <2>7
      <4>3. iter[t] = step[m + 1][old[before(t)]]
        BY <3>1
      <4> HIDE DEF iter
      <4> QED  BY <4>1, <4>2, <4>3
    <3>2. CASE m + 1 \notin t
      <4>1. t \in SUBSET (1 .. m)
        BY <2>4, <3>2
      <4>2. old[t] = IF t = {} THEN first ELSE step[Max(t)][old[t \ {Max(t)}]]
        BY <2>1, <4>1
      <4>3. t \ {Max(t)} \in SUBSET (1 .. m)
        BY <4>1
      <4>4. iter[t] = old[t] /\ iter[t \ {Max(t)}] = old[t \ {Max(t)}]
        BY <2>7, <4>1, <4>3
      <4> HIDE DEF iter
      <4> QED  BY <4>2, <4>4
    <3> QED  BY <3>1, <3>2
  <2> HIDE DEF iter
  <2>9. Folds(iter, m + 1)
    BY <2>6, <2>8
  <2> QED  BY <2>9
<1> HIDE DEF Folds, IsFold
<1>3. n \in T
  <2> HIDE DEF T
  <2> QED  BY <1>1, <1>2, SuccessorsReachAll
<1>4. \E iter : Folds(iter, n)
  BY <1>3
<1> QED  BY <1>4 DEF Folds

(* The first k places, the last of them, and those before it. *)
LEMMA UpTo ==
  ASSUME NEW n \in Nat, NEW k \in 1 .. n
  PROVE  /\ 1 .. k \in SUBSET (1 .. n) /\ 1 .. k # {}
         /\ Max(1 .. k) = k
         /\ (1 .. k) \ {k} = 1 .. k - 1
<1>1. k - 1 \in Nat /\ (k - 1) + 1 = k /\ k \in 1 .. k
  OBVIOUS
<1>2. Max(1 .. k) = k
  BY <1>1, MaxOfUpTo
<1> QED  BY <1>2

(* Whatever folds as IsFold says goes through the steps in their order. *)
LEMMA FoldVisitsAll ==
  ASSUME NEW S, NEW first \in S, NEW n \in Nat, NEW step \in [1 .. n -> [S -> S]],
         NEW iter, IsFold(iter, S, first, step, n)
  PROVE  \E f : IsRun(f, S, first, step, n) /\ f[n] = iter[1 .. n]
<1> DEFINE f == [k \in 0 .. n |-> iter[1 .. k]]
<1>1. f[0] = first
  <2>1. 1 .. 0 = {} /\ {} \in SUBSET (1 .. n)
    OBVIOUS
  <2>2. iter[{}] = first
    BY <2>1 DEF IsFold
  <2>3. f[0] = iter[1 .. 0]
    OBVIOUS
  <2> QED  BY <2>1, <2>2, <2>3
<1>2. ASSUME NEW k \in 1 .. n, f[k - 1] \in S
      PROVE  f[k] = step[k][f[k - 1]]
  <2>1. k \in 0 .. n /\ k - 1 \in 0 .. n
    OBVIOUS
  <2>2. f[k - 1] = iter[1 .. k - 1] /\ f[k] = iter[1 .. k]
    BY <2>1
  <2> HIDE DEF f
  <2>2a. /\ 1 .. k \in SUBSET (1 .. n) /\ 1 .. k # {}
         /\ Max(1 .. k) = k /\ (1 .. k) \ {k} = 1 .. k - 1
    BY UpTo
  <2>2b. \A t \in SUBSET (1 .. n) : t # {} /\ iter[t \ {Max(t)}] \in S =>
           iter[t] = step[Max(t)][iter[t \ {Max(t)}]]
    BY DEF IsFold
  <2>3. iter[1 .. k] = step[k][iter[1 .. k - 1]]
    BY <1>2, <2>2, <2>2a, <2>2b
  <2> QED  BY <2>2, <2>3
<1>3. DOMAIN f = 0 .. n /\ f = [k \in 0 .. n |-> f[k]]
  OBVIOUS
<1> HIDE DEF f
<1>4. \A k \in 0 .. n : f[k] \in S
  <2> DEFINE T == {k \in Nat : k <= n => f[k] \in S}
  <2>1. 0 \in T
    BY <1>1
  <2>2. ASSUME NEW k \in Nat, k \in T PROVE k + 1 \in T
    <3> SUFFICES ASSUME k + 1 <= n PROVE f[k + 1] \in S
      OBVIOUS
    <3>1. k + 1 \in 1 .. n /\ (k + 1) - 1 = k
      OBVIOUS
    <3>2. f[k] \in S
      BY <2>2
    <3>3. f[k + 1] = step[k + 1][f[k]]
      BY <1>2, <3>1, <3>2
    <3> QED  BY <3>1, <3>2, <3>3
  <2> HIDE DEF T
  <2>3. Nat \subseteq T
    BY <2>1, <2>2, SuccessorsReachAll
  <2> QED  BY <2>3 DEF T
<1>5. f \in [0 .. n -> S]
  BY <1>3, <1>4
<1>6. f[n] = iter[1 .. n]
  BY DEF f
<1>7. \A k \in 1 .. n : f[k] = step[k][f[k - 1]]
  BY <1>2, <1>4
<1> QED  BY <1>1, <1>5, <1>6, <1>7 DEF IsRun

(* Every n steps have a run. *)
LEMMA RunExists ==
  ASSUME NEW S, NEW first \in S, NEW n \in Nat, NEW step \in [1 .. n -> [S -> S]]
  PROVE  \E f : IsRun(f, S, first, step, n)
<1>1. PICK iter : IsFold(iter, S, first, step, n)
  BY FoldExists
<1> QED  BY <1>1, FoldVisitsAll

(* What FlattenSeq computes of the first k sequences. *)
IsFlattening(f, seqs) ==
  f = [i \in 1 .. Len(seqs) |-> IF i = 1 THEN seqs[i] ELSE f[i - 1] \o seqs[i]]

(* There is a function that computes it. *)
LEMMA FlatteningExists ==
  ASSUME NEW S, NEW seqs \in Seq(Seq(S))
  PROVE  \E f : IsFlattening(f, seqs)
<1> DEFINE n == Len(seqs)
<1> DEFINE step == [i \in 1 .. n |-> [s \in Seq(S) |-> s \o seqs[i]]]
<1>1. /\ n \in Nat /\ <<>> \in Seq(S)
      /\ \A i \in 1 .. n : seqs[i] \in Seq(S)
  OBVIOUS
<1>2. step \in [1 .. n -> [Seq(S) -> Seq(S)]]
  BY <1>1
<1>3. \A i \in 1 .. n, s \in Seq(S) : step[i][s] = s \o seqs[i]
  OBVIOUS
<1> HIDE DEF step
<1>4. PICK g : IsRun(g, Seq(S), <<>>, step, n)
  BY <1>1, <1>2, RunExists
<1> USE DEF IsRun
<1> DEFINE f == [i \in 1 .. n |-> g[i]]
<1>5. \A k \in 1 .. n : k \in 0 .. n /\ k - 1 \in 0 .. n
  BY <1>1
<1>6. \A k \in 1 .. n : g[k] = g[k - 1] \o seqs[k]
  BY <1>3, <1>4, <1>5
<1>7. \A k \in 1 .. n : g[k] = IF k = 1 THEN seqs[k] ELSE f[k - 1] \o seqs[k]
  <2> TAKE k \in 1 .. n
  <2>1. CASE k = 1
    <3>1. g[1] = <<>> \o seqs[1] /\ seqs[1] \in Seq(S)
      <4>1. g[1] = g[1 - 1] \o seqs[1] /\ seqs[1] \in Seq(S)
        BY <1>1, <1>6, <2>1
      <4>2. g[1 - 1] = <<>>
        BY <1>4
      <4> QED  BY <4>1, <4>2
    <3>2. <<>> \o seqs[1] = seqs[1]
      BY <3>1, ConcatEmptySeq
    <3> QED  BY <2>1, <3>1, <3>2
  <2>2. CASE k # 1
    <3>1. k - 1 \in 1 .. n
      BY <1>1, <2>2
    <3>2. f[k - 1] = g[k - 1]
      BY <3>1
    <3> QED  BY <1>6, <2>2, <3>2
  <2> QED  BY <2>1, <2>2
<1>8. f = [i \in 1 .. n |-> IF i = 1 THEN seqs[i] ELSE f[i - 1] \o seqs[i]]
  BY <1>7
<1> QED  BY <1>8 DEF IsFlattening

(* A concatenation has what both parts have. *)
LEMMA ConcatHasBoth ==
  ASSUME NEW S, NEW s \in Seq(S), NEW t \in Seq(S)
  PROVE  s \o t \in Seq(S) /\ ToSet(s \o t) = ToSet(s) \cup ToSet(t)
<1> DEFINE u == s \o t
<1>1. /\ u \in Seq(S) /\ DOMAIN u = 1 .. Len(s) + Len(t)
      /\ \A i \in 1 .. Len(s) + Len(t) :
           u[i] = IF i <= Len(s) THEN s[i] ELSE t[i - Len(s)]
      /\ DOMAIN s = 1 .. Len(s) /\ Len(s) \in Nat
      /\ DOMAIN t = 1 .. Len(t) /\ Len(t) \in Nat
  BY ConcatProperties
<1> HIDE DEF u
<1>2. \A i \in DOMAIN s : i \in DOMAIN u /\ u[i] = s[i]
  BY <1>1
<1>3. \A i \in DOMAIN t : i + Len(s) \in DOMAIN u /\ u[i + Len(s)] = t[i]
  BY <1>1
<1>4. \A i \in DOMAIN u : \/ i \in DOMAIN s /\ u[i] = s[i]
                          \/ i - Len(s) \in DOMAIN t /\ u[i] = t[i - Len(s)]
  BY <1>1
<1>5. ToSet(u) = ToSet(s) \cup ToSet(t)
  BY <1>2, <1>3, <1>4 DEF ToSet
<1> QED  BY <1>1, <1>5 DEF u

(* FlattenSeq has what all the sequences have. *)
LEMMA FlattenHasAll ==
  ASSUME NEW S, NEW seqs \in Seq(Seq(S))
  PROVE  /\ FlattenSeq(seqs) \in Seq(S)
         /\ ToSet(FlattenSeq(seqs)) = UNION {ToSet(seqs[i]) : i \in DOMAIN seqs}
<1> DEFINE n == Len(seqs)
<1>1. n \in Nat /\ DOMAIN seqs = 1 .. n /\ \A i \in 1 .. n : seqs[i] \in Seq(S)
  OBVIOUS
<1>2. CASE n = 0
  <2>1. FlattenSeq(seqs) = seqs /\ seqs = <<>>
    BY <1>2 DEF FlattenSeq
  <2>2. ToSet(<<>>) = {} /\ DOMAIN seqs = {}
    BY <1>1, <1>2 DEF ToSet
  <2> QED  BY <2>1, <2>2
<1>3. CASE n # 0
  <2> DEFINE flat == CHOOSE f : IsFlattening(f, seqs)
  <2>1. FlattenSeq(seqs) = flat[n]
    <3>1. FlattenSeq(seqs) = (CHOOSE flatten : flatten = [i \in 1 .. Len(seqs) |->
                  IF i = 1 THEN seqs[i] ELSE flatten[i - 1] \o seqs[i]])[Len(seqs)]
      BY <1>3 DEF FlattenSeq
    <3> QED  BY <3>1 DEF IsFlattening
  <2>2. \E f : IsFlattening(f, seqs)
    BY FlatteningExists
  <2>3. IsFlattening(flat, seqs)
    BY <2>2
  <2> HIDE DEF flat
  <2>4. /\ 1 \in 1 .. n => flat[1] = seqs[1]
        /\ \A i \in 1 .. n : i # 1 => flat[i] = flat[i - 1] \o seqs[i]
    BY <2>3 DEF IsFlattening
  <2> HIDE DEF n
  <2> DEFINE All(k) == UNION {ToSet(seqs[i]) : i \in 1 .. k}
             T == {k \in Nat : k \in 1 .. n => flat[k] \in Seq(S)
                                              /\ ToSet(flat[k]) = All(k)}
  <2>5. 0 \in T
    OBVIOUS
  <2>6. ASSUME NEW k \in Nat, k \in T PROVE k + 1 \in T
    <3> SUFFICES ASSUME k + 1 \in 1 .. n
                 PROVE  flat[k + 1] \in Seq(S) /\ ToSet(flat[k + 1]) = All(k + 1)
      OBVIOUS
    <3>1. CASE k = 0
      <4>1. flat[1] = seqs[1] /\ 1 .. 1 = {1} /\ seqs[1] \in Seq(S)
        BY <1>1, <2>4, <3>1
      <4> QED  BY <3>1, <4>1
    <3>2. CASE k # 0
      <4>1. k \in 1 .. n /\ k + 1 # 1 /\ (k + 1) - 1 = k
        BY <1>1, <3>2
      <4>2. flat[k] \in Seq(S) /\ ToSet(flat[k]) = All(k)
        BY <2>6, <4>1
      <4>3. flat[k + 1] = flat[k] \o seqs[k + 1] /\ seqs[k + 1] \in Seq(S)
        BY <1>1, <2>4, <4>1
      <4>4. /\ flat[k + 1] \in Seq(S)
            /\ ToSet(flat[k + 1]) = All(k) \cup ToSet(seqs[k + 1])
        BY <4>2, <4>3, ConcatHasBoth
      <4>5. 1 .. k + 1 = (1 .. k) \cup {k + 1}
        OBVIOUS
      <4>6. All(k + 1) = All(k) \cup ToSet(seqs[k + 1])
        BY <4>5
      <4> QED  BY <4>4, <4>6
    <3> QED  BY <3>1, <3>2
  <2> HIDE DEF T
  <2>7. n \in T
    BY <1>1, <2>5, <2>6, SuccessorsReachAll
  <2>8. flat[n] \in Seq(S) /\ ToSet(flat[n]) = All(n)
    BY <1>1, <1>3, <2>7 DEF T
  <2> QED  BY <1>1, <2>1, <2>8
<1> QED  BY <1>2, <1>3
-----------------------------------------------------------------------------
(* The folders collected so far: each has a name that is not blank, and no *)
(* two read the same.                                                      *)
Items == {items \in Seq([name : Spellings, count : Nat]) :
            /\ \A i \in DOMAIN items : Norm[items[i].name] # 0
            /\ \A i, j \in DOMAIN items :
                 Norm[items[i].name] = Norm[items[j].name] => i = j}

(* They show a folder that reads v, with the count c. *)
Shows(items, v, c) ==
  \E i \in DOMAIN items : Norm[items[i].name] = v /\ items[i].count = c

(* addFolder finds the folder it is given by how it reads. *)
LEMMA FolderIsFound ==
  ASSUME NEW items \in Items, NEW folder \in Spellings
  PROVE  LET at == SelectInSeq(items, LAMBDA item : Norm[item.name] = Norm[folder])
         IN  \/ at = 0 /\ \A i \in DOMAIN items : Norm[items[i].name] # Norm[folder]
             \/ at \in DOMAIN items /\ at # 0 /\ Norm[items[at].name] = Norm[folder]
<1> DEFINE I == {i \in 1 .. Len(items) : Norm[items[i].name] = Norm[folder]}
           at == SelectInSeq(items, LAMBDA item : Norm[item.name] = Norm[folder])
<1>1. at = IF I # {} THEN Min(I) ELSE 0
  BY DEF SelectInSeq
<1>2. DOMAIN items = 1 .. Len(items)
  BY DEF Items
<1>3. CASE I = {}
  BY <1>1, <1>2, <1>3
<1>4. CASE I # {}
  <2>1. I \in SUBSET Nat
    OBVIOUS
  <2>2. \E x \in I : \A y \in I : x <= y
    BY <1>4, <2>1, LeastExists
  <2> HIDE DEF I
  <2>3. Min(I) \in I
    BY <2>2 DEF Min
  <2>4. at \in I
    BY <1>1, <1>4, <2>3
  <2> HIDE DEF at
  <2> QED  BY <1>2, <2>4 DEF I, at
<1> QED  BY <1>3, <1>4

(* One folder has count more than before, or is new; nothing else changed. *)
CountsMore(items, added, v, count) ==
  /\ \A w, c : w # v \/ w = 0 => (Shows(added, w, c) <=> Shows(items, w, c))
  /\ v # 0 =>
       \/ /\ \A c : ~Shows(items, v, c)
          /\ \A c : Shows(added, v, c) <=> c = count
       \/ \E d \in Nat : /\ \A c : Shows(items, v, c) <=> c = d
                         /\ \A c : Shows(added, v, c) <=> c = d + count

(* That is what addFolder does for a name that is not blank                *)
(* (v2.go:1064-1100).                                                      *)
LEMMA AddedFolderCounts ==
  ASSUME NEW items \in Items, NEW folder \in Spellings, NEW count \in Nat
  PROVE  /\ AddFolder(items, folder, count) \in Items
         /\ CountsMore(items, AddFolder(items, folder, count), Norm[folder], count)
<1> USE DEF CountsMore
<1> DEFINE at == SelectInSeq(items, LAMBDA item : Norm[item.name] = Norm[folder])
           added == AddFolder(items, folder, count)
           Item == [name : Spellings, count : Nat]
           new == [name |-> folder, count |-> count]
           more == [items[at] EXCEPT !.count = @ + count]
<1>1. /\ items \in Seq(Item) /\ DOMAIN items = 1 .. Len(items) /\ Len(items) \in Nat
      /\ \A i \in DOMAIN items : items[i] \in Item /\ Norm[items[i].name] # 0
      /\ \A i, j \in DOMAIN items : Norm[items[i].name] = Norm[items[j].name] => i = j
  <2>1. items \in Seq(Item)
    BY DEF Items
  <2> HIDE DEF Item
  <2>2. DOMAIN items = 1 .. Len(items) /\ Len(items) \in Nat
    BY <2>1
  <2>3. \A i \in DOMAIN items : items[i] \in Item
    BY <2>1, <2>2
  <2> QED  BY <2>1, <2>2, <2>3 DEF Items
<1>2. \/ at = 0 /\ \A i \in DOMAIN items : Norm[items[i].name] # Norm[folder]
      \/ at \in DOMAIN items /\ at # 0 /\ Norm[items[at].name] = Norm[folder]
  BY FolderIsFound
<1>3. added = IF Norm[folder] = 0 THEN items
              ELSE IF at # 0 THEN [items EXCEPT ![at].count = @ + count]
              ELSE Append(items, new)
  BY DEF AddFolder
<1>4. ASSUME NEW c PROVE ~Shows(items, 0, c)
  BY <1>1 DEF Shows
<1> HIDE DEF at, added
<1>5. CASE Norm[folder] = 0
  BY <1>3, <1>5 DEF added
<1>6. CASE Norm[folder] # 0 /\ at = 0
  <2>1. added = Append(items, new) /\ new \in Item
    BY <1>3, <1>6
  <2>2. /\ added \in Seq(Item) /\ DOMAIN added = 1 .. Len(items) + 1
        /\ \A i \in DOMAIN items : i \in DOMAIN added /\ added[i] = items[i]
        /\ added[Len(items) + 1] = new
        /\ \A i \in DOMAIN added : i \in DOMAIN items \/ i = Len(items) + 1
    BY <1>1, <2>1
  <2>3. new.name = folder /\ new.count = count
    OBVIOUS
  <2> HIDE DEF new
  <2>4. \A i \in DOMAIN items : Norm[items[i].name] # Norm[folder]
    BY <1>2, <1>6
  <2>5. added \in Items
    <3>1. \A i \in DOMAIN added : Norm[added[i].name] # 0
      BY <1>1, <1>6, <2>2, <2>3
    <3>2. \A i, j \in DOMAIN added : Norm[added[i].name] = Norm[added[j].name] => i = j
      BY <1>1, <2>2, <2>3, <2>4, SMTT(60)
    <3> QED  BY <2>2, <3>1, <3>2 DEF Items
  <2>6. \A v, c : Shows(added, v, c) <=>
                    Shows(items, v, c) \/ (v = Norm[folder] /\ c = count)
    <3>1. ASSUME NEW v, NEW c, Shows(items, v, c) PROVE Shows(added, v, c)
      BY <2>2, <3>1 DEF Shows
    <3>2. Shows(added, Norm[folder], count)
      <4>1. Len(items) + 1 \in DOMAIN added
        BY <1>1, <2>2
      <4> QED  BY <2>2, <2>3, <4>1 DEF Shows
    <3>3. ASSUME NEW v, NEW c, Shows(added, v, c)
          PROVE  Shows(items, v, c) \/ (v = Norm[folder] /\ c = count)
      BY <2>2, <2>3, <3>3 DEF Shows
    <3> QED  BY <3>1, <3>2, <3>3
  <2>7. \A c : ~Shows(items, Norm[folder], c)
    BY <2>4 DEF Shows
  <2>8. \A c : Shows(added, Norm[folder], c) <=> c = count
    BY <2>6, <2>7
  <2>9. \A v, c : v # Norm[folder] \/ v = 0 => (Shows(added, v, c) <=> Shows(items, v, c))
    BY <1>6, <2>6
  <2> QED  BY <2>5, <2>7, <2>8, <2>9 DEF added
<1>7. CASE Norm[folder] # 0 /\ at # 0
  <2>0. at \in DOMAIN items /\ Norm[items[at].name] = Norm[folder]
    BY <1>2, <1>7
  <2> DEFINE d == items[at].count
  <2>1. added = [items EXCEPT ![at] = more]
    BY <1>3, <1>7
  <2>2. /\ more \in Item /\ d \in Nat
        /\ more.name = items[at].name /\ more.count = d + count
    BY <1>1, <2>0
  <2> HIDE DEF more, d
  <2>3. /\ added \in Seq(Item) /\ DOMAIN added = DOMAIN items
        /\ added[at] = more
        /\ \A i \in DOMAIN items : i # at => added[i] = items[i]
    BY <1>1, <2>0, <2>1, <2>2
  <2>4. \A i \in DOMAIN items : added[i].name = items[i].name
    BY <2>2, <2>3
  <2>5. added \in Items
    BY <1>1, <2>3, <2>4 DEF Items
  <2>6. \A v, c : v # Norm[folder] \/ v = 0 => (Shows(added, v, c) <=> Shows(items, v, c))
    <3> SUFFICES ASSUME NEW v, NEW c, v # Norm[folder]
                 PROVE  Shows(added, v, c) <=> Shows(items, v, c)
      BY <1>7
    <3>1. \A i \in DOMAIN items : Norm[items[i].name] = v => i # at
      BY <2>0
    <3> QED  BY <2>3, <2>4, <3>1 DEF Shows
  <2>7. \A c : Shows(items, Norm[folder], c) <=> c = d
    <3>1. \A i \in DOMAIN items : Norm[items[i].name] = Norm[folder] => i = at
      BY <1>1, <2>0
    <3> QED  BY <2>0, <3>1 DEF Shows, d
  <2>8. \A c : Shows(added, Norm[folder], c) <=> c = d + count
    <3>1. \A i \in DOMAIN items : Norm[added[i].name] = Norm[folder] <=> i = at
      BY <1>1, <2>0, <2>4
    <3> QED  BY <2>0, <2>2, <2>3, <3>1 DEF Shows
  <2> QED  BY <2>2, <2>5, <2>6, <2>7, <2>8 DEF added
<1> QED  BY <1>2, <1>5, <1>6, <1>7

(* The steps of a loop that adds e for each of the folders. *)
Adding(folders, e) == [k \in DOMAIN folders |->
                         [items \in Items |-> AddFolder(items, folders[k], e)]]

(* The folders D are shown, and none has a message. *)
ShowsEmpty(items, D) == \A v, c : Shows(items, v, c) <=> v \in D /\ c = 0

(* The folders D and those of n steps are shown, each with e for every     *)
(* step that added to it.                                                  *)
ShowsCounts(items, D, folders, n, e) ==
  \A v, c : Shows(items, v, c) <=>
    /\ v # 0
    /\ v \in D \/ \E i \in 1 .. n : Norm[folders[i]] = v
    /\ c = IF e = 1 THEN Cardinality({i \in 1 .. n : Norm[folders[i]] = v}) ELSE 0

(* A loop of addFolder over any folders counts what they read. *)
LEMMA AddingAllCounts ==
  ASSUME NEW n \in Nat, NEW folders \in [1 .. n -> Spellings], NEW e \in {0, 1},
         NEW first \in Items, NEW D,
         ShowsEmpty(first, D),
         NEW f, IsRun(f, Items, first, Adding(folders, e), n)
  PROVE  ShowsCounts(f[n], D, folders, n, e)
<1> DEFINE In(v, k) == {i \in 1 .. k : Norm[folders[i]] = v}
           Count(v, k) == IF e = 1 THEN Cardinality(In(v, k)) ELSE 0
           Known(v, k) == v \in D \/ \E i \in 1 .. k : Norm[folders[i]] = v
           Right(k) == \A v, c : Shows(f[k], v, c) <=>
                         v # 0 /\ Known(v, k) /\ c = Count(v, k)
           T == {k \in Nat : k <= n => Right(k)}
<1>1. /\ f[0] = first
      /\ \A k \in 0 .. n : f[k] \in Items
      /\ \A k \in 1 .. n : f[k] = AddFolder(f[k - 1], folders[k], e)
  <2>1. f[0] = first /\ \A k \in 0 .. n : f[k] \in Items
    BY DEF IsRun
  <2>2. ASSUME NEW k \in 1 .. n PROVE f[k] = AddFolder(f[k - 1], folders[k], e)
    <3>1. k - 1 \in 0 .. n
      OBVIOUS
    <3>2. f[k] = Adding(folders, e)[k][f[k - 1]] /\ f[k - 1] \in Items
      BY <2>1, <3>1 DEF IsRun
    <3> QED  BY <3>2 DEF Adding
  <2> QED  BY <2>1, <2>2
<1>2. \A v, k : In(v, k) = {i \in 1 .. k : Norm[folders[i]] = v}
  OBVIOUS
<1>3. \A v : \A k \in Nat : IsFiniteSet(In(v, k)) /\ Cardinality(In(v, k)) \in Nat
  <2> TAKE v
  <2> TAKE k \in Nat
  <2>1. IsFiniteSet(1 .. k)
    BY FS_Interval
  <2>2. In(v, k) \in SUBSET (1 .. k)
    OBVIOUS
  <2> QED  BY <2>1, <2>2, FS_Subset, FS_CardinalityType
<1>4. Right(0)
  <2>1. \A v, c : Shows(first, v, c) => v # 0
    BY DEF Items, Shows
  <2>2. \A v : In(v, 0) = {} /\ Count(v, 0) = 0
    BY FS_EmptySet
  <2>3. \A v : Known(v, 0) <=> v \in D
    OBVIOUS
  <2> HIDE DEF Known, Count
  <2> QED  BY <1>1, <2>1, <2>2, <2>3 DEF ShowsEmpty
<1>5. ASSUME NEW k \in Nat, k + 1 <= n, Right(k)
      PROVE  Right(k + 1)
  <2> DEFINE new == Norm[folders[k + 1]]
  <2>1. k + 1 \in 1 .. n /\ (k + 1) - 1 = k /\ k \in 0 .. n
    BY <1>5
  <2>2. /\ f[k] \in Items /\ folders[k + 1] \in Spellings /\ e \in Nat
        /\ f[k + 1] = AddFolder(f[k], folders[k + 1], e)
    BY <1>1, <2>1
  <2>3. CountsMore(f[k], f[k + 1], new, e)
    BY <2>2, AddedFolderCounts
  <2> USE DEF CountsMore
  <2>4. \A v : In(v, k + 1) = IF v = new THEN In(v, k) \cup {k + 1} ELSE In(v, k)
    OBVIOUS
  <2>5. \A v : k + 1 \notin In(v, k)
    OBVIOUS
  <2>6. \A v : Known(v, k + 1) <=> Known(v, k) \/ v = new
    OBVIOUS
  <2>7. \A v : v # new => Count(v, k + 1) = Count(v, k)
    BY <2>4
  <2>8. Count(new, k + 1) = Count(new, k) + e /\ Count(new, k) \in Nat
    <3>1. IsFiniteSet(In(new, k)) /\ k + 1 \notin In(new, k)
      BY <1>3, <2>5
    <3> HIDE DEF In
    <3>2. Cardinality(In(new, k) \cup {k + 1}) = Cardinality(In(new, k)) + 1
      BY <3>1, FS_AddElement
    <3>3. Cardinality(In(new, k + 1)) = Cardinality(In(new, k)) + 1
          /\ Cardinality(In(new, k)) \in Nat
      BY <1>3, <2>4, <3>2
    <3> QED  BY <3>3
  <2>9. ~Known(new, k) => Count(new, k) = 0
    <3> SUFFICES ASSUME ~Known(new, k) PROVE Count(new, k) = 0
      OBVIOUS
    <3>1. In(new, k) = {}
      OBVIOUS
    <3> QED  BY <3>1, FS_EmptySet
  <2> HIDE DEF new, Known, Count, In
  <2>10. ASSUME NEW v, NEW c, v # new \/ v = 0
         PROVE  Shows(f[k + 1], v, c) <=> v # 0 /\ Known(v, k + 1) /\ c = Count(v, k + 1)
    BY <1>5, <2>3, <2>6, <2>7, <2>10
  <2>11. ASSUME NEW c, new # 0
         PROVE  Shows(f[k + 1], new, c) <=> new # 0 /\ Known(new, k + 1)
                                                   /\ c = Count(new, k + 1)
    <3>1. \A x : Shows(f[k], new, x) <=> Known(new, k) /\ x = Count(new, k)
      BY <1>5, <2>11
    <3>2. CASE Known(new, k)
      <4>1. Shows(f[k], new, Count(new, k))
        BY <3>1, <3>2
      <4>2. PICK d \in Nat : /\ \A x : Shows(f[k], new, x) <=> x = d
                            /\ \A x : Shows(f[k + 1], new, x) <=> x = d + e
        BY <2>3, <2>11, <4>1
      <4>3. d = Count(new, k)
        BY <4>1, <4>2
      <4> QED  BY <2>6, <2>8, <2>11, <4>2, <4>3
    <3>3. CASE ~Known(new, k)
      <4>1. \A x : ~Shows(f[k], new, x)
        BY <3>1, <3>3
      <4>2. \A x : Shows(f[k + 1], new, x) <=> x = e
        BY <2>3, <2>11, <4>1
      <4>3. Count(new, k + 1) = e
        BY <2>8, <2>9, <3>3
      <4> QED  BY <2>6, <2>11, <4>2, <4>3
    <3> QED  BY <3>2, <3>3
  <2> QED  BY <2>10, <2>11
<1> HIDE DEF Right
<1>6. Nat \subseteq T
  <2>1. 0 \in T
    BY <1>4
  <2>2. \A k \in Nat : k \in T => k + 1 \in T
    <3> SUFFICES ASSUME NEW k \in Nat, k \in T, k + 1 <= n PROVE Right(k + 1)
      OBVIOUS
    <3>1. Right(k)
      OBVIOUS
    <3> QED  BY <1>5, <3>1
  <2> HIDE DEF T
  <2> QED  BY <2>1, <2>2, SuccessorsReachAll
<1>7. Right(n)
  BY <1>6
<1> HIDE DEF T
<1> QED  BY <1>7 DEF Right, ShowsCounts

(* The function FoldLeft folds with, for such a loop. *)
IsAdding(iter, first, folders, e) ==
  iter = [t \in SUBSET DOMAIN folders |->
            IF t = {} THEN first
            ELSE AddFolder(iter[t \ {Max(t)}], folders[Max(t)], e)]

(* The greatest place of a set is one of its places. *)
LEMMA MaxIsIn ==
  ASSUME NEW n \in Nat, NEW t \in SUBSET (1 .. n), t # {}
  PROVE  Max(t) \in t
<1>1. t \in SUBSET Nat /\ \A x \in t : x <= n
  OBVIOUS
<1> QED  BY <1>1, GreatestExists

(* It is a fold of those steps. *)
LEMMA AddingIsFold ==
  ASSUME NEW n \in Nat, NEW folders \in [1 .. n -> Spellings], NEW e \in {0, 1},
         NEW first \in Items
  PROVE  /\ Adding(folders, e) \in [1 .. n -> [Items -> Items]]
         /\ \E iter : IsAdding(iter, first, folders, e)
         /\ \A iter : IsAdding(iter, first, folders, e)
              => IsFold(iter, Items, first, Adding(folders, e), n)
<1> DEFINE step == Adding(folders, e)
<1>1. DOMAIN folders = 1 .. n /\ e \in Nat
  OBVIOUS
<1>2. \A k \in 1 .. n, items \in Items : AddFolder(items, folders[k], e) \in Items
  BY <1>1, AddedFolderCounts
<1>3. /\ step \in [1 .. n -> [Items -> Items]]
      /\ \A k \in 1 .. n, items \in Items :
           step[k][items] = AddFolder(items, folders[k], e)
  BY <1>1, <1>2 DEF Adding
<1> HIDE DEF step
<1>4. \A t \in SUBSET (1 .. n) :
        t # {} => Max(t) \in 1 .. n /\ t \ {Max(t)} \in SUBSET (1 .. n)
  <2> TAKE t \in SUBSET (1 .. n)
  <2>1. t # {} => Max(t) \in t
    BY MaxIsIn
  <2> QED  BY <2>1
<1>5. PICK it \in [SUBSET (1 .. n) -> Items] : IsFold(it, Items, first, step, n)
  BY <1>3, FoldExists
<1>6. \A t \in SUBSET (1 .. n) : it[t] = IF t = {} THEN first
        ELSE AddFolder(it[t \ {Max(t)}], folders[Max(t)], e)
  BY <1>3, <1>4, <1>5 DEF IsFold
<1>7. IsAdding(it, first, folders, e)
  BY <1>1, <1>6 DEF IsAdding
<1>8. ASSUME NEW iter, IsAdding(iter, first, folders, e)
      PROVE  IsFold(iter, Items, first, step, n)
  <2>1. DOMAIN iter = SUBSET (1 .. n)
    BY <1>1, <1>8 DEF IsAdding
  <2>2. \A t \in SUBSET (1 .. n) : iter[t] = IF t = {} THEN first
          ELSE AddFolder(iter[t \ {Max(t)}], folders[Max(t)], e)
    BY <1>1, <1>8 DEF IsAdding
  <2> QED  BY <1>3, <1>4, <2>1, <2>2 DEF IsFold
<1> QED  BY <1>3, <1>7, <1>8 DEF step

(* So FoldLeft computes the counts. *)
LEMMA AddingCounts ==
  ASSUME NEW n \in Nat, NEW folders \in [1 .. n -> Spellings], NEW e \in {0, 1},
         NEW first \in Items, NEW D,
         ShowsEmpty(first, D), NEW iter, IsAdding(iter, first, folders, e)
  PROVE  /\ iter[1 .. n] \in Items
         /\ ShowsCounts(iter[1 .. n], D, folders, n, e)
<1>1. /\ Adding(folders, e) \in [1 .. n -> [Items -> Items]]
      /\ IsFold(iter, Items, first, Adding(folders, e), n)
  BY AddingIsFold
<1>2. PICK f : /\ IsRun(f, Items, first, Adding(folders, e), n)
               /\ f[n] = iter[1 .. n]
  BY <1>1, FoldVisitsAll
<1>3. f[n] \in Items
  BY <1>2 DEF IsRun
<1>4. ShowsCounts(f[n], D, folders, n, e)
  BY <1>2, AddingAllCounts
<1> QED  BY <1>2, <1>3, <1>4

(* What reads v in a list is one of its names. *)
LEMMA ReadIsOfOne ==
  ASSUME NEW names \in Seq(Spellings), NEW v
  PROVE  v \in Read(names) <=> v # 0 /\ \E i \in 1 .. Len(names) : Norm[names[i]] = v
<1>1. DOMAIN names = 1 .. Len(names)
  OBVIOUS
<1>2. ASSUME v \in Read(names)
      PROVE  v # 0 /\ \E i \in 1 .. Len(names) : Norm[names[i]] = v
  <2>1. PICK x \in ToSet(names) : v = Norm[x] /\ v # 0
    BY <1>2 DEF Read
  <2>2. PICK i \in DOMAIN names : x = names[i]
    BY <2>1 DEF ToSet
  <2> QED  BY <1>1, <2>1, <2>2
<1>3. ASSUME v # 0, NEW i \in 1 .. Len(names), Norm[names[i]] = v
      PROVE  v \in Read(names)
  <2>1. names[i] \in ToSet(names)
    BY <1>1 DEF ToSet
  <2> QED  BY <1>3, <2>1 DEF Read
<1> QED  BY <1>2, <1>3

(* The loop of folderResults over the default folders. *)
Listed(names) == FoldLeft(LAMBDA items, f : AddFolder(items, f, 0), <<>>, names)

(* The loop of folderResults over the messages. *)
Counted(names, messages) ==
  FoldLeft(LAMBDA items, m : AddFolder(items, m.folder, 1), Listed(names), messages)

(* The messages whose folder reads v. *)
In(messages, v) == {i \in DOMAIN messages : Norm[messages[i].folder] = v}

(* After both loops, exactly the default folders and those of the messages *)
(* are there, each with the number of its messages (v2.go:1064-1100).      *)
LEMMA EveryFolderIsCounted ==
  ASSUME NEW names \in Seq(Spellings), NEW messages, NEW M, messages \in Seq(M),
         \A i \in DOMAIN messages : messages[i].folder \in Spellings
  PROVE  /\ Counted(names, messages) \in Items
         /\ \A v, c : Shows(Counted(names, messages), v, c) <=>
              /\ v # 0
              /\ v \in Read(names) \/ \E i \in DOMAIN messages : Norm[messages[i].folder] = v
              /\ c = Cardinality(In(messages, v))
<1> DEFINE listed == Listed(names)
           counted == Counted(names, messages)
           l == Len(names)
           n == Len(messages)
           folders == [i \in 1 .. n |-> messages[i].folder]
           defaulting == CHOOSE iter : IsAdding(iter, <<>>, names, 0)
           counting == CHOOSE iter : IsAdding(iter, listed, folders, 1)
<1>1. /\ l \in Nat /\ DOMAIN names = 1 .. l /\ names \in [1 .. l -> Spellings]
      /\ n \in Nat /\ DOMAIN messages = 1 .. n
  BY LenProperties
<1>2. folders \in [1 .. n -> Spellings] /\ DOMAIN folders = 1 .. n
  BY <1>1
<1>3. <<>> \in Items /\ ShowsEmpty(<<>>, {})
  <2>0. <<>> \in Seq([name : Spellings, count : Nat]) /\ Len(<<>>) = 0
    BY EmptySeq
  <2>1. DOMAIN <<>> = {}
    BY <2>0, LenProperties
  <2>2. <<>> \in Items
    BY <2>0, <2>1 DEF Items
  <2>3. \A v, c : ~Shows(<<>>, v, c)
    BY <2>1 DEF Shows
  <2> QED  BY <2>2, <2>3 DEF ShowsEmpty
<1>4. listed = defaulting[1 .. l]
  <2>1. listed = (CHOOSE iter : iter =
           [t \in SUBSET DOMAIN names |->
              IF t = {} THEN <<>>
              ELSE AddFolder(iter[t \ {Max(t)}], names[Max(t)], 0)])[DOMAIN names]
    BY DEF Listed, FoldLeft, MapThenFoldSet
  <2> QED  BY <1>1, <2>1 DEF IsAdding
<1>5. IsAdding(defaulting, <<>>, names, 0)
  <2>1. \E iter : IsAdding(iter, <<>>, names, 0)
    BY <1>1, <1>3, AddingIsFold
  <2> QED  BY <2>1
<1> HIDE DEF defaulting
<1>6. listed \in Items /\ ShowsEmpty(listed, Read(names))
  <2>1. listed \in Items /\ ShowsCounts(listed, {}, names, l, 0)
    BY <1>1, <1>3, <1>4, <1>5, AddingCounts
  <2>2. \A v : v \in Read(names) <=> v # 0 /\ \E i \in 1 .. l : Norm[names[i]] = v
    BY ReadIsOfOne
  <2> HIDE DEF l
  <2>3. \A v, c : Shows(listed, v, c) <=>
          v # 0 /\ (\E i \in 1 .. l : Norm[names[i]] = v) /\ c = 0
    <3> TAKE v, c
    <3>1. Shows(listed, v, c) <=>
            /\ v # 0
            /\ v \in {} \/ \E i \in 1 .. l : Norm[names[i]] = v
            /\ c = IF 0 = 1 THEN Cardinality({i \in 1 .. l : Norm[names[i]] = v}) ELSE 0
      BY <2>1 DEF ShowsCounts
    <3>2. 0 # 1
      OBVIOUS
    <3> QED  BY <3>1, <3>2
  <2> QED  BY <2>1, <2>2, <2>3 DEF ShowsEmpty
<1>7. counted = counting[1 .. n]
  <2>1. counted = (CHOOSE iter : iter =
           [t \in SUBSET DOMAIN messages |->
              IF t = {} THEN listed
              ELSE AddFolder(iter[t \ {Max(t)}], messages[Max(t)].folder, 1)])[DOMAIN messages]
    BY DEF Counted, FoldLeft, MapThenFoldSet
  <2>2. \A t \in SUBSET (1 .. n) : t # {} => folders[Max(t)] = messages[Max(t)].folder
    BY <1>1, MaxIsIn
  <2> DEFINE ByMessage(iter) ==
               [t \in SUBSET (1 .. n) |->
                  IF t = {} THEN listed
                  ELSE AddFolder(iter[t \ {Max(t)}], messages[Max(t)].folder, 1)]
             ByFolder(iter) ==
               [t \in SUBSET (1 .. n) |->
                  IF t = {} THEN listed
                  ELSE AddFolder(iter[t \ {Max(t)}], folders[Max(t)], 1)]
  <2>3. counted = (CHOOSE iter : iter = ByMessage(iter))[1 .. n]
    BY <1>1, <2>1
  <2>4. counting = (CHOOSE iter : iter = ByFolder(iter))
    BY <1>2 DEF IsAdding
  <2> HIDE DEF folders
  <2>5. ASSUME NEW iter PROVE ByMessage(iter) = ByFolder(iter)
    BY <2>2
  <2> HIDE DEF ByMessage, ByFolder
  <2> QED  BY <2>3, <2>4, <2>5
<1>8. IsAdding(counting, listed, folders, 1)
  <2>1. \E iter : IsAdding(iter, listed, folders, 1)
    BY <1>1, <1>2, <1>6, AddingIsFold
  <2> QED  BY <2>1
<1> HIDE DEF counting
<1>9. counted \in Items /\ ShowsCounts(counted, Read(names), folders, n, 1)
  <2> HIDE DEF counted, folders, listed, n
  <2>1. /\ counting[1 .. n] \in Items
        /\ ShowsCounts(counting[1 .. n], Read(names), folders, n, 1)
    BY <1>1, <1>2, <1>6, <1>8, AddingCounts
  <2> QED  BY <1>7, <2>1
<1>10. \A v : {i \in 1 .. n : Norm[folders[i]] = v}
                = {i \in DOMAIN messages : Norm[messages[i].folder] = v}
  BY <1>1
<1>11. \A v : (\E i \in 1 .. n : Norm[folders[i]] = v)
                <=> \E i \in DOMAIN messages : Norm[messages[i].folder] = v
  BY <1>1
<1> HIDE DEF folders, n
<1> DEFINE Own(v) == {i \in 1 .. n : Norm[folders[i]] = v}
<1>12. ASSUME NEW v, NEW c
       PROVE  Shows(counted, v, c) <=>
                /\ v # 0
                /\ v \in Read(names) \/ \E i \in 1 .. n : Norm[folders[i]] = v
                /\ c = Cardinality(Own(v))
  BY <1>9 DEF ShowsCounts
<1>13. \A v : Own(v) = In(messages, v)
  BY <1>10 DEF In
<1> HIDE DEF Own
<1>14. ASSUME NEW v, NEW c
       PROVE  Shows(counted, v, c) <=>
                /\ v # 0
                /\ v \in Read(names) \/ \E i \in DOMAIN messages : Norm[messages[i].folder] = v
                /\ c = Cardinality(In(messages, v))
  BY <1>11, <1>12, <1>13
<1> QED  BY <1>9, <1>14

(* The sort of folderResults. *)
ByName(items) == Sorted(items, LAMBDA a, b : Norm[a.name] < Norm[b.name])

(* Sorting by name loses no folder, shows none twice and orders them. *)
LEMMA FoldersInOrder ==
  ASSUME NEW items \in Items
  PROVE  /\ \A i, j \in DOMAIN ByName(items) :
              i < j => Norm[ByName(items)[i].name] < Norm[ByName(items)[j].name]
         /\ \A v, c : Shows(ByName(items), v, c) <=> Shows(items, v, c)
<1> DEFINE D == DOMAIN items
           name(i) == Norm[items[i].name]
           Ahead(j, i) == name(j) < name(i) \/ (j < i /\ ~(name(i) < name(j)))
           ahead == [i \in D |-> {j \in D : Ahead(j, i)}]
           shown == ByName(items)
<1>1. shown = Arranged(items, ahead)
  BY DEF ByName, Sorted
<1>2. /\ D = 1 .. Len(items) /\ Len(items) \in Nat
      /\ \A i \in D : name(i) \in Nat
      /\ \A i, j \in D : name(i) = name(j) => i = j
  <2>1. items \in Seq([name : Spellings, count : Nat])
    BY DEF Items
  <2>2. D = 1 .. Len(items) /\ Len(items) \in Nat
    BY <2>1, LenProperties
  <2>3. \A i \in D : items[i].name \in Spellings
    <3> TAKE i \in D
    <3>1. items[i] \in [name : Spellings, count : Nat]
      BY <2>1, <2>2, ElementOfSeq
    <3> QED  BY <3>1
  <2>4. \A i \in D : name(i) \in Nat
    BY <2>3, QueryAssumption
  <2> QED  BY <2>2, <2>4 DEF Items
<1> HIDE DEF D, name
<1>3. \A i, j \in D : Ahead(j, i) <=> name(j) < name(i)
  BY <1>2
<1>4. ahead = [i \in D |-> {j \in D : name(j) < name(i)}]
  BY <1>3
<1> HIDE DEF ahead
<1>5. Ranks(ahead) /\ DOMAIN ahead = D
  <2>1. IsFiniteSet(D)
    BY <1>2, FS_Interval
  <2>2. \A i \in D : i \notin ahead[i]
    BY <1>2, <1>4
  <2>3. \A i, j, k \in D : i \in ahead[j] /\ j \in ahead[k] => i \in ahead[k]
    BY <1>2, <1>4
  <2>4. \A i, j \in D : i = j \/ i \in ahead[j] \/ j \in ahead[i]
    BY <1>2, <1>4
  <2>5. DOMAIN ahead = D /\ ahead \in [D -> SUBSET D]
    BY <1>4
  <2> QED  BY <2>1, <2>2, <2>3, <2>4, <2>5 DEF Ranks
<1>6. /\ \A i \in D : Rank(ahead, i) \in Nat
      /\ \A i, j \in D : i \in ahead[j] => Rank(ahead, i) < Rank(ahead, j)
  BY <1>5, RanksAreAll
<1>7. /\ DOMAIN shown = 1 .. Cardinality(D)
      /\ \A i \in D : /\ Rank(ahead, i) + 1 \in DOMAIN shown
                      /\ shown[Rank(ahead, i) + 1] = items[i]
      /\ \A k \in DOMAIN shown : \E i \in D : Rank(ahead, i) + 1 = k /\ shown[k] = items[i]
  BY <1>1, <1>5, ArrangedByRank
<1> HIDE DEF shown
<1>8. ASSUME NEW k \in DOMAIN shown, NEW l \in DOMAIN shown, k < l
      PROVE  Norm[shown[k].name] < Norm[shown[l].name]
  <2>1. PICK i \in D : Rank(ahead, i) + 1 = k /\ shown[k] = items[i]
    BY <1>7
  <2>2. PICK j \in D : Rank(ahead, j) + 1 = l /\ shown[l] = items[j]
    BY <1>7
  <2>3. Rank(ahead, i) < Rank(ahead, j)
    BY <1>6, <1>8, <2>1, <2>2
  <2>4. i # j /\ ~(j \in ahead[i])
    BY <1>6, <2>3
  <2>5. name(i) < name(j)
    BY <1>2, <1>4, <2>4
  <2> QED  BY <2>1, <2>2, <2>5 DEF name
<1>9. ASSUME NEW v, NEW c
      PROVE  Shows(shown, v, c) <=> Shows(items, v, c)
  BY <1>7 DEF Shows, D
<1> QED  BY <1>8, <1>9 DEF shown

(* The folders shown agree with the listings, for any messages and         *)
(* defaults.                                                               *)
LEMMA FoldersDoAgree ==
  ASSUME NEW M, NEW messages \in Seq(M), NEW defaults \in Seq(Spellings),
         \A i \in DOMAIN messages : messages[i].folder \in Spellings
  PROVE  FoldersAgree(messages, defaults)
<1> DEFINE names == Sanitize(defaults)
           shown == FolderResults(messages, defaults)
<1>1. shown = ByName(Counted(names, messages))
  BY DEF FolderResults, ByName, Counted, Listed
<1>2. names \in Seq(Spellings) /\ Read(names) = Read(defaults)
  BY SanitizedReadsOnce
<1> HIDE DEF names
<1>3. /\ Counted(names, messages) \in Items
      /\ \A v, c : Shows(Counted(names, messages), v, c) <=>
           /\ v # 0
           /\ v \in Read(names) \/ \E i \in DOMAIN messages : Norm[messages[i].folder] = v
           /\ c = Cardinality(In(messages, v))
  BY <1>2, EveryFolderIsCounted
<1>4. /\ \A i, j \in DOMAIN shown : i < j => Norm[shown[i].name] < Norm[shown[j].name]
      /\ \A v, c : Shows(shown, v, c) <=> Shows(Counted(names, messages), v, c)
  BY <1>1, <1>3, FoldersInOrder
<1> HIDE DEF shown
<1>5. ASSUME NEW i \in DOMAIN shown
      PROVE  shown[i].count = Len(FilterByFolder(messages, shown[i].name))
  <2> DEFINE v == Norm[shown[i].name]
  <2>1. Shows(shown, v, shown[i].count)
    BY DEF Shows
  <2>2. shown[i].count = Cardinality(In(messages, v))
    BY <1>3, <1>4, <2>1
  <2>3. FilterByFolder(messages, shown[i].name) = Picked(messages, In(messages, v))
    BY DEF FilterByFolder, In
  <2>4. In(messages, v) \in SUBSET DOMAIN messages
    BY DEF In
  <2> HIDE DEF v
  <2>5. Len(Picked(messages, In(messages, v))) = Cardinality(In(messages, v))
    BY <2>4, PickedIsPicked
  <2> QED  BY <2>2, <2>3, <2>5
<1>6. ASSUME NEW v, v # 0,
             v \in Read(defaults) \/ \E i \in DOMAIN messages : Norm[messages[i].folder] = v
      PROVE  v \in {Norm[shown[j].name] : j \in DOMAIN shown}
  <2>1. Shows(shown, v, Cardinality(In(messages, v)))
    BY <1>2, <1>3, <1>4, <1>6
  <2> QED  BY <2>1 DEF Shows
<1>7. \A i \in DOMAIN defaults :
        Norm[defaults[i]] \in {0} \cup {Norm[shown[j].name] : j \in DOMAIN shown}
  <2> TAKE i \in DOMAIN defaults
  <2>1. DOMAIN defaults = 1 .. Len(defaults)
    OBVIOUS
  <2>2. Norm[defaults[i]] # 0 => Norm[defaults[i]] \in Read(defaults)
    BY <2>1, ReadIsOfOne
  <2> QED  BY <1>6, <2>2
<1>8. \A i \in DOMAIN messages :
        Norm[messages[i].folder] \in {0} \cup {Norm[shown[j].name] : j \in DOMAIN shown}
  BY <1>6
<1> QED  BY <1>4, <1>5, <1>7, <1>8 DEF FoldersAgree, shown
-----------------------------------------------------------------------------
(* Two lists after each other read what both read. *)
LEMMA ReadOfConcat ==
  ASSUME NEW s \in Seq(Spellings), NEW t \in Seq(Spellings)
  PROVE  s \o t \in Seq(Spellings) /\ Read(s \o t) = Read(s) \cup Read(t)
<1>1. s \o t \in Seq(Spellings) /\ ToSet(s \o t) = ToSet(s) \cup ToSet(t)
  BY ConcatHasBoth
<1> QED  BY <1>1 DEF Read

(* What the names in a list of lists read. *)
ReadAll(seqs) == Read(FlattenSeq(seqs))

(* What reads v in them is a name of one of them. *)
LEMMA ReadAllIsOfOne ==
  ASSUME NEW seqs \in Seq(Seq(Spellings)), NEW v
  PROVE  /\ FlattenSeq(seqs) \in Seq(Spellings)
         /\ v \in ReadAll(seqs) <=> \E i \in 1 .. Len(seqs) : v \in Read(seqs[i])
<1>1. /\ FlattenSeq(seqs) \in Seq(Spellings)
      /\ ToSet(FlattenSeq(seqs)) = UNION {ToSet(seqs[i]) : i \in DOMAIN seqs}
  BY FlattenHasAll
<1>2. DOMAIN seqs = 1 .. Len(seqs)
  OBVIOUS
<1>3. \A x : x \in ToSet(FlattenSeq(seqs)) <=>
               \E i \in 1 .. Len(seqs) : x \in ToSet(seqs[i])
  BY <1>1, <1>2
<1> QED  BY <1>1, <1>3, ZenonT(60) DEF ReadAll, Read

(* Lists of lists after each other read what both read. *)
LEMMA ReadAllOfConcat ==
  ASSUME NEW s \in Seq(Seq(Spellings)), NEW t \in Seq(Seq(Spellings))
  PROVE  s \o t \in Seq(Seq(Spellings)) /\ ReadAll(s \o t) = ReadAll(s) \cup ReadAll(t)
<1> DEFINE u == s \o t
<1>1. /\ u \in Seq(Seq(Spellings)) /\ Len(u) = Len(s) + Len(t)
      /\ \A i \in 1 .. Len(s) + Len(t) : u[i] = IF i <= Len(s) THEN s[i] ELSE t[i - Len(s)]
  BY ConcatProperties
<1>2. Len(s) \in Nat /\ Len(t) \in Nat
  OBVIOUS
<1> HIDE DEF u
<1>3. ASSUME NEW v
      PROVE  v \in ReadAll(u) <=> v \in ReadAll(s) \/ v \in ReadAll(t)
  <2>1. ASSUME v \in ReadAll(u) PROVE v \in ReadAll(s) \/ v \in ReadAll(t)
    <3>1. PICK i \in 1 .. Len(u) : v \in Read(u[i])
      BY <1>1, <2>1, ReadAllIsOfOne
    <3>2. CASE i <= Len(s)
      <4>1. i \in 1 .. Len(s) /\ u[i] = s[i]
        BY <1>1, <1>2, <3>2
      <4> QED  BY <3>1, <4>1, ReadAllIsOfOne
    <3>3. CASE ~(i <= Len(s))
      <4>1. i - Len(s) \in 1 .. Len(t) /\ u[i] = t[i - Len(s)]
        BY <1>1, <1>2, <3>3
      <4> QED  BY <3>1, <4>1, ReadAllIsOfOne
    <3> QED  BY <3>2, <3>3
  <2>2. ASSUME v \in ReadAll(s) PROVE v \in ReadAll(u)
    <3>1. PICK i \in 1 .. Len(s) : v \in Read(s[i])
      BY <2>2, ReadAllIsOfOne
    <3>2. i \in 1 .. Len(u) /\ u[i] = s[i]
      BY <1>1, <1>2, SMTT(60)
    <3> QED  BY <1>1, <3>1, <3>2, ReadAllIsOfOne
  <2>3. ASSUME v \in ReadAll(t) PROVE v \in ReadAll(u)
    <3>1. PICK i \in 1 .. Len(t) : v \in Read(t[i])
      BY <2>3, ReadAllIsOfOne
    <3>2. /\ i + Len(s) \in 1 .. Len(s) + Len(t)
          /\ ~(i + Len(s) <= Len(s)) /\ (i + Len(s)) - Len(s) = i
      BY <1>2
    <3>3. u[i + Len(s)] = t[(i + Len(s)) - Len(s)]
      BY <1>1, <3>2
    <3>4. i + Len(s) \in 1 .. Len(u) /\ v \in Read(u[i + Len(s)])
      BY <1>1, <3>1, <3>2, <3>3
    <3> QED  BY <1>1, <3>4, ReadAllIsOfOne
  <2> QED  BY <2>1, <2>2, <2>3
<1> QED  BY <1>1, <1>3 DEF u

(* A list of one list reads what that reads. *)
LEMMA ReadAllOfOne ==
  ASSUME NEW s \in Seq(Spellings)
  PROVE  <<s>> \in Seq(Seq(Spellings)) /\ ReadAll(<<s>>) = Read(s)
<1> DEFINE u == <<s>>
<1>1. u \in Seq(Seq(Spellings)) /\ Len(u) = 1 /\ u[1] = s
  OBVIOUS
<1> HIDE DEF u
<1>2. ASSUME NEW v PROVE v \in ReadAll(u) <=> v \in Read(s)
  <2>1. v \in ReadAll(u) <=> \E i \in 1 .. 1 : v \in Read(u[i])
    BY <1>1, ReadAllIsOfOne
  <2> QED  BY <1>1, <2>1
<1> QED  BY <1>1, <1>2 DEF u

(* Names put each in a list of its own read the same. *)
LEMMA ReadAllOfSingletons ==
  ASSUME NEW s \in Seq(Spellings)
  PROVE  LET singletons == [i \in DOMAIN s |-> <<s[i]>>]
         IN  singletons \in Seq(Seq(Spellings)) /\ ReadAll(singletons) = Read(s)
<1> DEFINE u == [i \in DOMAIN s |-> <<s[i]>>]
<1>1. /\ DOMAIN s = 1 .. Len(s) /\ Len(s) \in Nat
      /\ \A i \in 1 .. Len(s) : s[i] \in Spellings
  OBVIOUS
<1>2. \A x \in Spellings : <<x>> \in Seq(Spellings) /\ Read(<<x>>) = {Norm[x]} \ {0}
  <2> TAKE x \in Spellings
  <2>1. <<x>> \in Seq(Spellings) /\ Len(<<x>>) = 1 /\ <<x>>[1] = x
    OBVIOUS
  <2>2. \A v : v \in Read(<<x>>) <=> v # 0 /\ \E i \in 1 .. 1 : Norm[<<x>>[i]] = v
    BY <2>1, ReadIsOfOne
  <2>3. \A v : v \in Read(<<x>>) <=> v # 0 /\ Norm[x] = v
    BY <2>1, <2>2
  <2> QED  BY <2>1, <2>3
<1>3. /\ u \in Seq(Seq(Spellings)) /\ Len(u) = Len(s)
      /\ \A i \in 1 .. Len(s) : u[i] = <<s[i]>>
  <2>1. u \in [1 .. Len(s) -> Seq(Spellings)]
    BY <1>1, <1>2
  <2> QED  BY <1>1, <2>1
<1> HIDE DEF u
<1>4. ASSUME NEW v PROVE v \in ReadAll(u) <=> v \in Read(s)
  <2>1. v \in ReadAll(u) <=> \E i \in 1 .. Len(s) : v \in Read(<<s[i]>>)
    BY <1>3, ReadAllIsOfOne
  <2>2. v \in Read(s) <=> v # 0 /\ \E i \in 1 .. Len(s) : Norm[s[i]] = v
    BY ReadIsOfOne
  <2>3. \A i \in 1 .. Len(s) : v \in Read(<<s[i]>>) <=> v # 0 /\ Norm[s[i]] = v
    BY <1>1, <1>2
  <2> QED  BY <2>1, <2>2, <2>3
<1> QED  BY <1>3, <1>4 DEF u

(* sanitizeTags keeps what the tags read (session.go:206-329). *)
LEMMA SanitizedTagsReadAll ==
  ASSUME NEW tags \in Seq(Seq(Spellings))
  PROVE  /\ SanitizeTags(tags) \in Seq(Seq(Spellings))
         /\ ReadAll(SanitizeTags(tags)) = ReadAll(tags)
<1> DEFINE As(tag) == [i \in DOMAIN tag |-> Norm[tag[i]]]
           First(i) == \A j \in 1 .. i - 1 : As(tags[j]) # As(tags[i])
           places == {i \in DOMAIN tags : As(tags[i]) # << 0 >> /\ First(i)}
           s == Picked(tags, places)
<1>1. SanitizeTags(tags) = s
  BY DEF SanitizeTags
<1>2. /\ DOMAIN tags = 1 .. Len(tags) /\ Len(tags) \in Nat
      /\ \A i \in 1 .. Len(tags) : tags[i] \in Seq(Spellings)
  OBVIOUS
<1>3. ASSUME NEW t \in Seq(Spellings), NEW v
      PROVE  v \in Read(t) <=> v # 0 /\ \E i \in DOMAIN As(t) : As(t)[i] = v
  <2>1. DOMAIN As(t) = 1 .. Len(t) /\ \A i \in 1 .. Len(t) : As(t)[i] = Norm[t[i]]
    OBVIOUS
  <2> HIDE DEF As
  <2>2. v \in Read(t) <=> v # 0 /\ \E i \in 1 .. Len(t) : Norm[t[i]] = v
    BY ReadIsOfOne
  <2>3. (\E i \in 1 .. Len(t) : Norm[t[i]] = v) <=> \E i \in DOMAIN As(t) : As(t)[i] = v
    BY <2>1
  <2> QED  BY <2>2, <2>3
<1>4. ASSUME NEW t \in Seq(Spellings), As(t) = << 0 >>
      PROVE  Read(t) = {}
  <2>1. DOMAIN As(t) = 1 .. 1 /\ As(t)[1] = 0
    BY <1>4
  <2> HIDE DEF As
  <2> QED  BY <1>3, <2>1
<1> HIDE DEF As
<1>5. ASSUME NEW i \in 1 .. Len(tags), As(tags[i]) # << 0 >>
      PROVE  \E j \in places : As(tags[j]) = As(tags[i])
  <2> DEFINE T == {j \in 1 .. Len(tags) : As(tags[j]) = As(tags[i])}
  <2>1. T \in SUBSET Nat /\ T # {}
    <3>1. i \in T
      OBVIOUS
    <3> QED  BY <3>1
  <2>2. PICK j \in T : \A k \in T : j <= k
    BY <2>1, LeastExists
  <2>3. j \in places
    BY <1>2, <1>5, <2>2
  <2> QED  BY <2>2, <2>3
<1>6. places \in SUBSET DOMAIN tags
  OBVIOUS
<1> HIDE DEF places
<1>6a. tags \in Seq(Seq(Spellings)) /\ places \in SUBSET DOMAIN tags
  BY <1>6
<1>7. /\ s \in Seq(Seq(Spellings))
      /\ \A k \in DOMAIN s : \E i \in places : s[k] = tags[i]
      /\ \A i \in places : \E k \in DOMAIN s : s[k] = tags[i]
  <2>1. s \in Seq(Seq(Spellings))
    BY <1>6a, PickedIsPicked, ZenonT(60)
  <2>2. \A k \in DOMAIN s : \E i \in places : s[k] = tags[i]
    BY <1>6a, PickedIsPicked, ZenonT(60)
  <2>3. \A i \in places : \E k \in DOMAIN s : s[k] = tags[i]
    BY <1>6a, PickedIsPicked, ZenonT(60)
  <2> QED  BY <2>1, <2>2, <2>3
<1> HIDE DEF s
<1>8. DOMAIN s = 1 .. Len(s)
  BY <1>7
<1>9. ASSUME NEW v PROVE v \in ReadAll(s) <=> v \in ReadAll(tags)
  <2>1. ASSUME v \in ReadAll(s) PROVE v \in ReadAll(tags)
    <3>1. PICK k \in 1 .. Len(s) : v \in Read(s[k])
      BY <1>7, <2>1, ReadAllIsOfOne
    <3>2. PICK i \in places : s[k] = tags[i]
      BY <1>7, <1>8
    <3>3. i \in 1 .. Len(tags) /\ v \in Read(tags[i])
      BY <1>2, <1>6, <3>1, <3>2
    <3> QED  BY <3>3, ReadAllIsOfOne
  <2>2. ASSUME v \in ReadAll(tags) PROVE v \in ReadAll(s)
    <3>1. PICK i \in 1 .. Len(tags) : v \in Read(tags[i])
      BY <2>2, ReadAllIsOfOne
    <3>2. As(tags[i]) # << 0 >>
      BY <1>2, <1>4, <3>1
    <3>3. PICK j \in places : As(tags[j]) = As(tags[i])
      BY <1>5, <3>2
    <3>4. PICK k \in DOMAIN s : s[k] = tags[j]
      BY <1>7
    <3>5. tags[j] \in Seq(Spellings) /\ tags[i] \in Seq(Spellings)
      BY <1>2, <1>6
    <3>6. v \in Read(s[k])
      BY <1>3, <3>1, <3>3, <3>4, <3>5
    <3> QED  BY <1>7, <1>8, <3>6, ReadAllIsOfOne
  <2> QED  BY <2>1, <2>2
<1> QED  BY <1>1, <1>7, <1>9
-----------------------------------------------------------------------------
(* A header, as setMessageHeaderValues names it when it is ours. *)
Key(about, ours) == [about |-> about, ours |-> ours]

(* What a header that is set leaves. *)
IsSet(after, headers, about, values) ==
  /\ \A h \in DOMAIN after :
       \/ h \in DOMAIN headers /\ h.about # about /\ after[h] = headers[h]
       \/ h = Key(about, TRUE) /\ values # <<>> /\ after[h] = values
  /\ \A h \in DOMAIN headers : h.about # about => h \in DOMAIN after
  /\ values # <<>> => Key(about, TRUE) \in DOMAIN after

(* It is about what it says. *)
LEMMA KeysAreHeaders ==
  /\ \A about \in {"folder", "tags", "legacy"}, ours \in BOOLEAN :
       Key(about, ours) \in Headers
  /\ \A about, ours : Key(about, ours).about = about
BY DEF Key, Headers

(* Setting a header replaces every spelling of it, and leaves the others. *)
LEMMA SetHeaderSets ==
  ASSUME NEW headers, IsHeaders(headers),
         NEW about \in {"folder", "tags", "legacy"},
         NEW values \in Seq(Seq(Spellings))
  PROVE  /\ IsHeaders(SetHeader(headers, about, values))
         /\ IsSet(SetHeader(headers, about, values), headers, about, values)
<1> DEFINE kept == {k \in DOMAIN headers : k.about # about}
           key == Key(about, TRUE)
           set == IF values = <<>> THEN {} ELSE {key}
           after == [h \in kept \cup set |-> IF h \in set THEN values ELSE headers[h]]
<1>1. SetHeader(headers, about, values) = after
  BY DEF SetHeader, Key
<1>2. key \in Headers /\ key.about = about
  BY KeysAreHeaders
<1>3. /\ DOMAIN headers \subseteq Headers
      /\ \A h \in DOMAIN headers : headers[h] \in Seq(Seq(Spellings))
  BY DEF IsHeaders
<1>4. DOMAIN after = kept \cup set
  OBVIOUS
<1>5. /\ \A h \in set : h = key /\ values # <<>> /\ after[h] = values
      /\ values # <<>> => key \in set
  <2> HIDE DEF key
  <2> QED  OBVIOUS
<1>6. \A h \in kept : h.about # about /\ h \in DOMAIN headers
  OBVIOUS
<1>7. \A h \in kept : h \notin set /\ after[h] = headers[h]
  <2>1. \A h \in kept : h \notin set
    BY <1>2, <1>5, <1>6
  <2> HIDE DEF set, kept
  <2> QED  BY <2>1
<1>8. \A h \in DOMAIN headers : h.about # about => h \in kept
  OBVIOUS
<1> HIDE DEF kept, key, set, after
<1>9. IsHeaders(after)
  BY <1>2, <1>3, <1>4, <1>5, <1>6, <1>7 DEF IsHeaders
<1>10. IsSet(after, headers, about, values)
  <2>1. \A h \in DOMAIN after :
          \/ h \in DOMAIN headers /\ h.about # about /\ after[h] = headers[h]
          \/ h = key /\ values # <<>> /\ after[h] = values
    BY <1>4, <1>5, <1>6, <1>7
  <2>2. \A h \in DOMAIN headers : h.about # about => h \in DOMAIN after
    BY <1>4, <1>8
  <2>3. values # <<>> => key \in DOMAIN after
    BY <1>4, <1>5
  <2> QED  BY <2>1, <2>2, <2>3 DEF IsSet, key
<1> QED  BY <1>1, <1>9, <1>10

(* tagsFromHeaderValues reads the names in both spellings of a header, in  *)
(* either order.                                                           *)
LEMMA TagsInRead ==
  ASSUME NEW headers, IsHeaders(headers), NEW order \in Orders,
         NEW about \in {"folder", "tags", "legacy"}, NEW v
  PROVE  /\ TagsIn(headers, about, order) \in Seq(Spellings)
         /\ v \in Read(TagsIn(headers, about, order)) <=>
              \E ours \in BOOLEAN : /\ Key(about, ours) \in DOMAIN headers
                                    /\ v \in ReadAll(headers[Key(about, ours)])
<1> DEFINE Values(ours) ==
             LET key == [about |-> about, ours |-> ours]
             IN  IF key \in DOMAIN headers THEN FlattenSeq(headers[key]) ELSE <<>>
<1>1. TagsIn(headers, about, order) = Values(order[1]) \o Values(order[2])
  BY DEF TagsIn
<1>2. PICK b \in BOOLEAN, c \in BOOLEAN : b # c /\ order[1] = b /\ order[2] = c
  <2>1. order = <<TRUE, FALSE>> \/ order = <<FALSE, TRUE>>
    BY DEF Orders
  <2>2. CASE order = <<TRUE, FALSE>>
    <3>1. order[1] = TRUE /\ order[2] = FALSE
      BY <2>2
    <3> QED  BY Zenon, <3>1
  <2>3. CASE order = <<FALSE, TRUE>>
    <3>1. order[1] = FALSE /\ order[2] = TRUE
      BY <2>3
    <3> QED  BY Zenon, <3>1
  <2> QED  BY <2>1, <2>2, <2>3
<1>3. Read(<<>>) = {} /\ <<>> \in Seq(Spellings)
  <2>1. PICK none \in Seq(Spellings) : none = <<>> /\ Len(none) = 0
    <3>1. <<>> \in Seq(Spellings) /\ Len(<<>>) = 0
      OBVIOUS
    <3> QED  BY <3>1
  <2>2. \A x : ~(x \in Read(none))
    <3> TAKE x
    <3>1. x \in Read(none) <=> x # 0 /\ \E i \in 1 .. Len(none) : Norm[none[i]] = x
      BY ReadIsOfOne
    <3> QED  BY <2>1, <3>1
  <2> QED  BY <2>1, <2>2
<1>4. ASSUME NEW d \in BOOLEAN
      PROVE  /\ Values(d) \in Seq(Spellings)
             /\ v \in Read(Values(d)) <=> /\ Key(about, d) \in DOMAIN headers
                                          /\ v \in ReadAll(headers[Key(about, d)])
  <2>0. Values(d) = IF Key(about, d) \in DOMAIN headers
                    THEN FlattenSeq(headers[Key(about, d)]) ELSE <<>>
    BY DEF Key
  <2> HIDE DEF Values
  <2>1. CASE Key(about, d) \in DOMAIN headers
    <3>1. headers[Key(about, d)] \in Seq(Seq(Spellings))
      BY <2>1 DEF IsHeaders
    <3>2. Values(d) = FlattenSeq(headers[Key(about, d)])
      BY <2>0, <2>1
    <3>3. Values(d) \in Seq(Spellings)
      BY <3>1, <3>2, ReadAllIsOfOne
    <3> QED  BY <2>1, <3>2, <3>3 DEF ReadAll
  <2>2. CASE Key(about, d) \notin DOMAIN headers
    BY <1>3, <2>0, <2>2
  <2> QED  BY <2>1, <2>2
<1> HIDE DEF Values
<1>5. /\ Values(b) \o Values(c) \in Seq(Spellings)
      /\ Read(Values(b) \o Values(c)) = Read(Values(b)) \cup Read(Values(c))
  BY <1>4, ReadOfConcat
<1>6. TagsIn(headers, about, order) = Values(b) \o Values(c)
  BY <1>1, <1>2
<1>7. v \in Read(TagsIn(headers, about, order)) <=>
        \E d \in BOOLEAN : v \in Read(Values(d))
  <2>1. \A d \in BOOLEAN : d = b \/ d = c
    BY <1>2
  <2> QED  BY <1>5, <1>6, <2>1
<1> QED  BY <1>4, <1>5, <1>6, <1>7

(* The headers of an accepted mail: its folder and its tags, and no other. *)
IsFiled(after, folder, tags) ==
  /\ IsHeaders(after)
  /\ \A h \in DOMAIN after :
       \/ h = Key("folder", TRUE) /\ folder # <<>> /\ after[h] = folder
       \/ h = Key("tags", TRUE) /\ tags # <<>> /\ after[h] = tags
  /\ folder # <<>> => Key("folder", TRUE) \in DOMAIN after
  /\ tags # <<>> => Key("tags", TRUE) \in DOMAIN after

(* The three headers acceptMessage sets leave nothing of what the mail     *)
(* came with (session.go:146-156).                                         *)
LEMMA ThreeSetsFile ==
  ASSUME NEW headers, IsHeaders(headers),
         NEW folder \in Seq(Seq(Spellings)), NEW tags \in Seq(Seq(Spellings))
  PROVE  IsFiled(SetHeader(SetHeader(SetHeader(headers, "folder", folder), "tags", tags),
                           "legacy", <<>>),
                 folder, tags)
<1> DEFINE one == SetHeader(headers, "folder", folder)
           two == SetHeader(one, "tags", tags)
           after == SetHeader(two, "legacy", <<>>)
<1>0. <<>> \in Seq(Seq(Spellings))
  OBVIOUS
<1>1. IsHeaders(one) /\ IsSet(one, headers, "folder", folder)
  BY SetHeaderSets
<1> HIDE DEF one
<1>2. IsHeaders(two) /\ IsSet(two, one, "tags", tags)
  BY <1>1, SetHeaderSets
<1> HIDE DEF two
<1>3. IsHeaders(after) /\ IsSet(after, two, "legacy", <<>>)
  BY <1>0, <1>2, SetHeaderSets
<1> HIDE DEF after
<1>4. \A h \in DOMAIN headers : h.about \in {"folder", "tags", "legacy"}
  BY DEF IsHeaders, Headers
<1>5. /\ Key("folder", TRUE).about = "folder"
      /\ Key("tags", TRUE).about = "tags"
  BY KeysAreHeaders
<1> DEFINE fkey == Key("folder", TRUE)
           tkey == Key("tags", TRUE)
<1> HIDE DEF fkey, tkey
<1>6. /\ \A h \in DOMAIN after :
           h \in DOMAIN two /\ h.about # "legacy" /\ after[h] = two[h]
      /\ \A h \in DOMAIN two : h.about # "legacy" => h \in DOMAIN after
  BY <1>3 DEF IsSet
<1>7. /\ \A h \in DOMAIN two : \/ h \in DOMAIN one /\ h.about # "tags" /\ two[h] = one[h]
                               \/ h = tkey /\ tags # <<>> /\ two[h] = tags
      /\ \A h \in DOMAIN one : h.about # "tags" => h \in DOMAIN two
      /\ tags # <<>> => tkey \in DOMAIN two
  BY <1>2 DEF IsSet, tkey
<1>8. /\ \A h \in DOMAIN one :
           \/ h \in DOMAIN headers /\ h.about # "folder" /\ one[h] = headers[h]
           \/ h = fkey /\ folder # <<>> /\ one[h] = folder
      /\ folder # <<>> => fkey \in DOMAIN one
  BY <1>1 DEF IsSet, fkey
<1>9. fkey.about = "folder" /\ tkey.about = "tags"
  BY <1>5 DEF fkey, tkey
<1>10. ASSUME NEW h \in DOMAIN after
       PROVE  \/ h = fkey /\ folder # <<>> /\ after[h] = folder
              \/ h = tkey /\ tags # <<>> /\ after[h] = tags
  <2>1. h \in DOMAIN two /\ h.about # "legacy" /\ after[h] = two[h]
    BY <1>6
  <2>2. CASE h = tkey /\ tags # <<>> /\ two[h] = tags
    BY <2>1, <2>2
  <2>3. CASE h \in DOMAIN one /\ h.about # "tags" /\ two[h] = one[h]
    <3>1. CASE h = fkey /\ folder # <<>> /\ one[h] = folder
      BY <2>1, <2>3, <3>1
    <3>2. CASE h \in DOMAIN headers /\ h.about # "folder" /\ one[h] = headers[h]
      <4>1. h.about \in {"folder", "tags", "legacy"}
        BY <1>4, <3>2
      <4> QED  BY <2>1, <2>3, <3>2, <4>1
    <3> QED  BY <1>8, <2>3, <3>1, <3>2
  <2> QED  BY <1>7, <2>1, <2>2, <2>3
<1>11. folder # <<>> => fkey \in DOMAIN after
  <2>1. "folder" # "tags" /\ "folder" # "legacy"
    OBVIOUS
  <2> QED  BY <1>6, <1>7, <1>8, <1>9, <2>1
<1>12. tags # <<>> => tkey \in DOMAIN after
  BY <1>6, <1>7, <1>9
<1> QED  BY <1>3, <1>10, <1>11, <1>12 DEF IsFiled, one, two, after, fkey, tkey

(* The API reads the folder the session set, or none. *)
LEMMA FolderIsFiled ==
  ASSUME NEW after, NEW name \in Spellings, NEW tags,
         IsFiled(after, IF Norm[name] = 0 THEN <<>> ELSE <<<<name>>>>, tags)
  PROVE  FolderIn(after) \in Spellings /\ Norm[FolderIn(after)] = Norm[name]
<1> DEFINE folder == IF Norm[name] = 0 THEN <<>> ELSE <<<<name>>>>
           fkey == Key("folder", TRUE)
           tkey == Key("tags", TRUE)
           keys == {h \in DOMAIN after : h.about = "folder"}
<1>1. /\ \A h \in DOMAIN after : \/ h = fkey /\ folder # <<>> /\ after[h] = folder
                                 \/ h = tkey
      /\ folder # <<>> => fkey \in DOMAIN after
  BY DEF IsFiled
<1>2. fkey.about = "folder" /\ tkey.about = "tags"
  BY KeysAreHeaders
<1>3. FolderIn(after) = IF keys = {} THEN "" ELSE after[CHOOSE h \in keys : TRUE][1][1]
  BY DEF FolderIn
<1> HIDE DEF fkey, tkey
<1>4. CASE Norm[name] = 0
  <2>1. folder = <<>>
    BY <1>4
  <2> HIDE DEF folder
  <2>2. keys = {}
    BY <1>1, <1>2, <2>1
  <2>3. FolderIn(after) = ""
    BY <1>3, <2>2
  <2> QED  BY <1>4, <2>3, QueryAssumption DEF QueryAssumption
<1>5. CASE Norm[name] # 0
  <2>1. folder = <<<<name>>>> /\ folder # <<>>
    BY <1>5
  <2>2. folder[1][1] = name
    BY <2>1
  <2> HIDE DEF folder
  <2>3. keys = {fkey}
    BY <1>1, <1>2, <2>1
  <2>4. after[fkey] = folder
    BY <1>1, <1>2, <2>1
  <2> HIDE DEF keys
  <2>5. (CHOOSE h \in keys : TRUE) = fkey
    BY <2>3
  <2>6. FolderIn(after) = after[fkey][1][1]
    BY <1>3, <2>3, <2>5
  <2> QED  BY <2>2, <2>4, <2>6
<1> QED  BY <1>4, <1>5

(* The API reads the tags the session set. *)
LEMMA TagsAreFiled ==
  ASSUME NEW after, NEW folder, NEW tags \in Seq(Seq(Spellings)), NEW order \in Orders,
         IsFiled(after, folder, IF tags = <<>> THEN <<>> ELSE <<FlattenSeq(tags)>>)
  PROVE  LET shown == TagsIn(after, "tags", order) \o TagsIn(after, "legacy", order)
         IN  shown \in Seq(Spellings) /\ Read(shown) = ReadAll(tags)
<1> DEFINE value == IF tags = <<>> THEN <<>> ELSE <<FlattenSeq(tags)>>
           fkey == Key("folder", TRUE)
           tkey == Key("tags", TRUE)
           a == TagsIn(after, "tags", order)
           b == TagsIn(after, "legacy", order)
<1>1. /\ IsHeaders(after)
      /\ \A h \in DOMAIN after : \/ h = fkey
                                 \/ h = tkey /\ value # <<>> /\ after[h] = value
      /\ value # <<>> => tkey \in DOMAIN after
  BY DEF IsFiled
<1>2. /\ \A ours \in BOOLEAN :
           Key("tags", ours).about = "tags" /\ Key("legacy", ours).about = "legacy"
      /\ fkey.about = "folder" /\ tkey.about = "tags"
  BY KeysAreHeaders
<1> HIDE DEF value, fkey, tkey
<1>3. a \in Seq(Spellings) /\ b \in Seq(Spellings)
  BY <1>1, TagsInRead
<1>4. a \o b \in Seq(Spellings) /\ Read(a \o b) = Read(a) \cup Read(b)
  BY <1>3, ReadOfConcat
<1>5. ASSUME NEW v PROVE ~(v \in Read(b))
  <2>1. v \in Read(b) <=> \E ours \in BOOLEAN : /\ Key("legacy", ours) \in DOMAIN after
                                                /\ v \in ReadAll(after[Key("legacy", ours)])
    BY <1>1, TagsInRead
  <2>2. \A ours \in BOOLEAN : Key("legacy", ours) \notin DOMAIN after
    BY <1>1, <1>2
  <2> QED  BY <2>1, <2>2
<1>6. ASSUME NEW v PROVE v \in Read(a) <=> v \in ReadAll(tags)
  <2>1. v \in Read(a) <=> \E ours \in BOOLEAN : /\ Key("tags", ours) \in DOMAIN after
                                                /\ v \in ReadAll(after[Key("tags", ours)])
    BY <1>1, TagsInRead
  <2>2. \A ours \in BOOLEAN : Key("tags", ours) \in DOMAIN after =>
          Key("tags", ours) = tkey /\ value # <<>> /\ after[tkey] = value
    BY <1>1, <1>2
  <2>3. v \in Read(a) <=> value # <<>> /\ v \in ReadAll(value)
    <3>1. ASSUME v \in Read(a) PROVE value # <<>> /\ v \in ReadAll(value)
      BY <2>1, <2>2, <3>1
    <3>2. ASSUME value # <<>>, v \in ReadAll(value) PROVE v \in Read(a)
      <4>1. tkey \in DOMAIN after /\ tkey = Key("tags", TRUE)
        BY <1>1, <3>2 DEF tkey
      <4>2. after[tkey] = value
        BY <1>1, <1>2, <4>1
      <4> QED  BY <2>1, <3>2, <4>1, <4>2
    <3> QED  BY <3>1, <3>2
  <2>4. CASE tags = <<>>
    <3>1. value = <<>>
      BY <2>4 DEF value
    <3>2. v \in ReadAll(tags) <=> \E i \in 1 .. Len(tags) : v \in Read(tags[i])
      BY ReadAllIsOfOne
    <3>3. Len(tags) = 0
      BY <2>4
    <3> QED  BY <2>3, <3>1, <3>2, <3>3
  <2>5. CASE tags # <<>>
    <3>1. value = <<FlattenSeq(tags)>>
      BY <2>5 DEF value
    <3>2. FlattenSeq(tags) \in Seq(Spellings)
      BY ReadAllIsOfOne
    <3>3. ReadAll(value) = ReadAll(tags)
      BY <3>1, <3>2, ReadAllOfOne DEF ReadAll
    <3>4. value # <<>>
      <4> DEFINE f == FlattenSeq(tags)
      <4> HIDE DEF f
      <4>1. value = <<f>>
        BY <3>1 DEF f
      <4> QED  BY <4>1
    <3> QED  BY <2>3, <3>3, <3>4
  <2> QED  BY <2>4, <2>5
<1> HIDE DEF a, b
<1>7. Read(a \o b) = ReadAll(tags)
  BY <1>4, <1>5, <1>6
<1> QED  BY <1>4, <1>7 DEF a, b

(* The names a mail comes with, in its headers and in the name of its sender. *)
OwnTags(headers) ==
  UNION {ReadAll(headers[h]) : h \in {k \in DOMAIN headers : k.about # "folder"}}

(* The session reads all the tags of the headers a mail comes with. *)
LEMMA OwnTagsAreRead ==
  ASSUME NEW headers, IsHeaders(headers), NEW order \in Orders
  PROVE  /\ TagsFromHeaders(headers, order) \in Seq(Spellings)
         /\ Read(TagsFromHeaders(headers, order)) = OwnTags(headers)
<1> DEFINE a == TagsIn(headers, "tags", order)
           b == TagsIn(headers, "legacy", order)
           own == Sanitize(a \o b)
<1>1. a \in Seq(Spellings) /\ b \in Seq(Spellings)
  BY TagsInRead
<1>2. ASSUME NEW v, NEW about \in {"tags", "legacy"}
      PROVE  v \in Read(TagsIn(headers, about, order)) <=>
               \E ours \in BOOLEAN : /\ Key(about, ours) \in DOMAIN headers
                                     /\ v \in ReadAll(headers[Key(about, ours)])
  BY TagsInRead
<1>3. a \o b \in Seq(Spellings) /\ Read(a \o b) = Read(a) \cup Read(b)
  BY <1>1, ReadOfConcat
<1> HIDE DEF a, b
<1>4. own \in Seq(Spellings) /\ Read(own) = Read(a) \cup Read(b)
  BY <1>3, SanitizedReadsOnce
<1>5. TagsFromHeaders(headers, order) = own
  BY DEF TagsFromHeaders, a, b
<1>6. ASSUME NEW v PROVE v \in Read(a) \cup Read(b) <=> v \in OwnTags(headers)
  <2>1. ASSUME v \in Read(a) \cup Read(b) PROVE v \in OwnTags(headers)
    <3>1. PICK about \in {"tags", "legacy"} : v \in Read(TagsIn(headers, about, order))
      BY <2>1 DEF a, b
    <3>2. PICK ours \in BOOLEAN : /\ Key(about, ours) \in DOMAIN headers
                                  /\ v \in ReadAll(headers[Key(about, ours)])
      BY <1>2, <3>1
    <3>3. Key(about, ours).about # "folder"
      BY KeysAreHeaders
    <3> QED  BY <3>2, <3>3 DEF OwnTags
  <2>2. ASSUME v \in OwnTags(headers) PROVE v \in Read(a) \cup Read(b)
    <3>1. PICK h \in DOMAIN headers : h.about # "folder" /\ v \in ReadAll(headers[h])
      BY <2>2 DEF OwnTags
    <3>2. PICK about \in {"tags", "legacy"}, ours \in BOOLEAN :
            h = Key(about, ours)
      <4>1. h \in Headers
        BY DEF IsHeaders
      <4>2. PICK about \in {"folder", "tags", "legacy"}, ours \in BOOLEAN :
              h = Key(about, ours)
        BY <4>1 DEF Headers, Key
      <4>3. h.about = about
        BY <4>2, KeysAreHeaders
      <4> QED  BY <3>1, <4>2, <4>3
    <3>3. v \in Read(TagsIn(headers, about, order))
      BY <1>2, <3>1, <3>2
    <3> QED  BY <3>3 DEF a, b
  <2> QED  BY <2>1, <2>2
<1> QED  BY <1>4, <1>5, <1>6

(* A mail is filed in the folder of the name it was sent with, with its    *)
(* own tags and those of that name.                                        *)
LEMMA MailIsFiled ==
  ASSUME NEW sent, IsSent(sent)
  PROVE  /\ Filed(sent).parts = sent.parts
         /\ Filed(sent).folder \in Spellings
         /\ Norm[Filed(sent).folder] = Norm[sent.user.folder]
         /\ Filed(sent).tags \in Seq(Spellings)
         /\ Read(Filed(sent).tags) = OwnTags(sent.headers) \cup ReadAll(sent.user.tags)
<1> DEFINE own == TagsFromHeaders(sent.headers, sent.order)
           ones == [i \in DOMAIN own |-> <<own[i]>>]
           users == SanitizeTags(sent.user.tags)
           all == ones \o users
           tags == SanitizeTags(all)
           folder == IF Norm[sent.user.folder] = 0 THEN <<>> ELSE <<<<sent.user.folder>>>>
           value == IF tags = <<>> THEN <<>> ELSE <<FlattenSeq(tags)>>
           after == Accepted(sent.headers, sent.user, sent.order)
<1>1. /\ IsHeaders(sent.headers)
      /\ sent.user.folder \in Spellings
      /\ sent.user.tags \in Seq(Seq(Spellings))
      /\ sent.order \in Orders
  BY DEF IsSent, IsHeaders
<1>2. own \in Seq(Spellings) /\ Read(own) = OwnTags(sent.headers)
  BY <1>1, OwnTagsAreRead
<1>3. after = SetTags(SetFolder(sent.headers, sent.user.folder), tags)
  BY DEF Accepted
<1> HIDE DEF own
<1>4. ones \in Seq(Seq(Spellings)) /\ ReadAll(ones) = Read(own)
  BY <1>2, ReadAllOfSingletons
<1>5. users \in Seq(Seq(Spellings)) /\ ReadAll(users) = ReadAll(sent.user.tags)
  BY <1>1, SanitizedTagsReadAll
<1> HIDE DEF ones, users
<1>6. all \in Seq(Seq(Spellings)) /\ ReadAll(all) = ReadAll(ones) \cup ReadAll(users)
  BY <1>4, <1>5, ReadAllOfConcat
<1> HIDE DEF all
<1>7. tags \in Seq(Seq(Spellings)) /\ ReadAll(tags) = ReadAll(all)
  BY <1>6, SanitizedTagsReadAll
<1> HIDE DEF tags
<1>8. folder \in Seq(Seq(Spellings))
  <2>1. CASE Norm[sent.user.folder] = 0
    BY <2>1
  <2>2. CASE Norm[sent.user.folder] # 0
    <3>1. <<sent.user.folder>> \in Seq(Spellings)
      BY <1>1
    <3> QED  BY <2>2, <3>1
  <2> QED  BY <2>1, <2>2
<1>9. value \in Seq(Seq(Spellings))
  <2>1. FlattenSeq(tags) \in Seq(Spellings)
    BY <1>7, ReadAllIsOfOne
  <2>2. <<>> \in Seq(Seq(Spellings)) /\ <<FlattenSeq(tags)>> \in Seq(Seq(Spellings))
    BY <2>1, ReadAllOfOne
  <2> QED  BY <2>2
<1>10. after = SetHeader(SetHeader(SetHeader(sent.headers, "folder", folder), "tags", value),
                         "legacy", <<>>)
  BY <1>3 DEF SetTags, SetFolder
<1> HIDE DEF folder, value, after
<1>11. IsFiled(after, folder, value)
  BY <1>1, <1>8, <1>9, <1>10, ThreeSetsFile
<1>12. FolderIn(after) \in Spellings /\ Norm[FolderIn(after)] = Norm[sent.user.folder]
  BY <1>1, <1>11, FolderIsFiled DEF folder
<1> DEFINE shown == TagsIn(after, "tags", sent.order)
                      \o TagsIn(after, "legacy", sent.order)
<1>13. shown \in Seq(Spellings) /\ Read(shown) = ReadAll(tags)
  BY <1>1, <1>7, <1>11, TagsAreFiled DEF value
<1>14. /\ Filed(sent).parts = sent.parts
       /\ Filed(sent).folder = FolderIn(after)
       /\ Filed(sent).tags = shown
  BY DEF Filed, after
<1> HIDE DEF shown
<1> QED  BY <1>2, <1>4, <1>5, <1>6, <1>7, <1>12, <1>13, <1>14

(* And shown so. *)
LEMMA AllIsFiledAsSent ==
  ASSUME NEW sent, IsSent(sent)
  PROVE  FiledAsSent(sent)
<1> DEFINE m == Filed(sent)
           shown == MessageTags(m)
           Names(seqs) == {Norm[n] : n \in ToSet(FlattenSeq(seqs))} \ {0}
           own == UNION {Names(sent.headers[h]) :
                           h \in {k \in DOMAIN sent.headers : k.about # "folder"}}
           all == own \cup Names(sent.user.tags)
<1>1. \A seqs : Names(seqs) = ReadAll(seqs)
  BY DEF ReadAll, Read
<1>2. all = OwnTags(sent.headers) \cup ReadAll(sent.user.tags)
  BY <1>1 DEF OwnTags
<1>3. /\ m.parts = sent.parts
      /\ Norm[m.folder] = Norm[sent.user.folder]
      /\ m.tags \in Seq(Spellings)
      /\ Read(m.tags) = all
  BY <1>2, MailIsFiled
<1>4. IsParts(m.parts)
  BY <1>3 DEF IsSent
<1> HIDE DEF all, m
<1>5. /\ \A i, j \in DOMAIN shown : i # j => Norm[shown[i]] # Norm[shown[j]]
      /\ all # {} => {Norm[t] : t \in ToSet(shown)} = all
  BY <1>3, <1>4, TagsReadOnce
<1> HIDE DEF shown
<1> QED  BY <1>3, <1>5 DEF FiledAsSent, all, m, shown
-----------------------------------------------------------------------------
(* The grade of a mail. *)

(* The findings there are, by what they cost. *)
Criticals == {"unsafe", "image-only", "javascript", "unsubscribe", "empty"}
Warnings == (Elements \ {"script"})
  \cup {"alt", "image-heavy", "broken", "http", "preheader", "mobile", "spam",
        "punctuation", "fallback"}
Infos == {"short", "promotional"}
(* What is found under these names. *)
Named(severity, names) == {[severity |-> severity, what |-> w] : w \in names}
Hints == Named("critical", Criticals) \cup Named("warning", Warnings)
           \cup Named("info", Infos)

(* A set with one more element than a finite one is finite, and at most    *)
(* one larger.                                                             *)
LEMMA AddingOne ==
  ASSUME NEW S, IsFiniteSet(S), NEW x, NEW T, T \subseteq S \cup {x}
  PROVE  /\ IsFiniteSet(T)
         /\ Cardinality(T) <= Cardinality(S) + 1
<1> DEFINE U == S \cup {x}
<1>1. /\ IsFiniteSet(U)
      /\ Cardinality(U) = IF x \in S THEN Cardinality(S) ELSE Cardinality(S) + 1
  BY FS_AddElement
<1>2. T \in SUBSET U
  OBVIOUS
<1> HIDE DEF U
<1>3. IsFiniteSet(T) /\ Cardinality(T) <= Cardinality(U)
  BY <1>1, <1>2, FS_Subset
<1>4. Cardinality(T) \in Nat /\ Cardinality(S) \in Nat /\ Cardinality(U) \in Nat
  BY <1>1, <1>3, FS_CardinalityType
<1> QED  BY <1>1, <1>3, <1>4

(* Few elements are finitely many. *)
LEMMA FiveAreFinite ==
  ASSUME NEW a, NEW b, NEW c, NEW d, NEW e
  PROVE  IsFiniteSet({a, b, c, d, e})
<1>1. IsFiniteSet({a})
  BY FS_Singleton
<1>2. IsFiniteSet({a, b})
  BY <1>1, AddingOne
<1>3. IsFiniteSet({a, b, c})
  BY <1>2, AddingOne
<1>4. IsFiniteSet({a, b, c, d})
  BY <1>3, AddingOne
<1> QED  BY <1>4, AddingOne

(* So is what is found under finitely many names. *)
LEMMA NamedIsFinite ==
  ASSUME NEW names, IsFiniteSet(names), NEW severity
  PROVE  /\ IsFiniteSet(Named(severity, names))
         /\ Cardinality(Named(severity, names)) <= Cardinality(names)
<1> DEFINE f == [w \in names |-> [severity |-> severity, what |-> w]]
<1>1. f \in Surjection(names, Named(severity, names))
  BY DEF Surjection, Named
<1> QED BY <1>1, FS_Surjection

(* Every finding is one of these (quality.go:93-321). *)
LEMMA FindingsAreHints ==
  ASSUME NEW m \in Mail
  PROVE  Findings(m) \subseteq Hints
<1> USE DEF Found, Named, Hints, Criticals, Warnings, Infos, Elements
<1>1. ScoreMarketing(m) \cup ScoreSpam(m) \subseteq Hints
  BY DEF ScoreMarketing, ScoreSpam
<1>2. ScoreUnsafe(m) \cup ScoreCompatibility(m) \subseteq Hints
  BY DEF ScoreUnsafe, ScoreCompatibility, Mail
<1>3. ScoreImages(m) \subseteq Hints
  BY DEF ScoreImages
<1>4. ScoreLinks(m) \cup ScorePreheader(m) \cup ScoreMobile(m) \subseteq Hints
  BY DEF ScoreLinks, ScorePreheader, ScoreMobile
<1>5. \A c : Found(c, "critical", "empty") \cup Found(c, "warning", "fallback")
                 \subseteq Hints
  OBVIOUS
<1> QED
  <2> HIDE DEF Found, Hints
  <2> QED  BY <1>1, <1>2, <1>3, <1>4, <1>5 DEF Findings

(* They are finitely many. *)
LEMMA HintsAreFinite ==
  IsFiniteSet(Hints)
<1>1. IsFiniteSet(Criticals)
  BY FiveAreFinite DEF Criticals
<1>2. IsFiniteSet(Infos)
  <2>1. Infos = {"short", "short", "short", "short", "promotional"}
    BY DEF Infos
  <2> QED BY <2>1, FiveAreFinite
<1>3. IsFiniteSet(Warnings)
  <2>1. /\ IsFiniteSet({"script", "flex", "grid", "fixed", "svg"})
        /\ IsFiniteSet({"alt", "image-heavy", "broken", "http", "preheader"})
        /\ IsFiniteSet({"mobile", "spam", "punctuation", "fallback", "alt"})
    BY FiveAreFinite
  <2>2. Warnings \subseteq {"script", "flex", "grid", "fixed", "svg"}
          \cup ({"alt", "image-heavy", "broken", "http", "preheader"}
                  \cup {"mobile", "spam", "punctuation", "fallback", "alt"})
    BY DEF Warnings, Elements
  <2> QED BY <2>1, <2>2, FS_Union, FS_Subset
<1> QED BY <1>1, <1>2, <1>3, NamedIsFinite, FS_Union DEF Hints

(* A mail has at most two hints of the least kind: a short preheader and a *)
(* promotional word.                                                       *)
LEMMA FewInfos ==
  ASSUME NEW F \in SUBSET Hints
  PROVE  HowMany(F, "info") <= 2
<1>1. {f \in F : f.severity = "info"} \subseteq Named("info", Infos)
  BY DEF Hints, Named
<1>2. IsFiniteSet(Infos) /\ Cardinality(Infos) <= 2
  <2>1. IsFiniteSet({"short"}) /\ Cardinality({"short"}) = 1
    BY FS_Singleton
  <2> QED  BY <2>1, AddingOne DEF Infos
<1> QED BY <1>1, <1>2, NamedIsFinite, FS_Subset, FS_CardinalityType DEF HowMany

(* Findings of one kind are no more than all findings. *)
LEMMA FindingsAreCounted ==
  ASSUME NEW F \in SUBSET Hints, NEW s
  PROVE  /\ HowMany(F, s) \in Nat /\ Cardinality(F) \in Nat
         /\ HowMany(F, s) <= Cardinality(F)
BY HintsAreFinite, FS_Subset, FS_CardinalityType DEF HowMany

(* When one finding is exchanged for another, each kind has at most as     *)
(* many as before, less the one, more the other.                           *)
LEMMA Exchange ==
  ASSUME NEW F \in SUBSET Hints, NEW a \in F, NEW b,
         NEW G, G \subseteq (F \ {a}) \cup {b}, NEW s
  PROVE  HowMany(G, s) <= HowMany(F, s) - (IF a.severity = s THEN 1 ELSE 0)
                                        + (IF b.severity = s THEN 1 ELSE 0)
<1> DEFINE Of(H) == {f \in H : f.severity = s}
<1>1. IsFiniteSet(F)
  BY HintsAreFinite, FS_Subset
<1>2. IsFiniteSet(Of(F))
  BY <1>1, FS_Subset
<1>3. CASE b.severity = s
  <2>1. Of(G) \subseteq (Of(F) \ {a}) \cup {b}
    OBVIOUS
  <2>2. a \in Of(F) <=> a.severity = s
    OBVIOUS
  <2> HIDE DEF Of
  <2>3. /\ IsFiniteSet(Of(F) \ {a})
        /\ Cardinality(Of(F) \ {a})
             = Cardinality(Of(F)) - (IF a.severity = s THEN 1 ELSE 0)
    BY <1>2, <2>2, FS_RemoveElement, FS_CardinalityType
  <2>4. /\ IsFiniteSet((Of(F) \ {a}) \cup {b})
        /\ Cardinality((Of(F) \ {a}) \cup {b}) <= Cardinality(Of(F) \ {a}) + 1
    BY <2>3, AddingOne
  <2>5. Cardinality(Of(G)) <= Cardinality((Of(F) \ {a}) \cup {b})
    BY <2>1, <2>4, FS_Subset
  <2>6. Cardinality(Of(G)) \in Nat /\ Cardinality(Of(F)) \in Nat
    BY <1>2, <2>1, <2>4, FS_Subset, FS_CardinalityType
  <2>8. Cardinality((Of(F) \ {a}) \cup {b}) \in Nat
    BY <2>4, FS_CardinalityType
  <2>7. HowMany(G, s) = Cardinality(Of(G)) /\ HowMany(F, s) = Cardinality(Of(F))
    BY DEF HowMany, Of
  <2> QED BY <1>3, <2>3, <2>4, <2>5, <2>6, <2>7, <2>8
<1>4. CASE b.severity # s
  <2>1. Of(G) \subseteq Of(F) \ {a}
    BY <1>4
  <2>2. a \in Of(F) <=> a.severity = s
    OBVIOUS
  <2> HIDE DEF Of
  <2>3. /\ IsFiniteSet(Of(F) \ {a})
        /\ Cardinality(Of(F) \ {a})
             = Cardinality(Of(F)) - (IF a.severity = s THEN 1 ELSE 0)
    BY <1>2, <2>2, FS_RemoveElement, FS_CardinalityType
  <2>5. Cardinality(Of(G)) <= Cardinality(Of(F) \ {a})
    BY <2>1, <2>3, FS_Subset
  <2>6. /\ Cardinality(Of(G)) \in Nat /\ Cardinality(Of(F)) \in Nat
        /\ Cardinality(Of(F) \ {a}) \in Nat
    BY <1>2, <2>1, <2>3, FS_Subset, FS_CardinalityType
  <2>7. HowMany(G, s) = Cardinality(Of(G)) /\ HowMany(F, s) = Cardinality(Of(F))
    BY DEF HowMany, Of
  <2> QED BY <1>4, <2>3, <2>5, <2>6, <2>7
<1> QED BY <1>3, <1>4

(* Rounding to tenths never exchanges two scores, whichever halves go up. *)
LEMMA RoundingKeepsOrder ==
  ASSUME NEW x \in Int, NEW y \in Int, x <= y
  PROVE  Rounded(x) \in Int /\ Rounded(x) <= Rounded(y)
BY DEF Rounded

(* What a repair does to the findings: it takes some away, or puts one in  *)
(* the place of one that costs more.                                       *)
Lighter(G, F) ==
  \/ G \subseteq F
  \/ \E a \in F, b \in Hints :
       /\ <<a.severity, b.severity>> \in {<<"critical", "warning">>, <<"warning", "info">>}
       /\ G \subseteq (F \ {a}) \cup {b}

(* Then the score is no lower (quality.go:42-91). *)
LEMMA LighterIsBetter ==
  ASSUME NEW F \in SUBSET Hints, NEW G \in SUBSET Hints, Lighter(G, F)
  PROVE  ScoreOf(G) >= ScoreOf(F)
<1> DEFINE Count(H) == Deduct(HowMany(H, "critical"), HowMany(H, "warning"),
                              HowMany(H, "info"))
<1>1. \A s : HowMany(F, s) \in Nat /\ HowMany(G, s) \in Nat
  BY FindingsAreCounted
<1>2. Count(F) \in Int /\ Count(G) \in Int
  BY <1>1 DEF Deduct
<1>3. Count(F) <= Count(G)
  <2>1. CASE G \subseteq F
    <3>1. ASSUME NEW s PROVE HowMany(G, s) <= HowMany(F, s)
      BY <2>1, HintsAreFinite, FS_Subset DEF HowMany
    <3> QED  BY <1>1, <3>1 DEF Deduct
  <2>2. ASSUME NEW a \in F, NEW b \in Hints, G \subseteq (F \ {a}) \cup {b},
               a.severity = "critical", b.severity = "warning"
        PROVE  Count(F) <= Count(G)
    <3>1. /\ HowMany(G, "critical") <= HowMany(F, "critical") - 1
          /\ HowMany(G, "warning") <= HowMany(F, "warning") + 1
          /\ HowMany(G, "info") <= HowMany(F, "info")
      BY <1>1, <2>2, Exchange
    <3> QED  BY <1>1, <3>1 DEF Deduct
  <2>3. ASSUME NEW a \in F, NEW b \in Hints, G \subseteq (F \ {a}) \cup {b},
               a.severity = "warning", b.severity = "info"
        PROVE  Count(F) <= Count(G)
    <3>1. /\ HowMany(G, "critical") <= HowMany(F, "critical")
          /\ HowMany(G, "warning") <= HowMany(F, "warning") - 1
          /\ HowMany(G, "info") <= HowMany(F, "info") + 1
      BY <1>1, <2>3, Exchange
    <3> QED  BY <1>1, <3>1 DEF Deduct
  <2> QED  BY <2>1, <2>2, <2>3 DEF Lighter
<1> QED
  <2> HIDE DEF Count
  <2>1. Rounded(Count(F)) <= Rounded(Count(G)) /\ Rounded(Count(F)) \in Int
    BY <1>2, <1>3, RoundingKeepsOrder
  <2>2. Rounded(Count(G)) \in Int
    BY <1>2, RoundingKeepsOrder
  <2> QED  BY <2>1, <2>2 DEF ScoreOf, Count

(* No part of the findings has more than before, but for new in the place  *)
(* of gone.                                                                *)
Eased(n, m, gone, new) ==
  LET Fewer(now, then) == now \subseteq (then \ gone) \cup new
  IN  /\ Fewer(ScoreUnsafe(n), ScoreUnsafe(m))
      /\ Fewer(ScoreCompatibility(n), ScoreCompatibility(m))
      /\ Fewer(ScoreImages(n), ScoreImages(m))
      /\ Fewer(ScoreLinks(n), ScoreLinks(m))
      /\ Fewer(ScorePreheader(n), ScorePreheader(m))
      /\ Fewer(ScoreMobile(n), ScoreMobile(m))
      /\ Fewer(ScoreMarketing(n), ScoreMarketing(m))
      /\ Fewer(ScoreSpam(n), ScoreSpam(m))
      /\ n.html = m.html /\ (n.plainWords = 0 => m.plainWords = 0)

(* The findings that depend on whether there is a text at all. *)
Kept == {[severity |-> "critical", what |-> "empty"],
         [severity |-> "warning", what |-> "fallback"]}

(* Then the same holds of all the findings. *)
LEMMA EasedIsFewer ==
  ASSUME NEW m, NEW n, NEW gone, NEW new, Eased(n, m, gone, new), gone \cap Kept = {}
  PROVE  Findings(n) \subseteq (Findings(m) \ gone) \cup new
<1>1. /\ Found(~n.html /\ n.plainWords = 0, "critical", "empty")
           \subseteq Found(~m.html /\ m.plainWords = 0, "critical", "empty") \ gone
      /\ Found(n.plainWords = 0, "warning", "fallback")
           \subseteq Found(m.plainWords = 0, "warning", "fallback") \ gone
  BY DEF Found, Eased, Kept
<1> QED  BY <1>1 DEF Eased, Findings

(* What a mail of images is found to be, with few words and with more. *)
Imaged == [severity |-> "critical", what |-> "image-only"]
Heavy == [severity |-> "warning", what |-> "image-heavy"]

(* More words never make images weigh more: an image-only mail may become  *)
(* image-heavy.                                                            *)
LEMMA MoreWordsEase ==
  ASSUME NEW m \in Mail, NEW n \in Mail,
         n.images = m.images, n.altless = m.altless,
         \/ n.plainWords = m.plainWords /\ n.htmlWords >= m.htmlWords
         \/ n.plainWords >= m.plainWords /\ m.plainWords > 0
         \/ m.plainWords = 0 /\ n.plainWords = m.htmlWords /\ n.htmlWords = m.htmlWords
  PROVE  \/ ScoreImages(n) \subseteq ScoreImages(m)
         \/ /\ Imaged \in ScoreImages(m)
            /\ ScoreImages(n) \subseteq (ScoreImages(m) \ {Imaged}) \cup {Heavy}
<1> DEFINE Words(k) == IF k.plainWords > 0 THEN k.plainWords ELSE k.htmlWords
           Only(k) == k.images > 0 /\ Words(k) < 12
           Weighs(k) == k.images >= 5 /\ Words(k) < 18 * k.images
           Alt(k) == Found(k.altless > 0, "warning", "alt")
<1>1. Words(m) \in Nat /\ Words(n) \in Nat /\ m.images \in Nat /\ Words(m) <= Words(n)
  BY DEF Mail
<1>2. /\ ScoreImages(m) = Alt(m) \cup Found(Only(m), "critical", "image-only")
           \cup Found(~Only(m) /\ Weighs(m), "warning", "image-heavy")
      /\ ScoreImages(n) = Alt(n) \cup Found(Only(n), "critical", "image-only")
           \cup Found(~Only(n) /\ Weighs(n), "warning", "image-heavy")
  BY DEF ScoreImages
<1>3. Alt(n) = Alt(m) /\ Imaged \notin Alt(m)
  BY DEF Found, Imaged
<1>4. (Only(n) => Only(m)) /\ (Weighs(n) => Weighs(m))
  BY <1>1
<1> HIDE DEF Only, Weighs, Alt, Words
<1>5. CASE Only(m) /\ ~Only(n)
  BY <1>2, <1>3, <1>5 DEF Found, Imaged, Heavy
<1> QED  BY <1>2, <1>3, <1>4, <1>5 DEF Found

(* Fewer findings are lighter, *)
LEMMA EasedIsLighter ==
  ASSUME NEW m, NEW n, Eased(n, m, {}, {})
  PROVE  Lighter(Findings(n), Findings(m))
BY EasedIsFewer DEF Lighter

(* and so are findings of which one was exchanged for a lesser one. *)
LEMMA ExchangeIsLighter ==
  ASSUME NEW m, NEW n, NEW a \in Findings(m), NEW b \in Hints, a \notin Kept,
         <<a.severity, b.severity>> \in {<<"critical", "warning">>, <<"warning", "info">>},
         Eased(n, m, {a}, {b})
  PROVE  Lighter(Findings(n), Findings(m))
BY EasedIsFewer DEF Lighter

(* Each part of the findings has names of its own.                         *)
LEMMA PartsAreNamed ==
  ASSUME NEW m \in Mail
  PROVE  /\ \A f \in ScoreUnsafe(m) : f.what = "unsafe"
         /\ \A f \in ScoreCompatibility(m) : f.what \in Elements
         /\ \A f \in ScoreImages(m) : f.what \in {"alt", "image-only", "image-heavy"}
         /\ \A f \in ScoreLinks(m) : f.what \in {"javascript", "broken", "http"}
         /\ \A f \in ScorePreheader(m) : f.what \in {"preheader", "short"}
         /\ \A f \in ScoreMobile(m) : f.what = "mobile"
         /\ \A f \in ScoreMarketing(m) : f.what = "unsubscribe"
         /\ \A f \in ScoreSpam(m) : f.what \in {"spam", "promotional", "punctuation"}
<1> USE DEF Found
<1>1. \A f \in ScoreCompatibility(m) : f.what \in Elements
  BY DEF ScoreCompatibility, Mail
<1>2. \A f \in ScoreImages(m) : f.what \in {"alt", "image-only", "image-heavy"}
  BY DEF ScoreImages
<1>3. \A f \in ScoreLinks(m) : f.what \in {"javascript", "broken", "http"}
  BY DEF ScoreLinks
<1>4. \A f \in ScorePreheader(m) : f.what \in {"preheader", "short"}
  BY DEF ScorePreheader
<1>5. \A f \in ScoreSpam(m) : f.what \in {"spam", "promotional", "punctuation"}
  BY DEF ScoreSpam
<1> QED  BY <1>1, <1>2, <1>3, <1>4, <1>5 DEF ScoreUnsafe, ScoreMobile, ScoreMarketing

(* Whatever is put right, the findings are lighter (quality.go:144-321). *)
LEMMA RepairsLighten ==
  ASSUME NEW m \in Mail, NEW n \in Repairs(m)
  PROVE  n \in Mail /\ Lighter(Findings(n), Findings(m))
<1> USE DEF Mail
<1> DEFINE Better == n \in Mail /\ Lighter(Findings(n), Findings(m))
<1>1. ASSUME NEW e \in m.elements, n = [m EXCEPT !.elements = @ \ {e}]
      PROVE  Better
  <2>1. n \in Mail /\ Eased(n, m, {}, {})
    BY <1>1 DEF Eased, ScoreUnsafe, ScoreCompatibility, ScoreImages, ScoreLinks,
       ScorePreheader, ScoreMobile, ScoreMarketing, ScoreSpam, Found
  <2> QED  BY <2>1, EasedIsLighter
<1>2. ASSUME NEW l \in m.links, n = [m EXCEPT !.links = @ \ {l}]
      PROVE  Better
  <2>1. n \in Mail /\ Eased(n, m, {}, {})
    BY <1>2 DEF Eased, ScoreUnsafe, ScoreCompatibility, ScoreImages, ScoreLinks,
       ScorePreheader, ScoreMobile, ScoreMarketing, ScoreSpam, Found
  <2> QED  BY <2>1, EasedIsLighter
<1>3. CASE n = [m EXCEPT !.altless = 0]
  <2>1. n \in Mail /\ Eased(n, m, {}, {})
    BY <1>3 DEF Eased, ScoreUnsafe, ScoreCompatibility, ScoreImages, ScoreLinks,
       ScorePreheader, ScoreMobile, ScoreMarketing, ScoreSpam, Found
  <2> QED  BY <2>1, EasedIsLighter
<1>4. CASE n = [m EXCEPT !.media = TRUE]
  <2>1. n \in Mail
    BY <1>4
  <2>2. Eased(n, m, {}, {})
    BY <1>4, ZenonT(60)
       DEF Eased, ScoreUnsafe, ScoreCompatibility, ScoreImages, ScoreLinks,
       ScorePreheader, ScoreMobile, ScoreMarketing, ScoreSpam, Found
  <2> QED  BY <2>1, <2>2, EasedIsLighter
<1>5. CASE n = [m EXCEPT !.unsubscribe = TRUE]
  <2>1. n \in Mail
    BY <1>5
  <2>2. Eased(n, m, {}, {})
    BY <1>5, ZenonT(60)
       DEF Eased, ScoreUnsafe, ScoreCompatibility, ScoreImages, ScoreLinks,
       ScorePreheader, ScoreMobile, ScoreMarketing, ScoreSpam, Found
  <2> QED  BY <2>1, <2>2, EasedIsLighter
<1>6. CASE n = [m EXCEPT !.loud = FALSE]
  <2>1. n \in Mail
    BY <1>6
  <2>2. Eased(n, m, {}, {})
    BY <1>6, ZenonT(60)
       DEF Eased, ScoreUnsafe, ScoreCompatibility, ScoreImages, ScoreLinks,
       ScorePreheader, ScoreMobile, ScoreMarketing, ScoreSpam, Found
  <2> QED  BY <2>1, <2>2, EasedIsLighter
<1>7. CASE n = [m EXCEPT !.preheader = TRUE]
  <2> DEFINE a == [severity |-> "warning", what |-> "preheader"]
             b == [severity |-> "info", what |-> "short"]
  <2>1. CASE ~m.preheader /\ m.html
    <3>1. a \in Findings(m) /\ a \notin Kept /\ b \in Hints
      BY <2>1 DEF Findings, ScorePreheader, Found, Kept, Hints, Named, Infos
    <3>2. /\ n \in Mail /\ n.html = m.html /\ n.plainWords = m.plainWords
          /\ n.htmlWords = m.htmlWords /\ n.elements = m.elements
          /\ n.images = m.images /\ n.altless = m.altless /\ n.links = m.links
          /\ n.width = m.width /\ n.media = m.media /\ n.marketing = m.marketing
          /\ n.unsubscribe = m.unsubscribe /\ n.spam = m.spam /\ n.loud = m.loud
          /\ n.preheader
      BY <1>7
    <3>3. /\ ScoreUnsafe(n) = ScoreUnsafe(m)
          /\ ScoreCompatibility(n) = ScoreCompatibility(m)
          /\ ScoreImages(n) = ScoreImages(m)
          /\ ScoreLinks(n) = ScoreLinks(m)
          /\ ScoreMobile(n) = ScoreMobile(m)
          /\ ScoreMarketing(n) = ScoreMarketing(m)
          /\ ScoreSpam(n) = ScoreSpam(m)
      BY <3>2 DEF ScoreUnsafe, ScoreCompatibility, ScoreImages, ScoreLinks,
         ScoreMobile, ScoreMarketing, ScoreSpam
    <3>4. ScorePreheader(n) \subseteq {b}
      BY <3>2 DEF ScorePreheader, Found
    <3>5. a.what = "preheader" /\ a.severity = "warning" /\ b.severity = "info"
      OBVIOUS
    <3> HIDE DEF a, b, Mail
    <3>6. Eased(n, m, {a}, {b})
      BY <3>2, <3>3, <3>4, <3>5, PartsAreNamed DEF Eased, Elements
    <3> QED  BY <3>1, <3>2, <3>5, <3>6, ExchangeIsLighter
  <2>2. CASE m.preheader
    <3>1. n = m
      BY <1>7, <2>2
    <3> QED  BY <3>1 DEF Lighter
  <2>3. CASE ~m.html
    <3>1. Findings(n) = Findings(m)
      BY <1>7, <2>3 DEF Findings, ScoreMarketing, ScoreSpam
    <3> QED  BY <1>7, <3>1 DEF Lighter
  <2> QED  BY <2>1, <2>2, <2>3
<1>8. CASE n = [m EXCEPT !.spam = IF @ = 0 THEN 0 ELSE @ - 1]
  <2> DEFINE a == [severity |-> "warning", what |-> "spam"]
             b == [severity |-> "info", what |-> "promotional"]
  <2>1. CASE m.spam = 3
    <3>1. a \in Findings(m) /\ a \notin Kept /\ b \in Hints
      BY <2>1 DEF Findings, ScoreSpam, Found, Kept, Hints, Named, Infos
    <3>2. n \in Mail /\ Eased(n, m, {a}, {b})
      BY <1>8, <2>1 DEF Eased, ScoreUnsafe, ScoreCompatibility, ScoreImages, ScoreLinks,
         ScorePreheader, ScoreMobile, ScoreMarketing, ScoreSpam, Found, Elements
    <3> QED  BY <3>1, <3>2, ExchangeIsLighter
  <2>2. CASE m.spam # 3
    <3>1. n \in Mail /\ Eased(n, m, {}, {})
      BY <1>8, <2>2 DEF Eased, ScoreUnsafe, ScoreCompatibility, ScoreImages, ScoreLinks,
         ScorePreheader, ScoreMobile, ScoreMarketing, ScoreSpam, Found
    <3> QED  BY <3>1, EasedIsLighter
  <2> QED  BY <2>1, <2>2
<1>9. ASSUME \/ n = [m EXCEPT !.htmlWords = @ + 1]
             \/ n = [m EXCEPT !.plainWords = IF @ = 0 THEN m.htmlWords ELSE @ + 1]
      PROVE  Better
  <2>1. /\ n \in Mail /\ n.html = m.html
        /\ n.images = m.images /\ n.altless = m.altless
        /\ n.plainWords = 0 => m.plainWords = 0
        /\ n.htmlWords >= m.htmlWords
    BY <1>9
  <2>2. \/ n.plainWords = m.plainWords /\ n.htmlWords >= m.htmlWords
        \/ n.plainWords >= m.plainWords /\ m.plainWords > 0
        \/ m.plainWords = 0 /\ n.plainWords = m.htmlWords /\ n.htmlWords = m.htmlWords
    BY <1>9
  <2>3. /\ ScoreUnsafe(n) = ScoreUnsafe(m)
        /\ ScoreCompatibility(n) = ScoreCompatibility(m)
        /\ ScoreLinks(n) = ScoreLinks(m)
        /\ ScoreMobile(n) = ScoreMobile(m)
        /\ ScoreMarketing(n) = ScoreMarketing(m)
        /\ ScoreSpam(n) = ScoreSpam(m)
        /\ ScorePreheader(n) \subseteq ScorePreheader(m)
    BY <1>9 DEF ScoreUnsafe, ScoreCompatibility, ScoreLinks, ScorePreheader,
       ScoreMobile, ScoreMarketing, ScoreSpam, Found
  <2>4. CASE ~m.html
    <3>1. Findings(n) \subseteq Findings(m)
      BY <2>1, <2>3, <2>4 DEF Findings, Found
    <3> QED  BY <2>1, <3>1 DEF Lighter
  <2>5. CASE ScoreImages(n) \subseteq ScoreImages(m)
    <3>1. Eased(n, m, {}, {})
      BY <2>1, <2>3, <2>5 DEF Eased
    <3> QED  BY <2>1, <3>1, EasedIsLighter
  <2>6. CASE /\ m.html /\ Imaged \in ScoreImages(m)
             /\ ScoreImages(n) \subseteq (ScoreImages(m) \ {Imaged}) \cup {Heavy}
    <3>1. Imaged \in Findings(m) /\ Imaged \notin Kept /\ Heavy \in Hints
      BY <2>6 DEF Findings, Kept, Hints, Named, Warnings, Imaged, Heavy
    <3>2. \A f : f.what # "image-only" => f # Imaged
      BY DEF Imaged
    <3>3. /\ Imaged \notin ScoreUnsafe(m) \cup ScoreCompatibility(m)
          /\ Imaged \notin ScoreLinks(m) \cup ScorePreheader(m)
          /\ Imaged \notin ScoreMobile(m) \cup ScoreMarketing(m) \cup ScoreSpam(m)
      <4>1. Imaged.what = "image-only"
        BY DEF Imaged
      <4> HIDE DEF Mail
      <4> QED  BY <4>1, PartsAreNamed DEF Elements
    <3>4. Eased(n, m, {Imaged}, {Heavy})
      BY <2>1, <2>3, <2>6, <3>3 DEF Eased
    <3> QED  BY <2>1, <3>1, <3>4, ExchangeIsLighter DEF Imaged, Heavy
  <2>7. n.images = m.images /\ n.altless = m.altless
    BY <2>1
  <2> HIDE DEF Mail
  <2> QED  BY <2>1, <2>2, <2>4, <2>5, <2>6, MoreWordsEase
<1> QED  BY <1>1, <1>2, <1>3, <1>4, <1>5, <1>6, <1>7, <1>8, <1>9 DEF Repairs

(* So every grade is just: of any mail, with any scores rounded up. *)
LEMMA GradesAreJust ==
  ASSUME NEW m \in Mail
  PROVE  GradeIsJust(m)
<1> DEFINE F == Findings(m)
           c == HowMany(F, "critical")
           w == HowMany(F, "warning")
           i == HowMany(F, "info")
<1>1. F \in SUBSET Hints
  BY FindingsAreHints
<1>2. c \in Nat /\ w \in Nat /\ i \in 0 .. 2
  BY <1>1, FindingsAreCounted, FewInfos
<1>3. Cardinality(F) \in Nat /\ w <= Cardinality(F)
  BY <1>1, FindingsAreCounted
<1> HIDE DEF F, c, w, i
<1>4. /\ RagStatus(ScoreOf(F)) = "Green" => c = 0 /\ w <= 2
      /\ RagStatus(ScoreOf(F)) = "Red" => 2 * c + w >= 5
      /\ RagStatus(ScoreOf(F)) \in {"Green", "Amber", "Red"}
  <2>1. ScoreOf(F) = Rounded(1000 - 220 * c - 90 * w - 25 * i)
    BY DEF ScoreOf, Deduct, c, w, i
  <2> QED  BY <1>2, <2>1 DEF Rounded, RagStatus
<1>5. /\ Score(m).status = RagStatus(ScoreOf(F))
      /\ Score(m).score = ScoreOf(F)
      /\ Score(m).summary = SummaryFor(RagStatus(ScoreOf(F)), c, Cardinality(F) - c)
  BY DEF Score, F, c
<1>6. Score(m).summary = "fine" <=> Score(m).status = "Green"
  BY <1>2, <1>3, <1>4, <1>5 DEF SummaryFor
<1>7. ASSUME NEW n \in Repairs(m)
      PROVE  Score(n).score >= Score(m).score
  <2>1. n \in Mail /\ Lighter(Findings(n), F)
    BY RepairsLighten DEF F
  <2>2. Findings(n) \in SUBSET Hints
    BY <2>1, FindingsAreHints
  <2>3. Score(n).score = ScoreOf(Findings(n))
    BY DEF Score
  <2> QED  BY <1>1, <1>5, <2>1, <2>2, <2>3, LighterIsBetter
<1> QED  BY <1>4, <1>5, <1>6, <1>7 DEF GradeIsJust, F, c, w
-----------------------------------------------------------------------------
(* What is asked is one of the requests. *)
Requested ==
  \/ asked = Idle
  \/ \E c \in Paged : asked = [about |-> "pages", with |-> c]
  \/ \E c \in Shown : asked = [about |-> "folders", with |-> c]
  \/ \E m \in Scored : asked = [about |-> "quality", with |-> m]
  \/ \E c \in Released : asked = [about |-> "release", with |-> c]

(* Requests come one after the other, each as it was sent. *)
LEMMA RequestsAreAsked == Spec => []Requested
<1>1. Init => Requested
  BY DEF Init, Requested
<1>2. Requested /\ [Next]_asked => Requested'
  <2> SUFFICES ASSUME Requested, [Next]_asked
               PROVE  Requested'
    OBVIOUS
  <2>1. CASE AskPages
    BY <2>1 DEF AskPages, Requested
  <2>2. CASE AskFolders
    BY <2>2 DEF AskFolders, Requested
  <2>3. CASE AskQuality
    BY <2>3 DEF AskQuality, Requested
  <2>4. CASE AskRelease
    BY <2>4 DEF AskRelease, Requested
  <2>5. CASE Answered
    BY <2>5 DEF Answered, Requested
  <2>6. CASE UNCHANGED asked
    BY <2>6 DEF Requested
  <2> QED  BY <2>1, <2>2, <2>3, <2>4, <2>5, <2>6 DEF Next
<1> QED  BY <1>1, <1>2, PTL DEF Spec

(* So a request about something came from the requests about it. *)
LEMMA RequestsAreAbout ==
  ASSUME Requested
  PROVE  /\ asked.about = "pages" => asked.with \in Paged
         /\ asked.about = "folders" => asked.with \in Shown
         /\ asked.about = "quality" => asked.with \in Scored
         /\ asked.about = "release" => asked.with \in Released
<1>1. CASE asked = Idle
  BY <1>1 DEF Idle
<1>2. CASE asked # Idle
  BY <1>2 DEF Requested
<1> QED  BY <1>1, <1>2

(* A client that turns the pages while mail arrives misses no message: the *)
(* order by time and id is total, so what arrives moves all that was there *)
(* by the same number of places (v2.go:171-223, 1046-1062, 1121-1139,      *)
(* 1257-1299).                                                             *)
THEOREM PagesAreComplete == Spec => []PagingMissesNothing
<1>1. Requested => PagingMissesNothing
  <2> SUFFICES ASSUME Requested, asked.about = "pages"
               PROVE  PagesMissNothing(asked.with.q, asked.with.before,
                                       asked.with.after, asked.with.limit)
    BY DEF PagingMissesNothing
  <2>1. asked.with \in Paged
    BY RequestsAreAbout
  <2>2. \A c \in Paged : /\ IsListing(c.before) /\ IsListing(c.after)
                         /\ Arrived(ToSet(c.before), ToSet(c.after))
                         /\ c.q.order \in {"asc", "desc"} /\ c.limit \in Int
    BY AnswersAssumption
  <2> QED  BY <2>1, <2>2, NothingIsMissed
<1> QED  BY <1>1, RequestsAreAsked, PTL

(* Every mail is filed and shown as it was sent, and the folders shown     *)
(* agree with the listings behind them (session.go:146-156, 206-329,       *)
(* v2.go:380-398, 1064-1237).                                              *)
THEOREM MailIsFiledAsSent == Spec => []FoldersMatchListings
<1>1. ASSUME NEW c \in Shown
      PROVE  LET messages == [i \in DOMAIN c.sent |-> Filed(c.sent[i])]
             IN  /\ \A i \in DOMAIN c.sent : FiledAsSent(c.sent[i])
                 /\ FoldersAgree(messages, c.defaults)
  <2> DEFINE sent == c.sent
             M == {Filed(s) : s \in ToSet(sent)}
             messages == [i \in DOMAIN sent |-> Filed(sent[i])]
  <2>1. /\ sent \in Seq(ToSet(sent)) /\ c.defaults \in Seq(Spellings)
        /\ \A s \in ToSet(sent) : IsSent(s)
    BY AnswersAssumption
  <2> HIDE DEF sent
  <2>2. /\ DOMAIN sent = 1 .. Len(sent) /\ Len(sent) \in Nat
        /\ \A i \in DOMAIN sent : sent[i] \in ToSet(sent)
    BY <2>1
  <2>3. \A i \in DOMAIN sent : IsSent(sent[i])
    BY <2>1, <2>2
  <2>4. /\ messages \in [1 .. Len(sent) -> M]
        /\ \A i \in 1 .. Len(sent) : messages[i] = Filed(sent[i])
    BY <2>2
  <2>5. messages \in Seq(M) /\ DOMAIN messages = 1 .. Len(sent)
    <3> HIDE DEF messages, M
    <3> QED  BY <2>2, <2>4
  <2> HIDE DEF messages, M
  <2>6. \A i \in DOMAIN messages : messages[i].folder \in Spellings
    BY <2>2, <2>3, <2>4, <2>5, MailIsFiled
  <2>7. FoldersAgree(messages, c.defaults)
    BY <2>1, <2>5, <2>6, FoldersDoAgree
  <2>8. \A i \in DOMAIN sent : FiledAsSent(sent[i])
    BY <2>3, AllIsFiledAsSent
  <2> QED  BY <2>7, <2>8 DEF sent, messages
<1>2. Requested => FoldersMatchListings
  <2> SUFFICES ASSUME Requested, asked.about = "folders"
               PROVE  LET sent == asked.with.sent
                          messages == [i \in DOMAIN sent |-> Filed(sent[i])]
                      IN  /\ \A i \in DOMAIN sent : FiledAsSent(sent[i])
                          /\ FoldersAgree(messages, asked.with.defaults)
    BY DEF FoldersMatchListings
  <2>1. asked.with \in Shown
    BY RequestsAreAbout
  <2> QED  BY <1>1, <2>1
<1> QED  BY <1>2, RequestsAreAsked, PTL

(* No mail is graded better than its findings, or worse for a repair, at   *)
(* any threshold and however the halves are rounded (quality.go:42-124,    *)
(* 144-192, 231-321, 372-384).                                             *)
THEOREM QualityIsFair == Spec => []QualityIsJust
<1>1. Requested => QualityIsJust
  <2> SUFFICES ASSUME Requested, asked.about = "quality"
               PROVE  GradeIsJust(asked.with)
    BY DEF QualityIsJust
  <2>1. asked.with \in Mail
    BY RequestsAreAbout, AnswersAssumption
  <2> QED  BY <2>1, GradesAreJust
<1> QED  BY <1>1, RequestsAreAsked, PTL

(* What the test of an outgoing server promises, a release through it      *)
(* keeps, and what a release answers is true (v2.go:482-510,               *)
(* v1.go:261-326).                                                         *)
THEOREM ReleasesKeepPromises == Spec => []ReleaseKeepsPromise
<1>1. Requested => ReleaseKeepsPromise
  <2> SUFFICES ASSUME Requested, asked.about = "release"
               PROVE  TestPredictsRelease(asked.with.map, asked.with.list,
                                          asked.with.asked, asked.with.save,
                                          asked.with.relay)
    BY DEF ReleaseKeepsPromise
  <2>1. asked.with \in Released
    BY RequestsAreAbout
  <2>2. \A c \in Released :
          /\ DOMAIN c.map \subseteq DOMAIN Trim /\ c.map \in [DOMAIN c.map -> Server]
          /\ c.list \in Seq(Server) /\ c.asked \in Server /\ c.save \in BOOLEAN
    BY AnswersAssumption
  <2> QED  BY <2>1, <2>2, TestsPredictReleases
<1> QED  BY <1>1, RequestsAreAsked, PTL
=============================================================================
