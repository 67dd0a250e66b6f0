------------------------- MODULE OutgoingSmtpProofs --------------------------
(***************************************************************************)
(* Theorems about outgoing servers, for any names, servers, lists, maps    *)
(* and relays: what the settings make of them, and what a test of one says *)
(* about a release through it.                                             *)
(***************************************************************************)
EXTENDS OutgoingSmtp, WellFoundedInduction, TLAPS

(* A set of numbers that is not empty has a least one: the induction of    *)
(* these proofs, by the well-foundedness of < on Nat.                      *)
LEMMA LeastExists ==
  ASSUME NEW T \in SUBSET Nat, T # {}
  PROVE  \E x \in T : \A y \in T : x <= y
<1>1. PICK x \in T : \A y \in T : ~(<<y, x>> \in OpToRel(<, Nat))
  BY NatLessThanWellFounded, WFMin
<1>2. \A y \in T : ~(y < x)
  BY <1>1 DEF OpToRel
<1> QED  BY <1>2

(* A bounded set of numbers that is not empty has a greatest, which Max    *)
(* is.                                                                     *)
LEMMA GreatestExists ==
  ASSUME NEW T \in SUBSET Nat, T # {}, NEW n \in Nat, \A x \in T : x <= n
  PROVE  Max(T) \in T /\ \A y \in T : y <= Max(T)
<1> DEFINE D == {k \in Nat : n - k \in T}
<1>1. D \in SUBSET Nat /\ \A x \in T : n - x \in D
  OBVIOUS
<1>2. PICK k \in D : \A j \in D : k <= j
  BY <1>1, LeastExists
<1>3. n - k \in T /\ \A y \in T : y <= n - k
  BY <1>1, <1>2
<1> QED  BY <1>3 DEF Max

-----------------------------------------------------------------------------
(* A server as normalizeOutgoingSMTPServer leaves it. *)
Normal(s) ==
  /\ s \in Server
  /\ "" \notin {s.name, s.host, s.port}
  /\ Trim[s.name] = s.name
  /\ s.mechanism \in {"NONE", "PLAIN", "CRAMMD5"}
  /\ s.mechanism = "NONE" => s.account = ""

(* It leaves every server so that it does not refuse. *)
LEMMA NormalizedIsNormal ==
  ASSUME NEW fallback \in DOMAIN Trim, NEW s \in Server, Normalize(fallback, s) # Invalid
  PROVE  Normal(Normalize(fallback, s))
<1> DEFINE name == IF Trim[s.name] = "" THEN Trim[fallback] ELSE Trim[s.name]
           known == Upper[s.mechanism] \in {"PLAIN", "CRAMMD5"}
           mechanism == IF known THEN Upper[s.mechanism] ELSE "NONE"
           account == IF known THEN s.account ELSE ""
           t == [s EXCEPT !.name = name, !.mechanism = mechanism,
                          !.account = account]
<1>1. Normalize(fallback, s) = t /\ "" \notin {name, s.host, s.port}
  BY DEF Normalize
<1>2. name \in DOMAIN Trim /\ Trim[name] = name
  BY OutgoingAssumption DEF Server
<1>3. \A m \in {"NONE", "PLAIN", "CRAMMD5"} : m \in DOMAIN Upper
  BY OutgoingAssumption
<1> HIDE DEF name
<1>4. /\ mechanism \in DOMAIN Upper /\ account \in Texts
      /\ mechanism \in {"NONE", "PLAIN", "CRAMMD5"}
      /\ mechanism = "NONE" => account = ""
  <2>1. "" \in Texts
    BY OutgoingAssumption
  <2>2. CASE known
    BY <1>3, <2>2 DEF Server
  <2>3. CASE ~known
    BY <1>3, <2>1, <2>3
  <2> QED  BY <2>2, <2>3
<1> HIDE DEF mechanism, account
<1>5. t \in Server
  BY <1>2, <1>4 DEF Server
<1>6. /\ t.name = name /\ t.host = s.host /\ t.port = s.port
      /\ t.mechanism = mechanism /\ t.account = account
  BY DEF Server
<1> HIDE DEF t
<1> QED  BY <1>1, <1>2, <1>4, <1>5, <1>6 DEF Normal

(* And leaves such a server alone (config.go). *)
LEMMA NormalStays ==
  ASSUME NEW s, Normal(s)
  PROVE  Normalize(s.name, s) = s
<1> DEFINE t == [s EXCEPT !.name = s.name,
                          !.mechanism = s.mechanism,
                          !.account = s.account]
<1>1. Trim[s.name] = s.name /\ "" \notin {s.name, s.host, s.port}
  BY DEF Normal
<1>2. Upper[s.mechanism] = s.mechanism
  BY OutgoingAssumption DEF Normal
<1>3. t = s
  BY DEF Normal, Server
<1>4. CASE s.mechanism = "NONE"
  BY <1>1, <1>2, <1>3, <1>4 DEF Normalize, Normal
<1>5. CASE s.mechanism # "NONE"
  BY <1>1, <1>2, <1>3, <1>5 DEF Normalize, Normal
<1> QED  BY <1>4, <1>5

(* A map of such servers, each under its own name. *)
NormalMap(map) ==
  /\ map = [n \in DOMAIN map |-> map[n]]
  /\ \A n \in DOMAIN map : Normal(map[n]) /\ map[n].name = n

(* SanitizeOutgoingSMTPMap leaves it alone. *)
LEMMA NormalMapStays ==
  ASSUME NEW map, NormalMap(map)
  PROVE  SanitizeMap(map) = {map}
<1> DEFINE normal == Valid({Normalize(n, map[n]) : n \in DOMAIN map})
           names == {s.name : s \in normal}
<1>1. \A n \in DOMAIN map : Normalize(n, map[n]) = map[n]
  BY NormalStays DEF NormalMap
<1>2. \A n \in DOMAIN map : map[n] # Invalid
  BY OutgoingAssumption DEF NormalMap, Normal
<1>3. normal = {map[n] : n \in DOMAIN map}
  BY <1>1, <1>2 DEF Valid
<1> HIDE DEF normal
<1>4. names = DOMAIN map
  BY <1>3 DEF NormalMap
<1>5. SanitizeMap(map) = {f \in [names -> normal] : \A n \in names : f[n].name = n}
  BY DEF SanitizeMap, normal
<1> HIDE DEF names
<1>6. map \in [names -> normal] /\ \A n \in names : map[n].name = n
  BY <1>3, <1>4 DEF NormalMap
<1>7. ASSUME NEW f \in [names -> normal], \A n \in names : f[n].name = n
      PROVE  f = map
  <2>1. \A n \in names : f[n] = map[n]
    BY <1>3, <1>4, <1>7 DEF NormalMap
  <2> QED  BY <1>4, <2>1 DEF NormalMap
<1> QED  BY <1>5, <1>6, <1>7

(* What it leaves is such a map, whichever of two names that are one it    *)
(* keeps.                                                                  *)
LEMMA SanitizedIsNormal ==
  ASSUME NEW map, DOMAIN map \subseteq DOMAIN Trim, map \in [DOMAIN map -> Server],
         NEW kept \in SanitizeMap(map)
  PROVE  /\ NormalMap(kept)
         /\ \A n \in DOMAIN kept : \E m \in DOMAIN map : kept[n] = Normalize(m, map[m])
<1> DEFINE normal == Valid({Normalize(n, map[n]) : n \in DOMAIN map})
           names == {s.name : s \in normal}
<1>1. \A s \in normal : Normal(s)
  BY NormalizedIsNormal DEF Valid
<1>2. kept \in [names -> normal] /\ \A n \in names : kept[n].name = n
  BY DEF SanitizeMap
<1>3. \A s \in normal : \E m \in DOMAIN map : s = Normalize(m, map[m])
  BY DEF Valid
<1> HIDE DEF normal, names
<1> QED  BY <1>1, <1>2, <1>3 DEF NormalMap

(* So is what OutgoingSMTPMapFromList makes of any list. *)
LEMMA ListedIsNormal ==
  ASSUME NEW list \in Seq(Server)
  PROVE  /\ NormalMap(MapFromList(list))
         /\ \A n \in DOMAIN MapFromList(list) :
              \E i \in DOMAIN list : MapFromList(list)[n] = Normalize("", list[i])
<1> DEFINE normal == [i \in DOMAIN list |-> Normalize("", list[i])]
           valid == {i \in DOMAIN list : normal[i] # Invalid}
           names == {normal[i].name : i \in valid}
           Of(n) == {i \in valid : normal[i].name = n}
<1>1. MapFromList(list) = [n \in names |-> normal[Max(Of(n))]]
  BY DEF MapFromList
<1>2. \A i \in valid : Normal(normal[i])
  <2>1. "" \in DOMAIN Trim
    BY OutgoingAssumption
  <2>2. \A i \in DOMAIN list : list[i] \in Server
    OBVIOUS
  <2> QED  BY <2>1, <2>2, NormalizedIsNormal
<1>3. \A i \in valid : i \in DOMAIN list /\ normal[i] = Normalize("", list[i])
  OBVIOUS
<1> HIDE DEF normal
<1>4. Len(list) \in Nat /\ \A i \in valid : i \in Nat /\ i <= Len(list)
  <2>1. DOMAIN list = 1 .. Len(list) /\ Len(list) \in Nat
    OBVIOUS
  <2> QED  BY <2>1
<1> HIDE DEF valid
<1>5. ASSUME NEW n \in names
      PROVE  /\ Normal(normal[Max(Of(n))]) /\ normal[Max(Of(n))].name = n
             /\ \E i \in DOMAIN list : normal[Max(Of(n))] = Normalize("", list[i])
  <2>1. Of(n) \subseteq valid /\ Of(n) # {}
    OBVIOUS
  <2>2. \A i \in Of(n) : normal[i].name = n
    OBVIOUS
  <2> HIDE DEF Of
  <2>3. Max(Of(n)) \in Of(n)
    <3>1. Of(n) \in SUBSET Nat /\ \A i \in Of(n) : i <= Len(list)
      BY <1>4, <2>1, Zenon
    <3> QED  BY <1>4, <2>1, <3>1, GreatestExists
  <2> DEFINE last == Max(Of(n))
  <2>4. last \in valid /\ normal[last].name = n
    BY <2>1, <2>2, <2>3
  <2> HIDE DEF last
  <2>5. Normal(normal[last]) /\ last \in DOMAIN list /\ normal[last] = Normalize("", list[last])
    BY <1>2, <1>3, <2>4
  <2>6. /\ Normal(normal[last]) /\ normal[last].name = n
        /\ \E i \in DOMAIN list : normal[last] = Normalize("", list[i])
    BY <2>4, <2>5
  <2> QED  BY <2>6 DEF last
<1> DEFINE map == MapFromList(list)
           LastOf(n) == normal[Max(Of(n))]
<1>6. map = [n \in names |-> LastOf(n)]
  BY <1>1
<1>7. \A n \in names : /\ Normal(LastOf(n)) /\ LastOf(n).name = n
                       /\ \E i \in DOMAIN list : LastOf(n) = Normalize("", list[i])
  BY <1>5
<1> HIDE DEF names, LastOf, map
<1>8. /\ DOMAIN map = names
      /\ map = [n \in DOMAIN map |-> map[n]]
      /\ \A n \in names : map[n] = LastOf(n)
  BY <1>6
<1>9. \A n \in DOMAIN map : Normal(map[n]) /\ map[n].name = n
  BY <1>7, <1>8
<1>10. ASSUME NEW n \in DOMAIN map
       PROVE  \E i \in DOMAIN list : map[n] = Normalize("", list[i])
  <2>1. n \in names /\ map[n] = LastOf(n)
    BY <1>8
  <2>2. PICK i \in DOMAIN list : LastOf(n) = Normalize("", list[i])
    BY <1>7, <2>1
  <2>3. map[n] = Normalize("", list[i])
    BY <2>1, <2>2
  <2> QED  BY <2>3
<1>11. NormalMap(map)
  BY <1>8, <1>9, Zenon DEF NormalMap
<1> QED  BY <1>10, <1>11 DEF map

(* The test of a server that was saved tries the server itself             *)
(* (v2.go:482-510).                                                        *)
LEMMA NormalTests ==
  ASSUME NEW s, Normal(s), TestConfig(s) # Invalid
  PROVE  TestConfig(s) = s
<1> DEFINE t == [s EXCEPT !.mechanism = s.mechanism, !.account = s.account]
<1>1. t = s
  BY DEF Normal, Server
<1>2. Upper[s.mechanism] = s.mechanism /\ s.mechanism # ""
  BY OutgoingAssumption DEF Normal
<1>3. CASE s.mechanism = "NONE"
  BY <1>1, <1>2, <1>3 DEF TestConfig, Normal
<1>4. CASE s.mechanism # "NONE"
  BY <1>1, <1>2, <1>4 DEF TestConfig
<1> QED  BY <1>3, <1>4

(* What a release answers is what became of the message, and it adds at    *)
(* most the server it was given to save.                                   *)
LEMMA ReleasesAreTrue ==
  ASSUME NEW map, NEW given, NEW save \in BOOLEAN, NEW relay
  PROVE  LET released == Release(map, given, save, relay)
         IN  /\ released.code = 200 => released.taken
             /\ released.code = 400 => ~released.taken
             /\ \A n \in DOMAIN map : released.map[n] = map[n]
<1> DEFINE refused == save /\ given.name \in DOMAIN map
           saved == IF save /\ ~refused THEN AddServer(map, given) ELSE map
           unknown == given.name # "" /\ given.name \notin DOMAIN saved
           used == IF given.name = "" THEN given ELSE saved[given.name]
           released == Release(map, given, save, relay)
<1>1. \A n \in DOMAIN map : saved[n] = map[n]
  BY DEF AddServer
<1>2. CASE refused \/ unknown
  <2>1. released = [code |-> 400, map |-> saved, taken |-> FALSE]
    BY <1>2 DEF Release
  <2> HIDE DEF released, saved
  <2>2. released.code = 400 /\ released.map = saved /\ ~released.taken
    BY <2>1
  <2> QED  BY <1>1, <2>2 DEF released
<1>3. CASE ~(refused \/ unknown)
  <2> DEFINE code == IF Send(used, relay) THEN 200 ELSE 500
             taken == Taken(used, relay)
  <2>1. released = [code |-> code, map |-> saved, taken |-> taken]
    BY <1>3 DEF Release
  <2> HIDE DEF used
  <2>2. (code = 200 => taken) /\ code # 400
    BY DEF Send
  <2> HIDE DEF released, saved, code, taken
  <2>3. released.code = code /\ released.map = saved /\ released.taken = taken
    BY <2>1
  <2>4. released.code = 200 => released.taken
    BY <2>2, <2>3, Zenon
  <2>5. released.code # 400
    BY <2>2, <2>3
  <2> QED  BY <1>1, <2>3, <2>4, <2>5 DEF released
<1> QED  BY <1>2, <1>3

(* A release by the name of a server that sends is answered 200. *)
LEMMA NamedIsUsed ==
  ASSUME NEW map, NormalMap(map), NEW given \in Server, NEW n \in DOMAIN map,
         NEW relay, Send(map[n], relay)
  PROVE  ReleaseThrough(map, given, n, relay).code = 200
<1> DEFINE a == [given EXCEPT !.name = n]
           code == IF Send(map[n], relay) THEN 200 ELSE 500
           taken == Taken(map[n], relay)
           released == ReleaseThrough(map, given, n, relay)
<1>1. a.name = n /\ n # ""
  BY DEF Server, NormalMap, Normal
<1>2. released = [code |-> code, map |-> map, taken |-> taken]
  BY <1>1, ZenonT(60) DEF ReleaseThrough, Release
<1>3. code = 200
  OBVIOUS
<1> HIDE DEF code, taken, released
<1>4. released.code = 200
  BY <1>2, <1>3
<1> QED  BY <1>4 DEF released

(* What the mechanism decides: a server that normalises is used as before  *)
(* if the mechanism is one that authenticates as it is spelt.              *)
LEMMA NormalizedSends ==
  ASSUME NEW fallback \in DOMAIN Trim, NEW s \in Server, NEW t \in Server, NEW relay,
         Normalize(fallback, s) # Invalid,
         t.port = s.port,
         t.mechanism \in {"NONE", "PLAIN", "CRAMMD5"},
         \/ Upper[s.mechanism] = t.mechanism
         \/ s.mechanism = "" /\ t.mechanism = "NONE",
         Send(t, relay)
  PROVE  Send(Normalize(fallback, s), relay)
<1> DEFINE u == Normalize(fallback, s)
           name == IF Trim[s.name] = "" THEN Trim[fallback] ELSE Trim[s.name]
           known == Upper[s.mechanism] \in {"PLAIN", "CRAMMD5"}
           mechanism == IF known THEN Upper[s.mechanism] ELSE "NONE"
           account == IF known THEN s.account ELSE ""
<1>1. u = [s EXCEPT !.name = name, !.mechanism = mechanism, !.account = account]
  BY DEF Normalize
<1>2. Upper[""] = ""
  BY OutgoingAssumption
<1>3. mechanism = t.mechanism
  BY <1>2
<1> HIDE DEF name, mechanism, account, u
<1>4. u.port = t.port /\ u.mechanism = t.mechanism
  BY <1>1, <1>3 DEF Server
<1>5. Opens(u, relay) <=> Opens(t, relay)
  BY <1>4 DEF Opens, ConnectSteps, Authenticates
<1> QED  BY <1>5 DEF Send, Taken, u

(* A server that passed its test before the settings had it is used as it  *)
(* was tested.                                                             *)
LEMMA TestedIsKept ==
  ASSUME NEW s \in Server, NEW relay, TestSucceeds(s, relay),
         relay.fails \notin SendSteps, Trim[s.name] # ""
  PROVE  Normalize("", s) # Invalid /\ Send(Normalize("", s), relay)
<1> DEFINE mechanism == IF s.mechanism = "" THEN "NONE" ELSE Upper[s.mechanism]
           account == IF mechanism = "NONE" THEN "" ELSE s.account
           t == TestConfig(s)
<1>1. /\ t = [s EXCEPT !.mechanism = mechanism, !.account = account]
      /\ "" \notin {s.host, s.port}
      /\ mechanism \in {"NONE", "PLAIN", "CRAMMD5"}
  BY DEF TestSucceeds, TestConfig
<1>2. mechanism \in DOMAIN Upper /\ account \in Texts
  BY <1>1, OutgoingAssumption DEF Server
<1>3. \/ Upper[s.mechanism] = mechanism
      \/ s.mechanism = "" /\ mechanism = "NONE"
  OBVIOUS
<1> HIDE DEF mechanism, account
<1>4. t \in Server /\ t.port = s.port /\ t.mechanism = mechanism
  BY <1>1, <1>2 DEF Server
<1>5. Send(t, relay)
  BY DEF TestSucceeds, Send, Taken
<1>6. Normalize("", s) # Invalid
  <2> DEFINE name == IF Trim[s.name] = "" THEN Trim[""] ELSE Trim[s.name]
             known == Upper[s.mechanism] \in {"PLAIN", "CRAMMD5"}
             u == [s EXCEPT !.name = name,
                            !.mechanism = IF known THEN Upper[@] ELSE "NONE",
                            !.account = IF known THEN @ ELSE ""]
  <2>1. name = Trim[s.name] /\ "" \notin {name, s.host, s.port}
    BY <1>1
  <2>2. Normalize("", s) = u
    BY <2>1 DEF Normalize
  <2>3. u \in Server
    <3>1. /\ name \in DOMAIN Trim
          /\ (IF known THEN Upper[s.mechanism] ELSE "NONE") \in DOMAIN Upper
          /\ (IF known THEN s.account ELSE "") \in Texts
      BY <2>1, OutgoingAssumption DEF Server
    <3> HIDE DEF name, known
    <3> QED  BY <3>1 DEF Server
  <2> QED  BY <2>2, <2>3, OutgoingAssumption
<1>7. "" \in DOMAIN Trim
  BY OutgoingAssumption
<1> HIDE DEF t
<1> QED  BY <1>1, <1>3, <1>4, <1>5, <1>6, <1>7, NormalizedSends

(* A server that a release could use as it is spelt is used so once it is  *)
(* normalised.                                                             *)
LEMMA UsedIsKept ==
  ASSUME NEW s \in Server, NEW relay, Send(s, relay),
         Normalize(s.name, s) # Invalid
  PROVE  Send(Normalize(s.name, s), relay)
<1>1. s.mechanism \in {"NONE", "PLAIN", "CRAMMD5"}
  BY DEF Send, Taken, Opens, Authenticates
<1>2. Upper[s.mechanism] = s.mechanism /\ s.name \in DOMAIN Trim
  BY <1>1, OutgoingAssumption DEF Server
<1> QED  BY <1>1, <1>2, NormalizedSends

(* So what a test promises, a release keeps: for any servers, lists and    *)
(* relays.                                                                 *)
LEMMA TestsPredictReleases ==
  ASSUME NEW map, DOMAIN map \subseteq DOMAIN Trim, map \in [DOMAIN map -> Server],
         NEW list \in Seq(Server), NEW given \in Server, NEW save \in BOOLEAN, NEW relay
  PROVE  TestPredictsRelease(map, list, given, save, relay)
<1>1. ASSUME NEW kept \in SanitizeMap(map) \cup {MapFromList(list)}
      PROVE  /\ SanitizeMap(kept) = {kept}
             /\ \A n \in DOMAIN kept :
                  TestSucceeds(kept[n], relay) /\ relay.fails \notin SendSteps
                    => ReleaseThrough(kept, given, n, relay).code = 200
  <2>1. NormalMap(kept)
    BY SanitizedIsNormal, ListedIsNormal
  <2>2. ASSUME NEW n \in DOMAIN kept,
               TestSucceeds(kept[n], relay), relay.fails \notin SendSteps
        PROVE  ReleaseThrough(kept, given, n, relay).code = 200
    <3>1. Normal(kept[n])
      BY <2>1 DEF NormalMap
    <3>2. TestConfig(kept[n]) = kept[n]
      BY <2>2, <3>1, NormalTests DEF TestSucceeds
    <3>3. Send(kept[n], relay)
      BY <2>2, <3>2 DEF TestSucceeds, Send, Taken
    <3> QED  BY <2>1, <3>3, NamedIsUsed
  <2>3. SanitizeMap(kept) = {kept}
    BY <2>1, NormalMapStays
  <2> QED  BY <2>2, <2>3
<1>2. LET released == Release(map, given, save, relay)
      IN  /\ released.code = 200 => released.taken
          /\ released.code = 400 => ~released.taken
          /\ \A n \in DOMAIN map : released.map[n] = map[n]
  BY ReleasesAreTrue
<1>3. ASSUME NEW tested \in ToSet(list),
             TestSucceeds(tested, relay), relay.fails \notin SendSteps,
             Trim[tested.name] # ""
      PROVE  Normalize("", tested) # Invalid /\ Send(Normalize("", tested), relay)
  <2>1. tested \in Server
    BY DEF ToSet
  <2> QED  BY <1>3, <2>1, TestedIsKept
<1>4. Send(given, relay) =>
        \/ Normalize(given.name, given) = Invalid
        \/ Send(Normalize(given.name, given), relay)
  BY UsedIsKept
<1> QED  BY <1>1, <1>2, <1>3, <1>4 DEF TestPredictsRelease
=============================================================================
