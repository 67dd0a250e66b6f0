--------------------------- MODULE MailLogProofs ---------------------------
(***************************************************************************)
(* What is proved about MailLog for any kinds of lines, queries and number *)
(* of tails: types, that no line about mail is lost, and that a tail shows *)
(* the last lines that match, in their order.                              *)
(*                                                                         *)
(* The numbers of the lines carry the argument: they increase through what *)
(* a tail has scanned, the rest of the file and the buffer, whatever is    *)
(* cleared or fails meanwhile; and each slot of a ring holds the line at a *)
(* place of what was scanned, the older the slot the earlier the place.    *)
(***************************************************************************)
EXTENDS MailLog, SequenceTheorems, TLAPS

USE LogAssumption

Entries == Lines \cup {Fragment}

Increasing(s) == \A i, j \in 1 .. Len(s) : i < j => s[i].id < s[j].id
UpTo(s, n) == \A i \in 1 .. Len(s) : s[i].id <= n
Behind(s, u) == \A i \in 1 .. Len(s), j \in 1 .. Len(u) : s[i].id < u[j].id
-----------------------------------------------------------------------------
LEMMA Appended ==
  ASSUME NEW S, NEW s \in Seq(S), NEW x \in S
  PROVE  /\ Append(s, x) \in Seq(S)
         /\ Len(Append(s, x)) = Len(s) + 1
         /\ Len(s) \in Nat
         /\ \A i \in 1 .. Len(s) : Append(s, x)[i] = s[i]
         /\ Append(s, x)[Len(s) + 1] = x
BY AppendProperties, LenProperties

LEMMA Tailed ==
  ASSUME NEW S, NEW s \in Seq(S), s # <<>>
  PROVE  /\ Tail(s) \in Seq(S)
         /\ Len(s) \in Nat \ {0}
         /\ Len(Tail(s)) = Len(s) - 1
         /\ Head(s) \in S
         /\ Head(s) = s[1]
         /\ \A i \in 1 .. Len(s) - 1 : Tail(s)[i] = s[i + 1]
BY HeadTailProperties, LenProperties

(* What is appended to increasing lines, and what is left when the first   *)
(* is taken.                                                               *)
LEMMA IncreasingAppended ==
  ASSUME NEW s \in Seq(Lines), NEW x \in Lines, NEW n \in Nat,
         Increasing(s), UpTo(s, n), \A i \in 1 .. Len(s) : s[i].id < x.id
  PROVE  /\ Increasing(Append(s, x))
         /\ x.id <= n => UpTo(Append(s, x), n)
<1> DEFINE a == Append(s, x)
<1>1. /\ Len(a) = Len(s) + 1 /\ Len(s) \in Nat
      /\ \A i \in 1 .. Len(s) : a[i] = s[i]
      /\ a[Len(s) + 1] = x
  BY Appended
<1> HIDE DEF a
<1>2. ASSUME NEW i \in 1 .. Len(a), NEW j \in 1 .. Len(a), i < j
      PROVE  a[i].id < a[j].id
  <2>1. i \in 1 .. Len(s) /\ a[i] = s[i]
    BY <1>1, <1>2
  <2>2. CASE j = Len(s) + 1
    BY <1>1, <2>1, <2>2
  <2>3. CASE j # Len(s) + 1
    <3>1. j \in 1 .. Len(s) /\ a[j] = s[j]
      BY <1>1, <2>3
    <3> QED
      BY <1>2, <2>1, <3>1 DEF Increasing
  <2> QED
    BY <2>2, <2>3
<1>3. x.id <= n => UpTo(a, n)
  BY <1>1 DEF UpTo
<1> QED
  BY <1>2, <1>3 DEF a, Increasing

LEMMA IncreasingTail ==
  ASSUME NEW s \in Seq(Lines), s # <<>>, NEW n \in Nat,
         Increasing(s), UpTo(s, n)
  PROVE  /\ Increasing(Tail(s))
         /\ UpTo(Tail(s), n)
         /\ \A i \in 1 .. Len(Tail(s)) : Head(s).id < Tail(s)[i].id
<1> DEFINE a == Tail(s)
<1>1. /\ Len(a) = Len(s) - 1 /\ Len(s) \in Nat \ {0}
      /\ Head(s) = s[1]
      /\ \A i \in 1 .. Len(s) - 1 : a[i] = s[i + 1]
  BY Tailed
<1> HIDE DEF a
<1>2. Increasing(a)
  BY <1>1 DEF Increasing
<1>3. UpTo(a, n)
  BY <1>1 DEF UpTo
<1>4. \A i \in 1 .. Len(a) : s[1].id < a[i].id
  BY <1>1 DEF Increasing
<1> QED
  BY <1>1, <1>2, <1>3, <1>4 DEF a
-----------------------------------------------------------------------------
(* The writer, with file f, buffer b, the lines e that are expected and n  *)
(* lines logged: what is expected and not in the file is held in the       *)
(* buffer, and the numbers increase.                                       *)
MailLines == {line \in Lines : ShouldPersist(line)}

NumbersIncrease(f, b, e, n) ==
  /\ Increasing(f) /\ Increasing(b) /\ Increasing(e)
  /\ UpTo(f, n) /\ UpTo(b, n) /\ UpTo(e, n)
  /\ Behind(f, b)

FileIsExpected(f, e) ==
  /\ Len(f) <= Len(e)
  /\ \A i \in 1 .. Len(f) : e[i] = f[i]

RestIsHeld(f, b, e) ==
  /\ \A i \in Len(f) + 1 .. Len(e) :
       \E j \in 1 .. Len(b) : ShouldPersist(b[j]) /\ b[j] = e[i]
  /\ \A j \in 1 .. Len(b) :
       ShouldPersist(b[j]) => \E i \in Len(f) + 1 .. Len(e) : e[i] = b[j]

Sound(f, b, e, n) ==
  /\ f \in Seq(MailLines) /\ b \in Seq(Lines) /\ e \in Seq(Lines)
  /\ NumbersIncrease(f, b, e, n)
  /\ FileIsExpected(f, e)
  /\ RestIsHeld(f, b, e)

LEMMA LineFacts ==
  /\ \A l \in Lines : l.id \in Nat
  /\ \A l \in MailLines : l \in Lines /\ ShouldPersist(l)
  /\ \A f \in Seq(MailLines) : f \in Seq(Lines)
  /\ \A s \in Seq(Lines) :
       Len(s) \in Nat /\ \A i \in 1 .. Len(s) : s[i] \in Lines /\ s[i].id \in Nat
<1>1. \A l \in Lines : l.id \in Nat
  BY DEF Lines
<1>2. \A l \in MailLines : l \in Lines /\ ShouldPersist(l)
  BY DEF MailLines
<1>3. \A f \in Seq(MailLines) : f \in Seq(Lines)
  BY <1>2
<1>4. \A s \in Seq(Lines) :
        Len(s) \in Nat /\ \A i \in 1 .. Len(s) : s[i] \in Lines
  BY LenProperties
<1> QED
  BY <1>1, <1>2, <1>3, <1>4

(* What is up to n is up to any later number. *)
LEMMA Later ==
  ASSUME NEW s \in Seq(Lines), NEW n \in Nat, UpTo(s, n)
  PROVE  UpTo(s, n + 1)
BY LineFacts DEF UpTo

LEMMA SoundLater ==
  ASSUME NEW f, NEW b, NEW e, NEW n \in Nat, Sound(f, b, e, n)
  PROVE  Sound(f, b, e, n + 1)
<1>1. f \in Seq(Lines) /\ b \in Seq(Lines) /\ e \in Seq(Lines)
  BY LineFacts DEF Sound
<1>2. UpTo(f, n + 1) /\ UpTo(b, n + 1) /\ UpTo(e, n + 1)
  BY <1>1, Later DEF Sound, NumbersIncrease
<1> QED
  BY <1>2 DEF Sound, NumbersIncrease

(* The writer takes a line. *)
LEMMA SoundTaken ==
  ASSUME NEW f, NEW b, NEW e, NEW n \in Nat, Sound(f, b, e, n),
         NEW l \in Lines, l.id = n + 1
  PROVE  Sound(f, Append(b, l), IF ShouldPersist(l) THEN Append(e, l) ELSE e, n + 1)
<1> DEFINE b2 == Append(b, l)
           e2 == IF ShouldPersist(l) THEN Append(e, l) ELSE e
<1>1. /\ f \in Seq(MailLines) /\ f \in Seq(Lines) /\ b \in Seq(Lines) /\ e \in Seq(Lines)
      /\ Len(f) \in Nat /\ Len(b) \in Nat /\ Len(e) \in Nat
  BY LineFacts DEF Sound
<1>2. Sound(f, b, e, n + 1)
  BY SoundLater
<1>3. /\ \A i \in 1 .. Len(f) : f[i].id < l.id
      /\ \A i \in 1 .. Len(b) : b[i].id < l.id
      /\ \A i \in 1 .. Len(e) : e[i].id < l.id
  BY <1>1, LineFacts DEF Sound, NumbersIncrease, UpTo
<1>4. /\ b2 \in Seq(Lines) /\ Len(b2) = Len(b) + 1
      /\ \A i \in 1 .. Len(b) : b2[i] = b[i]
      /\ b2[Len(b) + 1] = l
  BY <1>1, Appended
<1>5. /\ Append(e, l) \in Seq(Lines) /\ Len(Append(e, l)) = Len(e) + 1
      /\ \A i \in 1 .. Len(e) : Append(e, l)[i] = e[i]
      /\ Append(e, l)[Len(e) + 1] = l
  BY <1>1, Appended
<1>6. Increasing(b2) /\ UpTo(b2, n + 1)
  BY <1>1, <1>2, <1>3, IncreasingAppended DEF Sound, NumbersIncrease
<1>7. Increasing(Append(e, l)) /\ UpTo(Append(e, l), n + 1)
  BY <1>1, <1>2, <1>3, IncreasingAppended DEF Sound, NumbersIncrease
<1> HIDE DEF b2
<1>8. Behind(f, b2)
  <2>1. Behind(f, b)
    BY DEF Sound, NumbersIncrease
  <2>2. \A j \in 1 .. Len(b2) : j \in 1 .. Len(b) \/ j = Len(b) + 1
    BY <1>1, <1>4
  <2> QED
    BY <1>3, <1>4, <2>1, <2>2 DEF Behind
<1>9. CASE ShouldPersist(l)
  <2> DEFINE e3 == Append(e, l)
  <2> HIDE DEF e3
  <2>1. /\ e3 \in Seq(Lines) /\ Len(e3) = Len(e) + 1
        /\ \A i \in 1 .. Len(e) : e3[i] = e[i]
        /\ e3[Len(e) + 1] = l
        /\ Increasing(e3) /\ UpTo(e3, n + 1)
    BY <1>5, <1>7 DEF e3
  <2>2. FileIsExpected(f, e3)
    BY <1>1, <2>1 DEF Sound, FileIsExpected
  <2>3. ASSUME NEW i \in Len(f) + 1 .. Len(e3)
        PROVE  \E j \in 1 .. Len(b2) : ShouldPersist(b2[j]) /\ b2[j] = e3[i]
    <3>1. CASE i = Len(e) + 1
      <4>1. Len(b) + 1 \in 1 .. Len(b2)
        BY <1>1, <1>4
      <4> QED
        BY <1>4, <1>9, <2>1, <3>1, <4>1
    <3>2. CASE i # Len(e) + 1
      <4>1. i \in Len(f) + 1 .. Len(e) /\ i \in 1 .. Len(e)
        BY <1>1, <2>1, <3>2
      <4>2. PICK j \in 1 .. Len(b) : ShouldPersist(b[j]) /\ b[j] = e[i]
        BY <4>1 DEF Sound, RestIsHeld
      <4>3. j \in 1 .. Len(b2)
        BY <1>1, <1>4
      <4> QED
        BY <1>4, <2>1, <4>1, <4>2, <4>3
    <3> QED
      BY <3>1, <3>2
  <2>4. ASSUME NEW j \in 1 .. Len(b2), ShouldPersist(b2[j])
        PROVE  \E i \in Len(f) + 1 .. Len(e3) : e3[i] = b2[j]
    <3>0. Len(f) <= Len(e)
      BY DEF Sound, FileIsExpected
    <3>1. CASE j = Len(b) + 1
      <4>1. Len(e) + 1 \in Len(f) + 1 .. Len(e3)
        BY <1>1, <2>1, <3>0
      <4> QED
        BY <1>4, <2>1, <3>1, <4>1
    <3>2. CASE j # Len(b) + 1
      <4>1. j \in 1 .. Len(b) /\ b2[j] = b[j]
        BY <1>1, <1>4, <3>2
      <4>2. PICK i \in Len(f) + 1 .. Len(e) : e[i] = b[j]
        BY <2>4, <4>1 DEF Sound, RestIsHeld
      <4>3. i \in Len(f) + 1 .. Len(e3) /\ i \in 1 .. Len(e)
        BY <1>1, <2>1
      <4> QED
        BY <2>1, <4>1, <4>2, <4>3
    <3> QED
      BY <3>1, <3>2
  <2>5. Sound(f, b2, e3, n + 1)
    <3>1. NumbersIncrease(f, b2, e3, n + 1)
      BY <1>2, <1>6, <1>8, <2>1 DEF Sound, NumbersIncrease
    <3>2. RestIsHeld(f, b2, e3)
      BY <2>3, <2>4 DEF RestIsHeld
    <3> QED
      BY <1>1, <1>4, <2>1, <2>2, <3>1, <3>2 DEF Sound
  <2> QED
    BY <1>9, <2>5 DEF b2, e3
<1>10. CASE ~ShouldPersist(l)
  <2>1. ASSUME NEW i \in Len(f) + 1 .. Len(e)
        PROVE  \E j \in 1 .. Len(b2) : ShouldPersist(b2[j]) /\ b2[j] = e[i]
    <3>1. PICK j \in 1 .. Len(b) : ShouldPersist(b[j]) /\ b[j] = e[i]
      BY DEF Sound, RestIsHeld
    <3>2. j \in 1 .. Len(b2)
      BY <1>1, <1>4
    <3> QED
      BY <1>4, <3>1, <3>2
  <2>2. ASSUME NEW j \in 1 .. Len(b2), ShouldPersist(b2[j])
        PROVE  \E i \in Len(f) + 1 .. Len(e) : e[i] = b2[j]
    <3>1. j \in 1 .. Len(b) /\ b2[j] = b[j]
      BY <1>1, <1>4, <1>10, <2>2
    <3> QED
      BY <2>2, <3>1 DEF Sound, RestIsHeld
  <2>3. NumbersIncrease(f, b2, e, n + 1)
    BY <1>2, <1>6, <1>8 DEF Sound, NumbersIncrease
  <2>4. RestIsHeld(f, b2, e)
    BY <2>1, <2>2 DEF RestIsHeld
  <2>5. FileIsExpected(f, e)
    BY DEF Sound
  <2>6. Sound(f, b2, e, n + 1)
    BY <1>1, <1>4, <2>3, <2>4, <2>5 DEF Sound
  <2> QED
    BY <1>10, <2>6 DEF b2
<1> QED
  BY <1>9, <1>10

(* The writer skips the first line of its buffer, or writes it. *)
LEMMA SoundSkipped ==
  ASSUME NEW f, NEW b, NEW e, NEW n \in Nat, Sound(f, b, e, n), b # <<>>,
         ~ShouldPersist(Head(b))
  PROVE  Sound(f, Tail(b), e, n)
<1> DEFINE b2 == Tail(b)
<1>1. /\ b \in Seq(Lines) /\ Len(b) \in Nat \ {0}
      /\ b2 \in Seq(Lines) /\ Len(b2) = Len(b) - 1
      /\ Head(b) = b[1]
      /\ \A i \in 1 .. Len(b) - 1 : b2[i] = b[i + 1]
  BY Tailed DEF Sound
<1>2. Increasing(b2) /\ UpTo(b2, n)
  BY <1>1, IncreasingTail DEF Sound, NumbersIncrease
<1> HIDE DEF b2
<1>3. Behind(f, b2)
  <2>1. Behind(f, b)
    BY DEF Sound, NumbersIncrease
  <2> QED
    BY <1>1, <2>1 DEF Behind
<1>4. ASSUME NEW i \in Len(f) + 1 .. Len(e)
      PROVE  \E j \in 1 .. Len(b2) : ShouldPersist(b2[j]) /\ b2[j] = e[i]
  <2>1. PICK j \in 1 .. Len(b) : ShouldPersist(b[j]) /\ b[j] = e[i]
    BY DEF Sound, RestIsHeld
  <2>2. j # 1
    BY <1>1, <2>1
  <2>3. j - 1 \in 1 .. Len(b2) /\ b2[j - 1] = b[j]
    BY <1>1, <2>2
  <2> QED
    BY <2>1, <2>3
<1>5. ASSUME NEW j \in 1 .. Len(b2), ShouldPersist(b2[j])
      PROVE  \E i \in Len(f) + 1 .. Len(e) : e[i] = b2[j]
  <2>1. j + 1 \in 1 .. Len(b) /\ b2[j] = b[j + 1]
    BY <1>1
  <2> QED
    BY <1>5, <2>1 DEF Sound, RestIsHeld
<1>6. NumbersIncrease(f, b2, e, n)
  BY <1>2, <1>3 DEF Sound, NumbersIncrease
<1>7. RestIsHeld(f, b2, e)
  BY <1>4, <1>5 DEF RestIsHeld
<1>8. Sound(f, b2, e, n)
  BY <1>1, <1>6, <1>7 DEF Sound
<1> QED
  BY <1>8 DEF b2

LEMMA SoundWritten ==
  ASSUME NEW f, NEW b, NEW e, NEW n \in Nat, Sound(f, b, e, n), b # <<>>,
         ShouldPersist(Head(b))
  PROVE  Sound(Append(f, Head(b)), Tail(b), e, n)
<1> DEFINE b2 == Tail(b)
           l == Head(b)
           f2 == Append(f, l)
<1>1. /\ b \in Seq(Lines) /\ Len(b) \in Nat \ {0}
      /\ b2 \in Seq(Lines) /\ Len(b2) = Len(b) - 1
      /\ l \in Lines /\ l = b[1]
      /\ \A i \in 1 .. Len(b) - 1 : b2[i] = b[i + 1]
  BY Tailed DEF Sound
<1>2. /\ Increasing(b2) /\ UpTo(b2, n)
      /\ \A i \in 1 .. Len(b2) : l.id < b2[i].id
  BY <1>1, IncreasingTail DEF Sound, NumbersIncrease
<1>3. ShouldPersist(l) /\ l \in MailLines
  BY <1>1 DEF MailLines
<1> HIDE DEF b2, l
<1>4. /\ f \in Seq(MailLines) /\ f \in Seq(Lines) /\ e \in Seq(Lines)
      /\ Len(f) \in Nat /\ Len(e) \in Nat
  BY LineFacts DEF Sound
<1>5. /\ f2 \in Seq(MailLines) /\ Len(f2) = Len(f) + 1
      /\ \A i \in 1 .. Len(f) : f2[i] = f[i]
      /\ f2[Len(f) + 1] = l
  BY <1>3, <1>4, Appended
<1>6. 1 \in 1 .. Len(b)
  BY <1>1
<1>7. \A i \in 1 .. Len(f) : f[i].id < l.id
  BY <1>1, <1>6 DEF Sound, NumbersIncrease, Behind
<1>8. l.id <= n
  BY <1>1, <1>6 DEF Sound, NumbersIncrease, UpTo
<1>9. Increasing(f2) /\ UpTo(f2, n)
  BY <1>1, <1>4, <1>7, <1>8, IncreasingAppended DEF Sound, NumbersIncrease
<1> HIDE DEF f2
<1>10. Behind(f2, b2)
  <2>1. Behind(f, b)
    BY DEF Sound, NumbersIncrease
  <2>2. \A i \in 1 .. Len(f2) : i \in 1 .. Len(f) \/ i = Len(f) + 1
    BY <1>4, <1>5
  <2>3. \A j \in 1 .. Len(b2) : j + 1 \in 1 .. Len(b) /\ b2[j] = b[j + 1]
    BY <1>1
  <2>4. \A i \in 1 .. Len(f), j \in 1 .. Len(b2) : f[i].id < b2[j].id
    BY <2>1, <2>3 DEF Behind
  <2> QED
    BY <1>2, <1>5, <2>2, <2>4 DEF Behind
<1>11. /\ Len(f) + 1 \in Len(f) + 1 .. Len(e)
       /\ Len(f) + 1 \in 1 .. Len(e)
       /\ e[Len(f) + 1] = l
  <2>1. PICK m \in Len(f) + 1 .. Len(e) : e[m] = l
    BY <1>1, <1>3, <1>6 DEF Sound, RestIsHeld
  <2>2. Len(f) + 1 \in Len(f) + 1 .. Len(e) /\ Len(f) + 1 \in 1 .. Len(e) /\ m \in 1 .. Len(e)
    BY <1>4, <2>1
  <2>3. PICK j \in 1 .. Len(b) : b[j] = e[Len(f) + 1]
    BY <2>2 DEF Sound, RestIsHeld
  <2>4. CASE m = Len(f) + 1
    BY <2>1, <2>2, <2>4
  <2>5. CASE m # Len(f) + 1
    <3>1. Len(f) + 1 < m
      BY <1>4, <2>1, <2>5
    <3>2. b[j].id < l.id
      BY <2>1, <2>2, <2>3, <3>1 DEF Sound, NumbersIncrease, Increasing
    <3>3. j # 1
      BY <1>1, <3>2, LineFacts
    <3>4. b[1].id < b[j].id
      BY <1>6, <2>3, <3>3 DEF Sound, NumbersIncrease, Increasing
    <3>5. b[1].id \in Nat /\ b[j].id \in Nat
      BY <1>1, <1>6, <2>3, LineFacts
    <3> QED
      BY <1>1, <3>2, <3>4, <3>5
  <2> QED
    BY <2>4, <2>5
<1>12. FileIsExpected(f2, e)
  <2>1. \A i \in 1 .. Len(f2) : i \in 1 .. Len(f) \/ i = Len(f) + 1
    BY <1>4, <1>5
  <2>2. Len(f2) <= Len(e)
    BY <1>4, <1>5, <1>11
  <2> QED
    BY <1>5, <1>11, <2>1, <2>2 DEF Sound, FileIsExpected
<1>13. ASSUME NEW i \in Len(f2) + 1 .. Len(e)
       PROVE  \E j \in 1 .. Len(b2) : ShouldPersist(b2[j]) /\ b2[j] = e[i]
  <2>1. i \in Len(f) + 1 .. Len(e) /\ Len(f) + 1 < i /\ i \in 1 .. Len(e)
    BY <1>4, <1>5
  <2>2. PICK j \in 1 .. Len(b) : ShouldPersist(b[j]) /\ b[j] = e[i]
    BY <2>1 DEF Sound, RestIsHeld
  <2>3. e[Len(f) + 1].id < e[i].id
    BY <1>11, <2>1 DEF Sound, NumbersIncrease, Increasing
  <2>4. j # 1
    BY <1>1, <1>11, <2>2, <2>3, LineFacts
  <2>5. j - 1 \in 1 .. Len(b2) /\ b2[j - 1] = b[j]
    BY <1>1, <2>4
  <2> QED
    BY <2>2, <2>5
<1>14. ASSUME NEW j \in 1 .. Len(b2), ShouldPersist(b2[j])
       PROVE  \E i \in Len(f2) + 1 .. Len(e) : e[i] = b2[j]
  <2>1. j + 1 \in 1 .. Len(b) /\ b2[j] = b[j + 1]
    BY <1>1
  <2>2. PICK i \in Len(f) + 1 .. Len(e) : e[i] = b2[j]
    BY <1>14, <2>1 DEF Sound, RestIsHeld
  <2>3. l.id < b2[j].id
    BY <1>2
  <2>4. i # Len(f) + 1
    BY <1>1, <1>11, <2>2, <2>3, LineFacts
  <2>5. i \in Len(f2) + 1 .. Len(e)
    BY <1>4, <1>5, <2>4
  <2> QED
    BY <2>2, <2>5
<1>15. NumbersIncrease(f2, b2, e, n)
  BY <1>2, <1>9, <1>10 DEF Sound, NumbersIncrease
<1>16. RestIsHeld(f2, b2, e)
  BY <1>13, <1>14 DEF RestIsHeld
<1>17. Sound(f2, b2, e, n)
  BY <1>1, <1>4, <1>5, <1>12, <1>15, <1>16 DEF Sound
<1> QED
  BY <1>17 DEF f2, b2, l

(* The file is cleared; the process starts with the file it finds. *)
LEMMA SoundCleared ==
  ASSUME NEW f, NEW b, NEW e, NEW n \in Nat, Sound(f, b, e, n)
  PROVE  Sound(<<>>, b, SubSeq(e, Len(f) + 1, Len(e)), n)
<1> DEFINE e2 == SubSeq(e, Len(f) + 1, Len(e))
           k == Len(f)
<1>1. /\ e \in Seq(Lines) /\ b \in Seq(Lines)
      /\ k \in Nat /\ Len(e) \in Nat /\ k <= Len(e)
  BY LineFacts DEF Sound, FileIsExpected
<1>2. /\ e2 \in Seq(Lines) /\ Len(e2) = Len(e) - k
      /\ \A i \in 1 .. Len(e) - k : e2[i] = e[k + i]
  BY <1>1
<1>3. /\ <<>> \in Seq(MailLines) /\ Len(<<>>) = 0
  OBVIOUS
<1> HIDE DEF e2, k
<1>4. \A i \in 1 .. Len(e2) : k + i \in 1 .. Len(e) /\ k + i \in k + 1 .. Len(e)
  BY <1>1, <1>2
<1>5. Increasing(e2)
  <2>1. ASSUME NEW i \in 1 .. Len(e2), NEW j \in 1 .. Len(e2), i < j
        PROVE  e2[i].id < e2[j].id
    <3>1. k + i \in 1 .. Len(e) /\ k + j \in 1 .. Len(e) /\ k + i < k + j
      BY <1>1, <1>2, <1>4, <2>1
    <3>2. e[k + i].id < e[k + j].id
      BY <3>1 DEF Sound, NumbersIncrease, Increasing
    <3>3. e2[i] = e[k + i] /\ e2[j] = e[k + j]
      BY <1>1, <1>2
    <3> QED
      BY <3>2, <3>3
  <2> QED
    BY <2>1 DEF Increasing
<1>6. UpTo(e2, n)
  BY <1>1, <1>2, <1>4 DEF Sound, NumbersIncrease, UpTo
<1>7. NumbersIncrease(<<>>, b, e2, n)
  BY <1>3, <1>5, <1>6 DEF Sound, NumbersIncrease, Increasing, UpTo, Behind
<1>8. FileIsExpected(<<>>, e2)
  BY <1>1, <1>2, <1>3 DEF FileIsExpected
<1>9. ASSUME NEW i \in 1 .. Len(e2)
      PROVE  \E j \in 1 .. Len(b) : ShouldPersist(b[j]) /\ b[j] = e2[i]
  BY <1>1, <1>2, <1>4 DEF Sound, RestIsHeld, k
<1>10. ASSUME NEW j \in 1 .. Len(b), ShouldPersist(b[j])
       PROVE  \E i \in 1 .. Len(e2) : e2[i] = b[j]
  <2>1. PICK i \in k + 1 .. Len(e) : e[i] = b[j]
    BY <1>10 DEF Sound, RestIsHeld, k
  <2>2. i - k \in 1 .. Len(e2) /\ k + (i - k) = i
    BY <1>1, <1>2
  <2>3. e2[i - k] = e[i]
    BY <1>1, <1>2, <2>2
  <2> QED
    BY <2>1, <2>2, <2>3
<1>11. RestIsHeld(<<>>, b, e2)
  BY <1>3, <1>9, <1>10 DEF RestIsHeld
<1>12. Sound(<<>>, b, e2, n)
  BY <1>1, <1>2, <1>3, <1>7, <1>8, <1>11 DEF Sound
<1> QED
  BY <1>12 DEF e2, k

LEMMA SoundStarted ==
  ASSUME NEW f \in Seq(MailLines), NEW n \in Nat, Increasing(f), UpTo(f, n)
  PROVE  Sound(f, <<>>, f, n) /\ Sound(<<>>, <<>>, <<>>, n)
<1>1. /\ <<>> \in Seq(MailLines) /\ <<>> \in Seq(Lines) /\ Len(<<>>) = 0
      /\ f \in Seq(Lines) /\ Len(f) \in Nat
  BY LineFacts
<1>2. NumbersIncrease(f, <<>>, f, n) /\ NumbersIncrease(<<>>, <<>>, <<>>, n)
  BY <1>1 DEF NumbersIncrease, Increasing, UpTo, Behind
<1>3. FileIsExpected(f, f) /\ FileIsExpected(<<>>, <<>>)
  BY <1>1 DEF FileIsExpected
<1>4. RestIsHeld(f, <<>>, f) /\ RestIsHeld(<<>>, <<>>, <<>>)
  BY <1>1 DEF RestIsHeld
<1> QED
  BY <1>1, <1>2, <1>3, <1>4 DEF Sound
-----------------------------------------------------------------------------
(* The lines s that a tail has scanned, when it has read k lines of the    *)
(* file: they are older than the rest of the file and than the buffer.     *)
Ahead(s, k, f, b, n) ==
  /\ s \in Seq(Lines) /\ Increasing(s) /\ UpTo(s, n) /\ Behind(s, b)
  /\ \A i \in 1 .. Len(s), j \in 1 .. Len(f) : k < j => s[i].id < f[j].id

LEMMA AheadTaken ==
  ASSUME NEW s, NEW k \in Nat, NEW f, NEW b \in Seq(Lines), NEW n \in Nat,
         Ahead(s, k, f, b, n), NEW l \in Lines, l.id = n + 1
  PROVE  Ahead(s, k, f, Append(b, l), n + 1) /\ Ahead(s, k, f, b, n + 1)
<1> DEFINE b2 == Append(b, l)
<1>1. /\ Len(b) \in Nat /\ Len(b2) = Len(b) + 1
      /\ \A i \in 1 .. Len(b) : b2[i] = b[i]
      /\ b2[Len(b) + 1] = l
  BY Appended
<1> HIDE DEF b2
<1>2. s \in Seq(Lines) /\ UpTo(s, n + 1)
  BY Later DEF Ahead
<1>3. \A i \in 1 .. Len(s) : s[i].id < l.id
  BY <1>2, LineFacts DEF Ahead, UpTo
<1>4. \A j \in 1 .. Len(b2) : j \in 1 .. Len(b) \/ j = Len(b) + 1
  BY <1>1
<1>5. Behind(s, b2)
  BY <1>1, <1>3, <1>4 DEF Ahead, Behind
<1> QED
  BY <1>2, <1>5 DEF Ahead, b2

LEMMA AheadSkipped ==
  ASSUME NEW s, NEW k \in Nat, NEW f, NEW b \in Seq(Lines), NEW n \in Nat,
         Ahead(s, k, f, b, n), b # <<>>
  PROVE  Ahead(s, k, f, Tail(b), n)
<1> DEFINE b2 == Tail(b)
<1>1. /\ Len(b) \in Nat \ {0} /\ Len(b2) = Len(b) - 1
      /\ \A i \in 1 .. Len(b) - 1 : b2[i] = b[i + 1]
  BY Tailed
<1> HIDE DEF b2
<1>2. \A j \in 1 .. Len(b2) : j + 1 \in 1 .. Len(b) /\ b2[j] = b[j + 1]
  BY <1>1
<1>3. Behind(s, b2)
  BY <1>2 DEF Ahead, Behind
<1> QED
  BY <1>3 DEF Ahead, b2

LEMMA AheadWritten ==
  ASSUME NEW s, NEW k \in Nat, NEW f \in Seq(Lines), NEW b \in Seq(Lines),
         NEW n \in Nat, Ahead(s, k, f, b, n), b # <<>>
  PROVE  Ahead(s, k, Append(f, Head(b)), Tail(b), n)
<1> DEFINE f2 == Append(f, Head(b))
           b2 == Tail(b)
<1>1. Head(b) \in Lines /\ Head(b) = b[1] /\ 1 \in 1 .. Len(b)
  BY Tailed
<1>2. /\ Len(f) \in Nat /\ Len(f2) = Len(f) + 1
      /\ \A i \in 1 .. Len(f) : f2[i] = f[i]
      /\ f2[Len(f) + 1] = b[1]
  BY <1>1, Appended
<1>3. Ahead(s, k, f, b2, n)
  BY AheadSkipped
<1> HIDE DEF f2, b2
<1>4. \A i \in 1 .. Len(s) : s[i].id < b[1].id
  BY <1>1 DEF Ahead, Behind
<1>5. \A j \in 1 .. Len(f2) : j \in 1 .. Len(f) \/ j = Len(f) + 1
  BY <1>2
<1>6. ASSUME NEW i \in 1 .. Len(s), NEW j \in 1 .. Len(f2), k < j
      PROVE  s[i].id < f2[j].id
  BY <1>2, <1>4, <1>5, <1>6 DEF Ahead
<1> QED
  BY <1>3, <1>6 DEF Ahead, f2, b2

LEMMA AheadCleared ==
  ASSUME NEW s, NEW k \in Nat, NEW f, NEW b, NEW n, Ahead(s, k, f, b, n)
  PROVE  Ahead(s, k, <<>>, b, n)
<1>1. Len(<<>>) = 0
  OBVIOUS
<1> QED
  BY <1>1 DEF Ahead

LEMMA AheadScanned ==
  ASSUME NEW s, NEW k \in Nat, NEW f \in Seq(Lines), NEW b, NEW n \in Nat,
         Ahead(s, k, f, b, n), k < Len(f),
         Increasing(f), UpTo(f, n), Behind(f, b)
  PROVE  Ahead(Append(s, f[k + 1]), k + 1, f, b, n)
<1> DEFINE l == f[k + 1]
           s2 == Append(s, l)
<1>1. /\ k + 1 \in 1 .. Len(f) /\ l \in Lines /\ Len(f) \in Nat
      /\ s \in Seq(Lines) /\ Len(s) \in Nat
  BY LineFacts DEF Ahead
<1>2. /\ s2 \in Seq(Lines) /\ Len(s2) = Len(s) + 1
      /\ \A i \in 1 .. Len(s) : s2[i] = s[i]
      /\ s2[Len(s) + 1] = l
  BY <1>1, Appended
<1>3. \A i \in 1 .. Len(s) : s[i].id < l.id
  BY <1>1 DEF Ahead
<1>4. l.id <= n
  BY <1>1 DEF UpTo
<1>5. Increasing(s2) /\ UpTo(s2, n)
  BY <1>1, <1>3, <1>4, IncreasingAppended DEF Ahead
<1>6. \A i \in 1 .. Len(s2) : i \in 1 .. Len(s) \/ i = Len(s) + 1
  BY <1>1, <1>2
<1>7. \A j \in 1 .. Len(b) : l.id < b[j].id
  BY <1>1 DEF Behind
<1>8. \A j \in 1 .. Len(f) : k + 1 < j => l.id < f[j].id
  BY <1>1 DEF Increasing
<1>9. \A i \in 1 .. Len(s), j \in 1 .. Len(f) : k + 1 < j => s[i].id < f[j].id
  BY <1>1 DEF Ahead
<1> HIDE DEF l, s2
<1>10. Behind(s2, b)
  BY <1>2, <1>6, <1>7 DEF Ahead, Behind
<1>11. \A i \in 1 .. Len(s2), j \in 1 .. Len(f) : k + 1 < j => s2[i].id < f[j].id
  BY <1>2, <1>6, <1>8, <1>9
<1> QED
  BY <1>2, <1>5, <1>10, <1>11 DEF Ahead, l, s2
-----------------------------------------------------------------------------
(* The ring of a tail: a place in it is filled or not, and one was filled  *)
(* before another.                                                         *)
Places(r) == 0 .. r.max - 1
Filled(r) == {a \in Places(r) : a < r.total}
Older(r, a, b) ==
  \/ a >= r.idx /\ b < r.idx
  \/ a < b /\ (a >= r.idx <=> b >= r.idx)

RingShape(r) ==
  /\ r.max \in Nat \ {0}
  /\ r.ring \in [Places(r) -> Entries]
  /\ r.idx \in Places(r)
  /\ r.total \in Nat
  /\ r.total < r.max => r.idx = r.total
  /\ r.total = r.max => r.idx = 0

(* What is in place a of the ring is line p[a] of those that were scanned. *)
RingHolds(r, s, p) ==
  /\ p \in [Places(r) -> Nat]
  /\ \A a \in Filled(r) :
       /\ p[a] \in 1 .. Len(s)
       /\ Matches(r.query, s[p[a]])
       /\ r.ring[a] = s[p[a]]
  /\ \A a, b \in Filled(r) : Older(r, a, b) => p[a] < p[b]
  /\ \A k \in 1 .. Len(s) :
       Matches(r.query, s[k]) =>
         \/ \E a \in Filled(r) : p[a] = k
         \/ r.total > r.max /\ \A a \in Filled(r) : k < p[a]

LEMMA Modulo ==
  ASSUME NEW m \in Nat \ {0}, NEW x \in 0 .. 2 * m - 1
  PROVE  x % m = IF x < m THEN x ELSE x - m
OBVIOUS

Rings == UNION {[0 .. m - 1 -> Entries] : m \in LineCounts}

Opened == [at : {"scan", "answered"}, query : Queries, max : LineCounts,
           read : Nat, ring : Rings, idx : Nat, total : Nat, out : Seq(Entries)]

LEMMA InRingFields ==
  ASSUME NEW r \in Opened, RingShape(r), NEW line \in Entries
  PROVE  LET r2 == InRing(r, line) IN
         /\ r2 \in Opened
         /\ r2.at = r.at /\ r2.query = r.query /\ r2.max = r.max /\ r2.read = r.read
         /\ ~Matches(r.query, line) => r2 = r
         /\ Matches(r.query, line) =>
              /\ r2.ring = [r.ring EXCEPT ![r.idx] = line]
              /\ r2.idx = IF r.idx + 1 < r.max THEN r.idx + 1 ELSE 0
              /\ r2.total = r.total + 1
<1> DEFINE ring2 == [r.ring EXCEPT ![r.idx] = line]
           idx2 == (r.idx + 1) % r.max
           r3 == [r EXCEPT !.ring = ring2, !.idx = idx2, !.total = r.total + 1]
<1>1. /\ r.max \in LineCounts /\ r.max \in Nat \ {0} /\ r.idx \in 0 .. r.max - 1
      /\ r.total \in Nat
      /\ r.ring \in [0 .. r.max - 1 -> Entries]
  BY DEF RingShape, Places, Opened
<1>2. idx2 = IF r.idx + 1 < r.max THEN r.idx + 1 ELSE 0
  <2> DEFINE m == r.max
             x == r.idx + 1
  <2>1. m \in Nat \ {0} /\ x \in 1 .. m
    BY <1>1
  <2> HIDE DEF m, x
  <2>2. x % m = IF x < m THEN x ELSE 0
    <3>1. x \in 0 .. 2 * m - 1
      BY <2>1
    <3>2. x % m = IF x < m THEN x ELSE x - m
      BY <2>1, <3>1, Modulo
    <3> QED
      BY <2>1, <3>2
  <2> QED
    BY <2>2 DEF m, x
<1>3. idx2 \in Nat
  BY <1>1, <1>2
<1>4. ring2 \in Rings
  <2>1. ring2 \in [0 .. r.max - 1 -> Entries]
    BY <1>1
  <2> QED
    BY <1>1, <2>1 DEF Rings
<1>5. InRing(r, line) = IF Matches(r.query, line) THEN r3 ELSE r
  BY DEF InRing, Opened
<1> HIDE DEF ring2, idx2
<1>6. /\ r3 \in Opened
      /\ r3.at = r.at /\ r3.query = r.query /\ r3.max = r.max /\ r3.read = r.read
      /\ r3.ring = ring2 /\ r3.idx = idx2 /\ r3.total = r.total + 1
  <2>1. r.total + 1 \in Nat
    BY <1>1
  <2>2. r3 \in Opened
    BY <1>3, <1>4, <2>1, Zenon DEF Opened
  <2>3. /\ r3.at = r.at /\ r3.query = r.query /\ r3.max = r.max /\ r3.read = r.read
        /\ r3.ring = ring2 /\ r3.idx = idx2 /\ r3.total = r.total + 1
    BY DEF Opened
  <2> QED
    BY <2>2, <2>3
<1> HIDE DEF r3
<1> QED
  BY <1>2, <1>5, <1>6 DEF ring2

LEMMA PushShape ==
  ASSUME NEW r \in Opened, RingShape(r), NEW line \in Entries
  PROVE  RingShape(InRing(r, line))
<1> DEFINE r2 == InRing(r, line)
<1>1. /\ r2.max = r.max
      /\ ~Matches(r.query, line) => r2 = r
      /\ Matches(r.query, line) =>
           /\ r2.ring = [r.ring EXCEPT ![r.idx] = line]
           /\ r2.idx = IF r.idx + 1 < r.max THEN r.idx + 1 ELSE 0
           /\ r2.total = r.total + 1
  BY InRingFields
<1> HIDE DEF r2
<1>2. CASE ~Matches(r.query, line)
  BY <1>1, <1>2 DEF r2
<1>3. CASE Matches(r.query, line)
  <2>1. r2.ring \in [Places(r2) -> Entries]
    BY <1>1, <1>3 DEF RingShape, Places
  <2>2. /\ r2.max \in Nat \ {0} /\ r2.idx \in Places(r2) /\ r2.total \in Nat
        /\ r2.total < r2.max => r2.idx = r2.total
        /\ r2.total = r2.max => r2.idx = 0
    BY <1>1, <1>3 DEF RingShape, Places
  <2> QED
    BY <2>1, <2>2 DEF RingShape, r2
<1> QED
  BY <1>2, <1>3

(* A line that was scanned is pushed where it matches. *)
LEMMA PushHolds ==
  ASSUME NEW r \in Opened, RingShape(r), NEW s \in Seq(Entries), NEW p,
         RingHolds(r, s, p), NEW line \in Entries
  PROVE  \E p2 : RingHolds(InRing(r, line), Append(s, line), p2)
<1> DEFINE r2 == InRing(r, line)
           s2 == Append(s, line)
           n == Len(s) + 1
<1>1. /\ r2.max = r.max /\ r2.query = r.query
      /\ ~Matches(r.query, line) => r2 = r
      /\ Matches(r.query, line) =>
           /\ r2.ring = [r.ring EXCEPT ![r.idx] = line]
           /\ r2.idx = IF r.idx + 1 < r.max THEN r.idx + 1 ELSE 0
           /\ r2.total = r.total + 1
  BY InRingFields
<1>2. /\ Len(s) \in Nat /\ Len(s2) = n
      /\ \A i \in 1 .. Len(s) : s2[i] = s[i]
      /\ s2[n] = line
  BY Appended
<1>3. \A k \in 1 .. Len(s2) : k \in 1 .. Len(s) \/ k = n
  BY <1>2
<1>4. /\ r.max \in Nat \ {0} /\ r.idx \in Places(r) /\ r.total \in Nat
      /\ r.ring \in [Places(r) -> Entries]
      /\ r.total < r.max => r.idx = r.total
      /\ r.total = r.max => r.idx = 0
  BY DEF RingShape
<1>5. /\ p \in [Places(r) -> Nat]
      /\ \A a \in Filled(r) :
           /\ p[a] \in 1 .. Len(s)
           /\ Matches(r.query, s[p[a]])
           /\ r.ring[a] = s[p[a]]
  BY DEF RingHolds
<1>6. \A a, b \in Filled(r) : Older(r, a, b) => p[a] < p[b]
  BY DEF RingHolds
<1>7. \A k \in 1 .. Len(s) :
        Matches(r.query, s[k]) =>
          \/ \E a \in Filled(r) : p[a] = k
          \/ r.total > r.max /\ \A a \in Filled(r) : k < p[a]
  BY DEF RingHolds
<1> HIDE DEF r2, s2
<1>8. CASE ~Matches(r.query, line)
  <2>1. r2 = r
    BY <1>1, <1>8
  <2>2. \A a \in Filled(r) :
           /\ p[a] \in 1 .. Len(s2)
           /\ Matches(r.query, s2[p[a]])
           /\ r.ring[a] = s2[p[a]]
    BY <1>2, <1>5
  <2>3. \A k \in 1 .. Len(s2) :
          Matches(r.query, s2[k]) =>
            \/ \E a \in Filled(r) : p[a] = k
            \/ r.total > r.max /\ \A a \in Filled(r) : k < p[a]
    BY <1>2, <1>3, <1>7, <1>8
  <2>4. RingHolds(r2, s2, p)
    BY <1>5, <1>6, <2>1, <2>2, <2>3 DEF RingHolds
  <2> QED
    BY <2>4 DEF r2, s2
<1>9. CASE Matches(r.query, line)
  <2> DEFINE p2 == [p EXCEPT ![r.idx] = n]
  <2>1. /\ p2 \in [Places(r) -> Nat] /\ p2[r.idx] = n
        /\ \A a \in Places(r) : a # r.idx => p2[a] = p[a]
    BY <1>2, <1>4, <1>5
  <2>2. /\ r2.ring[r.idx] = line
        /\ \A a \in Places(r) : a # r.idx => r2.ring[a] = r.ring[a]
    BY <1>1, <1>4, <1>9
  <2>3. /\ Places(r2) = Places(r)
        /\ r2.idx = IF r.idx + 1 < r.max THEN r.idx + 1 ELSE 0
        /\ r2.total = r.total + 1
    BY <1>1, <1>9 DEF Places
  <2> HIDE DEF p2
  <2>4. /\ r.idx \in Filled(r2)
        /\ \A a \in Filled(r2) : a # r.idx => a \in Filled(r)
        /\ \A a \in Filled(r) : a \in Filled(r2) /\ a \in Places(r)
    BY <1>1, <1>4, <2>3 DEF Filled, Places
  <2>5. \A a, b \in Filled(r2) :
          a # r.idx /\ b # r.idx /\ Older(r2, a, b) => Older(r, a, b)
    BY <1>1, <1>4, <2>3 DEF Filled, Places, Older
  <2>6. \A b \in Filled(r2) : ~Older(r2, r.idx, b)
    BY <1>1, <1>4, <2>3 DEF Filled, Places, Older
  <2>7. r.idx \in Filled(r) =>
          \A b \in Filled(r) : b # r.idx => Older(r, r.idx, b)
    BY <1>4 DEF Filled, Places, Older
  <2>8. \A a \in Filled(r2) :
           /\ p2[a] \in 1 .. Len(s2)
           /\ Matches(r.query, s2[p2[a]])
           /\ r2.ring[a] = s2[p2[a]]
    <3> SUFFICES ASSUME NEW a \in Filled(r2)
                 PROVE  /\ p2[a] \in 1 .. Len(s2)
                        /\ Matches(r.query, s2[p2[a]])
                        /\ r2.ring[a] = s2[p2[a]]
      OBVIOUS
    <3>1. CASE a = r.idx
      <4>1. p2[a] = n /\ n \in 1 .. Len(s2)
        BY <1>2, <2>1, <3>1
      <4> QED
        BY <1>2, <1>9, <2>2, <3>1, <4>1
    <3>2. CASE a # r.idx
      <4>1. a \in Filled(r) /\ a \in Places(r)
        BY <2>4, <3>2
      <4>2. p2[a] = p[a] /\ p[a] \in 1 .. Len(s) /\ s2[p[a]] = s[p[a]]
        BY <1>2, <1>5, <2>1, <3>2, <4>1
      <4>3. p[a] \in 1 .. Len(s2)
        BY <1>2, <4>2
      <4> QED
        BY <1>5, <2>2, <3>2, <4>1, <4>2, <4>3
    <3> QED
      BY <3>1, <3>2
  <2>9. ASSUME NEW a \in Filled(r2), NEW b \in Filled(r2), Older(r2, a, b)
        PROVE  p2[a] < p2[b]
    <3>1. a # r.idx
      BY <2>6, <2>9
    <3>2. a \in Filled(r) /\ a \in Places(r) /\ p2[a] = p[a] /\ p[a] \in 1 .. Len(s)
      BY <1>5, <2>1, <2>4, <3>1
    <3>3. CASE b = r.idx
      BY <1>2, <2>1, <3>2, <3>3
    <3>4. CASE b # r.idx
      <4>1. b \in Filled(r) /\ p2[b] = p[b]
        BY <2>1, <2>4, <3>4
      <4> QED
        BY <1>6, <2>5, <2>9, <3>1, <3>2, <3>4, <4>1
    <3> QED
      BY <3>3, <3>4
  <2>10. ASSUME NEW k \in 1 .. Len(s2), Matches(r.query, s2[k])
         PROVE  \/ \E a \in Filled(r2) : p2[a] = k
                \/ r2.total > r2.max /\ \A a \in Filled(r2) : k < p2[a]
    <3>1. CASE k = n
      BY <2>1, <2>4, <3>1
    <3>2. CASE k # n
      <4>1. k \in 1 .. Len(s) /\ Matches(r.query, s[k]) /\ k < n
        BY <1>2, <2>10, <3>2
      <4>2. CASE r.total > r.max /\ \A a \in Filled(r) : k < p[a]
        <5>1. r2.total > r2.max
          BY <1>1, <1>4, <2>3, <4>2
        <5>2. ASSUME NEW a \in Filled(r2)
              PROVE  k < p2[a]
          <6>1. CASE a = r.idx
            BY <2>1, <4>1, <6>1
          <6>2. CASE a # r.idx
            BY <2>1, <2>4, <4>2, <6>2
          <6> QED
            BY <6>1, <6>2
        <5> QED
          BY <5>1, <5>2
      <4>3. ASSUME NEW a \in Filled(r), p[a] = k
            PROVE  \/ \E c \in Filled(r2) : p2[c] = k
                   \/ r2.total > r2.max /\ \A c \in Filled(r2) : k < p2[c]
        <5>1. CASE a # r.idx
          BY <2>1, <2>4, <4>3, <5>1
        <5>2. CASE a = r.idx
          <6>1. r2.total > r2.max
            BY <1>1, <1>4, <2>3, <5>2 DEF Filled, Places
          <6>2. ASSUME NEW b \in Filled(r2)
                PROVE  k < p2[b]
            <7>1. CASE b = r.idx
              BY <2>1, <4>1, <7>1
            <7>2. CASE b # r.idx
              <8>1. b \in Filled(r) /\ p2[b] = p[b]
                BY <2>1, <2>4, <7>2
              <8>2. Older(r, a, b)
                BY <2>7, <5>2, <7>2, <8>1
              <8> QED
                BY <1>6, <4>3, <8>1, <8>2
            <7> QED
              BY <7>1, <7>2
          <6> QED
            BY <6>1, <6>2
        <5> QED
          BY <5>1, <5>2
      <4> QED
        BY <1>7, <4>1, <4>2, <4>3
    <3> QED
      BY <3>1, <3>2
  <2>11. RingHolds(r2, s2, p2)
    BY <1>1, <2>1, <2>3, <2>8, <2>9, <2>10 DEF RingHolds
  <2> QED
    BY <2>11 DEF r2, s2
<1> QED
  BY <1>8, <1>9

(* A ring of m places read from place k on. *)
Turned(m, k, i) == IF k + i - 1 < m THEN k + i - 1 ELSE k + i - 1 - m

LEMMA TurnedModulo ==
  \A m \in Nat \ {0} : \A k \in 0 .. m - 1 : \A i \in 1 .. m :
    (k + i - 1) % m = Turned(m, k, i)
<1> TAKE m \in Nat \ {0}
<1> TAKE k \in 0 .. m - 1
<1> TAKE i \in 1 .. m
<1>1. ASSUME NEW x \in Nat, x = k + i - 1
      PROVE  x % m = IF x < m THEN x ELSE x - m
  <2>1. x \in 0 .. 2 * m - 1
    BY <1>1
  <2> QED
    BY <2>1, Modulo
<1>2. k + i - 1 \in Nat
  OBVIOUS
<1> QED
  BY <1>1, <1>2 DEF Turned

LEMMA TurnedFacts ==
  \A m \in Nat \ {0} : \A k \in 0 .. m - 1 :
    /\ \A i \in 1 .. m : Turned(m, k, i) \in 0 .. m - 1
    /\ \A i, j \in 1 .. m :
         LET a == Turned(m, k, i)
             b == Turned(m, k, j)
         IN  i < j => \/ a >= k /\ b < k
                      \/ a < b /\ (a >= k <=> b >= k)
    /\ \A a \in 0 .. m - 1 : \E i \in 1 .. m : Turned(m, k, i) = a
<1> SUFFICES ASSUME NEW m \in Nat \ {0}, NEW k \in 0 .. m - 1
             PROVE  /\ \A i \in 1 .. m : Turned(m, k, i) \in 0 .. m - 1
                    /\ \A i, j \in 1 .. m :
                         LET a == Turned(m, k, i)
                             b == Turned(m, k, j)
                         IN  i < j => \/ a >= k /\ b < k
                                      \/ a < b /\ (a >= k <=> b >= k)
                    /\ \A a \in 0 .. m - 1 : \E i \in 1 .. m : Turned(m, k, i) = a
  OBVIOUS
<1>1. \A i \in 1 .. m : Turned(m, k, i) \in 0 .. m - 1
  BY DEF Turned
<1>2. \A i, j \in 1 .. m :
        LET a == Turned(m, k, i)
            b == Turned(m, k, j)
        IN  i < j => \/ a >= k /\ b < k
                     \/ a < b /\ (a >= k <=> b >= k)
  BY DEF Turned
<1>3. ASSUME NEW a \in 0 .. m - 1
      PROVE  \E i \in 1 .. m : Turned(m, k, i) = a
  <2>1. CASE a >= k
    <3>1. a - k + 1 \in 1 .. m /\ Turned(m, k, a - k + 1) = a
      BY <2>1 DEF Turned
    <3> QED
      BY <3>1
  <2>2. CASE a < k
    <3>1. a - k + 1 + m \in 1 .. m /\ Turned(m, k, a - k + 1 + m) = a
      BY <2>2 DEF Turned
    <3> QED
      BY <3>1
  <2> QED
    BY <2>1, <2>2
<1> QED
  BY <1>1, <1>2, <1>3

(* What a tail shows in the end are the last lines that match. *)
LEMMA RingShows ==
  ASSUME NEW r \in Opened, RingShape(r), NEW s \in Seq(Entries), NEW p,
         RingHolds(r, s, p)
  PROVE  /\ RingLines(r) \in Seq(Entries)
         /\ LastOf(RingLines(r), r.max, s, r.query)
<1> DEFINE n == IF r.total <= r.max THEN r.total ELSE r.max
           place(i) == IF r.total <= r.max THEN i - 1
                       ELSE IF r.idx + i - 1 < r.max THEN r.idx + i - 1
                       ELSE r.idx + i - 1 - r.max
           out == RingLines(r)
           matching == {k \in 1 .. Len(s) : Matches(r.query, s[k])}
           at == [i \in 1 .. n |-> p[place(i)]]
<1>1. /\ r.max \in Nat \ {0} /\ r.idx \in 0 .. r.max - 1 /\ r.total \in Nat
      /\ r.ring \in [0 .. r.max - 1 -> Entries]
      /\ r.total < r.max => r.idx = r.total
      /\ r.total = r.max => r.idx = 0
  BY DEF RingShape, Places
<1>2. out = [i \in 1 .. n |-> r.ring[place(i)]]
  <2>1. CASE r.total <= r.max
    BY <2>1 DEF RingLines
  <2>2. CASE ~(r.total <= r.max)
    <3>1. out = [i \in 1 .. r.max |-> r.ring[(r.idx + i - 1) % r.max]]
      BY <2>2 DEF RingLines
    <3>2. \A i \in 1 .. r.max : (r.idx + i - 1) % r.max = place(i)
      <4>1. \A i \in 1 .. r.max :
              (r.idx + i - 1) % r.max = Turned(r.max, r.idx, i)
        BY <1>1, TurnedModulo
      <4>2. \A i \in 1 .. r.max : Turned(r.max, r.idx, i) = place(i)
        BY <2>2 DEF Turned
      <4> QED
        BY <4>1, <4>2
    <3> HIDE DEF place
    <3>3. [i \in 1 .. r.max |-> r.ring[(r.idx + i - 1) % r.max]]
            = [i \in 1 .. r.max |-> r.ring[place(i)]]
      BY <3>2
    <3> QED
      BY <2>2, <3>1, <3>3
  <2> QED
    BY <2>1, <2>2
<1>3. n \in Nat /\ n <= r.max /\ (n < r.max => r.total <= r.max)
  BY <1>1
<1>4. \A i \in 1 .. n : place(i) \in Filled(r)
  <2>1. CASE r.total <= r.max
    BY <1>1, <2>1 DEF Filled, Places
  <2>2. CASE r.total > r.max
    <3>1. \A i \in 1 .. r.max : Turned(r.max, r.idx, i) \in 0 .. r.max - 1
      BY <1>1, TurnedFacts
    <3> QED
      BY <1>1, <2>2, <3>1 DEF Filled, Places, Turned
  <2> QED
    BY <1>1, <2>1, <2>2
<1>5. \A i, j \in 1 .. n : i < j => Older(r, place(i), place(j))
  <2>1. CASE r.total <= r.max
    BY <1>1, <2>1 DEF Older
  <2>2. CASE r.total > r.max
    <3>1. \A i, j \in 1 .. r.max :
            LET a == Turned(r.max, r.idx, i)
                b == Turned(r.max, r.idx, j)
            IN  i < j => \/ a >= r.idx /\ b < r.idx
                         \/ a < b /\ (a >= r.idx <=> b >= r.idx)
      BY <1>1, TurnedFacts
    <3> QED
      BY <1>1, <2>2, <3>1 DEF Older, Turned
  <2> QED
    BY <1>1, <2>1, <2>2
<1>6. ASSUME NEW a \in Filled(r)
      PROVE  \E i \in 1 .. n : place(i) = a
  <2>1. CASE r.total <= r.max
    <3>1. a + 1 \in 1 .. n /\ place(a + 1) = a
      BY <1>1, <2>1 DEF Filled, Places
    <3> QED
      BY <3>1
  <2>2. CASE r.total > r.max
    <3>1. a \in 0 .. r.max - 1
      BY DEF Filled, Places
    <3>2. PICK i \in 1 .. r.max : Turned(r.max, r.idx, i) = a
      BY <1>1, <3>1, TurnedFacts
    <3>3. i \in 1 .. n /\ place(i) = a
      BY <1>1, <2>2, <3>2 DEF Turned
    <3> QED
      BY <3>3
  <2> QED
    BY <1>1, <2>1, <2>2
<1>7. r.total > r.max => n = r.max
  BY <1>1
<1>8. /\ \A a \in Filled(r) : p[a] \in matching /\ r.ring[a] = s[p[a]]
      /\ \A a, b \in Filled(r) : Older(r, a, b) => p[a] < p[b]
      /\ \A k \in matching :
           \/ \E a \in Filled(r) : p[a] = k
           \/ r.total > r.max /\ \A a \in Filled(r) : k < p[a]
  BY DEF RingHolds
<1>9. \A a \in Filled(r) : r.ring[a] \in Entries
  BY <1>1 DEF Filled, Places
<1> HIDE DEF out, n, place, matching
<1>10. /\ out \in Seq(Entries) /\ Len(out) = n
       /\ \A i \in 1 .. n : out[i] = r.ring[place(i)]
  <2>1. out \in [1 .. n -> Entries]
    BY <1>2, <1>4, <1>9
  <2> QED
    BY <1>2, <1>3, <2>1
<1>11. /\ at \in [1 .. n -> matching]
       /\ \A i \in 1 .. n : at[i] = p[place(i)]
  BY <1>4, <1>8
<1> HIDE DEF at
<1>12. \A i \in 1 .. n : out[i] = s[at[i]]
  BY <1>4, <1>8, <1>10, <1>11
<1>13. \A i, j \in 1 .. n : i < j => at[i] < at[j]
  BY <1>4, <1>5, <1>8, <1>11
<1>14. ASSUME NEW k \in matching
       PROVE  \/ \E i \in 1 .. n : at[i] = k
              \/ n = r.max /\ \A i \in 1 .. n : k < at[i]
  <2>1. CASE \E a \in Filled(r) : p[a] = k
    <3>1. PICK a \in Filled(r) : p[a] = k
      BY <2>1
    <3>2. PICK i \in 1 .. n : place(i) = a
      BY <1>6
    <3> QED
      BY <1>11, <3>1, <3>2
  <2>2. CASE r.total > r.max /\ \A a \in Filled(r) : k < p[a]
    BY <1>4, <1>7, <1>11, <2>2
  <2> QED
    BY <1>8, <2>1, <2>2
<1>15. LastOf(out, r.max, s, r.query)
  <2>1. \E w \in [1 .. Len(out) -> matching] :
           /\ \A i \in 1 .. Len(out) : out[i] = s[w[i]]
           /\ \A i, j \in 1 .. Len(out) : i < j => w[i] < w[j]
           /\ \A k \in matching :
                \/ \E i \in 1 .. Len(out) : w[i] = k
                \/ Len(out) = r.max /\ \A i \in 1 .. Len(out) : k < w[i]
    <3>1. at \in [1 .. Len(out) -> matching]
      BY <1>10, <1>11
    <3>2. /\ \A i \in 1 .. Len(out) : out[i] = s[at[i]]
          /\ \A i, j \in 1 .. Len(out) : i < j => at[i] < at[j]
      BY <1>10, <1>12, <1>13
    <3>3. \A k \in matching :
            \/ \E i \in 1 .. Len(out) : at[i] = k
            \/ Len(out) = r.max /\ \A i \in 1 .. Len(out) : k < at[i]
      BY <1>10, <1>14
    <3> QED
      BY <3>1, <3>2, <3>3, Zenon
  <2>2. Len(out) <= r.max
    BY <1>3, <1>10
  <2> QED
    BY <2>1, <2>2 DEF LastOf, matching
<1> QED
  BY <1>10, <1>15 DEF out

(* The last of lines that increase increase. *)
InOrder(s) ==
  \A i, j \in 1 .. Len(s) :
    i < j /\ Fragment \notin {s[i], s[j]} => s[i].id < s[j].id

LEMMA LastInOrder ==
  ASSUME NEW out \in Seq(Entries), NEW max, NEW s \in Seq(Entries), NEW query,
         LastOf(out, max, s, query), InOrder(s)
  PROVE  InOrder(out)
<1>1. PICK at \in [1 .. Len(out) -> 1 .. Len(s)] :
        /\ \A i \in 1 .. Len(out) : out[i] = s[at[i]]
        /\ \A i, j \in 1 .. Len(out) : i < j => at[i] < at[j]
  <2> DEFINE matching == {k \in 1 .. Len(s) : Matches(query, s[k])}
  <2>1. PICK at \in [1 .. Len(out) -> matching] :
          /\ \A i \in 1 .. Len(out) : out[i] = s[at[i]]
          /\ \A i, j \in 1 .. Len(out) : i < j => at[i] < at[j]
    BY DEF LastOf
  <2>2. at \in [1 .. Len(out) -> 1 .. Len(s)]
    BY <2>1
  <2> QED
    BY <2>1, <2>2
<1>2. ASSUME NEW i \in 1 .. Len(out), NEW j \in 1 .. Len(out), i < j,
             Fragment \notin {out[i], out[j]}
      PROVE  out[i].id < out[j].id
  <2>1. /\ at[i] \in 1 .. Len(s) /\ at[j] \in 1 .. Len(s) /\ at[i] < at[j]
        /\ out[i] = s[at[i]] /\ out[j] = s[at[j]]
    BY <1>1, <1>2
  <2> QED
    BY <1>2, <2>1 DEF InOrder
<1> QED
  BY <1>2 DEF InOrder
-----------------------------------------------------------------------------
(* A tail r that has scanned the lines s, of a file that had o lines when  *)
(* it was opened and was cleared since or not (c).                         *)
ReadSo(r, s, o, c, f) ==
  c \/ (/\ o <= Len(f) /\ r.read <= Len(f)
        /\ \A i \in 1 .. r.read : s[i] = f[i])

ScanInv(r, s, o, c, f, b, n) ==
  /\ RingShape(r)
  /\ \E p : RingHolds(r, s, p)
  /\ Len(s) = r.read
  /\ Ahead(s, r.read, f, b, n)
  /\ ReadSo(r, s, o, c, f)

ShownInv(r, s, o, c, f) ==
  /\ LastOf(r.out, r.max, s, r.query)
  /\ InOrder(r.out)
  /\ ReadSo(r, s, o, c, f)
  /\ c \/ o <= r.read

WriterTypes ==
  /\ starts \in 0 .. MaxStarts /\ logged \in 0 .. MaxLogged
  /\ attached \in BOOLEAN /\ exists \in BOOLEAN
  /\ ragged \in BOOLEAN /\ writing \in BOOLEAN
  /\ exists \/ (file = <<>> /\ ~attached)
  /\ attached \/ buf = <<>>

TailTypes ==
  /\ tail \in [Tails -> {NoTail} \cup Opened]
  /\ seen \in [Tails -> Seq(Entries)]
  /\ opened \in [Tails -> Nat]
  /\ cleared \in [Tails -> BOOLEAN]

TailsInv ==
  \A t \in Tails :
    /\ tail[t].at = "scan" =>
         ScanInv(tail[t], seen[t], opened[t], cleared[t], file, buf, logged)
    /\ tail[t].at = "answered" =>
         ShownInv(tail[t], seen[t], opened[t], cleared[t], file)

(* The inductive invariant. *)
IInv ==
  WriterTypes /\ Sound(file, buf, expected, logged) /\ TailTypes /\ TailsInv

Grows(f, f2) == Len(f) <= Len(f2) /\ \A i \in 1 .. Len(f) : f2[i] = f[i]

LEMMA ReadLater ==
  ASSUME NEW r \in Opened, NEW s, NEW o \in Nat, NEW c \in BOOLEAN,
         NEW c2 \in BOOLEAN, NEW f \in Seq(Lines), NEW f2 \in Seq(Lines),
         ReadSo(r, s, o, c, f), c => c2, c2 \/ Grows(f, f2)
  PROVE  ReadSo(r, s, o, c2, f2)
<1>1. /\ r.read \in Nat /\ Len(f) \in Nat /\ Len(f2) \in Nat
  BY LineFacts DEF Opened
<1>2. CASE c2
  BY <1>2 DEF ReadSo
<1>3. CASE ~c2
  <2>1. /\ o <= Len(f) /\ r.read <= Len(f) /\ Grows(f, f2)
        /\ \A i \in 1 .. r.read : s[i] = f[i]
    BY <1>3 DEF ReadSo
  <2>2. \A i \in 1 .. r.read : s[i] = f2[i]
    BY <1>1, <2>1 DEF Grows
  <2>3. o <= Len(f2) /\ r.read <= Len(f2)
    BY <1>1, <2>1 DEF Grows
  <2> QED
    BY <2>2, <2>3 DEF ReadSo
<1> QED
  BY <1>2, <1>3

(* A step of the writer, or of a clear, that no tail takes part in. *)
LEMMA WriterStep ==
  ASSUME IInv, WriterTypes', UNCHANGED <<tail, seen, opened>>,
         Sound(file', buf', expected', logged'),
         \A s : \A k \in Nat :
           Ahead(s, k, file, buf, logged) => Ahead(s, k, file', buf', logged'),
         \/ cleared' = cleared /\ Grows(file, file')
         \/ cleared' = [t \in Tails |-> TRUE]
  PROVE  IInv'
<1>1. TailTypes'
  BY DEF IInv, TailTypes
<1>2. file \in Seq(Lines) /\ file' \in Seq(Lines)
  BY LineFacts DEF IInv, Sound
<1>3. ASSUME NEW t \in Tails
      PROVE  /\ tail'[t].at = "scan" =>
                  ScanInv(tail'[t], seen'[t], opened'[t], cleared'[t],
                          file', buf', logged')
             /\ tail'[t].at = "answered" =>
                  ShownInv(tail'[t], seen'[t], opened'[t], cleared'[t], file')
  <2>1. /\ tail'[t] = tail[t] /\ seen'[t] = seen[t] /\ opened'[t] = opened[t]
        /\ opened[t] \in Nat /\ cleared[t] \in BOOLEAN /\ cleared'[t] \in BOOLEAN
        /\ tail[t] = NoTail \/ tail[t] \in Opened
    BY <1>1 DEF IInv, TailTypes
  <2>2. cleared[t] => cleared'[t]
    OBVIOUS
  <2>3. cleared'[t] \/ Grows(file, file')
    OBVIOUS
  <2>4. tail[t].at \in {"scan", "answered"} => tail[t] \in Opened
    BY <2>1 DEF NoTail
  <2>5. tail[t] \in Opened => tail[t].read \in Nat
    BY DEF Opened
  <2>6. ASSUME tail[t].at = "scan"
        PROVE  ScanInv(tail[t], seen[t], opened[t], cleared'[t], file', buf', logged')
    <3>1. ScanInv(tail[t], seen[t], opened[t], cleared[t], file, buf, logged)
      BY <2>6 DEF IInv, TailsInv
    <3>2. Ahead(seen[t], tail[t].read, file', buf', logged')
      BY <2>4, <2>5, <2>6, <3>1 DEF ScanInv
    <3>3. ReadSo(tail[t], seen[t], opened[t], cleared'[t], file')
      BY <1>2, <2>1, <2>2, <2>3, <2>4, <2>6, <3>1, ReadLater DEF ScanInv
    <3> QED
      BY <3>1, <3>2, <3>3 DEF ScanInv
  <2>7. ASSUME tail[t].at = "answered"
        PROVE  ShownInv(tail[t], seen[t], opened[t], cleared'[t], file')
    <3>1. ShownInv(tail[t], seen[t], opened[t], cleared[t], file)
      BY <2>7 DEF IInv, TailsInv
    <3>2. ReadSo(tail[t], seen[t], opened[t], cleared'[t], file')
      BY <1>2, <2>1, <2>2, <2>3, <2>4, <2>7, <3>1, ReadLater DEF ShownInv
    <3>3. cleared'[t] \/ opened[t] <= tail[t].read
      BY <2>2, <3>1 DEF ShownInv
    <3> QED
      BY <3>1, <3>2, <3>3 DEF ShownInv
  <2> QED
    BY <2>1, <2>6, <2>7
<1>4. TailsInv'
  BY <1>3 DEF TailsInv
<1> QED
  BY <1>1, <1>4 DEF IInv

(* A step of one tail. *)
LEMMA TailStep ==
  ASSUME IInv, NEW t \in Tails, NEW r \in Opened, NEW s \in Seq(Entries),
         NEW o \in Nat, NEW c \in BOOLEAN,
         UNCHANGED <<starts, attached, file, ragged, buf, writing, logged, expected>>,
         exists' \in {exists, TRUE},
         tail' = [tail EXCEPT ![t] = r],
         seen' = [seen EXCEPT ![t] = s],
         opened' = [opened EXCEPT ![t] = o],
         cleared' = [cleared EXCEPT ![t] = c],
         r.at = "scan" => ScanInv(r, s, o, c, file, buf, logged),
         r.at = "answered" => ShownInv(r, s, o, c, file)
  PROVE  IInv'
<1>1. WriterTypes' /\ TailTypes'
  BY DEF IInv, WriterTypes, TailTypes
<1>2. ASSUME NEW u \in Tails
      PROVE  /\ tail'[u].at = "scan" =>
                  ScanInv(tail'[u], seen'[u], opened'[u], cleared'[u],
                          file, buf, logged)
             /\ tail'[u].at = "answered" =>
                  ShownInv(tail'[u], seen'[u], opened'[u], cleared'[u], file)
  <2>1. CASE u = t
    <3>1. tail'[u] = r /\ seen'[u] = s /\ opened'[u] = o /\ cleared'[u] = c
      BY <2>1 DEF IInv, TailTypes
    <3> QED
      BY <3>1
  <2>2. CASE u # t
    <3>1. /\ tail'[u] = tail[u] /\ seen'[u] = seen[u]
          /\ opened'[u] = opened[u] /\ cleared'[u] = cleared[u]
      BY <2>2 DEF IInv, TailTypes
    <3> QED
      BY <3>1 DEF IInv, TailsInv
  <2> QED
    BY <2>1, <2>2
<1>3. TailsInv'
  BY <1>2 DEF TailsInv
<1>4. Sound(file', buf', expected', logged')
  BY DEF IInv
<1> QED
  BY <1>1, <1>3, <1>4 DEF IInv
-----------------------------------------------------------------------------
LEMMA InitIsSound == Init => IInv
<1> SUFFICES ASSUME Init PROVE IInv
  OBVIOUS
<1>1. WriterTypes
  <2>1. starts \in 0 .. MaxStarts /\ logged \in 0 .. MaxLogged
    BY DEF Init
  <2>2. /\ attached \in BOOLEAN /\ exists \in BOOLEAN
        /\ ragged \in BOOLEAN /\ writing \in BOOLEAN
    BY Zenon DEF Init
  <2>3. file = <<>> /\ ~attached /\ buf = <<>>
    BY DEF Init
  <2> QED
    BY <2>1, <2>2, <2>3 DEF WriterTypes
<1>2. Sound(file, buf, expected, logged)
  <2>1. <<>> \in Seq(MailLines) /\ Len(<<>>) = 0
    OBVIOUS
  <2>2. Increasing(<<>>) /\ UpTo(<<>>, 0)
    BY <2>1 DEF Increasing, UpTo
  <2>3. Sound(<<>>, <<>>, <<>>, 0)
    BY <2>1, <2>2, SoundStarted
  <2> QED
    BY <2>3 DEF Init
<1>3. TailTypes
  BY DEF Init, TailTypes
<1>4. TailsInv
  BY DEF Init, TailsInv, NoTail
<1> QED
  BY <1>1, <1>2, <1>3, <1>4 DEF IInv

LEMMA WriterFacts ==
  ASSUME IInv
  PROVE  /\ logged \in Nat
         /\ file \in Seq(MailLines) /\ file \in Seq(Lines)
         /\ buf \in Seq(Lines) /\ expected \in Seq(Lines)
         /\ Len(file) \in Nat
BY LineFacts DEF IInv, WriterTypes, Sound

LEMMA GrowsNot ==
  ASSUME NEW f \in Seq(Lines)
  PROVE  Grows(f, f)
BY LineFacts DEF Grows

LEMMA LogKeeps ==
  ASSUME IInv, NEW kind \in Kinds, Log(kind)
  PROVE  IInv'
<1> DEFINE l == [id |-> logged + 1, kind |-> kind]
<1>1. /\ logged \in Nat /\ logged < MaxLogged /\ logged' = logged + 1
      /\ l \in Lines /\ l.id = logged + 1
      /\ UNCHANGED <<starts, attached, exists, file, ragged, tail, seen, opened, cleared>>
      /\ file \in Seq(Lines) /\ buf \in Seq(Lines)
  BY WriterFacts DEF Log, fileVars, tailVars, Lines
<1>2. \/ /\ attached /\ writing' = TRUE
         /\ buf' = Append(buf, l)
         /\ expected' = IF ShouldPersist(l) THEN Append(expected, l) ELSE expected
      \/ UNCHANGED <<buf, writing, expected>>
  BY <1>1 DEF Log, ShouldPersist
<1> HIDE DEF l
<1>3. WriterTypes'
  <2>1. starts' \in 0 .. MaxStarts /\ logged' \in 0 .. MaxLogged
    BY <1>1 DEF IInv, WriterTypes
  <2>2. attached' \/ buf' = <<>>
    BY <1>1, <1>2 DEF IInv, WriterTypes
  <2>3. writing' \in BOOLEAN
    BY <1>2 DEF IInv, WriterTypes
  <2>4. /\ attached' \in BOOLEAN /\ exists' \in BOOLEAN /\ ragged' \in BOOLEAN
        /\ exists' \/ (file' = <<>> /\ ~attached')
    BY <1>1 DEF IInv, WriterTypes
  <2> QED
    BY <2>1, <2>2, <2>3, <2>4 DEF WriterTypes
<1>4. Sound(file', buf', expected', logged')
  <2>1. Sound(file, buf, expected, logged)
    BY DEF IInv
  <2>2. Sound(file, Append(buf, l),
              IF ShouldPersist(l) THEN Append(expected, l) ELSE expected, logged + 1)
    BY <1>1, <2>1, SoundTaken
  <2>3. Sound(file, buf, expected, logged + 1)
    BY <1>1, <2>1, SoundLater
  <2> QED
    BY <1>1, <1>2, <2>2, <2>3
<1>5. ASSUME NEW s, NEW k \in Nat, Ahead(s, k, file, buf, logged)
      PROVE  Ahead(s, k, file', buf', logged')
  <2>1. /\ Ahead(s, k, file, Append(buf, l), logged + 1)
        /\ Ahead(s, k, file, buf, logged + 1)
    BY <1>1, <1>5, AheadTaken
  <2> QED
    BY <1>1, <1>2, <2>1
<1>6. Grows(file, file')
  BY <1>1, GrowsNot
<1> QED
  BY <1>1, <1>3, <1>4, <1>5, <1>6, WriterStep

LEMMA SkipKeeps ==
  ASSUME IInv, Skip
  PROVE  IInv'
<1>1. /\ buf # <<>> /\ ~ShouldPersist(Head(buf)) /\ buf' = Tail(buf)
      /\ UNCHANGED <<starts, attached, writing, logged, exists, file, ragged,
                     expected, tail, seen, opened, cleared>>
  BY DEF Skip, fileVars, tailVars
<1>2. logged \in Nat /\ file \in Seq(Lines) /\ buf \in Seq(Lines)
  BY WriterFacts
<1>3. WriterTypes'
  BY <1>1 DEF IInv, WriterTypes
<1>4. Sound(file', buf', expected', logged')
  BY <1>1, <1>2, SoundSkipped DEF IInv
<1>5. ASSUME NEW s, NEW k \in Nat, Ahead(s, k, file, buf, logged)
      PROVE  Ahead(s, k, file', buf', logged')
  BY <1>1, <1>2, <1>5, AheadSkipped
<1>6. Grows(file, file')
  BY <1>1, <1>2, GrowsNot
<1> QED
  BY <1>1, <1>3, <1>4, <1>5, <1>6, WriterStep

LEMMA PersistKeeps ==
  ASSUME IInv, Persist
  PROVE  IInv'
<1>1. /\ buf # <<>> /\ ShouldPersist(Head(buf)) /\ buf' = Tail(buf)
      /\ file' = Append(file, Head(buf)) /\ ragged' = FALSE
      /\ UNCHANGED <<starts, attached, writing, logged, exists,
                     expected, tail, seen, opened, cleared>>
  BY DEF Persist, tailVars
<1>2. /\ logged \in Nat /\ file \in Seq(Lines) /\ buf \in Seq(Lines)
      /\ Len(file) \in Nat
  BY WriterFacts
<1>3. WriterTypes'
  BY <1>1 DEF IInv, WriterTypes
<1>4. Sound(file', buf', expected', logged')
  BY <1>1, <1>2, SoundWritten DEF IInv
<1>5. ASSUME NEW s, NEW k \in Nat, Ahead(s, k, file, buf, logged)
      PROVE  Ahead(s, k, file', buf', logged')
  BY <1>1, <1>2, <1>5, AheadWritten
<1>6. Grows(file, file')
  <2>1. Head(buf) \in Lines
    BY <1>1, <1>2, Tailed
  <2>2. /\ Len(file') = Len(file) + 1
        /\ \A i \in 1 .. Len(file) : file'[i] = file[i]
    BY <1>1, <1>2, <2>1, Appended
  <2> QED
    BY <1>2, <2>2 DEF Grows
<1> QED
  BY <1>1, <1>3, <1>4, <1>5, <1>6, WriterStep

LEMMA PauseKeeps ==
  ASSUME IInv, PersistFails \/ Return
  PROVE  IInv'
<1>1. /\ ragged' = TRUE \/ ragged' = ragged
      /\ writing' = FALSE
      /\ UNCHANGED <<starts, attached, buf, logged, exists, file,
                     expected, tail, seen, opened, cleared>>
  BY DEF PersistFails, Return, fileVars, tailVars
<1>2. file \in Seq(Lines)
  BY WriterFacts
<1>3. WriterTypes'
  <2>1. ragged' \in BOOLEAN
    BY <1>1 DEF IInv, WriterTypes
  <2> QED
    BY <1>1, <2>1 DEF IInv, WriterTypes
<1>4. Sound(file', buf', expected', logged')
  BY <1>1 DEF IInv
<1>5. \A s : \A k \in Nat :
        Ahead(s, k, file, buf, logged) => Ahead(s, k, file', buf', logged')
  BY <1>1
<1>6. Grows(file, file')
  BY <1>1, <1>2, GrowsNot
<1> QED
  BY <1>1, <1>3, <1>4, <1>5, <1>6, WriterStep

LEMMA ClearKeeps ==
  ASSUME IInv, Clear
  PROVE  IInv'
<1>1. /\ exists' = TRUE /\ file' = <<>> /\ ragged' = FALSE
      /\ expected' = SubSeq(expected, Len(file) + 1, Len(expected))
      /\ cleared' = [t \in Tails |-> TRUE]
      /\ UNCHANGED <<starts, attached, buf, writing, logged, tail, seen, opened>>
  BY DEF Clear, Emptied, writerVars
<1>2. logged \in Nat
  BY WriterFacts
<1>3. WriterTypes'
  BY <1>1 DEF IInv, WriterTypes
<1>4. Sound(file', buf', expected', logged')
  BY <1>1, <1>2, SoundCleared DEF IInv
<1>5. ASSUME NEW s, NEW k \in Nat, Ahead(s, k, file, buf, logged)
      PROVE  Ahead(s, k, file', buf', logged')
  BY <1>1, <1>5, AheadCleared
<1> QED
  BY <1>1, <1>3, <1>4, <1>5, WriterStep

LEMMA StartKeeps ==
  ASSUME IInv, Start
  PROVE  IInv'
<1>1. PICK rotated \in {FALSE, exists} :
        /\ file' = IF rotated THEN <<>> ELSE file
        /\ ragged' = (ragged /\ ~rotated)
        /\ \/ attached' = TRUE /\ exists' = TRUE
           \/ attached' = FALSE /\ exists' = (exists /\ ~rotated)
  BY DEF Start, Rotate
<1>2. /\ starts < MaxStarts /\ starts' = starts + 1
      /\ expected' = file' /\ buf' = <<>> /\ writing' = FALSE
      /\ tail' = [t \in Tails |-> NoTail]
      /\ UNCHANGED <<logged, seen, opened, cleared>>
  BY DEF Start
<1>3. WriterTypes'
  <2>0. /\ exists \in BOOLEAN /\ ragged \in BOOLEAN
        /\ exists \/ file = <<>>
    BY DEF IInv, WriterTypes
  <2>1. ASSUME rotated
      PROVE  /\ attached' \in BOOLEAN /\ exists' \in BOOLEAN /\ ragged' \in BOOLEAN
             /\ exists' \/ (file' = <<>> /\ ~attached')
    <3>1. file' = <<>> /\ ragged' = FALSE
      BY <1>1, <2>1
    <3>2. (attached' = TRUE /\ exists' = TRUE) \/ (attached' = FALSE /\ exists' = FALSE)
      BY <1>1, <2>1, Zenon
    <3> QED
      BY <3>1, <3>2, Zenon
  <2>2. ASSUME ~rotated
      PROVE  /\ attached' \in BOOLEAN /\ exists' \in BOOLEAN /\ ragged' \in BOOLEAN
             /\ exists' \/ (file' = <<>> /\ ~attached')
    <3>1. file' = file /\ ragged' = ragged
      BY <1>1, <2>0, <2>2
    <3>2. (attached' = TRUE /\ exists' = TRUE) \/ (attached' = FALSE /\ exists' = exists)
      BY <1>1, <2>0, <2>2
    <3> QED
      BY <2>0, <3>1, <3>2, Zenon
  <2>3. starts' \in 0 .. MaxStarts /\ logged' \in 0 .. MaxLogged
    BY <1>2 DEF IInv, WriterTypes
  <2>4. /\ attached' \in BOOLEAN /\ exists' \in BOOLEAN /\ ragged' \in BOOLEAN
        /\ exists' \/ (file' = <<>> /\ ~attached')
    BY <2>1, <2>2
  <2> QED
    BY <1>2, <2>3, <2>4 DEF WriterTypes
<1>4. Sound(file', buf', expected', logged')
  <2>1. /\ file \in Seq(MailLines) /\ logged \in Nat
        /\ Increasing(file) /\ UpTo(file, logged)
    BY WriterFacts DEF IInv, Sound, NumbersIncrease
  <2>2. Sound(file, <<>>, file, logged) /\ Sound(<<>>, <<>>, <<>>, logged)
    BY <2>1, SoundStarted
  <2>3. file' = file \/ file' = <<>>
    BY <1>1
  <2> QED
    BY <1>2, <2>2, <2>3
<1>5. TailTypes'
  BY <1>2 DEF IInv, TailTypes
<1>6. TailsInv'
  BY <1>2 DEF TailsInv, NoTail
<1> QED
  BY <1>3, <1>4, <1>5, <1>6 DEF IInv
-----------------------------------------------------------------------------
(* The fields of a tail that reads on, and of one that has its answer. *)
LEMMA ReadOn ==
  ASSUME NEW r \in Opened, RingShape(r)
  PROVE  LET r2 == [r EXCEPT !.read = @ + 1] IN
         /\ r2 \in Opened
         /\ r2.at = r.at /\ r2.query = r.query /\ r2.read = r.read + 1
         /\ RingShape(r2)
         /\ \A s, p : RingHolds(r, s, p) => RingHolds(r2, s, p)
<1> DEFINE k == r.read + 1
           r2 == [r EXCEPT !.read = k]
<1>1. k \in Nat
  BY DEF Opened
<1> HIDE DEF k
<1>2. r2 \in Opened
  BY <1>1, Zenon DEF Opened
<1>3. /\ r2.at = r.at /\ r2.query = r.query /\ r2.max = r.max /\ r2.read = k
      /\ r2.ring = r.ring /\ r2.idx = r.idx /\ r2.total = r.total
  BY DEF Opened
<1> HIDE DEF r2
<1>4. Places(r2) = Places(r) /\ Filled(r2) = Filled(r)
  BY <1>3 DEF Places, Filled
<1>5. RingShape(r2)
  BY <1>3, <1>4 DEF RingShape
<1>6. \A a, b : Older(r2, a, b) <=> Older(r, a, b)
  BY <1>3 DEF Older
<1>7. ASSUME NEW s, NEW p, RingHolds(r, s, p)
      PROVE  RingHolds(r2, s, p)
  BY <1>3, <1>4, <1>6, <1>7 DEF RingHolds
<1> QED
  BY <1>2, <1>3, <1>5, <1>7 DEF r2, k

LEMMA Answers ==
  ASSUME NEW r \in Opened, NEW out \in Seq(Entries)
  PROVE  LET r2 == [r EXCEPT !.at = "answered", !.out = out] IN
         /\ r2 \in Opened
         /\ r2.at = "answered" /\ r2.out = out
         /\ r2.query = r.query /\ r2.max = r.max /\ r2.read = r.read
<1> DEFINE r2 == [r EXCEPT !.at = "answered", !.out = out]
<1>1. "answered" \in {"scan", "answered"}
  OBVIOUS
<1>2. r2 \in Opened
  BY <1>1, Zenon DEF Opened
<1>3. /\ r2.at = "answered" /\ r2.out = out
      /\ r2.query = r.query /\ r2.max = r.max /\ r2.read = r.read
  BY DEF Opened
<1> QED
  BY <1>2, <1>3

(* Lines that increase are in order, and a fragment after them too. *)
LEMMA InOrderFacts ==
  ASSUME NEW s \in Seq(Lines), Increasing(s)
  PROVE  /\ s \in Seq(Entries)
         /\ InOrder(s)
         /\ Append(s, Fragment) \in Seq(Entries)
         /\ InOrder(Append(s, Fragment))
<1>1. Fragment \in Entries /\ s \in Seq(Entries)
  BY DEF Entries
<1>2. InOrder(s)
  BY DEF Increasing, InOrder
<1> DEFINE s2 == Append(s, Fragment)
<1>3. /\ s2 \in Seq(Entries) /\ Len(s2) = Len(s) + 1 /\ Len(s) \in Nat
      /\ \A i \in 1 .. Len(s) : s2[i] = s[i]
      /\ s2[Len(s) + 1] = Fragment
  BY <1>1, Appended
<1> HIDE DEF s2
<1>4. ASSUME NEW i \in 1 .. Len(s2), NEW j \in 1 .. Len(s2), i < j,
             Fragment \notin {s2[i], s2[j]}
      PROVE  s2[i].id < s2[j].id
  <2>1. i # Len(s) + 1 /\ j # Len(s) + 1
    BY <1>3, <1>4
  <2>2. i \in 1 .. Len(s) /\ j \in 1 .. Len(s)
    BY <1>3, <2>1
  <2> QED
    BY <1>3, <1>4, <2>2 DEF Increasing
<1>5. InOrder(s2)
  BY <1>4 DEF InOrder
<1> QED
  BY <1>1, <1>2, <1>3, <1>5 DEF s2

LEMMA TailFacts ==
  ASSUME IInv, NEW t \in Tails, tail[t].at = "scan"
  PROVE  /\ tail[t] \in Opened /\ tail[t].read \in Nat
         /\ RingShape(tail[t])
         /\ \E p : RingHolds(tail[t], seen[t], p)
         /\ Len(seen[t]) = tail[t].read
         /\ Ahead(seen[t], tail[t].read, file, buf, logged)
         /\ ReadSo(tail[t], seen[t], opened[t], cleared[t], file)
         /\ seen[t] \in Seq(Lines) /\ Increasing(seen[t])
         /\ opened[t] \in Nat /\ cleared[t] \in BOOLEAN
<1>1. /\ tail[t] = NoTail \/ tail[t] \in Opened
      /\ opened[t] \in Nat /\ cleared[t] \in BOOLEAN
  BY DEF IInv, TailTypes
<1>2. tail[t] \in Opened
  BY <1>1 DEF NoTail
<1>3. tail[t].read \in Nat
  BY <1>2 DEF Opened
<1>4. ScanInv(tail[t], seen[t], opened[t], cleared[t], file, buf, logged)
  BY DEF IInv, TailsInv
<1> QED
  BY <1>1, <1>2, <1>3, <1>4 DEF ScanInv, Ahead

LEMMA FileFacts ==
  ASSUME IInv
  PROVE  /\ Increasing(file) /\ UpTo(file, logged) /\ Behind(file, buf)
         /\ exists \/ Len(file) = 0
BY DEF IInv, Sound, NumbersIncrease, WriterTypes

LEMMA ScanKeeps ==
  ASSUME IInv, NEW t \in Tails, Scan(t)
  PROVE  IInv'
<1> DEFINE k == tail[t].read
           line == file[k + 1]
           r0 == [tail[t] EXCEPT !.read = @ + 1]
           r == InRing(r0, line)
           s == Append(seen[t], line)
<1>1. /\ tail[t].at = "scan" /\ k < Len(file)
      /\ tail' = [tail EXCEPT ![t] = r] /\ seen' = [seen EXCEPT ![t] = s]
      /\ UNCHANGED <<starts, attached, exists, file, ragged, buf, writing,
                     logged, expected, opened, cleared>>
  <2>1. tail' = [tail EXCEPT ![t] = r]
    BY DEF Scan
  <2>2. seen' = [seen EXCEPT ![t] = s]
    BY DEF Scan
  <2> QED
    BY <2>1, <2>2 DEF Scan, fileVars, writerVars
<1>2. /\ tail[t] \in Opened /\ k \in Nat /\ RingShape(tail[t])
      /\ Len(seen[t]) = k /\ seen[t] \in Seq(Lines)
      /\ Ahead(seen[t], k, file, buf, logged)
      /\ ReadSo(tail[t], seen[t], opened[t], cleared[t], file)
      /\ opened[t] \in Nat /\ cleared[t] \in BOOLEAN
  BY <1>1, TailFacts
<1>3. PICK p : RingHolds(tail[t], seen[t], p)
  BY <1>1, TailFacts
<1>4. /\ file \in Seq(Lines) /\ logged \in Nat
      /\ Increasing(file) /\ UpTo(file, logged) /\ Behind(file, buf)
  BY WriterFacts, FileFacts
<1>5. k + 1 \in 1 .. Len(file) /\ Len(file) \in Nat /\ line \in Lines
  BY <1>1, <1>2, <1>4, LineFacts
<1>6. line \in Entries /\ seen[t] \in Seq(Entries)
  BY <1>2, <1>5 DEF Entries
<1>7. /\ r0 \in Opened /\ r0.at = "scan" /\ r0.read = k + 1
      /\ RingShape(r0) /\ RingHolds(r0, seen[t], p)
  BY <1>1, <1>2, <1>3, ReadOn
<1>8. /\ s \in Seq(Entries) /\ Len(s) = k + 1
      /\ \A i \in 1 .. k : s[i] = seen[t][i]
      /\ s[k + 1] = line
  BY <1>2, <1>6, Appended
<1>9. Ahead(s, k + 1, file, buf, logged)
  BY <1>1, <1>2, <1>4, AheadScanned
<1> HIDE DEF r0, line, s, k
<1>10. r \in Opened /\ r.at = "scan" /\ r.read = k + 1
  BY <1>6, <1>7, InRingFields
<1>11. RingShape(r)
  BY <1>6, <1>7, PushShape
<1>12. \E p2 : RingHolds(r, s, p2)
  BY <1>6, <1>7, PushHolds DEF s
<1> HIDE DEF r
<1>13. ReadSo(r, s, opened[t], cleared[t], file)
  <2>1. CASE cleared[t]
    BY <2>1 DEF ReadSo
  <2>2. CASE ~cleared[t]
    <3>1. opened[t] <= Len(file) /\ \A i \in 1 .. k : seen[t][i] = file[i]
      BY <1>2, <2>2 DEF ReadSo, k
    <3>2. \A i \in 1 .. k + 1 : i \in 1 .. k \/ i = k + 1
      BY <1>2
    <3>3. ASSUME NEW i \in 1 .. r.read
          PROVE  s[i] = file[i]
      <4>1. i \in 1 .. k \/ i = k + 1
        BY <1>10, <3>2
      <4>2. CASE i \in 1 .. k
        BY <1>8, <3>1, <4>2
      <4>3. CASE i = k + 1
        BY <1>8, <4>3 DEF line
      <4> QED
        BY <4>1, <4>2, <4>3
    <3>4. r.read <= Len(file)
      BY <1>5, <1>10
    <3> QED
      BY <3>1, <3>3, <3>4 DEF ReadSo
  <2> QED
    BY <2>1, <2>2
<1>14. ScanInv(r, s, opened[t], cleared[t], file, buf, logged)
  BY <1>8, <1>9, <1>10, <1>11, <1>12, <1>13 DEF ScanInv
<1>15. /\ opened' = [opened EXCEPT ![t] = opened[t]]
       /\ cleared' = [cleared EXCEPT ![t] = cleared[t]]
  BY <1>1 DEF IInv, TailTypes
<1> QED
  BY <1>1, <1>2, <1>8, <1>10, <1>14, <1>15, TailStep

LEMMA OpenTailKeeps ==
  ASSUME IInv, NEW t \in Tails, NEW query \in Queries, NEW max \in LineCounts,
         OpenTail(t, query, max)
  PROVE  IInv'
<1> DEFINE at == IF exists THEN "scan" ELSE "answered"
           ring == [i \in 0 .. max - 1 |-> Fragment]
           r == [at |-> at, query |-> query, max |-> max, read |-> 0,
                 ring |-> ring, idx |-> 0, total |-> 0, out |-> <<>>]
           o == Len(file)
<1>1. /\ exists' = TRUE
      /\ tail' = [tail EXCEPT ![t] = r]
      /\ seen' = [seen EXCEPT ![t] = <<>>]
      /\ opened' = [opened EXCEPT ![t] = o]
      /\ cleared' = [cleared EXCEPT ![t] = FALSE]
      /\ UNCHANGED <<starts, attached, file, ragged, buf, writing, logged, expected>>
  BY DEF OpenTail, writerVars
<1>2. max \in Nat \ {0}
  OBVIOUS
<1>3. at \in {"scan", "answered"} /\ (at = "answered" => ~exists)
  OBVIOUS
<1>4. ring \in [0 .. max - 1 -> Entries] /\ ring \in Rings
  <2>1. Fragment \in Entries
    BY DEF Entries
  <2>2. ring \in [0 .. max - 1 -> Entries]
    BY <2>1
  <2> QED
    BY <2>2 DEF Rings
<1>5. /\ <<>> \in Seq(Entries) /\ <<>> \in Seq(Lines) /\ Len(<<>>) = 0
      /\ 0 \in Nat
  OBVIOUS
<1>6. /\ file \in Seq(Lines) /\ o \in Nat
      /\ exists \/ o = 0
  BY WriterFacts, FileFacts
<1> HIDE DEF at, ring, o
<1>7. r \in Opened
  BY <1>3, <1>4, <1>5, Zenon DEF Opened
<1>8. /\ r.at = at /\ r.query = query /\ r.max = max /\ r.read = 0
      /\ r.ring = ring /\ r.idx = 0 /\ r.total = 0 /\ r.out = <<>>
  OBVIOUS
<1> HIDE DEF r
<1>9. Places(r) = 0 .. max - 1 /\ Filled(r) = {}
  BY <1>2, <1>8 DEF Places, Filled
<1>10. RingShape(r)
  BY <1>2, <1>4, <1>8, <1>9 DEF RingShape
<1>11. \E p : RingHolds(r, <<>>, p)
  <2> DEFINE p == [a \in Places(r) |-> 0]
  <2>1. p \in [Places(r) -> Nat]
    OBVIOUS
  <2> HIDE DEF p
  <2>2. RingHolds(r, <<>>, p)
    BY <1>5, <1>9, <2>1 DEF RingHolds
  <2> QED
    BY <2>2
<1>12. Ahead(<<>>, 0, file, buf, logged)
  BY <1>5 DEF Ahead, Increasing, UpTo, Behind
<1>13. ReadSo(r, <<>>, o, FALSE, file)
  BY <1>6, <1>8 DEF ReadSo, o
<1>14. ScanInv(r, <<>>, o, FALSE, file, buf, logged)
  BY <1>5, <1>8, <1>10, <1>11, <1>12, <1>13 DEF ScanInv
<1>15. r.at = "answered" => ShownInv(r, <<>>, o, FALSE, file)
  <2> SUFFICES ASSUME r.at = "answered"
               PROVE  ShownInv(r, <<>>, o, FALSE, file)
    OBVIOUS
  <2>1. o = 0
    BY <1>3, <1>6, <1>8
  <2>2. LastOf(<<>>, max, <<>>, query)
    <3> DEFINE none == [i \in {} |-> 0]
               matching == {k \in 1 .. Len(<<>>) : Matches(query, <<>>[k])}
    <3>1. matching = {} /\ 1 .. Len(<<>>) = {} /\ Len(<<>>) <= max
      BY <1>2, <1>5
    <3>2. none \in [{} -> {}]
      OBVIOUS
    <3> HIDE DEF none, matching
    <3>3. \E w \in [1 .. Len(<<>>) -> matching] :
            /\ \A i \in 1 .. Len(<<>>) : <<>>[i] = <<>>[w[i]]
            /\ \A i, j \in 1 .. Len(<<>>) : i < j => w[i] < w[j]
            /\ \A k \in matching :
                 \/ \E i \in 1 .. Len(<<>>) : w[i] = k
                 \/ Len(<<>>) = max /\ \A i \in 1 .. Len(<<>>) : k < w[i]
      BY <3>1, <3>2, Zenon
    <3> QED
      BY <3>1, <3>3 DEF LastOf, matching
  <2>3. InOrder(<<>>)
    BY <1>5 DEF InOrder
  <2>4. o <= r.read
    BY <1>8, <2>1
  <2>5. LastOf(r.out, r.max, <<>>, r.query) /\ InOrder(r.out)
    BY <1>8, <2>2, <2>3, Zenon
  <2> QED
    BY <1>13, <2>4, <2>5, Zenon DEF ShownInv
<1> QED
  BY <1>1, <1>5, <1>6, <1>7, <1>14, <1>15, TailStep

LEMMA EndTailKeeps ==
  ASSUME IInv, NEW t \in Tails, EndTail(t)
  PROVE  IInv'
<1> DEFINE more == ragged /\ tail[t].read = Len(file)
           r1 == IF more THEN InRing(tail[t], Fragment) ELSE tail[t]
           s == IF more THEN Append(seen[t], Fragment) ELSE seen[t]
           out == RingLines(r1)
           r == [r1 EXCEPT !.at = "answered", !.out = out]
<1>1. /\ tail[t].at = "scan" /\ tail[t].read >= Len(file)
      /\ tail' = [tail EXCEPT ![t] = r]
      /\ seen' = [seen EXCEPT ![t] = s]
      /\ UNCHANGED <<starts, attached, exists, file, ragged, buf, writing,
                     logged, expected, opened, cleared>>
  BY DEF EndTail, fileVars, writerVars
<1>2. /\ tail[t] \in Opened /\ tail[t].read \in Nat /\ RingShape(tail[t])
      /\ Len(seen[t]) = tail[t].read
      /\ seen[t] \in Seq(Lines) /\ Increasing(seen[t])
      /\ ReadSo(tail[t], seen[t], opened[t], cleared[t], file)
      /\ opened[t] \in Nat /\ cleared[t] \in BOOLEAN
  BY <1>1, TailFacts
<1>3. PICK p : RingHolds(tail[t], seen[t], p)
  BY <1>1, TailFacts
<1>4. Fragment \in Entries /\ seen[t] \in Seq(Entries)
  BY <1>2, InOrderFacts DEF Entries
<1>5. /\ s \in Seq(Entries) /\ InOrder(s)
      /\ \A i \in 1 .. tail[t].read : s[i] = seen[t][i]
  <2>1. /\ seen[t] \in Seq(Entries) /\ InOrder(seen[t])
        /\ Append(seen[t], Fragment) \in Seq(Entries)
        /\ InOrder(Append(seen[t], Fragment))
    BY <1>2, InOrderFacts
  <2>2. \A i \in 1 .. tail[t].read : Append(seen[t], Fragment)[i] = seen[t][i]
    BY <1>2, <1>4, Appended
  <2> QED
    BY <2>1, <2>2
<1>6. r1 \in Opened /\ r1.read = tail[t].read
  BY <1>2, <1>4, InRingFields
<1>7. RingShape(r1)
  BY <1>2, <1>4, PushShape
<1>8. PICK p1 : RingHolds(r1, s, p1)
  BY <1>2, <1>3, <1>4, PushHolds
<1> HIDE DEF more, r1, s
<1>9. out \in Seq(Entries) /\ LastOf(out, r1.max, s, r1.query)
  BY <1>5, <1>6, <1>7, <1>8, RingShows
<1> HIDE DEF out
<1>10. InOrder(out)
  BY <1>5, <1>9, LastInOrder
<1>11. /\ r \in Opened /\ r.at = "answered" /\ r.out = out
       /\ r.query = r1.query /\ r.max = r1.max /\ r.read = tail[t].read
  BY <1>6, <1>9, Answers
<1> HIDE DEF r
<1>12. ReadSo(r, s, opened[t], cleared[t], file)
  BY <1>2, <1>5, <1>11 DEF ReadSo
<1>13. cleared[t] \/ opened[t] <= r.read
  <2>1. Len(file) \in Nat
    BY WriterFacts
  <2>2. cleared[t] \/ opened[t] <= Len(file)
    BY <1>2 DEF ReadSo
  <2> QED
    BY <1>1, <1>2, <1>11, <2>1, <2>2
<1>14. ShownInv(r, s, opened[t], cleared[t], file)
  BY <1>9, <1>10, <1>11, <1>12, <1>13 DEF ShownInv
<1>15. /\ opened' = [opened EXCEPT ![t] = opened[t]]
       /\ cleared' = [cleared EXCEPT ![t] = cleared[t]]
  BY <1>1 DEF IInv, TailTypes
<1> QED
  BY <1>1, <1>2, <1>5, <1>11, <1>14, <1>15, TailStep
-----------------------------------------------------------------------------
LEMMA StepKeeps == IInv /\ [Next]_vars => IInv'
<1> SUFFICES ASSUME IInv, [Next]_vars PROVE IInv'
  OBVIOUS
<1>1. ASSUME NEW kind \in Kinds, Log(kind) PROVE IInv'
  BY <1>1, LogKeeps
<1>2. CASE Skip
  BY <1>2, SkipKeeps
<1>3. CASE Persist
  BY <1>3, PersistKeeps
<1>4. CASE PersistFails \/ Return
  BY <1>4, PauseKeeps
<1>5. CASE Clear
  BY <1>5, ClearKeeps
<1>6. ASSUME NEW t \in Tails, NEW q \in Queries, NEW n \in LineCounts,
             OpenTail(t, q, n)
      PROVE  IInv'
  BY <1>6, OpenTailKeeps
<1>7. ASSUME NEW t \in Tails, Scan(t) PROVE IInv'
  BY <1>7, ScanKeeps
<1>8. ASSUME NEW t \in Tails, EndTail(t) PROVE IInv'
  BY <1>8, EndTailKeeps
<1>9. CASE Start
  BY <1>9, StartKeeps
<1>10. CASE UNCHANGED vars
  <2>1. UNCHANGED <<starts, attached, exists, file, ragged, buf, writing,
                    logged, expected, tail, seen, opened, cleared>>
    BY <1>10 DEF vars, fileVars, writerVars, tailVars
  <2>2. WriterTypes' /\ TailTypes'
    BY <2>1 DEF IInv, WriterTypes, TailTypes
  <2>3. Sound(file', buf', expected', logged')
    BY <2>1 DEF IInv
  <2>4. TailsInv'
    BY <2>1 DEF IInv, TailsInv
  <2> QED
    BY <2>2, <2>3, <2>4 DEF IInv
<1> QED
  BY <1>1, <1>2, <1>3, <1>4, <1>5, <1>6, <1>7, <1>8, <1>9, <1>10 DEF Next

LEMMA Invariance == Spec => []IInv
<1> QED
  BY InitIsSound, StepKeeps, PTL DEF Spec

LEMMA IsTyped == IInv => TypeOK
<1> SUFFICES ASSUME IInv PROVE TypeOK
  OBVIOUS
<1>1. /\ starts \in 0 .. MaxStarts /\ logged \in 0 .. MaxLogged
      /\ attached \in BOOLEAN /\ exists \in BOOLEAN
      /\ ragged \in BOOLEAN /\ writing \in BOOLEAN
  BY DEF IInv, WriterTypes
<1>2. /\ file \in Seq(MailLines)
      /\ buf \in Seq(Lines)
      /\ expected \in Seq(Lines)
  BY DEF IInv, Sound
<1>3. /\ seen \in [Tails -> Seq(Lines \cup {Fragment})]
      /\ opened \in [Tails -> Nat]
      /\ cleared \in [Tails -> BOOLEAN]
  BY DEF IInv, TailTypes, Entries
<1>4. ASSUME NEW t \in Tails
      PROVE  tail[t].at \in {"idle", "scan", "answered"}
  <2>1. tail[t] = NoTail \/ tail[t] \in Opened
    BY DEF IInv, TailTypes
  <2> QED
    BY <2>1 DEF NoTail, Opened
<1> QED
  BY <1>1, <1>2, <1>3, <1>4 DEF TypeOK, MailLines

LEMMA LosesNothing == IInv => NoEventLost
<1> SUFFICES ASSUME IInv PROVE NoEventLost
  OBVIOUS
<1>1. /\ FileIsExpected(file, expected) /\ RestIsHeld(file, buf, expected)
      /\ Increasing(expected)
  BY DEF IInv, Sound, NumbersIncrease
<1> DEFINE Rest == {expected[i] : i \in Len(file) + 1 .. Len(expected)}
           Held == {buf[i] : i \in {j \in 1 .. Len(buf) : ShouldPersist(buf[j])}}
<1>2. Rest \subseteq Held
  BY <1>1 DEF RestIsHeld
<1>3. Held \subseteq Rest
  BY <1>1 DEF RestIsHeld
<1>4. Rest = Held
  BY <1>2, <1>3
<1> QED
  BY <1>1, <1>4 DEF NoEventLost, FileIsExpected, Increasing

LEMMA ShowsTheLast == IInv => TailIsLast /\ TailInOrder
<1> SUFFICES ASSUME IInv, NEW t \in Tails, tail[t].at = "answered"
             PROVE  /\ LastOf(tail[t].out, tail[t].max, seen[t], tail[t].query)
                    /\ \/ cleared[t]
                       \/ /\ tail[t].read \in opened[t] .. Len(file)
                          /\ \A i \in 1 .. tail[t].read : seen[t][i] = file[i]
                    /\ InOrder(tail[t].out)
  BY DEF TailIsLast, TailInOrder, InOrder
<1>1. ShownInv(tail[t], seen[t], opened[t], cleared[t], file)
  BY DEF IInv, TailsInv
<1>2. tail[t].read \in Nat /\ opened[t] \in Nat /\ Len(file) \in Nat
  <2>1. tail[t] = NoTail \/ tail[t] \in Opened
    BY DEF IInv, TailTypes
  <2>2. tail[t] \in Opened
    BY <2>1 DEF NoTail
  <2> QED
    BY <2>2, WriterFacts DEF IInv, TailTypes, Opened
<1> QED
  BY <1>1, <1>2 DEF ShownInv, ReadSo
-----------------------------------------------------------------------------
(* Every variable has its type, and the file holds nothing but lines about *)
(* mail, whatever is logged, fails or is cleared (main.go:91-98).          *)
THEOREM TypeCorrect == Spec => []TypeOK
<1> QED
  BY Invariance, IsTyped, PTL

(* Every line about mail that the writer took is in the file or still in   *)
(* its buffer, once and in its order, for any number of lines, starts and  *)
(* failing writes (main.go:81-100).                                        *)
THEOREM NothingIsLost == Spec => []NoEventLost
<1> QED
  BY Invariance, LosesNothing, PTL

(* However many tails read, of any query and number of lines, each shows   *)
(* the last lines of what it has read that match (v2.go:883-904).          *)
THEOREM TailsShowTheLast == Spec => []TailIsLast
<1> QED
  BY Invariance, ShowsTheLast, PTL

(* No tail shows a line twice or before an older one, although the file is *)
(* cleared and written while it is read (v2.go:883-904, main.go:87-98).    *)
THEOREM TailsAreInOrder == Spec => []TailInOrder
<1> QED
  BY Invariance, ShowsTheLast, PTL
=============================================================================
