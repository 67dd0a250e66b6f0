-------------------------- MODULE DeliveryProofs ---------------------------
(***************************************************************************)
(* Proofs about Delivery for any set of messages.                          *)
(***************************************************************************)
EXTENDS Delivery, SequenceTheorems, TLAPS

InV1 == IF v1 = Nothing THEN 0 ELSE 1
InV2 == IF v2 = Nothing THEN 0 ELSE 1
ForV1 == IF dispatcher.for = "v1" THEN 1 ELSE 0
ForV2 == IF dispatcher.for = "none" THEN 0 ELSE 1

(* Every message that was taken is in one place on its way to each of the  *)
(* two interfaces: shown, in the hand of the loop, or with the dispatcher. *)
OnItsWay ==
  /\ Len(log) = Len(streamed) + InV1 + ForV1
  /\ Len(log) = Len(broadcast) + InV2 + ForV2

InPlace ==
  /\ \A i \in 1 .. Len(streamed) : streamed[i] = log[i]
  /\ \A i \in 1 .. Len(broadcast) : broadcast[i] = log[i]
  /\ v1 # Nothing => log[Len(streamed) + 1] = v1
  /\ v2 # Nothing => log[Len(broadcast) + 1] = v2
  /\ dispatcher.for # "none" => log[Len(log)] = dispatcher.message

(* What was taken is answered, and was taken once. *)
TakenOnce ==
  /\ \A i \in 1 .. Len(log) : log[i] \in answered
  /\ \A i, j \in 1 .. Len(log) : log[i] = log[j] => i = j

Inv == TypeOK /\ OnItsWay /\ InPlace /\ TakenOnce

LEMMA InitInv == Init => Inv
<1> SUFFICES ASSUME Init PROVE Inv
  OBVIOUS
<1>1. /\ log \in Seq(Messages) /\ Len(log) = 0
      /\ streamed \in Seq(Messages) /\ Len(streamed) = 0
      /\ broadcast \in Seq(Messages) /\ Len(broadcast) = 0
  BY DEF Init
<1>2. dispatcher.for = "none"
  BY DEF Init, NoMessage
<1>3. TypeOK
  BY <1>1 DEF Init, TypeOK
<1>4. OnItsWay
  BY <1>1, <1>2 DEF Init, OnItsWay, InV1, InV2, ForV1, ForV2
<1>5. InPlace
  BY <1>1, <1>2 DEF Init, InPlace
<1>6. TakenOnce
  BY <1>1 DEF TakenOnce
<1> QED  BY <1>3, <1>4, <1>5, <1>6 DEF Inv

(* What Append does, as the steps below need it. *)
LEMMA Appended ==
  ASSUME NEW s \in Seq(Messages), NEW m \in Messages
  PROVE  /\ Append(s, m) \in Seq(Messages)
         /\ Len(Append(s, m)) = Len(s) + 1
         /\ \A i \in 1 .. Len(s) : Append(s, m)[i] = s[i]
         /\ Append(s, m)[Len(s) + 1] = m
BY AppendProperties

LEMMA DispatcherTypes ==
  ASSUME TypeOK
  PROVE  /\ dispatcher.for \in {"none", "v1", "v2"}
         /\ dispatcher.for # "none" => /\ dispatcher.message \in Messages
                                       /\ dispatcher.message # Nothing
         /\ dispatcher = NoMessage <=> dispatcher.for = "none"
BY DeliveryAssumption DEF TypeOK, NoMessage

LEMMA StoreInv ==
  ASSUME Inv, NEW m \in Messages, Store(m) PROVE Inv'
<1>1. TypeOK'
  BY DEF Inv, TypeOK, Store
<1>2. (OnItsWay /\ InPlace /\ TakenOnce)'
  BY DEF Inv, Store, OnItsWay, InPlace, TakenOnce, InV1, InV2, ForV1, ForV2
<1> QED  BY <1>1, <1>2 DEF Inv

LEMMA TakeInv ==
  ASSUME Inv, NEW m \in Messages, Take(m) PROVE Inv'
<1> DEFINE n == Len(log)
<1>1. /\ log' \in Seq(Messages) /\ n \in Nat
      /\ Len(log') = n + 1
      /\ \A i \in 1 .. n : log'[i] = log[i]
      /\ log'[n + 1] = m
  BY Appended DEF Inv, TypeOK, Take
<1>2. /\ dispatcher.for = "none"
      /\ dispatcher' = [message |-> m, for |-> "v1"]
      /\ UNCHANGED <<v1, v2, keepalive, stalled, streamed, broadcast>>
      /\ waiting' = waiting \ {m} /\ answered' = answered \cup {m}
      /\ m \notin answered
  BY DEF Take, NoMessage, Inv, TypeOK
<1>3. TypeOK'
  BY <1>1, <1>2 DEF Inv, TypeOK
<1>4. /\ Len(streamed) \in Nat /\ Len(broadcast) \in Nat
      /\ n = Len(streamed) + InV1 /\ n = Len(broadcast) + InV2
      /\ InV1 \in {0, 1} /\ InV2 \in {0, 1}
  BY <1>2 DEF Inv, TypeOK, OnItsWay, InV1, InV2, ForV1, ForV2
<1>5. OnItsWay'
  BY <1>1, <1>2, <1>4 DEF OnItsWay, InV1, InV2, ForV1, ForV2
<1>6. InPlace'
  BY <1>1, <1>2, <1>4 DEF Inv, InPlace, InV1, InV2
<1>7. TakenOnce'
  BY <1>1, <1>2 DEF Inv, TakenOnce
<1> QED  BY <1>3, <1>5, <1>6, <1>7 DEF Inv

LEMMA HandToV1Inv == Inv /\ HandToV1 => Inv'
<1> SUFFICES ASSUME Inv, HandToV1 PROVE Inv'
  OBVIOUS
<1>1. /\ dispatcher.for = "v1" /\ dispatcher'.for = "v2"
      /\ dispatcher'.message = dispatcher.message
      /\ dispatcher' \in [message : Messages, for : {"v1", "v2"}]
      /\ v1 = Nothing /\ v1' = dispatcher.message /\ v1' # Nothing
      /\ v1' \in Messages /\ ~keepalive
      /\ UNCHANGED <<waiting, answered, v2, keepalive, stalled, log, streamed,
                     broadcast>>
  BY DispatcherTypes DEF HandToV1, Inv, TypeOK, NoMessage
<1>2. TypeOK'
  BY <1>1 DEF Inv, TypeOK
<1>3. /\ Len(streamed) \in Nat /\ Len(log) = Len(streamed) + 1
  BY <1>1 DEF Inv, TypeOK, OnItsWay, InV1, ForV1
<1>4. OnItsWay'
  BY <1>1, <1>3 DEF Inv, OnItsWay, InV1, InV2, ForV1, ForV2
<1>5. InPlace'
  BY <1>1, <1>3 DEF Inv, InPlace
<1>6. TakenOnce'
  BY <1>1 DEF Inv, TakenOnce
<1> QED  BY <1>2, <1>4, <1>5, <1>6 DEF Inv

LEMMA HandToV2Inv == Inv /\ HandToV2 => Inv'
<1> SUFFICES ASSUME Inv, HandToV2 PROVE Inv'
  OBVIOUS
<1>1. /\ dispatcher.for = "v2" /\ dispatcher'.for = "none"
      /\ dispatcher' = NoMessage
      /\ v2 = Nothing /\ v2' = dispatcher.message /\ v2' # Nothing
      /\ v2' \in Messages
      /\ UNCHANGED <<waiting, answered, v1, keepalive, stalled, log, streamed,
                     broadcast>>
  BY DispatcherTypes DEF HandToV2, Inv, TypeOK, NoMessage
<1>2. TypeOK'
  BY <1>1 DEF Inv, TypeOK
<1>3. /\ Len(broadcast) \in Nat /\ Len(log) = Len(broadcast) + 1
      /\ Len(log) = Len(streamed) + InV1
      /\ Len(streamed) \in Nat /\ InV1 \in {0, 1}
  BY <1>1 DEF Inv, TypeOK, OnItsWay, InV1, InV2, ForV1, ForV2
<1>4. OnItsWay'
  BY <1>1, <1>3 DEF OnItsWay, InV1, InV2, ForV1, ForV2
<1>5. InPlace'
  BY <1>1, <1>3 DEF Inv, InPlace
<1>6. TakenOnce'
  BY <1>1 DEF Inv, TakenOnce
<1> QED  BY <1>2, <1>4, <1>5, <1>6 DEF Inv

LEMMA NotifyInv == Inv /\ Notify => Inv'
<1> SUFFICES ASSUME Inv, Notify PROVE Inv'
  OBVIOUS
<1> DEFINE n == Len(streamed)
<1>1. /\ v1 \in Messages /\ v1 # Nothing /\ v1' = Nothing
      /\ streamed' \in Seq(Messages) /\ n \in Nat
      /\ Len(streamed') = n + 1
      /\ \A i \in 1 .. n : streamed'[i] = streamed[i]
      /\ streamed'[n + 1] = v1
      /\ UNCHANGED <<waiting, answered, dispatcher, v2, keepalive, stalled,
                     log, broadcast>>
  BY Appended DEF Notify, Inv, TypeOK
<1>2. TypeOK'
  BY <1>1 DEF Inv, TypeOK
<1>3. OnItsWay'
  <2>1. InV1 = 1 /\ InV1' = 0 /\ UNCHANGED <<InV2, ForV1, ForV2>>
    BY <1>1 DEF InV1, InV2, ForV1, ForV2
  <2>2. n + 1 + ForV1 = n + 1 + 0 + ForV1
    BY <1>1 DEF ForV1
  <2> QED  BY <1>1, <2>1, <2>2 DEF Inv, OnItsWay
<1>4. InPlace'
  BY <1>1 DEF Inv, InPlace
<1>5. TakenOnce'
  BY <1>1 DEF Inv, TakenOnce
<1> QED  BY <1>2, <1>3, <1>4, <1>5 DEF Inv

LEMMA BroadcastInv == Inv /\ Broadcast => Inv'
<1> SUFFICES ASSUME Inv, Broadcast PROVE Inv'
  OBVIOUS
<1> DEFINE n == Len(broadcast)
<1>1. /\ v2 \in Messages /\ v2 # Nothing /\ v2' = Nothing
      /\ broadcast' \in Seq(Messages) /\ n \in Nat
      /\ Len(broadcast') = n + 1
      /\ \A i \in 1 .. n : broadcast'[i] = broadcast[i]
      /\ broadcast'[n + 1] = v2
      /\ UNCHANGED <<waiting, answered, dispatcher, v1, keepalive, stalled,
                     log, streamed>>
  BY Appended DEF Broadcast, Inv, TypeOK
<1>2. TypeOK'
  BY <1>1 DEF Inv, TypeOK
<1>3. OnItsWay'
  <2>1. InV2 = 1 /\ InV2' = 0 /\ UNCHANGED <<InV1, ForV1, ForV2>>
    BY <1>1 DEF InV1, InV2, ForV1, ForV2
  <2>2. n + 1 + ForV2 = n + 1 + 0 + ForV2
    BY <1>1 DEF ForV2
  <2> QED  BY <1>1, <2>1, <2>2 DEF Inv, OnItsWay
<1>4. InPlace'
  BY <1>1 DEF Inv, InPlace
<1>5. TakenOnce'
  BY <1>1 DEF Inv, TakenOnce
<1> QED  BY <1>2, <1>3, <1>4, <1>5 DEF Inv

(* Keepalives and stalls move no message. *)
LEMMA NoMessageMoves ==
  Inv /\ (Keepalive \/ KeptAlive \/ Stall \/ Unstall) => Inv'
<1> SUFFICES ASSUME Inv, Keepalive \/ KeptAlive \/ Stall \/ Unstall PROVE Inv'
  OBVIOUS
<1>1. UNCHANGED <<waiting, answered, dispatcher, v1, v2, log, streamed,
                  broadcast>>
  BY DEF Keepalive, KeptAlive, Stall, Unstall
<1>2. TypeOK'
  <2>1. CASE Keepalive
    BY <1>1, <2>1 DEF Inv, TypeOK, Keepalive
  <2>2. CASE KeptAlive
    BY <1>1, <2>2 DEF Inv, TypeOK, KeptAlive
  <2>3. CASE Stall
    BY <1>1, <2>3 DEF Inv, TypeOK, Stall
  <2>4. CASE Unstall
    BY <1>1, <2>4 DEF Inv, TypeOK, Unstall
  <2> QED  BY <2>1, <2>2, <2>3, <2>4
<1>3. (OnItsWay /\ InPlace /\ TakenOnce)'
  BY <1>1 DEF Inv, OnItsWay, InPlace, TakenOnce, InV1, InV2, ForV1, ForV2
<1> QED  BY <1>2, <1>3 DEF Inv

LEMMA NextInv == Inv /\ [Next]_vars => Inv'
<1> SUFFICES ASSUME Inv, [Next]_vars PROVE Inv'
  OBVIOUS
<1>1. CASE \E m \in Messages : Store(m) \/ Take(m)
  BY <1>1, StoreInv, TakeInv
<1>2. CASE HandToV1 \/ HandToV2
  BY <1>2, HandToV1Inv, HandToV2Inv
<1>3. CASE Notify \/ Broadcast
  BY <1>3, NotifyInv, BroadcastInv
<1>4. CASE Keepalive \/ KeptAlive \/ Stall \/ Unstall
  BY <1>4, NoMessageMoves
<1>5. CASE UNCHANGED vars
  BY <1>5 DEF vars, Inv, TypeOK, OnItsWay, InPlace, TakenOnce, InV1, InV2,
              ForV1, ForV2
<1> QED  BY <1>1, <1>2, <1>3, <1>4, <1>5 DEF Next

LEMMA InvHolds == Spec => []Inv
BY InitInv, NextInv, PTL DEF Spec

(* Every variable keeps its type, a session waits or was answered, and     *)
(* apiv1's loop does one thing at a time (v1.go:65-77).                    *)
THEOREM TypeCorrect == Spec => []TypeOK
<1>1. Inv => TypeOK
  BY DEF Inv
<1> QED  BY <1>1, InvHolds, PTL

(* Both live interfaces show the messages in the order they were taken,    *)
(* each once and none missing (api.go:17-23).                              *)
THEOREM InterfacesAgree == Spec => []StreamsAgree
<1>1. Inv => StreamsAgree
  <2> SUFFICES ASSUME Inv PROVE StreamsAgree
    OBVIOUS
  <2>1. IsInjective(log)
    BY DEF Inv, TypeOK, TakenOnce, IsInjective
  <2>2. /\ Len(streamed) \in Nat /\ Len(broadcast) \in Nat /\ Len(log) \in Nat
        /\ Len(streamed) <= Len(log) /\ Len(broadcast) <= Len(log)
    <3>1. /\ Len(streamed) \in Nat /\ Len(broadcast) \in Nat
          /\ Len(log) \in Nat
      BY DEF Inv, TypeOK
    <3>2. /\ InV1 \in {0, 1} /\ InV2 \in {0, 1}
          /\ ForV1 \in {0, 1} /\ ForV2 \in {0, 1}
      BY DEF InV1, InV2, ForV1, ForV2
    <3> QED  BY <3>1, <3>2 DEF Inv, OnItsWay
  <2>3. SubSeq(streamed, 1, Len(streamed)) = SubSeq(log, 1, Len(streamed))
    BY <2>2 DEF Inv, TypeOK, InPlace
  <2>4. SubSeq(broadcast, 1, Len(broadcast)) = SubSeq(log, 1, Len(broadcast))
    BY <2>2 DEF Inv, TypeOK, InPlace
  <2> QED  BY <2>1, <2>2, <2>3, <2>4 DEF StreamsAgree, IsPrefix
<1> QED  BY <1>1, InvHolds, PTL

(* At most two messages are in flight, whatever stalls (api.go:17-23).     *)
THEOREM PipelineIsShort == Spec => []InFlightBounded
<1>1. Inv => InFlightBounded
  <2> SUFFICES ASSUME Inv PROVE InFlightBounded
    OBVIOUS
  <2>1. /\ Len(streamed) \in Nat /\ Len(broadcast) \in Nat /\ Len(log) \in Nat
    BY DEF Inv, TypeOK
  <2>2. ForV1 <= ForV2 /\ ForV1 \in {0, 1} /\ ForV2 \in {0, 1}
    BY DEF ForV1, ForV2
  <2> QED  BY <2>1, <2>2 DEF Inv, OnItsWay, InFlightBounded, InV1, InV2
<1> QED  BY <1>1, InvHolds, PTL
=============================================================================
