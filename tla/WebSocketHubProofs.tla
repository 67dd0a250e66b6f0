------------------------ MODULE WebSocketHubProofs -------------------------
(***************************************************************************)
(* Proofs about WebSocketHub for any number of connections, any capacity   *)
(* of the send channels and any number of broadcasts.                      *)
(***************************************************************************)
EXTENDS WebSocketHub, SequenceTheorems, TLAPS

(* The range loop goes over registered connections, and a registered       *)
(* connection has a running reader and an open send channel: this is what  *)
(* NoPanic needs to be inductive.                                          *)
OpenWhileRegistered ==
  /\ visiting \subseteq connections
  /\ \A c \in connections :
       ~sendClosed[c] /\ reader[c] \in {"reading", "leaving"}
  /\ \A c \in Connections :
       reader[c] \in {"new", "registering"} => ~sendClosed[c]

Inv == TypeOK /\ OpenWhileRegistered /\ NoPanic

LEMMA InitInv == Init => Inv
<1> SUFFICES ASSUME Init PROVE Inv
  OBVIOUS
<1>1. /\ send \in [Connections -> Seq(Nat)]
      /\ written \in [Connections -> Seq(Nat)]
      /\ \A c \in Connections : Len(send[c]) <= SendBuffer
  BY HubAssumption DEF Init
<1> QED  BY <1>1 DEF Init, Inv, TypeOK, OpenWhileRegistered, NoPanic

USE DEF hubVars, sendVars, writerVars, socketVars

(* unregister closes only an open channel, of a registered connection. *)
LEMMA UnregisterSafe ==
  ASSUME Inv, NEW c \in Connections, Unregister(c)
  PROVE  /\ connections' = connections \ {c}
         /\ panicked' = FALSE
         /\ sendClosed' \in [Connections -> BOOLEAN]
         /\ \A d \in Connections \ {c} : sendClosed'[d] = sendClosed[d]
BY DEF Inv, TypeOK, OpenWhileRegistered, NoPanic, Unregister

LEMMA UpgradeInv ==
  ASSUME Inv, NEW c \in Connections, Upgrade(c) PROVE Inv'
BY DEF Inv, TypeOK, OpenWhileRegistered, NoPanic, Upgrade

LEMMA RegisterInv ==
  ASSUME Inv, NEW c \in Connections, Register(c) PROVE Inv'
BY DEF Inv, TypeOK, OpenWhileRegistered, NoPanic, Register, Idle

LEMMA LeaveInv ==
  ASSUME Inv, NEW c \in Connections, Leave(c) PROVE Inv'
<1>1. Unregister(c)
  BY DEF Leave
<1>2. /\ UNCHANGED <<visiting, published, publishing, send, writer, writing,
                     written, peer, joined>>
      /\ visiting = {}
      /\ reader' = [reader EXCEPT ![c] = "done"]
      /\ ws' = [ws EXCEPT ![c] = "closed"]
  BY DEF Leave, Idle
<1>3. TypeOK'
  BY <1>1, <1>2, UnregisterSafe DEF Inv, TypeOK
<1>4. /\ reader'[c] = "done"
      /\ \A d \in Connections \ {c} : reader'[d] = reader[d]
  BY <1>2 DEF Inv, TypeOK
<1>5. NoPanic' /\ visiting' \subseteq connections'
  BY <1>1, <1>2, UnregisterSafe DEF NoPanic
<1>6. ASSUME NEW d \in connections'
      PROVE  ~sendClosed'[d] /\ reader'[d] \in {"reading", "leaving"}
  BY <1>1, <1>4, <1>6, UnregisterSafe DEF Inv, TypeOK, OpenWhileRegistered
<1>7. ASSUME NEW d \in Connections, reader'[d] \in {"new", "registering"}
      PROVE  ~sendClosed'[d]
  BY <1>1, <1>4, <1>7, UnregisterSafe DEF Inv, OpenWhileRegistered
<1> QED  BY <1>3, <1>5, <1>6, <1>7 DEF Inv, OpenWhileRegistered

LEMMA VisitInv ==
  ASSUME Inv, NEW c \in Connections, Visit(c) PROVE Inv'
<1> USE DEF Inv, OpenWhileRegistered, NoPanic
<1>1. ~sendClosed[c] /\ c \in connections
  BY DEF Visit
<1>2. CASE Len(send[c]) < SendBuffer
  <2>1. /\ send' = [send EXCEPT ![c] = Append(@, published)]
        /\ visiting' = visiting \ {c}
        /\ UNCHANGED <<connections, sendClosed, panicked, published,
                       publishing, writer, writing, written, reader, ws, peer,
                       joined>>
    BY <1>1, <1>2, HubAssumption DEF Visit, TypeOK
  <2>2. send' \in [Connections -> Seq(Nat)]
    BY <2>1 DEF TypeOK
  <2>3. \A d \in Connections : Len(send'[d]) <= SendBuffer
    <3> SUFFICES ASSUME NEW d \in Connections
                 PROVE  Len(send'[d]) <= SendBuffer
      OBVIOUS
    <3>1. CASE d = c
      BY <1>2, <2>1, <3>1, HubAssumption DEF TypeOK
    <3>2. CASE d # c
      BY <2>1, <3>2 DEF TypeOK
    <3> QED  BY <3>1, <3>2
  <2> QED  BY <2>1, <2>2, <2>3 DEF TypeOK
<1>3. CASE Len(send[c]) >= SendBuffer
  <2>1. /\ Unregister(c)
        /\ visiting' = visiting \ {c}
        /\ UNCHANGED <<send, published, publishing, writer, writing, written,
                       reader, ws, peer, joined>>
    BY <1>1, <1>3, HubAssumption DEF Visit, TypeOK
  <2>2. TypeOK'
    BY <2>1, UnregisterSafe DEF TypeOK
  <2>3. OpenWhileRegistered' /\ NoPanic'
    BY <1>1, <2>1, UnregisterSafe DEF TypeOK
  <2> QED  BY <2>2, <2>3
<1> QED  BY <1>1, <1>2, <1>3 DEF Visit

LEMMA TakeFromSendInv ==
  ASSUME Inv, NEW c \in Connections, TakeFromSend(c) PROVE Inv'
<1> USE DEF Inv, OpenWhileRegistered, NoPanic, TakeFromSend
<1>1. send[c] \in Seq(Nat) /\ send[c] # <<>>
  BY DEF TypeOK
<1>2. /\ Head(send[c]) \in Nat /\ Tail(send[c]) \in Seq(Nat)
      /\ Len(Tail(send[c])) <= Len(send[c])
  BY <1>1
<1> QED  BY <1>2, HubAssumption DEF TypeOK

LEMMA WriteJSONInv ==
  ASSUME Inv, NEW c \in Connections, WriteJSON(c) PROVE Inv'
BY DEF Inv, TypeOK, OpenWhileRegistered, NoPanic, WriteJSON

LEMMA StopWritingInv ==
  ASSUME Inv, NEW c \in Connections, StopWriting(c) PROVE Inv'
BY DEF Inv, TypeOK, OpenWhileRegistered, NoPanic, StopWriting

LEMMA StopReadingInv ==
  ASSUME Inv, NEW c \in Connections, StopReading(c) PROVE Inv'
BY DEF Inv, TypeOK, OpenWhileRegistered, NoPanic, StopReading

LEMMA PeerLeavesInv ==
  ASSUME Inv, NEW c \in Connections, PeerLeaves(c) PROVE Inv'
BY DEF Inv, TypeOK, OpenWhileRegistered, NoPanic, PeerLeaves

LEMMA BroadcastInv ==
  ASSUME Inv, Broadcast \/ TakeMessage PROVE Inv'
<1>1. CASE Broadcast
  BY <1>1 DEF Inv, TypeOK, OpenWhileRegistered, NoPanic, Broadcast
<1>2. CASE TakeMessage
  <2>1. published' \in Nat /\ visiting' = connections
    BY <1>2 DEF TakeMessage, Inv, TypeOK
  <2> QED
    BY <1>2, <2>1 DEF Inv, TypeOK, OpenWhileRegistered, NoPanic, TakeMessage
<1> QED  BY <1>1, <1>2

LEMMA NextInv ==
  ASSUME Inv, [Next]_vars
  PROVE  Inv'
<1>1. CASE \E c \in Connections : HubStep(c)
  BY <1>1, RegisterInv, LeaveInv, VisitInv DEF HubStep
<1>2. CASE \E c \in Connections : WriterStep(c)
  BY <1>2, TakeFromSendInv, WriteJSONInv, StopWritingInv DEF WriterStep
<1>3. CASE \E c \in Connections : Upgrade(c) \/ StopReading(c) \/ PeerLeaves(c)
  BY <1>3, UpgradeInv, StopReadingInv, PeerLeavesInv
<1>4. CASE Broadcast \/ TakeMessage
  BY <1>4, BroadcastInv
<1>5. CASE UNCHANGED vars
  BY <1>5 DEF vars, Inv, TypeOK, OpenWhileRegistered, NoPanic
<1> QED  BY <1>1, <1>2, <1>3, <1>4, <1>5 DEF Next

LEMMA InvHolds == Spec => []Inv
BY InitInv, NextInv, PTL DEF Spec

(* Every variable keeps its type, and no send channel overflows.           *)
THEOREM TypeCorrect == Spec => []TypeOK
BY InvHolds, PTL DEF Inv

(* No send channel is closed twice, or sent on once closed, by any order   *)
(* of registrations, departures and broadcasts.                            *)
THEOREM HubNeverPanics == Spec => []NoPanic
BY InvHolds, PTL DEF Inv
-----------------------------------------------------------------------------
(* The messages a connection was sent continue each other: in the socket,  *)
(* in the hand of its writer, in its buffer.  A registered connection has  *)
(* as many of them as it was offered; one that is dropped keeps the order  *)
(* of what is left; one that is not registered yet has none.               *)
Held(c) == IF writer[c] = "writing" THEN 1 ELSE 0

Ordered(c) ==
  /\ reader[c] \in {"new", "registering"} =>
       writer[c] = "new" /\ Len(send[c]) = 0 /\ Len(written[c]) = 0
  /\ \A i \in 1 .. Len(written[c]) : written[c][i] = joined[c] + i
  /\ writer[c] = "writing" => writing[c] = joined[c] + Len(written[c]) + 1
  /\ writer[c] # "done" =>
       \A i \in 1 .. Len(send[c]) :
         send[c][i] = joined[c] + Len(written[c]) + Held(c) + i
  /\ writer[c] # "done" /\ c \in connections =>
       Len(written[c]) + Held(c) + Len(send[c]) = Offered(c)

InOrder == \A c \in Connections : Ordered(c)

LEMMA HeldTypes == \A c \in Connections : Held(c) \in Nat
BY DEF Held

(* What Append, Tail and \o do to the indices of a sequence. *)
LEMMA Appended ==
  ASSUME NEW s \in Seq(Nat), NEW m \in Nat
  PROVE  /\ Len(Append(s, m)) = Len(s) + 1
         /\ \A i \in 1 .. Len(s) : Append(s, m)[i] = s[i]
         /\ Append(s, m)[Len(s) + 1] = m
BY AppendProperties

LEMMA Tailed ==
  ASSUME NEW s \in Seq(Nat), s # <<>>
  PROVE  /\ Len(s) \in Nat \ {0}
         /\ Len(Tail(s)) = Len(s) - 1
         /\ Head(s) = s[1]
         /\ \A i \in 1 .. Len(s) - 1 : Tail(s)[i] = s[i + 1]
BY HeadTailProperties

LEMMA Joined ==
  \A s, t \in Seq(Nat) :
    /\ s \o t \in Seq(Nat)
    /\ Len(s \o t) = Len(s) + Len(t)
    /\ \A i \in 1 .. Len(s) : (s \o t)[i] = s[i]
    /\ \A i \in 1 .. Len(t) : (s \o t)[Len(s) + i] = t[i]
<1> SUFFICES ASSUME NEW s \in Seq(Nat), NEW t \in Seq(Nat)
             PROVE  /\ s \o t \in Seq(Nat)
                    /\ Len(s \o t) = Len(s) + Len(t)
                    /\ \A i \in 1 .. Len(s) : (s \o t)[i] = s[i]
                    /\ \A i \in 1 .. Len(t) : (s \o t)[Len(s) + i] = t[i]
  OBVIOUS
<1>1. \A i \in 1 .. Len(t) :
        Len(s) + i > Len(s) /\ (Len(s) + i) - Len(s) = i
  OBVIOUS
<1> QED  BY <1>1, ConcatProperties

LEMMA InitInOrder == Init => InOrder
<1> SUFFICES ASSUME Init, NEW c \in Connections PROVE Ordered(c)
  BY DEF InOrder
<1>1. Len(send[c]) = 0 /\ Len(written[c]) = 0 /\ writer[c] = "new"
  BY DEF Init
<1>2. c \notin connections
  BY DEF Init
<1> QED  BY <1>1, <1>2 DEF Ordered

(* A step that leaves what d was sent alone, though d may be dropped or    *)
(* its goroutines may stop.                                                *)
LEMMA Frame ==
  ASSUME NEW d \in Connections, Ordered(d),
         /\ written'[d] = written[d] /\ writing'[d] = writing[d]
         /\ send'[d] = send[d] /\ joined'[d] = joined[d],
         \/ writer'[d] = writer[d]
         \/ writer[d] # "new" /\ writer'[d] = "done",
         reader'[d] \in {"new", "registering"} =>
           reader[d] \in {"new", "registering"},
         d \in connections' => d \in connections /\ Offered(d)' = Offered(d)
  PROVE  Ordered(d)'
<1>1. CASE writer'[d] = writer[d]
  BY <1>1 DEF Ordered, Held
<1>2. CASE writer[d] # "new" /\ writer'[d] = "done"
  BY <1>2 DEF Ordered, Held
<1> QED  BY <1>1, <1>2

(* The step of another connection, when the hub does not move. *)
LEMMA UpgradeInOrder ==
  ASSUME Inv, InOrder, NEW c \in Connections,
         Upgrade(c) \/ StopReading(c) \/ PeerLeaves(c) \/ StopWriting(c)
  PROVE  InOrder'
<1> SUFFICES ASSUME NEW d \in Connections PROVE Ordered(d)'
  BY DEF InOrder
<1>1. UNCHANGED <<hubVars, send, writing, written, joined>>
  BY DEF Upgrade, StopReading, PeerLeaves, StopWriting
<1>2. Offered(d)' = Offered(d)
  BY <1>1 DEF Offered
<1>3. \/ writer'[d] = writer[d]
      \/ writer[d] # "new" /\ writer'[d] = "done"
  BY DEF Upgrade, StopReading, PeerLeaves, StopWriting, Inv, TypeOK
<1>4. reader'[d] \in {"new", "registering"} =>
        reader[d] \in {"new", "registering"}
  BY DEF Upgrade, StopReading, PeerLeaves, StopWriting, Inv, TypeOK
<1>5. Ordered(d)
  BY DEF InOrder
<1> QED  BY <1>1, <1>2, <1>3, <1>4, <1>5, Frame

LEMMA RegisterInOrder ==
  ASSUME Inv, InOrder, NEW c \in Connections, Register(c) PROVE InOrder'
<1> SUFFICES ASSUME NEW d \in Connections PROVE Ordered(d)'
  BY DEF InOrder
<1>1. Ordered(d)
  BY DEF InOrder
<1>2. /\ visiting = {} /\ visiting' = {} /\ published' = published
      /\ UNCHANGED <<send, written, writing>>
      /\ published \in Nat
  BY DEF Register, Idle, Inv, TypeOK
<1>3. CASE d = c
  <2>1. /\ joined'[d] = published /\ writer'[d] = "select"
        /\ reader'[d] = "reading"
        /\ Len(send'[d]) = 0 /\ Len(written'[d]) = 0
    BY <1>1, <1>2, <1>3 DEF Register, Inv, TypeOK, Ordered
  <2>2. Held(d)' = 0
    BY <2>1 DEF Held
  <2>3. Offered(d)' = published - published - 0
    BY <1>2, <2>1 DEF Offered
  <2>4. Offered(d)' = 0
    BY <1>2, <2>3
  <2> QED  BY <2>1, <2>2, <2>4 DEF Ordered
<1>4. CASE d # c
  <2>1. /\ joined'[d] = joined[d] /\ writer'[d] = writer[d]
        /\ reader'[d] = reader[d]
        /\ d \in connections' => d \in connections
    BY <1>4 DEF Register, Inv, TypeOK
  <2>2. Offered(d)' = Offered(d)
    BY <1>2, <2>1 DEF Offered
  <2> QED  BY <1>1, <1>2, <2>1, <2>2, Frame
<1> QED  BY <1>3, <1>4

LEMMA LeaveInOrder ==
  ASSUME Inv, InOrder, NEW c \in Connections, Leave(c) PROVE InOrder'
<1> SUFFICES ASSUME NEW d \in Connections PROVE Ordered(d)'
  BY DEF InOrder
<1>1. Unregister(c)
  BY DEF Leave
<1>2. connections' = connections \ {c}
  BY <1>1, UnregisterSafe
<1>3. UNCHANGED <<visiting, published, send, writer, writing, written, joined>>
  BY DEF Leave
<1>4. reader'[d] \in {"new", "registering"} =>
        reader[d] \in {"new", "registering"}
  BY DEF Leave, Inv, TypeOK
<1>5. Offered(d)' = Offered(d)
  BY <1>3 DEF Offered
<1>6. Ordered(d)
  BY DEF InOrder
<1> QED  BY <1>2, <1>3, <1>4, <1>5, <1>6, Frame

LEMMA VisitInOrder ==
  ASSUME Inv, InOrder, NEW c \in Connections, Visit(c) PROVE InOrder'
<1> SUFFICES ASSUME NEW d \in Connections PROVE Ordered(d)'
  BY DEF InOrder
<1>1. /\ Ordered(d)
      /\ ~sendClosed[c] /\ c \in connections /\ c \in visiting
      /\ visiting' = visiting \ {c}
      /\ UNCHANGED <<published, writer, writing, written, reader, joined>>
  BY DEF InOrder, Visit, Inv, OpenWhileRegistered
<1>2. d # c => Offered(d)' = Offered(d)
  BY <1>1 DEF Offered
<1>3. CASE Unregister(c) /\ UNCHANGED send
  <2>1. connections' = connections \ {c}
    BY <1>3, UnregisterSafe
  <2> QED  BY <1>1, <1>2, <1>3, <2>1, Frame
<1>4. CASE /\ send' = [send EXCEPT ![c] = Append(@, published)]
           /\ UNCHANGED connections
  <2>1. CASE d # c
    <3>1. send'[d] = send[d]
      BY <1>4, <2>1 DEF Inv, TypeOK
    <3> QED  BY <1>1, <1>2, <1>4, <2>1, <3>1, Frame
  <2>2. CASE d = c
    <3> DEFINE n == Len(send[c])
               k == Len(written[c]) + Held(c)
    <3>1. /\ send[c] \in Seq(Nat) /\ send'[c] = Append(send[c], published)
          /\ published \in Nat /\ written[c] \in Seq(Nat)
      BY <1>4 DEF Inv, TypeOK
    <3>2. published \in Nat /\ joined[c] \in Nat
      BY DEF Inv, TypeOK
    <3>3. n \in Nat /\ k \in Nat
      BY <3>1, HeldTypes
    <3>4. /\ Len(send'[c]) = n + 1
          /\ \A i \in 1 .. n : send'[c][i] = send[c][i]
          /\ send'[c][n + 1] = published
      BY <3>1, Appended
    <3>5. Held(c)' = Held(c)
      BY <1>1 DEF Held
    <3>6. /\ Offered(c) = published - joined[c] - 1
          /\ Offered(c)' = published - joined[c] - 0
      BY <1>1 DEF Offered
    <3>7. reader[c] \notin {"new", "registering"}
      BY <1>1 DEF Inv, OpenWhileRegistered
    <3>8. ASSUME writer[c] # "done"
          PROVE  /\ k + n = published - joined[c] - 1
                 /\ \A i \in 1 .. n : send[c][i] = joined[c] + k + i
      <4>1. Len(written[c]) \in Nat /\ Held(c) \in Nat
        BY <3>1, HeldTypes
      <4>2. /\ Len(written[c]) + Held(c) + n = Offered(c)
            /\ \A i \in 1 .. n :
                 send[c][i] = joined[c] + Len(written[c]) + Held(c) + i
        BY <1>1, <2>2, <3>8 DEF Ordered
      <4>3. \A a, b \in Nat, i \in 1 .. n :
              joined[c] + a + b + i = joined[c] + (a + b) + i
        BY <3>2, <3>3
      <4> QED  BY <3>6, <4>1, <4>2, <4>3
    <3>9. writer[c] # "done" =>
            /\ k + Len(send'[c]) = Offered(c)'
            /\ \A i \in 1 .. Len(send'[c]) : send'[c][i] = joined[c] + k + i
      <4> SUFFICES ASSUME writer[c] # "done"
                   PROVE  /\ k + (n + 1) = published - joined[c] - 0
                          /\ \A i \in 1 .. n + 1 :
                               send'[c][i] = joined[c] + k + i
        BY <3>4, <3>6
      <4>1. /\ k + n = published - joined[c] - 1
            /\ \A i \in 1 .. n : send[c][i] = joined[c] + k + i
        BY <3>8
      <4> HIDE DEF n, k
      <4>2. /\ k + (n + 1) = published - joined[c] - 0
            /\ published = joined[c] + k + (n + 1)
        BY <3>2, <3>3, <4>1
      <4>3. \A i \in 1 .. n + 1 : i \in 1 .. n \/ i = n + 1
        BY <3>3
      <4> QED  BY <3>4, <4>1, <4>2, <4>3
    <3>10. /\ \A i \in 1 .. Len(written'[c]) : written'[c][i] = joined'[c] + i
           /\ writer'[c] = "writing" =>
                writing'[c] = joined'[c] + Len(written'[c]) + 1
      BY <1>1, <2>2 DEF Ordered
    <3>11. writer'[c] # "done" =>
             \A i \in 1 .. Len(send'[c]) :
               send'[c][i] = joined'[c] + Len(written'[c]) + Held(c)' + i
      <4>1. Len(written[c]) \in Nat /\ Held(c) \in Nat
        BY <3>1, HeldTypes
      <4>2. \A a, b \in Nat, i \in 1 .. Len(send'[c]) :
              joined[c] + a + b + i = joined[c] + (a + b) + i
        BY <3>2, <3>3, <3>4
      <4> QED  BY <1>1, <3>5, <3>9, <4>1, <4>2
    <3>12. writer'[c] # "done" =>
             Len(written'[c]) + Held(c)' + Len(send'[c]) = Offered(c)'
      BY <1>1, <3>5, <3>9
    <3> QED  BY <1>1, <2>2, <3>7, <3>10, <3>11, <3>12 DEF Ordered
  <2> QED  BY <2>1, <2>2
<1> QED  BY <1>1, <1>3, <1>4 DEF Visit

LEMMA BroadcastInOrder ==
  ASSUME Inv, InOrder, Broadcast \/ TakeMessage PROVE InOrder'
<1> SUFFICES ASSUME NEW d \in Connections PROVE Ordered(d)'
  BY DEF InOrder
<1>1. /\ Ordered(d)
      /\ UNCHANGED <<connections, send, writer, writing, written, reader,
                     joined>>
  BY DEF InOrder, Broadcast, TakeMessage
<1>2. d \in connections => Offered(d)' = Offered(d)
  <2>1. CASE Broadcast
    BY <2>1 DEF Broadcast, Offered
  <2>2. CASE TakeMessage
    <3>1. /\ visiting = {} /\ visiting' = connections
          /\ published' = published + 1
          /\ published \in Nat /\ joined[d] \in Nat
      BY <2>2 DEF TakeMessage, Idle, Inv, TypeOK
    <3> QED  BY <1>1, <3>1 DEF Offered
  <2> QED  BY <2>1, <2>2
<1> QED  BY <1>1, <1>2, Frame

LEMMA TakeFromSendInOrder ==
  ASSUME Inv, InOrder, NEW c \in Connections, TakeFromSend(c) PROVE InOrder'
<1> SUFFICES ASSUME NEW d \in Connections PROVE Ordered(d)'
  BY DEF InOrder
<1>1. /\ Ordered(d)
      /\ UNCHANGED <<connections, visiting, published, written, reader, joined>>
  BY DEF InOrder, TakeFromSend
<1>2. Offered(d)' = Offered(d)
  BY <1>1 DEF Offered
<1>3. CASE d # c
  <2>1. send'[d] = send[d] /\ writer'[d] = writer[d] /\ writing'[d] = writing[d]
    BY <1>3 DEF TakeFromSend, Inv, TypeOK
  <2> QED  BY <1>1, <1>2, <2>1, Frame
<1>4. CASE d = c
  <2> DEFINE n == Len(send[c])
             w == Len(written[c])
  <2>1. /\ send[c] \in Seq(Nat) /\ send[c] # <<>>
        /\ written[c] \in Seq(Nat) /\ joined[c] \in Nat
        /\ writer[c] = "select" /\ writer'[c] = "writing"
        /\ writing'[c] = Head(send[c]) /\ send'[c] = Tail(send[c])
    BY DEF TakeFromSend, Inv, TypeOK
  <2>2. /\ n \in Nat \ {0} /\ w \in Nat
        /\ Len(send'[c]) = n - 1
        /\ writing'[c] = send[c][1]
        /\ \A i \in 1 .. n - 1 : send'[c][i] = send[c][i + 1]
    BY <2>1, Tailed
  <2>3. Held(c) = 0 /\ Held(c)' = 1
    BY <2>1 DEF Held
  <2>4. \A i \in 1 .. n : send[c][i] = joined[c] + w + i
    BY <1>1, <1>4, <2>1, <2>2, <2>3 DEF Ordered
  <2>5. writing'[c] = joined[c] + w + 1
    BY <2>2, <2>4
  <2>6. \A i \in 1 .. n - 1 : send'[c][i] = joined[c] + w + 1 + i
    <3> SUFFICES ASSUME NEW i \in 1 .. n - 1
                 PROVE  send'[c][i] = joined[c] + w + 1 + i
      OBVIOUS
    <3>1. n \in Nat /\ w \in Nat /\ joined[c] \in Nat
      BY <2>1, <2>2
    <3>2. i + 1 \in 1 .. n
      BY <3>1
    <3>3. send'[c][i] = joined[c] + w + (i + 1)
      BY <2>2, <2>4, <3>2
    <3> HIDE DEF n, w
    <3> QED  BY <3>1, <3>3
  <2>7. c \in connections => w + 1 + (n - 1) = Offered(c)
    <3>1. c \in connections => w + 0 + n = Offered(c)
      BY <1>1, <1>4, <2>1, <2>3 DEF Ordered
    <3>2. n \in Nat /\ w \in Nat
      BY <2>2
    <3> HIDE DEF n, w
    <3> QED  BY <3>1, <3>2
  <2>8. reader[c] \notin {"new", "registering"}
    BY <1>1, <1>4, <2>1 DEF Ordered
  <2>9. Len(written'[c]) = w /\ joined'[c] = joined[c]
    BY <1>1
  <2>10. \A i \in 1 .. w : written'[c][i] = joined'[c] + i
    BY <1>1, <1>4 DEF Ordered
  <2>11. c \in connections' =>
           Len(written'[c]) + Held(c)' + Len(send'[c]) = Offered(c)'
    BY <1>1, <1>2, <1>4, <2>2, <2>3, <2>7, <2>9
  <2>12. \A i \in 1 .. Len(send'[c]) :
           send'[c][i] = joined'[c] + Len(written'[c]) + Held(c)' + i
    BY <2>2, <2>3, <2>6, <2>9
  <2> QED  BY <1>4, <2>1, <1>1, <2>5, <2>8, <2>9, <2>10, <2>11, <2>12
              DEF Ordered
<1> QED  BY <1>3, <1>4

LEMMA WriteJSONInOrder ==
  ASSUME Inv, InOrder, NEW c \in Connections, WriteJSON(c) PROVE InOrder'
<1> SUFFICES ASSUME NEW d \in Connections PROVE Ordered(d)'
  BY DEF InOrder
<1>1. /\ Ordered(d)
      /\ UNCHANGED <<connections, visiting, published, send, writing, reader,
                     joined>>
  BY DEF InOrder, WriteJSON
<1>2. Offered(d)' = Offered(d)
  BY <1>1 DEF Offered
<1>3. CASE d # c
  <2>1. written'[d] = written[d] /\ writer'[d] = writer[d]
    BY <1>3 DEF WriteJSON, Inv, TypeOK
  <2> QED  BY <1>1, <1>2, <2>1, Frame
<1>4. CASE d = c
  <2> DEFINE w == Len(written[c])
  <2>1. /\ written[c] \in Seq(Nat) /\ writing[c] \in Nat /\ joined[c] \in Nat
        /\ send[c] \in Seq(Nat)
        /\ writer[c] = "writing" /\ writer'[c] = "select"
        /\ written'[c] = Append(written[c], writing[c])
    BY DEF WriteJSON, Inv, TypeOK
  <2>2. /\ w \in Nat
        /\ Len(written'[c]) = w + 1
        /\ \A i \in 1 .. w : written'[c][i] = written[c][i]
        /\ written'[c][w + 1] = writing[c]
    BY <2>1, Appended
  <2>3. Held(c) = 1 /\ Held(c)' = 0
    BY <2>1 DEF Held
  <2>4. \A i \in 1 .. w + 1 : written'[c][i] = joined[c] + i
    BY <1>1, <1>4, <2>1, <2>2 DEF Ordered
  <2>5. \A i \in 1 .. Len(send[c]) : send[c][i] = joined[c] + (w + 1) + 0 + i
    <3>1. \A i \in 1 .. Len(send[c]) : send[c][i] = joined[c] + w + 1 + i
      BY <1>1, <1>4, <2>1, <2>3 DEF Ordered
    <3> QED  BY <2>1, <2>2, <3>1
  <2>6. c \in connections => (w + 1) + 0 + Len(send[c]) = Offered(c)
    <3>1. c \in connections => w + 1 + Len(send[c]) = Offered(c)
      BY <1>1, <1>4, <2>1, <2>3 DEF Ordered
    <3>2. \A l \in Nat : (w + 1) + 0 + l = w + 1 + l
      BY <2>2
    <3>3. Len(send[c]) \in Nat
      BY <2>1
    <3> QED  BY <3>1, <3>2, <3>3
  <2>7. reader[c] \notin {"new", "registering"}
    BY <1>1, <1>4, <2>1 DEF Ordered
  <2>8. c \in connections' =>
          Len(written'[c]) + Held(c)' + Len(send'[c]) = Offered(c)'
    BY <1>1, <1>2, <1>4, <2>2, <2>3, <2>6
  <2>9. /\ \A i \in 1 .. Len(written'[c]) : written'[c][i] = joined'[c] + i
        /\ \A i \in 1 .. Len(send'[c]) :
             send'[c][i] = joined'[c] + Len(written'[c]) + Held(c)' + i
    BY <1>1, <2>2, <2>3, <2>4, <2>5
  <2> QED  BY <1>1, <1>4, <2>1, <2>7, <2>8, <2>9 DEF Ordered
<1> QED  BY <1>3, <1>4

LEMMA NextInOrder ==
  ASSUME Inv, InOrder, [Next]_vars
  PROVE  InOrder'
<1>1. CASE \E c \in Connections : HubStep(c)
  BY <1>1, RegisterInOrder, LeaveInOrder, VisitInOrder DEF HubStep
<1>2. CASE \E c \in Connections : WriterStep(c)
  BY <1>2, TakeFromSendInOrder, WriteJSONInOrder, UpgradeInOrder
     DEF WriterStep
<1>3. CASE \E c \in Connections : Upgrade(c) \/ StopReading(c) \/ PeerLeaves(c)
  BY <1>3, UpgradeInOrder
<1>4. CASE Broadcast \/ TakeMessage
  BY <1>4, BroadcastInOrder
<1>5. CASE UNCHANGED vars
  BY <1>5 DEF vars, InOrder, Ordered, Held, Offered
<1> QED  BY <1>1, <1>2, <1>3, <1>4, <1>5 DEF Next

LEMMA InOrderHolds == Spec => []InOrder
BY InvHolds, InitInOrder, NextInOrder, PTL DEF Spec

(* What was written to a socket is what was broadcast since it was         *)
(* registered, in order and with no gap, whenever and however the          *)
(* connection is dropped (hub.go:43-50, connection.go:47-56).              *)
THEOREM NothingIsSkipped == Spec => []WrittenInOrder
<1>1. Inv /\ InOrder => WrittenInOrder
  <2> SUFFICES ASSUME Inv, InOrder, NEW c \in Connections
               PROVE  written[c] = [i \in 1 .. Len(written[c]) |-> joined[c] + i]
    BY DEF WrittenInOrder
  <2>1. written[c] \in Seq(Nat)
    BY DEF Inv, TypeOK
  <2>2. \A i \in 1 .. Len(written[c]) : written[c][i] = joined[c] + i
    BY DEF InOrder, Ordered
  <2> QED  BY <2>1, <2>2
<1> QED  BY <1>1, InvHolds, InOrderHolds, PTL

(* A registered connection misses nothing: socket, writer and buffer hold  *)
(* what was broadcast since it was registered, each message once and in    *)
(* order (hub.go:43-50, connection.go:47-56).                              *)
THEOREM NothingIsMissed == Spec => []NoGaps
<1>1. Inv /\ InOrder => NoGaps
  <2> SUFFICES ASSUME Inv, InOrder, NEW c \in connections, writer[c] # "done"
               PROVE  Received(c) = [i \in 1 .. Offered(c) |-> joined[c] + i]
    BY DEF NoGaps
  <2> DEFINE hand == IF writer[c] = "writing" THEN <<writing[c]>> ELSE <<>>
             w == Len(written[c])
             n == Len(send[c])
             front == written[c] \o hand
  <2>1. /\ c \in Connections
        /\ written[c] \in Seq(Nat) /\ send[c] \in Seq(Nat)
        /\ writing[c] \in Nat /\ joined[c] \in Nat
    BY DEF Inv, TypeOK
  <2>2. /\ hand \in Seq(Nat) /\ Len(hand) = Held(c)
        /\ \A i \in 1 .. Held(c) : hand[i] = joined[c] + w + i
        /\ Held(c) \in Nat
    <3>1. CASE writer[c] = "writing"
      <4>1. Held(c) = 1 /\ hand = <<writing[c]>>
        BY <3>1 DEF Held
      <4>2. writing[c] = joined[c] + w + 1
        BY <2>1, <3>1 DEF InOrder, Ordered
      <4> QED  BY <2>1, <4>1, <4>2
    <3>2. CASE writer[c] # "writing"
      BY <3>2 DEF Held
    <3> QED  BY <3>1, <3>2
  <2> HIDE DEF hand
  <2>3. /\ front \in Seq(Nat) /\ Len(front) = w + Held(c)
        /\ w \in Nat /\ n \in Nat
        /\ \A i \in 1 .. w : front[i] = written[c][i]
        /\ \A i \in 1 .. Held(c) : front[w + i] = hand[i]
    <3>1. w \in Nat /\ n \in Nat
      BY <2>1
    <3>2. hand \in Seq(Nat) /\ written[c] \in Seq(Nat)
      BY <2>1, <2>2
    <3>3. front \in Seq(Nat) /\ Len(front) = w + Held(c)
      <4>1. front \in Seq(Nat) /\ Len(front) = w + Len(hand)
        BY <3>2, Joined
      <4> QED  BY <2>2, <4>1
    <3>4. \A i \in 1 .. w : front[i] = written[c][i]
      BY <3>2, Joined
    <3>5. \A i \in 1 .. Len(hand) : front[w + i] = hand[i]
      BY <3>2, Joined
    <3> QED  BY <2>2, <3>1, <3>3, <3>4, <3>5
  <2>4. \A i \in 1 .. w + Held(c) : front[i] = joined[c] + i
    <3> SUFFICES ASSUME NEW i \in 1 .. w + Held(c)
                 PROVE  front[i] = joined[c] + i
      OBVIOUS
    <3>1. CASE i <= w
      BY <2>1, <2>3, <3>1 DEF InOrder, Ordered
    <3>2. CASE i > w
      <4>1. i - w \in 1 .. Held(c) /\ w + (i - w) = i
        BY <2>2, <2>3, <3>2
      <4>2. front[w + (i - w)] = joined[c] + w + (i - w)
        BY <2>2, <2>3, <4>1
      <4> QED  BY <2>1, <2>3, <4>1, <4>2
    <3> QED  BY <2>2, <2>3, <3>1, <3>2
  <2> HIDE DEF front
  <2>5. /\ front \o send[c] \in Seq(Nat)
        /\ Len(front \o send[c]) = w + Held(c) + n
        /\ \A i \in 1 .. w + Held(c) : (front \o send[c])[i] = front[i]
        /\ \A i \in 1 .. n :
             (front \o send[c])[w + Held(c) + i] = send[c][i]
    <3>1. front \in Seq(Nat) /\ send[c] \in Seq(Nat)
      BY <2>1, <2>3
    <3>2. /\ front \o send[c] \in Seq(Nat)
          /\ Len(front \o send[c]) = Len(front) + n
      BY <3>1, Joined
    <3>3. \A i \in 1 .. Len(front) : (front \o send[c])[i] = front[i]
      BY <3>1, Joined
    <3>4. \A i \in 1 .. n :
            (front \o send[c])[Len(front) + i] = send[c][i]
      BY <3>1, Joined
    <3> QED  BY <2>3, <3>2, <3>3, <3>4
  <2>6. \A i \in 1 .. w + Held(c) + n : (front \o send[c])[i] = joined[c] + i
    <3> DEFINE m == w + Held(c)
    <3> SUFFICES ASSUME NEW i \in 1 .. m + n
                 PROVE  (front \o send[c])[i] = joined[c] + i
      OBVIOUS
    <3>1. CASE i <= m
      BY <2>2, <2>3, <2>4, <2>5, <3>1
    <3>2. CASE i > m
      <4>1. i - m \in 1 .. n /\ m + (i - m) = i
        <5>1. m \in Nat /\ n \in Nat
          BY <2>2, <2>3
        <5> HIDE DEF m, n
        <5> QED  BY <3>2, <5>1
      <4>2. send[c][i - m] = joined[c] + w + Held(c) + (i - m)
        BY <2>1, <4>1 DEF InOrder, Ordered
      <4>3. (front \o send[c])[i] = joined[c] + w + Held(c) + (i - m)
        BY <2>5, <4>1, <4>2
      <4>4. /\ joined[c] \in Nat /\ w \in Nat /\ Held(c) \in Nat
            /\ i \in Nat
        BY <2>1, <2>2, <2>3
      <4> HIDE DEF n, w
      <4> QED  BY <4>3, <4>4
    <3> QED  BY <2>2, <2>3, <3>1, <3>2
  <2>7. w + Held(c) + n = Offered(c)
    BY <2>1 DEF InOrder, Ordered
  <2>8. Received(c) = front \o send[c]
    BY DEF Received, front, hand
  <2> QED  BY <2>5, <2>6, <2>7, <2>8
<1> QED  BY <1>1, InvHolds, InOrderHolds, PTL
=============================================================================
