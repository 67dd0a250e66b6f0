---------------------------- MODULE WebSocketHub ---------------------------
(***************************************************************************)
(* websockets/hub.go and connection.go: one goroutine owns the set of      *)
(* connections and hands every broadcast message to the send channel of    *)
(* each; a writer and a reader goroutine serve a connection.               *)
(*                                                                         *)
(* A message is its number in the order of the broadcasts.  registerChan,  *)
(* unregisterChan and messages are unbuffered: a send and its receive are  *)
(* one step, taken when the hub is back in its select.  The deadlines of   *)
(* reads and writes are not timed: a read may fail at any time, and a      *)
(* write always ends.                                                      *)
(***************************************************************************)
EXTENDS Integers, Sequences

CONSTANTS
  Connections, \* the WebSocket requests that come in
  SendBuffer,  \* the capacity of a send channel: 256
  MaxMessages  \* bounds the broadcasts

ASSUME HubAssumption == SendBuffer \in Nat /\ MaxMessages \in Nat

VARIABLES
  connections, \* the map of the hub
  visiting,    \* the connections its range loop has still to serve
  published,   \* the messages the hub has taken so far
  publishing,  \* apiv2 waits in Broadcast
  send,        \* the buffered messages of a send channel
  sendClosed,
  writer,      \* writeLoop: "new", "select", "writing", "done"
  writing,     \* the message it has in hand
  reader,      \* readLoop: "new", "registering", "reading", "leaving", "done"
  ws,          \* the socket: "new", "open", "closed" on this side
  peer,        \* the browser: "there" or "gone"
  panicked,    \* the runtime stopped the process
  joined,      \* history: published when the connection was registered
  written      \* history: the messages written to the socket

hubVars == <<connections, visiting, published, panicked>>
sendVars == <<send, sendClosed>>
writerVars == <<writer, writing, written>>
socketVars == <<ws, peer>>
vars == <<hubVars, publishing, sendVars, writerVars, reader, socketVars, joined>>
-----------------------------------------------------------------------------
(* Go: closing a closed channel and sending on one are panics. *)
Idle == visiting = {} /\ ~panicked

(* A bug to catch: the connection stays in the map. *)
UnregisterWithoutDelete(c) ==
  IF c \in connections
  THEN /\ panicked' = sendClosed[c]
       /\ sendClosed' = [sendClosed EXCEPT ![c] = TRUE]
       /\ UNCHANGED connections
  ELSE UNCHANGED <<connections, sendClosed, panicked>>

(* A bug to catch: the connection goes, its channel is never closed. *)
UnregisterWithoutClose(c) ==
  /\ connections' = connections \ {c}
  /\ UNCHANGED <<sendClosed, panicked>>

(* Hub.unregister *)
Unregister(c) ==
  IF c \in connections
  THEN /\ panicked' = sendClosed[c]
       /\ sendClosed' = [sendClosed EXCEPT ![c] = TRUE]
       /\ connections' = connections \ {c}
  ELSE UNCHANGED <<connections, sendClosed, panicked>>

(* Serve: the upgrade succeeds, the request waits for the hub. *)
Upgrade(c) ==
  /\ reader[c] = "new"
  /\ reader' = [reader EXCEPT ![c] = "registering"]
  /\ ws' = [ws EXCEPT ![c] = "open"]
  /\ peer' = [peer EXCEPT ![c] = "there"]
  /\ UNCHANGED <<hubVars, publishing, sendVars, writerVars, joined>>

(* The hub takes the registration, and Serve starts both loops. *)
Register(c) ==
  /\ Idle
  /\ reader[c] = "registering"
  /\ connections' = connections \cup {c}
  /\ reader' = [reader EXCEPT ![c] = "reading"]
  /\ writer' = [writer EXCEPT ![c] = "select"]
  /\ joined' = [joined EXCEPT ![c] = published]
  /\ UNCHANGED <<visiting, published, panicked, publishing, sendVars, writing,
                 written, socketVars>>

(* A bug to catch: readLoop calls unregister itself. *)
LeaveWithoutHub(c) ==
  /\ ~panicked
  /\ reader[c] = "leaving"
  /\ Unregister(c)
  /\ reader' = [reader EXCEPT ![c] = "done"]
  /\ ws' = [ws EXCEPT ![c] = "closed"]
  /\ UNCHANGED <<visiting, published, publishing, send, writerVars, peer,
                 joined>>

(* The hub takes c from unregisterChan; readLoop goes on to close the      *)
(* socket.                                                                 *)
Leave(c) ==
  /\ Idle
  /\ reader[c] = "leaving"
  /\ Unregister(c)
  /\ reader' = [reader EXCEPT ![c] = "done"]
  /\ ws' = [ws EXCEPT ![c] = "closed"]
  /\ UNCHANGED <<visiting, published, publishing, send, writerVars, peer,
                 joined>>

(* apiv2's loop calls Broadcast. *)
Broadcast ==
  /\ ~publishing
  /\ published < MaxMessages
  /\ publishing' = TRUE
  /\ UNCHANGED <<hubVars, sendVars, writerVars, reader, socketVars, joined>>

(* The hub takes the message and starts its range over the map. *)
TakeMessage ==
  /\ Idle
  /\ publishing
  /\ publishing' = FALSE
  /\ published' = published + 1
  /\ visiting' = connections
  /\ UNCHANGED <<connections, panicked, sendVars, writerVars, reader,
                 socketVars, joined>>

(* A bug to catch: the hub waits for room in the buffer. *)
VisitBlocking(c) ==
  /\ ~panicked
  /\ c \in visiting
  /\ visiting' = visiting \ {c}
  /\ sendClosed[c] \/ Len(send[c]) < SendBuffer
  /\ panicked' = sendClosed[c]
  /\ send' = [send EXCEPT ![c] = Append(@, published)]
  /\ UNCHANGED <<connections, published, publishing, sendClosed, writerVars,
                 reader, socketVars, joined>>

(* A bug to catch: a message that does not fit is dropped. *)
VisitDropping(c) ==
  /\ ~panicked
  /\ c \in visiting
  /\ visiting' = visiting \ {c}
  /\ panicked' = sendClosed[c]
  /\ send' = [send EXCEPT ![c] =
                IF Len(@) < SendBuffer THEN Append(@, published) ELSE @]
  /\ UNCHANGED <<connections, published, publishing, sendClosed, writerVars,
                 reader, socketVars, joined>>

(* One turn of the range loop: the message is buffered or, if the buffer   *)
(* is full, the connection is dropped.                                     *)
Visit(c) ==
  /\ ~panicked
  /\ c \in visiting
  /\ visiting' = visiting \ {c}
  /\ \/ /\ sendClosed[c]
        /\ panicked' = TRUE
        /\ UNCHANGED <<connections, sendVars>>
     \/ /\ ~sendClosed[c] /\ Len(send[c]) < SendBuffer
        /\ send' = [send EXCEPT ![c] = Append(@, published)]
        /\ UNCHANGED <<connections, sendClosed, panicked>>
     \/ /\ ~sendClosed[c] /\ Len(send[c]) >= SendBuffer
        /\ Unregister(c)
        /\ UNCHANGED send
  /\ UNCHANGED <<published, publishing, writerVars, reader, socketVars, joined>>
-----------------------------------------------------------------------------
(* writeLoop receives a buffered message. *)
TakeFromSend(c) ==
  /\ writer[c] = "select"
  /\ send[c] # <<>>
  /\ writing' = [writing EXCEPT ![c] = Head(send[c])]
  /\ send' = [send EXCEPT ![c] = Tail(@)]
  /\ writer' = [writer EXCEPT ![c] = "writing"]
  /\ UNCHANGED <<hubVars, publishing, sendClosed, written, reader, socketVars,
                 joined>>

(* A bug to catch: a message is written again although it was written. *)
WriteJSONRepeating(c) ==
  /\ writer[c] = "writing"
  /\ ws[c] = "open"
  /\ written' = [written EXCEPT ![c] = Append(@, writing[c])]
  /\ \/ writer' = [writer EXCEPT ![c] = "select"]
     \/ Len(written[c]) < MaxMessages /\ UNCHANGED writer
  /\ UNCHANGED <<hubVars, publishing, sendVars, writing, reader, socketVars,
                 joined>>

(* writeJSON succeeds: the socket is open, whoever is at its other end. *)
WriteJSON(c) ==
  /\ writer[c] = "writing"
  /\ ws[c] = "open"
  /\ written' = [written EXCEPT ![c] = Append(@, writing[c])]
  /\ writer' = [writer EXCEPT ![c] = "select"]
  /\ UNCHANGED <<hubVars, publishing, sendVars, writing, reader, socketVars,
                 joined>>

(* writeLoop returns and closes the socket: writeJSON or a ping has failed *)
(* (closed socket, lost peer, a peer too slow for writeWait), or the send  *)
(* channel is closed and empty.                                            *)
StopWriting(c) ==
  /\ writer[c] \in {"select", "writing"}
  /\ writer' = [writer EXCEPT ![c] = "done"]
  /\ ws' = [ws EXCEPT ![c] = "closed"]
  /\ UNCHANGED <<hubVars, publishing, sendVars, writing, written, reader, peer,
                 joined>>

(* NextReader fails: the socket is closed on either side, the peer sent a  *)
(* frame too long, or no pong came for pongWait.                           *)
StopReading(c) ==
  /\ reader[c] = "reading"
  /\ reader' = [reader EXCEPT ![c] = "leaving"]
  /\ UNCHANGED <<hubVars, publishing, sendVars, writerVars, socketVars, joined>>

(* The browser closes the page or loses the network. *)
PeerLeaves(c) ==
  /\ peer[c] = "there"
  /\ peer' = [peer EXCEPT ![c] = "gone"]
  /\ UNCHANGED <<hubVars, publishing, sendVars, writerVars, reader, ws, joined>>
-----------------------------------------------------------------------------
Init ==
  /\ connections = {} /\ visiting = {}
  /\ published = 0
  /\ publishing = FALSE
  /\ send = [c \in Connections |-> <<>>]
  /\ sendClosed = [c \in Connections |-> FALSE]
  /\ writer = [c \in Connections |-> "new"]
  /\ writing = [c \in Connections |-> 0]
  /\ reader = [c \in Connections |-> "new"]
  /\ ws = [c \in Connections |-> "new"]
  /\ peer = [c \in Connections |-> "gone"]
  /\ panicked = FALSE
  /\ joined = [c \in Connections |-> 0]
  /\ written = [c \in Connections |-> <<>>]

HubStep(c) == Register(c) \/ Leave(c) \/ Visit(c)
WriterStep(c) == TakeFromSend(c) \/ WriteJSON(c) \/ StopWriting(c)

(* When a write or the next ping is bound to fail, or the channel is       *)
(* closed and drained.                                                     *)
MustStop(c) ==
  \/ ws[c] = "closed"
  \/ peer[c] = "gone"
  \/ writer[c] = "select" /\ sendClosed[c] /\ send[c] = <<>>

Next ==
  \/ \E c \in Connections : HubStep(c) \/ WriterStep(c)
  \/ \E c \in Connections : Upgrade(c) \/ StopReading(c) \/ PeerLeaves(c)
  \/ Broadcast
  \/ TakeMessage

(* Goroutines that can run do.  The hub's select chooses at random among   *)
(* the ready channels, and each channel serves its senders in turn, so a   *)
(* sender that waits is taken in the end (SF).  A read deadline or the     *)
(* closed socket ends a read whose peer is gone; nothing makes a peer      *)
(* leave.                                                                  *)
Fairness ==
  /\ SF_vars(TakeMessage)
  /\ \A c \in Connections :
       /\ SF_vars(Register(c))
       /\ SF_vars(Leave(c))
       /\ WF_vars(Visit(c))
       /\ WF_vars(\/ TakeFromSend(c)
                  \/ WriteJSON(c)
                  \/ StopWriting(c) /\ MustStop(c))
       /\ WF_vars(StopReading(c) /\ (ws[c] = "closed" \/ peer[c] = "gone"))

Spec == Init /\ [][Next]_vars /\ Fairness
-----------------------------------------------------------------------------
(* Every variable has its type; a buffer never exceeds its capacity, and   *)
(* no connection leaves the map while the hub ranges over it, except the   *)
(* one it is at (hub.go:39-50).                                            *)
TypeOK ==
  /\ connections \subseteq Connections
  /\ visiting \subseteq connections
  /\ published \in Nat
  /\ publishing \in BOOLEAN
  /\ send \in [Connections -> Seq(Nat)]
  /\ \A c \in Connections : Len(send[c]) <= SendBuffer
  /\ sendClosed \in [Connections -> BOOLEAN]
  /\ writer \in [Connections -> {"new", "select", "writing", "done"}]
  /\ writing \in [Connections -> Nat]
  /\ reader \in [Connections ->
                   {"new", "registering", "reading", "leaving", "done"}]
  /\ ws \in [Connections -> {"new", "open", "closed"}]
  /\ peer \in [Connections -> {"there", "gone"}]
  /\ panicked \in BOOLEAN
  /\ joined \in [Connections -> Nat]
  /\ written \in [Connections -> Seq(Nat)]

(* No send channel is closed twice or sent on after it was closed, though  *)
(* a connection is dropped both by a full buffer and by its reader, in any *)
(* order (hub.go:45-48, 55-58).                                            *)
NoPanic == ~panicked

(* What a connection was sent so far, in the order of the broadcasts. *)
Received(c) ==
  written[c]
    \o (IF writer[c] = "writing" THEN <<writing[c]>> ELSE <<>>)
    \o send[c]

(* The messages the hub has offered to c since it was registered. *)
Offered(c) == published - joined[c] - (IF c \in visiting THEN 1 ELSE 0)

(* A registered connection misses nothing: what its writer has written,    *)
(* holds and finds in the buffer are the messages broadcast since it was   *)
(* registered, each once and in order (hub.go:43-50, connection.go:47-56). *)
NoGaps ==
  \A c \in connections :
    writer[c] # "done" =>
      Received(c) = [i \in 1..Offered(c) |-> joined[c] + i]

(* And what was written before it was dropped, or left, has no gap either. *)
WrittenInOrder ==
  \A c \in Connections :
    written[c] = [i \in 1..Len(written[c]) |-> joined[c] + i]

(* A connection whose peer is gone, or that was dropped for a full buffer, *)
(* costs nothing in the end: it is forgotten, its socket is closed and     *)
(* both its goroutines have returned (connection.go:26-63).                *)
Released(c) ==
  c \notin connections /\ writer[c] = "done" /\ reader[c] = "done"
    /\ ws[c] = "closed"

LeavesNothingBehind ==
  \A c \in Connections :
    (\/ reader[c] # "new" /\ peer[c] = "gone"
     \/ writer[c] # "new" /\ c \notin connections) ~> Released(c)

(* Broadcast always returns and the hub comes back from its range loop: no *)
(* connection, however slow or dead, holds up the hub and with it the      *)
(* delivery of mail (hub.go:43-50, 74-76).                                 *)
BroadcastReturns ==
  /\ publishing ~> ~publishing
  /\ visiting # {} ~> visiting = {}
=============================================================================
