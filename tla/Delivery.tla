------------------------------ MODULE Delivery -----------------------------
(***************************************************************************)
(* The way of a message from the SMTP session that stored it to the two    *)
(* live interfaces: messageChan, the dispatcher of api.go, the loops of    *)
(* api/v1.go and api/v2.go, the event stream (library goose) and the       *)
(* WebSocket hub.  Every channel is unbuffered: a send and its receive are *)
(* one step.  That the hub always takes a broadcast is shown in            *)
(* WebSocketHub.                                                           *)
(***************************************************************************)
EXTENDS Integers, Sequences, SequencesExt

CONSTANTS
  Messages,
  Nothing   \* a goroutine that has no message in hand

ASSUME DeliveryAssumption == Nothing \notin Messages

VARIABLES
  waiting,    \* stored, its session blocked in messageChan <- m
  answered,   \* its session has gone on to answer 250
  dispatcher, \* the message in hand, and for which loop
  v1,         \* the message apiv1's loop is in Notify with
  v2,         \* the message apiv2's loop is in Broadcast with
  keepalive,  \* apiv1's loop writes a keepalive
  stalled,    \* a receiver of the event stream does not read
  log,        \* history: the messages in the order the dispatcher took them
  streamed,   \* history: the messages written to the event stream
  broadcast   \* history: the messages the hub has taken

vars == <<waiting, answered, dispatcher, v1, v2, keepalive, stalled, log,
          streamed, broadcast>>

NoMessage == [message |-> Nothing, for |-> "none"]
-----------------------------------------------------------------------------
(* Session.acceptMessage stores and goes on to send. *)
Store(m) ==
  /\ m \notin waiting \cup answered
  /\ waiting' = waiting \cup {m}
  /\ UNCHANGED <<answered, dispatcher, v1, v2, keepalive, stalled, log,
                 streamed, broadcast>>

(* The dispatcher takes a message from one of the sessions that wait. *)
Take(m) ==
  /\ dispatcher = NoMessage
  /\ m \in waiting
  /\ waiting' = waiting \ {m}
  /\ answered' = answered \cup {m}
  /\ dispatcher' = [message |-> m, for |-> "v1"]
  /\ log' = Append(log, m)
  /\ UNCHANGED <<v1, v2, keepalive, stalled, streamed, broadcast>>

(* A bug to catch: both loops are served by goroutines of their own. *)
HandToV1Unordered ==
  /\ dispatcher.for = "v1"
  /\ \/ v1 = Nothing /\ ~keepalive /\ v1' = dispatcher.message
        /\ UNCHANGED streamed
     \/ v1 # Nothing
        /\ streamed' = Append(streamed, dispatcher.message)
        /\ UNCHANGED v1
  /\ dispatcher' = [dispatcher EXCEPT !.for = "v2"]
  /\ UNCHANGED <<waiting, answered, v2, keepalive, stalled, log, broadcast>>

(* apiv1's loop receives from the dispatcher. *)
HandToV1 ==
  /\ dispatcher.for = "v1"
  /\ v1 = Nothing /\ ~keepalive
  /\ v1' = dispatcher.message
  /\ dispatcher' = [dispatcher EXCEPT !.for = "v2"]
  /\ UNCHANGED <<waiting, answered, v2, keepalive, stalled, log, streamed,
                 broadcast>>

(* A bug to catch: a loop that is busy misses the message. *)
HandToV2Dropping ==
  /\ dispatcher.for = "v2"
  /\ v2' = IF v2 = Nothing THEN dispatcher.message ELSE v2
  /\ dispatcher' = NoMessage
  /\ UNCHANGED <<waiting, answered, v1, keepalive, stalled, log, streamed,
                 broadcast>>

(* apiv2's loop receives from the dispatcher. *)
HandToV2 ==
  /\ dispatcher.for = "v2"
  /\ v2 = Nothing
  /\ v2' = dispatcher.message
  /\ dispatcher' = NoMessage
  /\ UNCHANGED <<waiting, answered, v1, keepalive, stalled, log, streamed,
                 broadcast>>

(* stream.Notify has written the message to every receiver. *)
Notify ==
  /\ v1 # Nothing
  /\ ~stalled
  /\ streamed' = Append(streamed, v1)
  /\ v1' = Nothing
  /\ UNCHANGED <<waiting, answered, dispatcher, v2, keepalive, stalled, log,
                 broadcast>>

(* A bug to catch: a goroutine of its own writes the keepalives. *)
KeepaliveAside ==
  /\ ~keepalive
  /\ keepalive' = TRUE
  /\ UNCHANGED <<waiting, answered, dispatcher, v1, v2, stalled, log, streamed,
                 broadcast>>

(* The ticker's case of apiv1's loop, and the end of that write. *)
Keepalive ==
  /\ v1 = Nothing
  /\ ~keepalive
  /\ keepalive' = TRUE
  /\ UNCHANGED <<waiting, answered, dispatcher, v1, v2, stalled, log, streamed,
                 broadcast>>

KeptAlive ==
  /\ keepalive
  /\ ~stalled
  /\ keepalive' = FALSE
  /\ UNCHANGED <<waiting, answered, dispatcher, v1, v2, stalled, log, streamed,
                 broadcast>>

(* wsHub.Broadcast returns. *)
Broadcast ==
  /\ v2 # Nothing
  /\ broadcast' = Append(broadcast, v2)
  /\ v2' = Nothing
  /\ UNCHANGED <<waiting, answered, dispatcher, v1, keepalive, stalled, log,
                 streamed>>

(* A receiver of the event stream stops reading, and reads again or loses  *)
(* its connection.                                                         *)
Stall ==
  /\ ~stalled
  /\ stalled' = TRUE
  /\ UNCHANGED <<waiting, answered, dispatcher, v1, v2, keepalive, log,
                 streamed, broadcast>>

Unstall ==
  /\ stalled
  /\ stalled' = FALSE
  /\ UNCHANGED <<waiting, answered, dispatcher, v1, v2, keepalive, log,
                 streamed, broadcast>>
-----------------------------------------------------------------------------
Init ==
  /\ waiting = {} /\ answered = {}
  /\ dispatcher = NoMessage
  /\ v1 = Nothing /\ v2 = Nothing
  /\ keepalive = FALSE
  /\ stalled = FALSE
  /\ log = <<>> /\ streamed = <<>> /\ broadcast = <<>>

Next ==
  \/ \E m \in Messages : Store(m) \/ Take(m)
  \/ HandToV1 \/ HandToV2
  \/ Notify \/ Keepalive \/ KeptAlive
  \/ Broadcast
  \/ Stall \/ Unstall

(* Goroutines that can run do; a blocked sender is served in its turn, and *)
(* the select of apiv1's loop is fair between the message and its ticker   *)
(* (SF).  A receiver that stalls reads again or is cut off by TCP in the   *)
(* end: nothing in the code sees to it.                                    *)
Fairness ==
  /\ \A m \in Messages : SF_vars(Take(m))
  /\ SF_vars(HandToV1)
  /\ WF_vars(HandToV2)
  /\ SF_vars(Notify) /\ SF_vars(KeptAlive)
  /\ WF_vars(Broadcast)
  /\ WF_vars(Unstall)

Spec == Init /\ [][Next]_vars /\ Fairness
-----------------------------------------------------------------------------
(* Every variable has its type; a session waits or was answered, and       *)
(* apiv1's loop does one thing at a time (v1.go:65-77).                    *)
TypeOK ==
  /\ waiting \subseteq Messages
  /\ answered \subseteq Messages
  /\ dispatcher \in {NoMessage} \cup [message : Messages, for : {"v1", "v2"}]
  /\ v1 \in Messages \cup {Nothing}
  /\ v2 \in Messages \cup {Nothing}
  /\ keepalive \in BOOLEAN
  /\ stalled \in BOOLEAN
  /\ log \in Seq(Messages)
  /\ streamed \in Seq(Messages)
  /\ broadcast \in Seq(Messages)
  /\ waiting \cap answered = {}
  /\ keepalive => v1 = Nothing

(* Both live interfaces show the messages in the order they were taken     *)
(* from the sessions, each once, none missing (api.go:17-23, v1.go:65-77,  *)
(* v2.go:82-89).                                                           *)
StreamsAgree ==
  /\ IsInjective(log)
  /\ IsPrefix(streamed, log)
  /\ IsPrefix(broadcast, log)

(* A browser that sees one interface is at most one message behind, or two *)
(* ahead of, a browser on the other; and a crash loses no more than two    *)
(* messages that were answered 250 (api.go:17-23).                         *)
InFlightBounded ==
  /\ Len(log) - Len(streamed) <= 2
  /\ Len(log) - Len(broadcast) <= 2
  /\ Len(broadcast) - Len(streamed) <= 1

(* Every message that is stored is streamed and broadcast, and its session *)
(* answers: nobody waits for ever unless a receiver does not read for ever *)
(* (session.go:162, api.go:17-23).                                         *)
EverythingArrives ==
  \A m \in Messages :
    m \in waiting ~> m \in Range(streamed) /\ m \in Range(broadcast)
=============================================================================
