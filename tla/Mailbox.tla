------------------------------ MODULE Mailbox ------------------------------
(***************************************************************************)
(* What the message store promises to its readers, whatever the retention  *)
(* policy, failed calls and restarts do: a message that has left the       *)
(* listing never comes back.  ManagedStorage is shown to implement this    *)
(* module.                                                                 *)
(***************************************************************************)

CONSTANT Messages

VARIABLES
  box,   \* the messages a listing returns
  gone   \* the messages that were listed once and are no longer

vars == <<box, gone>>

Init == box = {} /\ gone = {}

(* New mail shows up: never mail that was there before. *)
Deliver(arrivals) ==
  /\ arrivals \cap (box \cup gone) = {}
  /\ box' = box \cup arrivals
  /\ UNCHANGED gone

(* Mail goes: by a delete request or because it is too old. *)
Discard(departures) ==
  /\ departures \cap gone = {}
  /\ box' = box \ departures
  /\ gone' = gone \cup departures

Next ==
  \/ \E arrivals \in SUBSET Messages : Deliver(arrivals)
  \/ \E departures \in SUBSET Messages : Discard(departures)

Spec == Init /\ [][Next]_vars
=============================================================================
