----------------------------- MODULE MessageApi ----------------------------
(***************************************************************************)
(* The HTTP handlers of api/v1.go and api/v2.go that read and delete       *)
(* messages, running concurrently over one ManagedStorage with the SMTP    *)
(* sessions that store, the retention ticker and the settings handler.     *)
(* The storage is locked for one method at a time: a handler that calls    *)
(* several methods sees what happened in between.                          *)
(*                                                                         *)
(* A request names the messages it is about by the set its folder and tag  *)
(* select, or the ids in its URL or body (wanted).                         *)
(***************************************************************************)
EXTENDS ManagedStorage, FiniteSets

CONSTANTS
  Handlers,   \* one goroutine of net/http per request
  Selections, \* what the requests may ask for
  Kinds       \* the requests that come in

(* What a request asks: to list, search or summarise messages in folders   *)
(* (v2), to delete the ones a filter selects (v2), which ids exist (v2).   *)
ASSUME ApiAssumption ==
  /\ Selections \subseteq SUBSET Messages
  /\ Kinds \subseteq {"messages", "purge", "existing"}

VARIABLES
  pc,      \* where the handler is
  kind,    \* the request it handles
  wanted,  \* the messages the request is about
  total,   \* the Count it read
  todo,    \* the messages its loop has still to handle
  result,  \* the messages listed, deleted or found to exist
  before,  \* history: what was listed when the request came in
  grew,    \* history: mail arrived between its Count and its List
  horizon  \* history: the oldest mail its sweep may have spared, or
           \* Spared if the sweep failed: any mail may be old

Spared == -1   \* before any message was received

requestVars == <<kind, wanted, before>>
apiVars == <<pc, requestVars, total, todo, result, grew, horizon>>
allVars == <<vars, apiVars>>
-----------------------------------------------------------------------------
FirstStep(k) ==
  CASE k = "messages" -> "sweep"
    [] k = "purge"    -> "count"
    [] k = "existing" -> "loop"

Begin(h, k, selection) ==
  /\ serving
  /\ pc[h] = "idle"
  /\ pc' = [pc EXCEPT ![h] = FirstStep(k)]
  /\ kind' = [kind EXCEPT ![h] = k]
  /\ wanted' = [wanted EXCEPT ![h] = selection]
  /\ todo' = [todo EXCEPT ![h] = IF k = "existing" THEN selection ELSE {}]
  /\ before' = [before EXCEPT ![h] = View]
  /\ UNCHANGED <<vars, total, result, grew, horizon>>

(* A bug to catch: the handler forgets to apply the policy first. *)
SweepFirstForgotten(h) ==
  /\ pc[h] = "sweep"
  /\ pc' = [pc EXCEPT ![h] = "count"]
  /\ horizon' = [horizon EXCEPT ![h] =
                   now - SweepInterval - retentionDays * Day]
  /\ UNCHANGED <<vars, requestVars, total, todo, result, grew>>

(* An error of the sweep is logged and the handler goes on. *)
SweepFirst(h) ==
  /\ pc[h] = "sweep"
  /\ \E ok \in BOOLEAN :
       /\ ApplyRetention(ok)
       /\ horizon' = [horizon EXCEPT ![h] =
                        IF ok THEN now - SweepInterval - retentionDays * Day
                              ELSE Spared]
  /\ pc' = [pc EXCEPT ![h] = "count"]
  /\ UNCHANGED <<requestVars, total, todo, result, grew>>

CountMessages(h) ==
  /\ pc[h] = "count"
  /\ total' = [total EXCEPT ![h] = Cardinality(View)]
  /\ pc' = [pc EXCEPT ![h] = IF View = {} THEN "ok" ELSE "list"]
  /\ UNCHANGED <<vars, requestVars, todo, result, grew, horizon>>

(* A bug to catch: one message is left to the next page. *)
PagesShort(limit, S) ==
  {page \in SUBSET S : Cardinality(page) = IF Cardinality(S) < limit
                                           THEN Cardinality(S) ELSE limit - 1}

(* What List(0, limit) and Search(.., 0, limit) may return: which messages *)
(* come first is up to the backend.                                        *)
Pages(limit, S) ==
  {page \in SUBSET S : Cardinality(page) = IF Cardinality(S) <= limit
                                           THEN Cardinality(S) ELSE limit}

(* A bug to catch: the filter is not applied to what was listed. *)
ListMessagesUnfiltered(h) ==
  /\ pc[h] = "list"
  /\ \E page \in Pages(total[h], View) :
       IF kind[h] = "purge"
       THEN /\ todo' = [todo EXCEPT ![h] = page]
            /\ pc' = [pc EXCEPT ![h] = "loop"]
            /\ UNCHANGED result
       ELSE /\ result' = [result EXCEPT ![h] = page]
            /\ pc' = [pc EXCEPT ![h] = "ok"]
            /\ UNCHANGED todo
  /\ UNCHANGED <<vars, requestVars, total, grew, horizon>>

(* List or Search, and the filter by folder and tag. *)
ListMessages(h) ==
  /\ pc[h] = "list"
  /\ \E page \in Pages(total[h], View) :
       IF kind[h] = "purge"
       THEN /\ todo' = [todo EXCEPT ![h] = page \cap wanted[h]]
            /\ pc' = [pc EXCEPT ![h] = "loop"]
            /\ UNCHANGED result
       ELSE /\ result' = [result EXCEPT ![h] = page \cap wanted[h]]
            /\ pc' = [pc EXCEPT ![h] = "ok"]
            /\ UNCHANGED todo
  /\ UNCHANGED <<vars, requestVars, total, grew, horizon>>

(* The handlers panic if the backend cannot list, and net/http recovers.   *)
ListFails(h) ==
  /\ pc[h] = "list"
  /\ "list" \in (IF cacheEnabled THEN CacheFaults ELSE BaseFaults)
  /\ pc' = [pc EXCEPT ![h] = "panicked"]
  /\ UNCHANGED <<vars, requestVars, total, todo, result, grew, horizon>>

(* A bug to catch: a message that is already gone counts as deleted. *)
PurgeOneForgiving(h, m) ==
  /\ pc[h] = "loop"
  /\ kind[h] = "purge"
  /\ m \in todo[h]
  /\ \/ DeleteOne(m, TRUE)
     \/ m \notin base /\ UNCHANGED vars
  /\ result' = [result EXCEPT ![h] = @ \cup {m}]
  /\ todo' = [todo EXCEPT ![h] = @ \ {m}]
  /\ UNCHANGED <<pc, requestVars, total, grew, horizon>>

(* A bug to catch: the delete that failed is tried again, forever. *)
PurgeOneRetrying(h, m) ==
  /\ pc[h] = "loop"
  /\ kind[h] = "purge"
  /\ m \in todo[h]
  /\ DeleteOne(m, TRUE)
  /\ result' = [result EXCEPT ![h] = @ \cup {m}]
  /\ todo' = [todo EXCEPT ![h] = @ \ {m}]
  /\ UNCHANGED <<pc, requestVars, total, grew, horizon>>

(* One turn of the delete loop: the first error ends the request with 500. *)
PurgeOne(h, m) ==
  /\ pc[h] = "loop"
  /\ kind[h] = "purge"
  /\ m \in todo[h]
  /\ \/ /\ DeleteOne(m, TRUE)
        /\ result' = [result EXCEPT ![h] = @ \cup {m}]
        /\ todo' = [todo EXCEPT ![h] = @ \ {m}]
        /\ UNCHANGED pc
     \/ /\ DeleteOne(m, FALSE)
        /\ pc' = [pc EXCEPT ![h] = "error"]
        /\ UNCHANGED <<result, todo>>
  /\ UNCHANGED <<requestVars, total, grew, horizon>>

(* A bug to catch: the first id that is unknown ends the loop. *)
CheckOneStopping(h, id) ==
  /\ pc[h] = "loop"
  /\ kind[h] = "existing"
  /\ id \in todo[h]
  /\ result' = [result EXCEPT ![h] = IF Load(id) THEN @ \cup {id} ELSE @]
  /\ todo' = [todo EXCEPT ![h] = IF Load(id) THEN @ \ {id} ELSE {}]
  /\ UNCHANGED <<vars, pc, requestVars, total, grew, horizon>>

(* One turn of the loop of existingMessageIDs. *)
CheckOne(h, id) ==
  /\ pc[h] = "loop"
  /\ kind[h] = "existing"
  /\ id \in todo[h]
  /\ result' = [result EXCEPT ![h] = IF Load(id) THEN @ \cup {id} ELSE @]
  /\ todo' = [todo EXCEPT ![h] = @ \ {id}]
  /\ UNCHANGED <<vars, pc, requestVars, total, grew, horizon>>

Answer(h) ==
  /\ pc[h] = "loop"
  /\ todo[h] = {}
  /\ pc' = [pc EXCEPT ![h] = "ok"]
  /\ UNCHANGED <<vars, requestVars, total, todo, result, grew, horizon>>

HandlerStep(h) ==
  \/ SweepFirst(h)
  \/ CountMessages(h)
  \/ ListMessages(h)
  \/ ListFails(h)
  \/ \E m \in Messages : PurgeOne(h, m)
  \/ \E m \in Messages : CheckOne(h, m)
  \/ Answer(h)
-----------------------------------------------------------------------------
(* An SMTP session stores a message (smtp/session.go). *)
Receive(m, ok) ==
  /\ Store(m, ok)
  /\ grew' = [h \in Handlers |-> grew[h] \/ (ok /\ pc[h] = "list")]
  /\ UNCHANGED <<pc, requestVars, total, todo, result, horizon>>

(* The handlers that call one method: DELETE of one message and of all     *)
(* (v1, and v2 without a filter), and the settings handler.                *)
OtherRequests ==
  /\ \/ \E m \in Messages, ok \in BOOLEAN : DeleteOne(m, ok)
     \/ \E ok \in BOOLEAN : DeleteAll(ok)
     \/ \E days \in DaysChoices : SetRetentionDays(days)
  /\ UNCHANGED apiVars

(* The ticker of CreateAPI, the start of the server and the clock. *)
Background ==
  /\ \/ \E ok \in BOOLEAN : ApplyRetention(ok)
     \/ StartupSweep
     \/ Tick
  /\ UNCHANGED apiVars

ApiInit ==
  /\ Init
  /\ pc = [h \in Handlers |-> "idle"]
  /\ kind = [h \in Handlers |-> "none"]
  /\ wanted = [h \in Handlers |-> {}]
  /\ total = [h \in Handlers |-> 0]
  /\ todo = [h \in Handlers |-> {}]
  /\ result = [h \in Handlers |-> {}]
  /\ before = [h \in Handlers |-> {}]
  /\ grew = [h \in Handlers |-> FALSE]
  /\ horizon = [h \in Handlers |-> 0]

ApiNext ==
  \/ \E h \in Handlers, k \in Kinds, s \in Selections : Begin(h, k, s)
  \/ \E h \in Handlers : HandlerStep(h)
  \/ \E m \in Messages, ok \in BOOLEAN : Receive(m, ok)
  \/ OtherRequests
  \/ Background

(* A goroutine that can take a step is scheduled. *)
ApiSpec ==
  /\ ApiInit
  /\ [][ApiNext]_allVars
  /\ \A h \in Handlers : WF_allVars(HandlerStep(h))
-----------------------------------------------------------------------------
(* Every variable has its type, and a handler touches and reports nothing  *)
(* but what its request is about (v2.go:199-222, 262-283, 301-314).        *)
ApiTypeOK ==
  /\ TypeOK
  /\ pc \in [Handlers -> {"idle", "sweep", "count", "list", "loop", "ok",
                         "error", "panicked"}]
  /\ kind \in [Handlers -> Kinds \cup {"none"}]
  /\ total \in [Handlers -> Nat]
  /\ grew \in [Handlers -> BOOLEAN]
  /\ horizon \in [Handlers -> Int]
  /\ \A h \in Handlers :
       /\ wanted[h] \subseteq Messages
       /\ before[h] \subseteq Messages
       /\ todo[h] \cup result[h] \subseteq wanted[h]

(* Two purges and the requests that race with them never both report the   *)
(* same message deleted: what a purge counted in {"deleted": n} it removed *)
(* itself (v2.go:270-279).                                                 *)
CountedOnce ==
  \A g, h \in Handlers :
    (g # h /\ kind[g] = "purge" /\ kind[h] = "purge")
      => result[g] \cap result[h] = {}

(* A purge that answered 200 left none of the messages it is about that    *)
(* were listed when it came in, unless mail arrived between its Count and  *)
(* its List (v2.go:262-283, 930-941).                                      *)
PurgeComplete ==
  \A h \in Handlers :
    (kind[h] = "purge" /\ pc[h] = "ok" /\ ~grew[h])
      => wanted[h] \cap before[h] \cap View = {}

(* A listing, search or folder summary shows nothing that was outdated a   *)
(* sweep interval before the request swept, under the period in force at   *)
(* the sweep, unless the sweep failed: what happens between the sweep, the *)
(* Count and the List does not matter (v2.go:199-203, 340-355, 382-384,    *)
(* managed_storage.go:151).                                                *)
ListingFresh ==
  \A h \in Handlers :
    (kind[h] = "messages" /\ pc[h] = "ok")
      => \A m \in result[h] : created[m] > horizon[h]

(* A message that was there when existing-ids was asked and is still there *)
(* now was reported: a client that drops what is not in the answer drops   *)
(* no live message, whatever ran in between (v2.go:301-314).               *)
LiveIsReported ==
  \A h \in Handlers :
    (kind[h] = "existing" /\ pc[h] = "ok")
      => wanted[h] \cap before[h] \cap View \subseteq result[h]

(* Every request is answered, with an error or a panic if need be,         *)
(* whatever races with it (v2.go:191-320).                                 *)
RequestsAnswered ==
  \A h \in Handlers :
    pc[h] # "idle" ~> pc[h] \in {"ok", "error", "panicked"}
=============================================================================
