-------------------------- MODULE ManagedStorage ---------------------------
(***************************************************************************)
(* config/managed_storage.go: a storage backend (base) wrapped with a      *)
(* retention policy and, for a maildir, with an in-memory copy (cache)     *)
(* that answers the reads.  Every method holds m.mu for its whole body, so *)
(* a method is one action; what can fail inside it is in the action.       *)
(*                                                                         *)
(* A message stands for its id.  One tick of the clock is one minute, Day  *)
(* is a day in ticks.  MaxTime bounds the clock.                           *)
(***************************************************************************)
EXTENDS Integers

CONSTANTS
  Messages,      \* the ids SMTP sessions give to messages
  ListOrder,     \* the place of a message in what List returns
  Persistent,    \* the base survives a restart (maildir, mongodb)
  CacheWanted,   \* enableMemoryCache: TRUE for a maildir
  BaseFaults,    \* the base's methods that may fail
  CacheFaults,   \* the cache's methods that may fail
  Day,
  SweepInterval, \* retentionSweepInterval: time.Minute
  DaysChoices,   \* the retention periods configured, valid or not
  DefaultDays,   \* what NewManagedStorage uses for an invalid one: 10
  MaxTime

Methods == {"store", "list", "deleteOne", "deleteAll"}

ASSUME StorageAssumption ==
  /\ ListOrder \in [Messages -> Nat]
  /\ \A m, n \in Messages : ListOrder[m] = ListOrder[n] => m = n
  /\ Persistent \in BOOLEAN
  /\ CacheWanted \in BOOLEAN
  /\ BaseFaults \subseteq Methods
  /\ CacheFaults \subseteq Methods
  /\ Day \in Nat
  /\ SweepInterval \in Nat
  /\ DaysChoices \subseteq Int
  /\ DefaultDays \in Nat \ {0}
  /\ MaxTime \in Nat

VARIABLES
  base,               \* the messages in the backend
  cache,              \* the messages in the in-memory copy
  cacheEnabled,
  retentionDays,
  lastRetentionSweep, \* a time, or Zero
  now,
  created,            \* when a message was received
  known,              \* history: the messages the base has accepted
  acked,              \* history: the messages a delete reported deleted
  serving             \* startup is over: requests are handled

vars == <<base, cache, cacheEnabled, retentionDays, lastRetentionSweep, now,
          created, known, acked, serving>>
storeVars == <<base, cache, cacheEnabled>>
policyVars == <<retentionDays, lastRetentionSweep>>

Zero == -1   \* time.Time{}
-----------------------------------------------------------------------------
(* What the readers see: List, Search and Count ask the cache if it is    *)
(* enabled, Load falls back on the base.                                   *)
View == IF cacheEnabled THEN cache ELSE base

Load(m) == m \in View \/ m \in base

Expired(m) == created[m] < now - retentionDays * Day

(* The ways a delete of D from the cache can end: a message whose delete   *)
(* failed is logged and stays.                                             *)
CacheAfter(method, D) ==
  IF ~cacheEnabled THEN {cache}
  ELSE IF method \in CacheFaults
       THEN {cache \ (D \ kept) : kept \in SUBSET D}
       ELSE {cache \ D}
-----------------------------------------------------------------------------
(* The result of a method is a parameter: ok is FALSE when it returns an   *)
(* error.                                                                  *)

Store(m, ok) ==
  /\ serving
  /\ m \notin known
  /\ \/ /\ ok
        /\ base' = base \cup {m}
        /\ \/ cache' = IF cacheEnabled THEN cache \cup {m} ELSE cache
           \/ "store" \in CacheFaults /\ UNCHANGED cache
        /\ known' = known \cup {m}
        /\ created' = [created EXCEPT ![m] = now]
     \/ /\ ~ok
        /\ "store" \in BaseFaults
        /\ UNCHANGED <<base, cache, known, created>>
  /\ UNCHANGED <<cacheEnabled, policyVars, now, acked, serving>>

(* A bug to catch: the cache is cleared although the base refused. *)
DeleteOneCacheFirst(m, ok) ==
  /\ serving
  /\ \/ /\ ok
        /\ m \in base
        /\ base' = base \ {m}
        /\ cache' \in CacheAfter("deleteOne", {m})
        /\ acked' = acked \cup {m}
     \/ /\ ~ok
        /\ m \notin base \/ "deleteOne" \in BaseFaults
        /\ cache' \in CacheAfter("deleteOne", {m})
        /\ UNCHANGED <<base, acked>>
  /\ UNCHANGED <<cacheEnabled, policyVars, now, created, known, serving>>

(* The base reports an error for a message it does not hold. *)
DeleteOne(m, ok) ==
  /\ serving
  /\ \/ /\ ok
        /\ m \in base
        /\ base' = base \ {m}
        /\ cache' \in CacheAfter("deleteOne", {m})
        /\ acked' = acked \cup {m}
     \/ /\ ~ok
        /\ m \notin base \/ "deleteOne" \in BaseFaults
        /\ UNCHANGED <<base, cache, acked>>
  /\ UNCHANGED <<cacheEnabled, policyVars, now, created, known, serving>>

(* A bug to catch: the cache is left as it was. *)
DeleteAllKeepsCache(ok) ==
  /\ serving
  /\ \/ /\ ok
        /\ base' = {}
        /\ acked' = acked \cup View \cup base
        /\ UNCHANGED cache
     \/ /\ ~ok
        /\ "deleteAll" \in BaseFaults
        /\ base' \in SUBSET base
        /\ UNCHANGED <<cache, acked>>
  /\ UNCHANGED <<cacheEnabled, policyVars, now, created, known, serving>>

(* A base that fails may have deleted some of the messages. *)
DeleteAll(ok) ==
  /\ serving
  /\ \/ /\ ok
        /\ base' = {}
        /\ IF "deleteAll" \in CacheFaults
           THEN cache' \in {cache, {}}
           ELSE cache' = {}
        /\ acked' = acked \cup View \cup base
     \/ /\ ~ok
        /\ "deleteAll" \in BaseFaults
        /\ base' \in SUBSET base
        /\ UNCHANGED <<cache, acked>>
  /\ UNCHANGED <<cacheEnabled, policyVars, now, created, known, serving>>

(* A bug to catch: the next sweep waits although the policy has changed. *)
SetRetentionDaysKeepsSweep(days) ==
  /\ serving
  /\ retentionDays' = IF days <= 0 THEN 1 ELSE days
  /\ UNCHANGED <<storeVars, lastRetentionSweep, now, created, known, acked,
                 serving>>

(* A bug to catch: a period of no days or fewer is taken as it is. *)
SetRetentionDaysUnchecked(days) ==
  /\ serving
  /\ retentionDays' = days
  /\ lastRetentionSweep' = Zero
  /\ UNCHANGED <<storeVars, now, created, known, acked, serving>>

(* A new period takes effect at once: the next sweep does not wait. *)
SetRetentionDays(days) ==
  /\ serving
  /\ retentionDays' = IF days <= 0 THEN 1 ELSE days
  /\ lastRetentionSweep' = Zero
  /\ UNCHANGED <<storeVars, now, created, known, acked, serving>>
-----------------------------------------------------------------------------
(* A bug to catch: a policy that was never applied is not due either. *)
SweepDueOnlyLater ==
  /\ retentionDays > 0
  /\ lastRetentionSweep # Zero
  /\ now - lastRetentionSweep >= SweepInterval

SweepDue ==
  /\ retentionDays > 0
  /\ \/ lastRetentionSweep = Zero
     \/ now - lastRetentionSweep >= SweepInterval

Outdated == {m \in View : Expired(m)}

(* The outdated messages a sweep reaches before m. *)
OutdatedBefore(m) == {n \in Outdated : ListOrder[n] < ListOrder[m]}

SweepSucceeds ==
  /\ Outdated \subseteq base
  /\ base' = base \ Outdated
  /\ cache' \in CacheAfter("deleteOne", Outdated)
  /\ lastRetentionSweep' = now

(* The base fails on m, or List fails: the sweep stops there, and the next *)
(* call starts again.                                                      *)
SweepStopsAt(m) ==
  /\ m \notin base \/ "deleteOne" \in BaseFaults
  /\ OutdatedBefore(m) \subseteq base
  /\ base' = base \ OutdatedBefore(m)
  /\ cache' \in CacheAfter("deleteOne", OutdatedBefore(m))
  /\ UNCHANGED lastRetentionSweep

SweepCannotList ==
  /\ View # {}
  /\ "list" \in (IF cacheEnabled THEN CacheFaults ELSE BaseFaults)
  /\ UNCHANGED <<base, cache, lastRetentionSweep>>

(* ApplyRetention, when it is called while the server runs (the ticker of  *)
(* CreateAPI and the API handlers).  A call that is not due does nothing.  *)
ApplyRetention(ok) ==
  /\ serving
  /\ \/ ok /\ SweepDue /\ SweepSucceeds
     \/ ok /\ ~SweepDue /\ UNCHANGED <<base, cache, lastRetentionSweep>>
     \/ ~ok /\ SweepDue /\ \E m \in Outdated : SweepStopsAt(m)
     \/ ~ok /\ SweepDue /\ SweepCannotList
  /\ UNCHANGED <<cacheEnabled, retentionDays, now, created, known, acked,
                 serving>>
-----------------------------------------------------------------------------
(* NewManagedStorage over what is left in the base.  If the cache cannot   *)
(* be filled the reads go to the base.                                     *)
NewManagedStorage(left, days) ==
  /\ base' = left
  /\ retentionDays' = IF days <= 0 THEN DefaultDays ELSE days
  /\ lastRetentionSweep' = Zero
  /\ \/ CacheWanted /\ cache' = left /\ cacheEnabled' = TRUE
     \/ /\ \/ ~CacheWanted
           \/ "deleteAll" \in CacheFaults
           \/ left # {} /\ ("list" \in BaseFaults \/ "store" \in CacheFaults)
        /\ cache' = {}
        /\ cacheEnabled' = FALSE

(* The process dies and is started again.  left is all of the base if it   *)
(* died between two methods, less if it died in DeleteAll or in a sweep.   *)
Restart ==
  /\ \E left \in SUBSET base, days \in DaysChoices :
       NewManagedStorage(IF Persistent THEN left ELSE {}, days)
  /\ serving' = FALSE
  /\ UNCHANGED <<now, created, known, acked>>

(* Configure applies the policy before anything is served, whether or not  *)
(* the sweep succeeds.                                                     *)
StartupSweep ==
  /\ ~serving
  /\ \/ SweepSucceeds
     \/ \E m \in Outdated : SweepStopsAt(m)
     \/ SweepCannotList
  /\ serving' = TRUE
  /\ UNCHANGED <<cacheEnabled, retentionDays, now, created, known, acked>>

Tick ==
  /\ now < MaxTime
  /\ now' = now + 1
  /\ UNCHANGED <<storeVars, policyVars, created, known, acked, serving>>

Init ==
  /\ base = {} /\ cache = {}
  /\ cacheEnabled = CacheWanted
  /\ \E days \in DaysChoices :
       retentionDays = IF days <= 0 THEN DefaultDays ELSE days
  /\ lastRetentionSweep = Zero
  /\ now = 0
  /\ created = [m \in Messages |-> 0]
  /\ known = {} /\ acked = {}
  /\ serving = FALSE

Next ==
  \/ \E m \in Messages, ok \in BOOLEAN : Store(m, ok)
  \/ \E m \in Messages, ok \in BOOLEAN : DeleteOne(m, ok)
  \/ \E ok \in BOOLEAN : DeleteAll(ok)
  \/ \E days \in DaysChoices : SetRetentionDays(days)
  \/ \E ok \in BOOLEAN : ApplyRetention(ok)
  \/ Restart
  \/ StartupSweep
  \/ Tick

(* The ticker of CreateAPI calls ApplyRetention every minute for as long   *)
(* as the process lives, and Configure always calls it at startup.         *)
Fairness ==
  /\ WF_vars(\E ok \in BOOLEAN : ApplyRetention(ok))
  /\ WF_vars(StartupSweep)

Spec == Init /\ [][Next]_vars /\ Fairness
-----------------------------------------------------------------------------
(* Every variable has its type; in particular the retention period in      *)
(* force is positive whatever was configured (managed_storage.go:24-26,    *)
(* 128-130).                                                               *)
TypeOK ==
  /\ base \subseteq known
  /\ cache \subseteq known
  /\ known \subseteq Messages
  /\ acked \subseteq known
  /\ cacheEnabled \in BOOLEAN
  /\ serving \in BOOLEAN
  /\ retentionDays \in Nat \ {0}
  /\ now \in Nat
  /\ lastRetentionSweep \in {Zero} \cup (0..now)
  /\ created \in [Messages -> 0..now]

(* While the cache answers the reads, every message the backend holds is   *)
(* listed, whatever fails in the backend and at whatever point the process *)
(* was restarted (managed_storage.go:46-119, 194-217).                     *)
NothingHidden == base \subseteq View

(* While nothing fails the cache and the backend hold the same messages,   *)
(* through deletes, sweeps and restarts (managed_storage.go:46-114).       *)
CacheAgrees == View = base

(* A message whose deletion was reported as done is never listed or loaded *)
(* again, not even after a restart (managed_storage.go:88-114).            *)
DeletedStaysDeleted == \A m \in acked : ~Load(m)

(* A sweep that was recorded left nothing behind that is outdated under    *)
(* the retention period now in force: throttling a sweep is only safe      *)
(* because a new period forgets the last one and a sweep that stopped      *)
(* half-way is not recorded (managed_storage.go:127-135, 151-153,          *)
(* 172-190).  A message the cache has lost or kept is not promised.        *)
SweptIsClean ==
  lastRetentionSweep # Zero =>
    \A m \in View \cap base :
      created[m] >= lastRetentionSweep - retentionDays * Day

(* The backend is emptied of an outdated message sooner or later: the      *)
(* retention policy is applied (managed_storage.go:12, 143-192).           *)
RetentionApplied ==
  \A m \in Messages :
    (m \in base /\ Expired(m)) ~> (m \notin base \/ ~Expired(m))

(* The detailed store implements the abstract mailbox: what has left the   *)
(* listing never comes back, whichever calls to the backend failed and     *)
(* wherever the process died (managed_storage.go:46-119, 143-217).         *)
MB == INSTANCE Mailbox WITH box <- View, gone <- known \ View
NeverComesBack == MB!Spec
=============================================================================
