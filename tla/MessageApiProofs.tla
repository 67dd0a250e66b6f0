-------------------------- MODULE MessageApiProofs ---------------------------
(***************************************************************************)
(* Proofs about ManagedStorage for every set of messages, every order of   *)
(* listing, every retention period and any number of restarts, and about   *)
(* MessageApi for any number of requests that race over any messages.      *)
(***************************************************************************)
EXTENDS MessageApi, FiniteSetTheorems, TLAPS

(* The condition under which the cache can be trusted: its methods do not  *)
(* fail (the in-memory store reports an error only for an unknown id).     *)
CacheReliable == CacheFaults = {}

LEMMA StoreTypes ==
  ASSUME TypeOK, NEW m \in Messages, NEW ok \in BOOLEAN, Store(m, ok)
  PROVE  TypeOK'
<1> USE DEF TypeOK, Store, storeVars, policyVars, Zero
<1>1. /\ base' \subseteq known'
      /\ cache' \subseteq known'
      /\ known' \subseteq Messages
      /\ acked' \subseteq known'
  OBVIOUS
<1>2. created' \in [Messages -> 0..now']
  OBVIOUS
<1> QED  BY <1>1, <1>2

LEMMA CacheAfterShrinks ==
  ASSUME NEW method, NEW D, cache' \in CacheAfter(method, D)
  PROVE  cache' \subseteq cache
BY DEF CacheAfter

LEMMA SweepShrinks ==
  ASSUME \/ SweepSucceeds
         \/ \E m \in Outdated : SweepStopsAt(m)
         \/ SweepCannotList
  PROVE  /\ base' \subseteq base
         /\ cache' \subseteq cache
         /\ lastRetentionSweep' \in {now, lastRetentionSweep}
BY CacheAfterShrinks DEF SweepSucceeds, SweepStopsAt, SweepCannotList

LEMMA ApplyShrinks ==
  ASSUME NEW ok \in BOOLEAN, ApplyRetention(ok)
  PROVE  /\ base' \subseteq base
         /\ cache' \subseteq cache
         /\ lastRetentionSweep' \in {now, lastRetentionSweep}
<1>1. CASE UNCHANGED <<base, cache, lastRetentionSweep>>
  BY <1>1
<1>2. CASE \/ SweepSucceeds
           \/ \E m \in Outdated : SweepStopsAt(m)
           \/ SweepCannotList
  BY <1>2, SweepShrinks
<1> QED  BY <1>1, <1>2 DEF ApplyRetention

(* A restart never invents a message. *)
LEMMA NewManagedStorageTypes ==
  ASSUME NEW left \in SUBSET base, NEW days \in DaysChoices,
         NewManagedStorage(IF Persistent THEN left ELSE {}, days)
  PROVE  /\ base' \subseteq base
         /\ cache' \subseteq base
         /\ cacheEnabled' \in BOOLEAN
         /\ base' \subseteq View'
         /\ View' \subseteq base
         /\ retentionDays' \in Nat \ {0}
         /\ lastRetentionSweep' = Zero
<1>1. retentionDays' \in Nat \ {0}
  BY StorageAssumption DEF NewManagedStorage
<1>2. /\ base' \subseteq base
      /\ cache' \subseteq base
      /\ cacheEnabled' \in BOOLEAN
      /\ lastRetentionSweep' = Zero
  BY DEF NewManagedStorage
<1>3. base' \subseteq View' /\ View' \subseteq base
  BY DEF NewManagedStorage, View
<1> QED  BY <1>1, <1>2, <1>3

(* The type invariant is inductive. *)
LEMMA InitTypes == Init => TypeOK
<1> SUFFICES ASSUME Init PROVE TypeOK
  OBVIOUS
<1>1. retentionDays \in Nat \ {0}
  <2>1. PICK days \in DaysChoices :
          retentionDays = IF days <= 0 THEN DefaultDays ELSE days
    BY DEF Init
  <2> QED  BY <2>1, StorageAssumption
<1>2. created \in [Messages -> 0..now]
  BY DEF Init
<1> QED  BY <1>1, <1>2, StorageAssumption DEF Init, TypeOK, Zero

LEMMA NextTypes ==
  ASSUME TypeOK, [Next]_vars
  PROVE  TypeOK'
<1> USE DEF TypeOK, storeVars, policyVars, Zero
<1>1. ASSUME NEW m \in Messages, NEW ok \in BOOLEAN, Store(m, ok)
      PROVE  TypeOK'
  BY <1>1, StoreTypes
<1>2. ASSUME NEW m \in Messages, NEW ok \in BOOLEAN, DeleteOne(m, ok)
      PROVE  TypeOK'
  BY <1>2, CacheAfterShrinks DEF DeleteOne
<1>3. ASSUME NEW ok \in BOOLEAN, DeleteAll(ok)
      PROVE  TypeOK'
  BY <1>3 DEF DeleteAll, View
<1>4. ASSUME NEW days \in DaysChoices, SetRetentionDays(days)
      PROVE  TypeOK'
  BY <1>4, StorageAssumption DEF SetRetentionDays
<1>5. ASSUME NEW ok \in BOOLEAN, ApplyRetention(ok)
      PROVE  TypeOK'
  <2>1. UNCHANGED <<cacheEnabled, retentionDays, now, created, known, acked,
                    serving>>
    BY <1>5 DEF ApplyRetention
  <2> QED  BY <1>5, <2>1, ApplyShrinks
<1>6. CASE Restart
  <2>1. PICK left \in SUBSET base, days \in DaysChoices :
          NewManagedStorage(IF Persistent THEN left ELSE {}, days)
    BY <1>6 DEF Restart
  <2>2. serving' = FALSE /\ UNCHANGED <<now, created, known, acked>>
    BY <1>6 DEF Restart
  <2> QED  BY <2>1, <2>2, NewManagedStorageTypes
<1>7. CASE StartupSweep
  <2>1. serving' = TRUE
        /\ UNCHANGED <<cacheEnabled, retentionDays, now, created, known, acked>>
    BY <1>7 DEF StartupSweep
  <2>2. /\ base' \subseteq base
        /\ cache' \subseteq cache
        /\ lastRetentionSweep' \in {now, lastRetentionSweep}
    BY <1>7, SweepShrinks DEF StartupSweep
  <2> QED  BY <2>1, <2>2
<1>8. CASE Tick
  <2>1. created' \in [Messages -> 0..now']
    BY <1>8 DEF Tick
  <2> QED  BY <1>8, <2>1 DEF Tick
<1>9. CASE UNCHANGED vars
  BY <1>9 DEF vars
<1> QED  BY <1>1, <1>2, <1>3, <1>4, <1>5, <1>6, <1>7, <1>8, <1>9 DEF Next

(* Every variable keeps its type; the retention period in force is         *)
(* positive whatever is configured.                                        *)
THEOREM TypeCorrect == Spec => []TypeOK
BY InitTypes, NextTypes, PTL DEF Spec
-----------------------------------------------------------------------------
(* The backend's messages stay inside the listing.                         *)
LEMMA InitHidesNothing == Init => NothingHidden
BY DEF Init, NothingHidden

LEMMA SweepHidesNothing ==
  ASSUME CacheReliable, TypeOK, NothingHidden,
         \/ SweepSucceeds
         \/ \E m \in Outdated : SweepStopsAt(m)
         \/ SweepCannotList,
         UNCHANGED cacheEnabled
  PROVE  NothingHidden'
BY DEF CacheReliable, NothingHidden, View, SweepSucceeds, SweepStopsAt,
       SweepCannotList, CacheAfter

LEMMA NextHidesNothing ==
  ASSUME CacheReliable, TypeOK, NothingHidden, [Next]_vars
  PROVE  NothingHidden'
<1> USE DEF CacheReliable, NothingHidden, View, storeVars, policyVars
<1>1. ASSUME NEW m \in Messages, NEW ok \in BOOLEAN, Store(m, ok)
      PROVE  NothingHidden'
  BY <1>1 DEF Store
<1>2. ASSUME NEW m \in Messages, NEW ok \in BOOLEAN, DeleteOne(m, ok)
      PROVE  NothingHidden'
  BY <1>2 DEF DeleteOne, CacheAfter
<1>3. ASSUME NEW ok \in BOOLEAN, DeleteAll(ok)
      PROVE  NothingHidden'
  BY <1>3 DEF DeleteAll
<1>4. ASSUME NEW days \in DaysChoices, SetRetentionDays(days)
      PROVE  NothingHidden'
  BY <1>4 DEF SetRetentionDays
<1>5. ASSUME NEW ok \in BOOLEAN, ApplyRetention(ok)
      PROVE  NothingHidden'
  <2>1. CASE UNCHANGED <<base, cache, lastRetentionSweep>>
    BY <1>5, <2>1 DEF ApplyRetention
  <2>2. CASE \/ SweepSucceeds
             \/ \E m \in Outdated : SweepStopsAt(m)
             \/ SweepCannotList
    BY <1>5, <2>2, SweepHidesNothing DEF ApplyRetention
  <2> QED  BY <1>5, <2>1, <2>2 DEF ApplyRetention
<1>6. CASE Restart
  BY <1>6, NewManagedStorageTypes DEF Restart
<1>7. CASE StartupSweep
  BY <1>7, SweepHidesNothing DEF StartupSweep
<1>8. CASE Tick
  BY <1>8 DEF Tick
<1>9. CASE UNCHANGED vars
  BY <1>9 DEF vars
<1> QED  BY <1>1, <1>2, <1>3, <1>4, <1>5, <1>6, <1>7, <1>8, <1>9 DEF Next

(* If the cache's methods do not fail, the listing shows every message the *)
(* backend holds, whatever fails in the backend.                           *)
THEOREM ListingIsComplete ==
  ASSUME CacheReliable
  PROVE  Spec => []NothingHidden
BY CacheReliable, InitTypes, NextTypes, InitHidesNothing, NextHidesNothing,
   PTL DEF Spec
-----------------------------------------------------------------------------
(* Cache and base part company only when a DeleteAll of the base removes   *)
(* some messages and then fails.                                           *)
DeleteAllIsWhole == "deleteAll" \notin BaseFaults

LEMMA NextAgrees ==
  ASSUME CacheReliable, DeleteAllIsWhole, TypeOK, CacheAgrees, [Next]_vars
  PROVE  CacheAgrees'
<1> USE DEF CacheReliable, CacheAgrees, View, CacheAfter, storeVars
<1>1. ASSUME NEW m \in Messages, NEW ok \in BOOLEAN, Store(m, ok)
      PROVE  CacheAgrees'
  BY <1>1 DEF Store
<1>2. ASSUME NEW m \in Messages, NEW ok \in BOOLEAN, DeleteOne(m, ok)
      PROVE  CacheAgrees'
  BY <1>2 DEF DeleteOne
<1>3. ASSUME NEW ok \in BOOLEAN, DeleteAll(ok)
      PROVE  CacheAgrees'
  BY <1>3 DEF DeleteAll, DeleteAllIsWhole
<1>4. ASSUME \/ SweepSucceeds
             \/ \E m \in Outdated : SweepStopsAt(m)
             \/ SweepCannotList
             \/ UNCHANGED <<base, cache, lastRetentionSweep>>,
             UNCHANGED cacheEnabled
      PROVE  CacheAgrees'
  BY <1>4 DEF SweepSucceeds, SweepStopsAt, SweepCannotList
<1>5. ASSUME NEW ok \in BOOLEAN, ApplyRetention(ok)
      PROVE  CacheAgrees'
  BY <1>4, <1>5 DEF ApplyRetention
<1>6. CASE Restart
  BY <1>6 DEF Restart, NewManagedStorage
<1>7. CASE StartupSweep
  BY <1>4, <1>7 DEF StartupSweep
<1>8. ASSUME NEW days \in DaysChoices, SetRetentionDays(days)
      PROVE  CacheAgrees'
  BY <1>8 DEF SetRetentionDays
<1>9. CASE Tick \/ UNCHANGED vars
  BY <1>9 DEF Tick, vars
<1> QED
  BY <1>1, <1>2, <1>3, <1>5, <1>6, <1>7, <1>8, <1>9 DEF Next

(* If the cache's methods do not fail and a DeleteAll of the backend       *)
(* removes all or nothing, cache and backend hold the same messages: no    *)
(* other failure of the backend and no restart parts them                  *)
(* (managed_storage.go:46-114, 194-217).                                   *)
THEOREM CacheAndBaseAgree ==
  ASSUME CacheReliable, DeleteAllIsWhole
  PROVE  Spec => []CacheAgrees
<1>1. Init => CacheAgrees
  BY DEF Init, CacheAgrees, View
<1> QED
  BY <1>1, CacheReliable, DeleteAllIsWhole, InitTypes, NextTypes, NextAgrees,
     PTL DEF Spec
-----------------------------------------------------------------------------
(* A step never brings a message into the base or the listing except       *)
(* Store, and Store only one that was not known.                           *)
LEMMA OnlyStoreAdds ==
  ASSUME CacheReliable, TypeOK, NothingHidden, [Next]_vars
  PROVE  /\ View' \cup base' \subseteq View \cup base \cup (known' \ known)
         /\ known \subseteq known'
<1> USE DEF View, storeVars, policyVars, TypeOK
<1>1. ASSUME NEW m \in Messages, NEW ok \in BOOLEAN, Store(m, ok)
      PROVE  /\ View' \cup base' \subseteq View \cup base \cup (known' \ known)
             /\ known \subseteq known'
  BY <1>1 DEF Store
<1>2. ASSUME base' \subseteq base, cache' \subseteq cache,
             UNCHANGED <<cacheEnabled, known>>
      PROVE  /\ View' \cup base' \subseteq View \cup base \cup (known' \ known)
             /\ known \subseteq known'
  BY <1>2
<1>3. ASSUME NEW m \in Messages, NEW ok \in BOOLEAN, DeleteOne(m, ok)
      PROVE  base' \subseteq base /\ cache' \subseteq cache
             /\ UNCHANGED <<cacheEnabled, known>>
  BY <1>3, CacheAfterShrinks DEF DeleteOne
<1>4. ASSUME NEW ok \in BOOLEAN, DeleteAll(ok)
      PROVE  base' \subseteq base /\ cache' \subseteq cache
             /\ UNCHANGED <<cacheEnabled, known>>
  BY <1>4 DEF DeleteAll
<1>5. ASSUME NEW ok \in BOOLEAN, ApplyRetention(ok)
      PROVE  base' \subseteq base /\ cache' \subseteq cache
             /\ UNCHANGED <<cacheEnabled, known>>
  BY <1>5, ApplyShrinks DEF ApplyRetention
<1>6. CASE Restart
  BY <1>6, NewManagedStorageTypes DEF Restart, NothingHidden
<1>7. CASE StartupSweep
  <2>1. base' \subseteq base /\ cache' \subseteq cache
        /\ UNCHANGED <<cacheEnabled, known>>
    BY <1>7, SweepShrinks DEF StartupSweep
  <2> QED  BY <1>2, <2>1
<1>8. CASE UNCHANGED <<storeVars, known>>
  BY <1>8, <1>2
<1>9. ASSUME NEW days \in DaysChoices, SetRetentionDays(days)
      PROVE  UNCHANGED <<storeVars, known>>
  BY <1>9 DEF SetRetentionDays
<1>10. CASE Tick \/ UNCHANGED vars
  BY <1>8, <1>10 DEF Tick, vars
<1> QED
  BY <1>1, <1>2, <1>3, <1>4, <1>5, <1>6, <1>7, <1>8, <1>9, <1>10 DEF Next

LEMMA NextKeepsDeleted ==
  ASSUME CacheReliable, TypeOK, NothingHidden, DeletedStaysDeleted, [Next]_vars
  PROVE  DeletedStaysDeleted'
<1> USE DEF DeletedStaysDeleted, Load, storeVars, policyVars
<1>1. (View' \cup base') \cap acked = {}
  BY OnlyStoreAdds DEF TypeOK
<1>2. ASSUME NEW m \in Messages, NEW ok \in BOOLEAN, DeleteOne(m, ok)
      PROVE  DeletedStaysDeleted'
  <2>1. CASE ok
    <3>1. acked' = acked \cup {m}
      BY <1>2, <2>1 DEF DeleteOne
    <3>2. m \notin View' /\ m \notin base'
      BY <1>2, <2>1 DEF DeleteOne, View, CacheAfter, CacheReliable
    <3> QED  BY <1>1, <3>1, <3>2
  <2>2. CASE ~ok
    BY <1>1, <1>2, <2>2 DEF DeleteOne
  <2> QED  BY <2>1, <2>2
<1>3. ASSUME NEW ok \in BOOLEAN, DeleteAll(ok)
      PROVE  DeletedStaysDeleted'
  <2>1. CASE ok
    BY <1>3, <2>1 DEF DeleteAll, View, CacheReliable
  <2>2. CASE ~ok
    BY <1>1, <1>3, <2>2 DEF DeleteAll
  <2> QED  BY <2>1, <2>2
<1>4. CASE UNCHANGED acked
  BY <1>1, <1>4
<1> QED
  BY <1>2, <1>3, <1>4 DEF Next, Store, SetRetentionDays, ApplyRetention,
     Restart, StartupSweep, Tick, vars

(* If the cache's methods do not fail, a message reported deleted is never *)
(* listed or loaded again, restarts included.                              *)
THEOREM DeletionIsFinal ==
  ASSUME CacheReliable
  PROVE  Spec => []DeletedStaysDeleted
<1>1. Init => DeletedStaysDeleted
  BY DEF Init, DeletedStaysDeleted
<1> QED
  BY <1>1, CacheReliable, InitTypes, NextTypes, InitHidesNothing,
     NextHidesNothing, NextKeepsDeleted, PTL DEF Spec
-----------------------------------------------------------------------------
(* What a recorded sweep leaves in both the base and the listing is not    *)
(* outdated at that moment.                                                *)
LEMMA Cutoff == TypeOK => retentionDays * Day \in Nat
BY StorageAssumption DEF TypeOK

LEMMA SweepCleans ==
  ASSUME TypeOK, SweepSucceeds, UNCHANGED <<cacheEnabled, created, retentionDays>>,
         NEW m \in View' \cap base'
  PROVE  created'[m] >= lastRetentionSweep' - retentionDays' * Day
<1>1. m \in View /\ m \in base /\ m \notin Outdated
  BY CacheAfterShrinks DEF SweepSucceeds, View
<1>2. ~(created[m] < now - retentionDays * Day)
  BY <1>1 DEF Outdated, Expired
<1>3. m \in Messages /\ created[m] \in Int /\ now \in Int
  BY <1>1 DEF TypeOK
<1>4. lastRetentionSweep' = now
  BY DEF SweepSucceeds
<1> DEFINE cut == retentionDays * Day
<1>5. cut \in Int
  BY Cutoff
<1> HIDE DEF cut
<1>6. created[m] >= now - cut
  BY <1>2, <1>3, <1>5 DEF cut
<1> QED  BY <1>4, <1>6 DEF cut

(* A step that adds no message and records no sweep cannot break it.       *)
LEMMA SweptStays ==
  ASSUME SweptIsClean,
         View' \cap base' \subseteq View \cap base,
         UNCHANGED <<created, retentionDays, lastRetentionSweep>>
  PROVE  SweptIsClean'
BY DEF SweptIsClean, Zero

LEMMA StoreStaysSwept ==
  ASSUME TypeOK, SweptIsClean,
         NEW m \in Messages, NEW ok \in BOOLEAN, Store(m, ok)
  PROVE  SweptIsClean'
<1>1. CASE ~ok
  BY <1>1, SweptStays DEF Store, View, storeVars, policyVars
<1>2. CASE ok
  <2>1. UNCHANGED <<retentionDays, lastRetentionSweep, now>>
    BY DEF Store, policyVars
  <2> SUFFICES ASSUME lastRetentionSweep # Zero,
                      NEW n \in View' \cap base'
               PROVE  created'[n] >= lastRetentionSweep - retentionDays * Day
    BY <2>1 DEF SweptIsClean, Zero
  <2>2. CASE n = m
    <3>1. created'[n] = now
      BY <1>2, <2>2 DEF Store, TypeOK
    <3> DEFINE cut == retentionDays * Day
    <3>2. cut \in Nat
      BY Cutoff
    <3> HIDE DEF cut
    <3>3. now >= lastRetentionSweep - cut
      BY <3>2 DEF TypeOK
    <3> QED  BY <3>1, <3>3 DEF cut
  <2>3. CASE n # m
    <3>1. n \in View \cap base /\ created'[n] = created[n]
      BY <1>2, <2>3 DEF Store, View, storeVars, TypeOK
    <3> QED  BY <3>1 DEF SweptIsClean
  <2> QED  BY <2>2, <2>3
<1> QED  BY <1>1, <1>2

LEMMA SweepStepStaysSwept ==
  ASSUME TypeOK, SweptIsClean,
         \/ SweepSucceeds
         \/ \E m \in Outdated : SweepStopsAt(m)
         \/ SweepCannotList,
         UNCHANGED <<cacheEnabled, created, retentionDays>>
  PROVE  SweptIsClean'
<1>1. CASE SweepSucceeds
  BY <1>1, SweepCleans DEF SweptIsClean
<1>2. CASE (\E m \in Outdated : SweepStopsAt(m)) \/ SweepCannotList
  <2>1. UNCHANGED lastRetentionSweep
    BY <1>2 DEF SweepStopsAt, SweepCannotList
  <2>2. View' \cap base' \subseteq View \cap base
    BY SweepShrinks DEF View
  <2> QED  BY <2>1, <2>2, SweptStays
<1> QED  BY <1>1, <1>2

LEMMA NextStaysSwept ==
  ASSUME TypeOK, SweptIsClean, [Next]_vars
  PROVE  SweptIsClean'
<1> USE DEF storeVars, policyVars
<1>1. ASSUME NEW m \in Messages, NEW ok \in BOOLEAN, Store(m, ok)
      PROVE  SweptIsClean'
  BY <1>1, StoreStaysSwept
<1>2. ASSUME NEW m \in Messages, NEW ok \in BOOLEAN, DeleteOne(m, ok)
      PROVE  SweptIsClean'
  BY <1>2, SweptStays, CacheAfterShrinks DEF DeleteOne, View
<1>3. ASSUME NEW ok \in BOOLEAN, DeleteAll(ok)
      PROVE  SweptIsClean'
  BY <1>3, SweptStays DEF DeleteAll, View
<1>4. ASSUME NEW days \in DaysChoices, SetRetentionDays(days)
      PROVE  SweptIsClean'
  BY <1>4 DEF SetRetentionDays, SweptIsClean, Zero
<1>5. ASSUME NEW ok \in BOOLEAN, ApplyRetention(ok)
      PROVE  SweptIsClean'
  <2>1. CASE UNCHANGED <<base, cache, lastRetentionSweep>>
    BY <1>5, <2>1, SweptStays DEF ApplyRetention, View
  <2>2. CASE \/ SweepSucceeds
             \/ \E m \in Outdated : SweepStopsAt(m)
             \/ SweepCannotList
    BY <1>5, <2>2, SweepStepStaysSwept DEF ApplyRetention
  <2> QED  BY <1>5, <2>1, <2>2 DEF ApplyRetention
<1>6. CASE Restart
  BY <1>6, NewManagedStorageTypes DEF Restart, SweptIsClean, Zero
<1>7. CASE StartupSweep
  BY <1>7, SweepStepStaysSwept DEF StartupSweep
<1>8. CASE Tick
  BY <1>8, SweptStays DEF Tick, View
<1>9. CASE UNCHANGED vars
  BY <1>9, SweptStays DEF vars, View
<1> QED  BY <1>1, <1>2, <1>3, <1>4, <1>5, <1>6, <1>7, <1>8, <1>9 DEF Next

(* A recorded sweep leaves nothing that is outdated under the period in    *)
(* force, whatever fails: postponing the next sweep by sweepInterval is    *)
(* safe across changes of the period, failed sweeps and restarts.          *)
THEOREM SweepsAreSound == Spec => []SweptIsClean
<1>1. Init => SweptIsClean
  BY DEF Init, SweptIsClean
<1> QED
  BY <1>1, InitTypes, NextTypes, NextStaysSwept, PTL DEF Spec
-----------------------------------------------------------------------------
(* Every step of the store is a step of the mailbox or changes nothing in  *)
(* it: what has left the listing never comes back.                         *)
LEMMA StepImplementsMailbox ==
  ASSUME CacheReliable, TypeOK, NothingHidden, [Next]_vars
  PROVE  [MB!Next]_(MB!vars)
<1> USE DEF TypeOK, storeVars, policyVars
<1>1. View \subseteq known
  BY DEF View
<1>2. ASSUME known' = known, View' \subseteq View
      PROVE  MB!Next
  <2>1. View' = View \ (View \ View')
    BY <1>2
  <2>2. known' \ View' = (known \ View) \cup (View \ View')
    BY <1>1, <1>2
  <2>3. MB!Discard(View \ View')
    BY <2>1, <2>2 DEF MB!Discard
  <2>4. View \ View' \in SUBSET Messages
    BY <1>1
  <2> QED  BY <2>3, <2>4 DEF MB!Next
<1>3. ASSUME NEW m \in Messages, NEW ok \in BOOLEAN, Store(m, ok), ok
      PROVE  MB!Next
  <2>1. m \notin known /\ known' = known \cup {m} /\ View' = View \cup {m}
    BY <1>3 DEF Store, View, CacheReliable
  <2>2. MB!Deliver({m})
    BY <2>1, <1>1 DEF MB!Deliver
  <2> QED  BY <2>2 DEF MB!Next
<1>4. CASE known' = known
  <2>1. View' \subseteq View
    BY <1>4, OnlyStoreAdds DEF NothingHidden
  <2> QED  BY <1>2, <1>4, <2>1
<1>5. CASE known' # known
  <2>1. PICK m \in Messages, ok \in BOOLEAN : Store(m, ok)
    BY <1>5 DEF Next, DeleteOne, DeleteAll, SetRetentionDays, ApplyRetention,
       Restart, StartupSweep, Tick, vars
  <2>2. ok
    BY <1>5, <2>1 DEF Store
  <2> QED  BY <1>3, <2>1, <2>2
<1> QED  BY <1>4, <1>5

(* ManagedStorage implements Mailbox if the cache's methods do not fail:   *)
(* no failure of the backend and no restart brings a message back that a   *)
(* listing no longer showed.                                               *)
THEOREM StorageImplementsMailbox ==
  ASSUME CacheReliable
  PROVE  Spec => NeverComesBack
<1>1. Init => MB!Init
  BY DEF Init, MB!Init, View
<1> QED
  BY <1>1, CacheReliable, InitTypes, NextTypes, InitHidesNothing,
     NextHidesNothing, StepImplementsMailbox, PTL
  DEF Spec, NeverComesBack, MB!Spec
-----------------------------------------------------------------------------
(* Each handler has a place, a request and what it has found so far.       *)
Shape ==
  /\ pc \in [Handlers -> {"idle", "sweep", "count", "list", "loop", "ok",
                         "error", "panicked"}]
  /\ kind \in [Handlers -> Kinds \cup {"none"}]
  /\ wanted \in [Handlers -> SUBSET Messages]
  /\ total \in [Handlers -> Nat]
  /\ todo \in [Handlers -> SUBSET Messages]
  /\ result \in [Handlers -> SUBSET Messages]
  /\ before \in [Handlers -> SUBSET Messages]
  /\ grew \in [Handlers -> BOOLEAN]
  /\ horizon \in [Handlers -> Int]

(* A handler that waits for a request has nothing in hand, and one that    *)
(* serves a request works on what it is about.                             *)
InScope(h) ==
  /\ todo[h] \cup result[h] \subseteq wanted[h]
  /\ before[h] \subseteq known
  /\ pc[h] = "idle" => todo[h] \cup result[h] = {}

(* What a purge reports it has removed from the base.                      *)
Removed(h) == kind[h] = "purge" => result[h] \subseteq known \ base

(* An existing-ids request has found or has still to look at what is live. *)
LiveInSight(h) ==
  kind[h] = "existing" =>
    /\ pc[h] \in {"loop", "ok"}
    /\ pc[h] = "loop" =>
         wanted[h] \cap before[h] \cap View \subseteq result[h] \cup todo[h]
    /\ pc[h] = "ok" => wanted[h] \cap before[h] \cap View \subseteq result[h]

HandlerInv(h) == InScope(h) /\ Removed(h) /\ LiveInSight(h)

ApiInv == TypeOK /\ Shape /\ \A h \in Handlers : HandlerInv(h)
-----------------------------------------------------------------------------
(* What the storage does while it serves.                                  *)
ServingStep ==
  \/ \E m \in Messages, ok \in BOOLEAN : Store(m, ok)
  \/ \E m \in Messages, ok \in BOOLEAN : DeleteOne(m, ok)
  \/ \E ok \in BOOLEAN : DeleteAll(ok)
  \/ \E days \in DaysChoices : SetRetentionDays(days)
  \/ \E ok \in BOOLEAN : ApplyRetention(ok)
  \/ StartupSweep
  \/ Tick
  \/ UNCHANGED vars

LEMMA StepOfStorage ==
  ASSUME [ApiNext]_allVars
  PROVE  ServingStep
<1>1. ASSUME NEW h \in Handlers, HandlerStep(h)
      PROVE  ServingStep
  <2>1. CASE SweepFirst(h)
    BY <2>1 DEF SweepFirst, ServingStep
  <2>2. CASE \E m \in Messages : PurgeOne(h, m)
    BY <2>2 DEF PurgeOne, ServingStep
  <2>3. CASE \E m \in Messages : CheckOne(h, m)
    BY <2>3 DEF CheckOne, ServingStep
  <2>4. CASE CountMessages(h) \/ ListMessages(h) \/ ListFails(h) \/ Answer(h)
    BY <2>4 DEF CountMessages, ListMessages, ListFails, Answer, ServingStep
  <2> QED  BY <1>1, <2>1, <2>2, <2>3, <2>4 DEF HandlerStep
<1>2. ASSUME NEW h \in Handlers, NEW k \in Kinds, NEW s \in Selections,
             Begin(h, k, s)
      PROVE  ServingStep
  BY <1>2 DEF Begin, ServingStep
<1>3. ASSUME NEW m \in Messages, NEW ok \in BOOLEAN, Receive(m, ok)
      PROVE  ServingStep
  BY <1>3 DEF Receive, ServingStep
<1>4. CASE OtherRequests \/ Background
  BY <1>4 DEF OtherRequests, Background, ServingStep
<1>5. CASE UNCHANGED allVars
  BY <1>5 DEF allVars, ServingStep
<1> QED  BY <1>1, <1>2, <1>3, <1>4, <1>5 DEF ApiNext

LEMMA StorageTypes ==
  ASSUME TypeOK, ServingStep
  PROVE  TypeOK'
BY NextTypes DEF ServingStep, Next

(* While the process lives nothing that was known comes back, whatever     *)
(* fails in the backend and in the cache.                                  *)
LEMMA OnlyNewMailAppears ==
  ASSUME TypeOK, ServingStep
  PROVE  /\ known \subseteq known'
         /\ base' \subseteq base \cup (known' \ known)
         /\ View' \subseteq View \cup (known' \ known)
<1> USE DEF View, storeVars, policyVars, TypeOK
<1>1. ASSUME NEW m \in Messages, NEW ok \in BOOLEAN, Store(m, ok)
      PROVE  /\ known \subseteq known'
             /\ base' \subseteq base \cup (known' \ known)
             /\ View' \subseteq View \cup (known' \ known)
  BY <1>1 DEF Store
<1>2. ASSUME base' \subseteq base, cache' \subseteq cache,
             UNCHANGED <<cacheEnabled, known>>
      PROVE  /\ known \subseteq known'
             /\ base' \subseteq base \cup (known' \ known)
             /\ View' \subseteq View \cup (known' \ known)
  BY <1>2
<1>3. ASSUME NEW m \in Messages, NEW ok \in BOOLEAN, DeleteOne(m, ok)
      PROVE  base' \subseteq base /\ cache' \subseteq cache
             /\ UNCHANGED <<cacheEnabled, known>>
  BY <1>3, CacheAfterShrinks DEF DeleteOne
<1>4. ASSUME NEW ok \in BOOLEAN, DeleteAll(ok)
      PROVE  base' \subseteq base /\ cache' \subseteq cache
             /\ UNCHANGED <<cacheEnabled, known>>
  BY <1>4 DEF DeleteAll
<1>5. ASSUME NEW ok \in BOOLEAN, ApplyRetention(ok)
      PROVE  base' \subseteq base /\ cache' \subseteq cache
             /\ UNCHANGED <<cacheEnabled, known>>
  BY <1>5, ApplyShrinks DEF ApplyRetention
<1>6. CASE StartupSweep
  <2>1. base' \subseteq base /\ cache' \subseteq cache
        /\ UNCHANGED <<cacheEnabled, known>>
    BY <1>6, SweepShrinks DEF StartupSweep
  <2> QED  BY <1>2, <2>1
<1>7. ASSUME NEW days \in DaysChoices, SetRetentionDays(days)
      PROVE  base' \subseteq base /\ cache' \subseteq cache
             /\ UNCHANGED <<cacheEnabled, known>>
  BY <1>7 DEF SetRetentionDays
<1>8. CASE Tick \/ UNCHANGED vars
  BY <1>2, <1>8 DEF Tick, vars
<1> QED
  BY <1>1, <1>2, <1>3, <1>4, <1>5, <1>6, <1>7, <1>8 DEF ServingStep
-----------------------------------------------------------------------------
(* A step of one handler is no step of another.                            *)
SameRequest(h) ==
  /\ pc'[h] = pc[h] /\ kind'[h] = kind[h] /\ wanted'[h] = wanted[h]
  /\ total'[h] = total[h] /\ todo'[h] = todo[h] /\ result'[h] = result[h]
  /\ before'[h] = before[h] /\ horizon'[h] = horizon[h]

LEMMA OthersWait ==
  ASSUME Shape, NEW g \in Handlers, NEW h \in Handlers, g # h,
         \/ HandlerStep(g)
         \/ \E k \in Kinds, s \in Selections : Begin(g, k, s)
  PROVE  SameRequest(h) /\ grew'[h] = grew[h]
<1> USE DEF Shape, SameRequest, requestVars
<1>1. ASSUME NEW k \in Kinds, NEW s \in Selections, Begin(g, k, s)
      PROVE  SameRequest(h) /\ grew'[h] = grew[h]
  BY <1>1 DEF Begin
<1>2. CASE SweepFirst(g)
  BY <1>2 DEF SweepFirst
<1>3. CASE CountMessages(g)
  BY <1>3 DEF CountMessages
<1>4. CASE ListMessages(g)
  BY <1>4 DEF ListMessages
<1>5. CASE ListFails(g)
  BY <1>5 DEF ListFails
<1>6. ASSUME NEW m \in Messages, PurgeOne(g, m)
      PROVE  SameRequest(h) /\ grew'[h] = grew[h]
  BY <1>6 DEF PurgeOne
<1>7. ASSUME NEW m \in Messages, CheckOne(g, m)
      PROVE  SameRequest(h) /\ grew'[h] = grew[h]
  BY <1>7 DEF CheckOne
<1>8. CASE Answer(g)
  BY <1>8 DEF Answer
<1> QED
  BY <1>1, <1>2, <1>3, <1>4, <1>5, <1>6, <1>7, <1>8 DEF HandlerStep
-----------------------------------------------------------------------------
(* Where the messages can be counted, every handler keeps its shape.       *)
FinitelyMany == IsFiniteSet(Messages)

LEMMA ListingCounted ==
  ASSUME FinitelyMany, TypeOK
  PROVE  IsFiniteSet(View) /\ Cardinality(View) \in Nat
<1>1. View \in SUBSET Messages
  BY DEF TypeOK, View
<1>2. IsFiniteSet(View)
  BY <1>1, FS_Subset DEF FinitelyMany
<1> QED  BY <1>2, FS_CardinalityType

LEMMA SweepKeepsShape ==
  ASSUME TypeOK, Shape, NEW h \in Handlers, SweepFirst(h)
  PROVE  Shape'
<1> DEFINE cut == retentionDays * Day
<1>1. cut \in Int /\ now \in Int /\ SweepInterval \in Int
  BY Cutoff, StorageAssumption DEF TypeOK
<1>2. PICK x \in Int : horizon' = [horizon EXCEPT ![h] = x]
  <2>1. PICK ok \in BOOLEAN :
          horizon' = [horizon EXCEPT ![h] =
                        IF ok THEN now - SweepInterval - cut ELSE Spared]
    BY DEF SweepFirst
  <2> HIDE DEF cut
  <2>2. (IF ok THEN now - SweepInterval - cut ELSE Spared) \in Int
    BY <1>1 DEF Spared
  <2> QED  BY <2>1, <2>2
<1>3. horizon' \in [Handlers -> Int]
  BY <1>2 DEF Shape
<1>4. pc' = [pc EXCEPT ![h] = "count"]
      /\ UNCHANGED <<kind, wanted, before, total, todo, result, grew>>
  BY DEF SweepFirst, requestVars
<1> QED  BY <1>3, <1>4 DEF Shape

LEMMA HandlerKeepsShape ==
  ASSUME FinitelyMany, TypeOK, Shape, NEW h \in Handlers, HandlerStep(h)
  PROVE  Shape'
<1>1. CASE SweepFirst(h)
  BY <1>1, SweepKeepsShape
<1>2. CASE CountMessages(h)
  BY <1>2, ListingCounted DEF CountMessages, Shape, requestVars
<1>3. CASE ListMessages(h)
  BY <1>3 DEF ListMessages, Shape, requestVars
<1>4. CASE ListFails(h)
  BY <1>4 DEF ListFails, Shape, requestVars
<1>5. ASSUME NEW m \in Messages, PurgeOne(h, m)
      PROVE  Shape'
  <2>1. UNCHANGED <<kind, wanted, before, total, grew, horizon>>
    BY <1>5 DEF PurgeOne, requestVars
  <2>2. CASE /\ result' = [result EXCEPT ![h] = @ \cup {m}]
             /\ todo' = [todo EXCEPT ![h] = @ \ {m}]
             /\ UNCHANGED pc
    BY <2>1, <2>2 DEF Shape
  <2>3. CASE /\ pc' = [pc EXCEPT ![h] = "error"]
             /\ UNCHANGED <<result, todo>>
    BY <2>1, <2>3 DEF Shape
  <2> QED  BY <1>5, <2>2, <2>3 DEF PurgeOne
<1>6. ASSUME NEW m \in Messages, CheckOne(h, m)
      PROVE  Shape'
  BY <1>6 DEF CheckOne, Shape, requestVars
<1>7. CASE Answer(h)
  BY <1>7 DEF Answer, Shape, requestVars
<1> QED
  BY <1>1, <1>2, <1>3, <1>4, <1>5, <1>6, <1>7 DEF HandlerStep

LEMMA NextKeepsShape ==
  ASSUME FinitelyMany, TypeOK, Shape, [ApiNext]_allVars
  PROVE  Shape'
<1>1. ASSUME NEW h \in Handlers, NEW k \in Kinds, NEW s \in Selections,
             Begin(h, k, s)
      PROVE  Shape'
  <2>1. FirstStep(k) \in {"sweep", "count", "loop"}
    BY ApiAssumption DEF FirstStep
  <2>2. s \in SUBSET Messages /\ View \in SUBSET Messages
    BY ApiAssumption DEF TypeOK, View
  <2> QED  BY <1>1, <2>1, <2>2 DEF Begin, Shape
<1>2. ASSUME NEW m \in Messages, NEW ok \in BOOLEAN, Receive(m, ok)
      PROVE  Shape'
  BY <1>2 DEF Receive, Shape, requestVars
<1>3. CASE OtherRequests \/ Background \/ UNCHANGED allVars
  <2>1. UNCHANGED apiVars
    BY <1>3 DEF OtherRequests, Background, allVars
  <2> QED  BY <2>1 DEF apiVars, requestVars, Shape
<1> QED  BY <1>1, <1>2, <1>3, HandlerKeepsShape DEF ApiNext
-----------------------------------------------------------------------------
(* What a handler knows survives the steps of all others.                  *)
LEMMA BystanderKeeps ==
  ASSUME TypeOK, Shape, ServingStep, NEW h \in Handlers, SameRequest(h),
         HandlerInv(h)
  PROVE  HandlerInv(h)'
<1> USE OnlyNewMailAppears DEF SameRequest, HandlerInv
<1>1. InScope(h)'
  BY DEF InScope
<1>2. Removed(h)'
  BY DEF Removed
<1>3. LiveInSight(h)'
  BY DEF LiveInSight, InScope
<1> QED  BY <1>1, <1>2, <1>3

LEMMA BeginKeeps ==
  ASSUME TypeOK, Shape, NEW h \in Handlers, NEW k \in Kinds,
         NEW s \in Selections, Begin(h, k, s), HandlerInv(h)
  PROVE  HandlerInv(h)'
<1> USE DEF Shape, HandlerInv, Begin
<1>1. View' = View /\ base' = base /\ known' = known
  BY DEF vars, View
<1>2. View \subseteq known
  BY DEF TypeOK, View
<1>3. result'[h] = {} /\ before'[h] = View /\ wanted'[h] = s
      /\ kind'[h] = k /\ pc'[h] = FirstStep(k)
      /\ todo'[h] = (IF k = "existing" THEN s ELSE {})
  BY DEF InScope
<1>4. FirstStep(k) # "idle" /\ (k = "existing" => FirstStep(k) = "loop")
  BY ApiAssumption DEF FirstStep
<1>5. InScope(h)'
  BY <1>1, <1>2, <1>3, <1>4 DEF InScope
<1>6. Removed(h)' /\ LiveInSight(h)'
  BY <1>1, <1>3, <1>4 DEF Removed, LiveInSight
<1> QED  BY <1>5, <1>6

LEMMA ListKeeps ==
  ASSUME TypeOK, Shape, NEW h \in Handlers, ListMessages(h), HandlerInv(h)
  PROVE  HandlerInv(h)'
<1> USE DEF Shape, HandlerInv
<1>1. View' = View /\ base' = base /\ known' = known
      /\ kind'[h] = kind[h] /\ wanted'[h] = wanted[h] /\ before'[h] = before[h]
  BY DEF ListMessages, vars, View, requestVars
<1>2. pc[h] = "list" /\ pc'[h] \in {"loop", "ok"}
  BY DEF ListMessages
<1>3. kind[h] # "existing"
  BY <1>2 DEF LiveInSight
<1>4. todo'[h] \subseteq wanted[h] /\ result'[h] \subseteq wanted[h]
  <2>1. PICK page \in Pages(total[h], View) :
          IF kind[h] = "purge"
          THEN /\ todo' = [todo EXCEPT ![h] = page \cap wanted[h]]
               /\ UNCHANGED result
          ELSE /\ result' = [result EXCEPT ![h] = page \cap wanted[h]]
               /\ UNCHANGED todo
    BY DEF ListMessages
  <2> QED  BY <2>1 DEF InScope
<1>5. kind[h] = "purge" => result'[h] = result[h]
  BY DEF ListMessages
<1>6. InScope(h)'
  BY <1>1, <1>2, <1>4 DEF InScope
<1>7. Removed(h)' /\ LiveInSight(h)'
  BY <1>1, <1>3, <1>5 DEF Removed, LiveInSight
<1> QED  BY <1>6, <1>7

LEMMA PurgeOneKeeps ==
  ASSUME TypeOK, Shape, NEW h \in Handlers, NEW m \in Messages,
         PurgeOne(h, m), HandlerInv(h)
  PROVE  HandlerInv(h)'
<1> USE DEF Shape, HandlerInv
<1>1. kind[h] = "purge" /\ kind'[h] = kind[h] /\ wanted'[h] = wanted[h]
      /\ before'[h] = before[h] /\ m \in todo[h] /\ known' = known
  BY DEF PurgeOne, DeleteOne, requestVars
<1>2. CASE /\ DeleteOne(m, TRUE)
           /\ result' = [result EXCEPT ![h] = @ \cup {m}]
           /\ todo' = [todo EXCEPT ![h] = @ \ {m}]
           /\ UNCHANGED pc
  <2>1. result'[h] = result[h] \cup {m} /\ todo'[h] = todo[h] \ {m}
        /\ pc'[h] = pc[h]
    BY <1>2
  <2>2. m \in known /\ base' = base \ {m}
    BY <1>2 DEF DeleteOne, TypeOK
  <2>3. InScope(h)'
    BY <1>1, <2>1, PurgeOne(h, m) DEF InScope, PurgeOne
  <2> QED  BY <1>1, <2>1, <2>2, <2>3 DEF Removed, LiveInSight
<1>3. CASE /\ DeleteOne(m, FALSE)
           /\ pc' = [pc EXCEPT ![h] = "error"]
           /\ UNCHANGED <<result, todo>>
  BY <1>1, <1>3 DEF DeleteOne, InScope, Removed, LiveInSight
<1> QED  BY <1>2, <1>3 DEF PurgeOne

LEMMA CheckOneKeeps ==
  ASSUME TypeOK, Shape, NEW h \in Handlers, NEW m \in Messages,
         CheckOne(h, m), HandlerInv(h)
  PROVE  HandlerInv(h)'
<1> USE DEF Shape, HandlerInv
<1>1. pc[h] = "loop" /\ pc'[h] = pc[h] /\ kind[h] = "existing"
      /\ kind'[h] = kind[h] /\ wanted'[h] = wanted[h]
      /\ before'[h] = before[h] /\ m \in todo[h] /\ todo'[h] = todo[h] \ {m}
      /\ known' = known /\ base' = base /\ View' = View
  BY DEF CheckOne, requestVars, vars, View
<1>2. result'[h] = (IF Load(m) THEN result[h] \cup {m} ELSE result[h])
  BY DEF CheckOne
<1>3. InScope(h)'
  BY <1>1, <1>2 DEF InScope
<1>4. ~Load(m) => m \notin View
  BY DEF Load
<1>5. LiveInSight(h)'
  BY <1>1, <1>2, <1>4 DEF LiveInSight
<1> QED  BY <1>1, <1>3, <1>5 DEF Removed

LEMMA HandlerKeeps ==
  ASSUME TypeOK, Shape, NEW h \in Handlers, HandlerStep(h), ServingStep,
         HandlerInv(h)
  PROVE  HandlerInv(h)'
<1> USE DEF Shape, HandlerInv, requestVars
<1>1. CASE SweepFirst(h) \/ CountMessages(h) \/ ListFails(h)
  <2>1. pc[h] \in {"sweep", "count", "list"}
        /\ pc'[h] \in {"count", "ok", "list", "panicked"}
        /\ UNCHANGED <<kind, wanted, before, todo, result>>
    BY <1>1 DEF SweepFirst, CountMessages, ListFails
  <2>2. kind[h] # "existing"
    BY <2>1 DEF LiveInSight
  <2> QED
    BY <2>1, <2>2, OnlyNewMailAppears DEF InScope, Removed, LiveInSight
<1>2. CASE Answer(h)
  BY <1>2 DEF Answer, vars, View, InScope, Removed, LiveInSight
<1> QED
  BY <1>1, <1>2, ListKeeps, PurgeOneKeeps, CheckOneKeeps DEF HandlerStep

LEMMA InitApiInv == ApiInit => ApiInv
<1> SUFFICES ASSUME ApiInit PROVE ApiInv
  OBVIOUS
<1>1. TypeOK
  BY InitTypes DEF ApiInit
<1>2. Shape
  BY DEF ApiInit, Shape
<1>3. \A h \in Handlers : HandlerInv(h)
  BY DEF ApiInit, HandlerInv, InScope, Removed, LiveInSight
<1> QED  BY <1>1, <1>2, <1>3 DEF ApiInv

LEMMA NextApiInv ==
  ASSUME FinitelyMany, ApiInv, [ApiNext]_allVars
  PROVE  ApiInv'
<1> USE DEF ApiInv
<1>1. ServingStep
  BY StepOfStorage
<1>2. TypeOK' /\ Shape'
  BY <1>1, StorageTypes, NextKeepsShape
<1> SUFFICES ASSUME NEW h \in Handlers PROVE HandlerInv(h)'
  BY <1>2
<1>3. CASE SameRequest(h)
  BY <1>1, <1>3, BystanderKeeps
<1>4. ASSUME NEW g \in Handlers, HandlerStep(g)
      PROVE  HandlerInv(h)'
  BY <1>1, <1>3, <1>4, OthersWait, HandlerKeeps
<1>5. ASSUME NEW g \in Handlers, NEW k \in Kinds, NEW s \in Selections,
             Begin(g, k, s)
      PROVE  HandlerInv(h)'
  <2>1. CASE g = h
    BY <1>5, <2>1, BeginKeeps
  <2>2. CASE g # h
    BY <1>3, <1>5, <2>2, OthersWait
  <2> QED  BY <2>1, <2>2
<1>6. ASSUME NEW m \in Messages, NEW ok \in BOOLEAN, Receive(m, ok)
      PROVE  SameRequest(h)
  BY <1>6 DEF Receive, SameRequest, requestVars
<1>7. CASE OtherRequests \/ Background \/ UNCHANGED allVars
  <2>1. UNCHANGED apiVars
    BY <1>7 DEF OtherRequests, Background, allVars
  <2> QED  BY <1>3, <2>1 DEF apiVars, requestVars, SameRequest
<1> QED  BY <1>3, <1>4, <1>5, <1>6, <1>7 DEF ApiNext

(* For any number of handlers and any finite set of messages, whatever     *)
(* fails: every variable keeps its type, and a request touches and reports *)
(* nothing but the messages it is about (v2.go:199-222, 262-314).          *)
THEOREM RequestsStayInScope ==
  ASSUME FinitelyMany
  PROVE  ApiSpec => []ApiTypeOK
<1>1. ApiInv => ApiTypeOK
  BY DEF ApiInv, Shape, HandlerInv, InScope, ApiTypeOK
<1> QED
  BY <1>1, FinitelyMany, InitApiInv, NextApiInv, PTL DEF ApiSpec

(* For any number of handlers, whatever fails in the backend or the cache: *)
(* a message that was there when existing-ids was asked and is still there *)
(* was reported (v2.go:301-314).                                           *)
THEOREM NoLiveMessageIsDenied ==
  ASSUME FinitelyMany
  PROVE  ApiSpec => []LiveIsReported
<1>1. ApiInv => LiveIsReported
  BY DEF ApiInv, HandlerInv, LiveInSight, LiveIsReported
<1> QED
  BY <1>1, FinitelyMany, InitApiInv, NextApiInv, PTL DEF ApiSpec
-----------------------------------------------------------------------------
(* A purge removes what it counts, so no other has counted it before.      *)
LEMMA NextCountsOnce ==
  ASSUME ApiInv, CountedOnce, [ApiNext]_allVars
  PROVE  CountedOnce'
<1> USE DEF ApiInv, Shape, HandlerInv, InScope
<1> SUFFICES ASSUME NEW f \in Handlers, NEW h \in Handlers, f # h,
                    kind'[f] = "purge", kind'[h] = "purge"
             PROVE  result'[f] \cap result'[h] = {}
  BY DEF CountedOnce
<1>1. CASE kind[f] = "purge" /\ kind[h] = "purge"
           /\ result'[f] = result[f] /\ result'[h] = result[h]
  BY <1>1 DEF CountedOnce
<1>2. CASE result'[f] = {} \/ result'[h] = {}
  BY <1>2
<1>3. ASSUME NEW g \in Handlers, NEW k \in Kinds, NEW s \in Selections,
             Begin(g, k, s)
      PROVE  result'[f] \cap result'[h] = {}
  <2>1. result' = result /\ pc[g] = "idle" /\ result[g] = {}
    BY <1>3 DEF Begin
  <2>2. CASE g = f \/ g = h
    BY <1>2, <2>1, <2>2
  <2>3. CASE g # f /\ g # h
    BY <1>1, <1>3, <2>1, <2>3, OthersWait DEF SameRequest
  <2> QED  BY <2>2, <2>3
<1>4. ASSUME NEW g \in Handlers, NEW m \in Messages, PurgeOne(g, m)
      PROVE  result'[f] \cap result'[h] = {}
  <2>1. UNCHANGED kind
    BY <1>4 DEF PurgeOne, requestVars
  <2>2. CASE UNCHANGED result
    BY <1>1, <2>1, <2>2
  <2>3. CASE DeleteOne(m, TRUE) /\ result' = [result EXCEPT ![g] = @ \cup {m}]
    <3>1. m \in base
      BY <2>3 DEF DeleteOne
    <3>2. m \notin result[f] /\ m \notin result[h]
      BY <2>1, <3>1 DEF Removed
    <3>3. result[f] \cap result[h] = {}
      BY <2>1 DEF CountedOnce
    <3> QED  BY <2>3, <3>2, <3>3
  <2> QED  BY <1>4, <2>2, <2>3 DEF PurgeOne
<1>5. ASSUME NEW g \in Handlers, HandlerStep(g)
      PROVE  result'[f] \cap result'[h] = {}
  <2>1. CASE \E m \in Messages : PurgeOne(g, m)
    BY <1>4, <2>1
  <2>2. UNCHANGED kind
    BY <1>5 DEF HandlerStep, SweepFirst, CountMessages, ListMessages,
                ListFails, PurgeOne, CheckOne, Answer, requestVars
  <2>3. CASE ListMessages(g) \/ \E m \in Messages : CheckOne(g, m)
    <3>1. kind[g] = "purge" => UNCHANGED result
      BY <2>3 DEF ListMessages, CheckOne
    <3>2. CASE kind[g] = "purge"
      BY <1>1, <2>2, <3>1, <3>2
    <3>3. CASE kind[g] # "purge"
      BY <1>1, <1>5, <2>2, <3>3, OthersWait DEF SameRequest
    <3> QED  BY <3>2, <3>3
  <2>4. CASE SweepFirst(g) \/ CountMessages(g) \/ ListFails(g) \/ Answer(g)
    <3>1. UNCHANGED result
      BY <2>4 DEF SweepFirst, CountMessages, ListFails, Answer
    <3> QED  BY <1>1, <2>2, <3>1
  <2> QED  BY <1>5, <2>1, <2>3, <2>4 DEF HandlerStep
<1>6. ASSUME UNCHANGED <<kind, result>>
      PROVE  result'[f] \cap result'[h] = {}
  BY <1>1, <1>6
<1>7. ASSUME NEW m \in Messages, NEW ok \in BOOLEAN, Receive(m, ok)
      PROVE  UNCHANGED <<kind, result>>
  BY <1>7 DEF Receive, requestVars
<1>8. CASE OtherRequests \/ Background \/ UNCHANGED allVars
  BY <1>6, <1>8 DEF OtherRequests, Background, allVars, apiVars, requestVars
<1> QED  BY <1>3, <1>5, <1>6, <1>7, <1>8 DEF ApiNext

(* No two purges of any number that race ever report the same message      *)
(* deleted, whatever fails (v2.go:270-279).                                *)
THEOREM NoMessageIsCountedTwice ==
  ASSUME FinitelyMany
  PROVE  ApiSpec => []CountedOnce
<1>1. ApiInit => CountedOnce
  BY DEF ApiInit, CountedOnce
<1> QED
  BY <1>1, FinitelyMany, InitApiInv, NextApiInv, NextCountsOnce,
     PTL DEF ApiSpec
-----------------------------------------------------------------------------
(* The condition under which a message deleted from the base leaves the    *)
(* listing: no more of the cache has to work than its DeleteOne.           *)
CacheDeletes == "deleteOne" \notin CacheFaults

(* While no mail arrives between the Count and the List, the limit of the  *)
(* List is enough for all there is, and a purge misses nothing.            *)
NothingEscapes(h) ==
  /\ (pc[h] = "list" /\ ~grew[h]) => Cardinality(View) <= total[h]
  /\ (kind[h] = "purge" /\ ~grew[h] /\ pc[h] = "loop") =>
       wanted[h] \cap before[h] \cap View \subseteq todo[h]
  /\ (kind[h] = "purge" /\ ~grew[h] /\ pc[h] = "ok") =>
       wanted[h] \cap before[h] \cap View = {}

LEMMA BystanderEscapesNothing ==
  ASSUME FinitelyMany, TypeOK, Shape, ServingStep, NEW h \in Handlers,
         SameRequest(h), InScope(h), NothingEscapes(h),
         grew[h] => grew'[h],
         known' = known \/ (pc[h] = "list" => grew'[h])
  PROVE  NothingEscapes(h)'
<1> USE DEF SameRequest, NothingEscapes
<1>1. known' = known => View' \subseteq View
  BY OnlyNewMailAppears
<1>2. known' = known => Cardinality(View') <= Cardinality(View)
  BY <1>1, ListingCounted, FS_Subset
<1>3. known' = known => Cardinality(View') \in Nat
  BY <1>1, ListingCounted, FS_Subset, FS_CardinalityType
<1>4. (pc'[h] = "list" /\ ~grew'[h]) => Cardinality(View') <= total'[h]
  BY <1>2, <1>3, ListingCounted DEF Shape
<1>5. before[h] \cap View' \subseteq View
  BY OnlyNewMailAppears DEF InScope
<1> QED  BY <1>4, <1>5

LEMMA PageHoldsAll ==
  ASSUME FinitelyMany, TypeOK, NEW limit \in Nat, Cardinality(View) <= limit,
         NEW page \in Pages(limit, View)
  PROVE  page = View
<1>1. page \in SUBSET View /\ Cardinality(page) = Cardinality(View)
  BY DEF Pages
<1> QED  BY <1>1, ListingCounted, FS_Subset

LEMMA HandlerEscapesNothing ==
  ASSUME CacheDeletes, FinitelyMany, ApiInv, NEW h \in Handlers,
         NothingEscapes(h), HandlerStep(h)
  PROVE  NothingEscapes(h)'
<1> USE DEF ApiInv, Shape, NothingEscapes, requestVars
<1>1. CASE SweepFirst(h) \/ ListFails(h)
  BY <1>1 DEF SweepFirst, ListFails
<1>2. CASE CountMessages(h)
  <2>1. View' = View
    BY <1>2 DEF CountMessages, vars, View
  <2>2. total'[h] = Cardinality(View)
    BY <1>2 DEF CountMessages
  <2>3. pc'[h] = (IF View = {} THEN "ok" ELSE "list")
    BY <1>2 DEF CountMessages
  <2>4. pc'[h] = "list" => Cardinality(View') <= total'[h]
    BY <2>1, <2>2, ListingCounted
  <2> QED  BY <2>1, <2>3, <2>4
<1>3. CASE ListMessages(h)
  <2>1. View' = View
        /\ UNCHANGED <<kind, wanted, before, grew>>
        /\ pc[h] = "list" /\ pc'[h] # "list"
    BY <1>3 DEF ListMessages, vars, View
  <2> SUFFICES ASSUME kind[h] = "purge", ~grew[h]
               PROVE  pc'[h] = "loop" /\ todo'[h] = View \cap wanted[h]
    BY <2>1
  <2>2. PICK page \in Pages(total[h], View) :
          /\ todo' = [todo EXCEPT ![h] = page \cap wanted[h]]
          /\ pc' = [pc EXCEPT ![h] = "loop"]
    BY <1>3 DEF ListMessages
  <2>3. page = View
    BY <2>1, PageHoldsAll
  <2> QED  BY <2>2, <2>3
<1>4. ASSUME NEW m \in Messages, PurgeOne(h, m)
      PROVE  NothingEscapes(h)'
  <2>1. UNCHANGED <<kind, wanted, before, grew>> /\ pc[h] = "loop"
    BY <1>4 DEF PurgeOne
  <2>2. CASE DeleteOne(m, TRUE) /\ todo' = [todo EXCEPT ![h] = @ \ {m}]
             /\ UNCHANGED pc
    <3>1. View' = View \ {m}
      BY <2>2 DEF DeleteOne, View, CacheAfter, CacheDeletes
    <3> QED  BY <2>1, <2>2, <3>1
  <2>3. CASE pc' = [pc EXCEPT ![h] = "error"]
    BY <2>1, <2>3
  <2> QED  BY <1>4, <2>2, <2>3 DEF PurgeOne
<1>5. ASSUME NEW m \in Messages, CheckOne(h, m)
      PROVE  NothingEscapes(h)'
  BY <1>5 DEF CheckOne
<1>6. CASE Answer(h)
  BY <1>6 DEF Answer, vars, View
<1> QED
  BY <1>1, <1>2, <1>3, <1>4, <1>5, <1>6 DEF HandlerStep

LEMMA NextEscapesNothing ==
  ASSUME CacheDeletes, FinitelyMany, ApiInv, [ApiNext]_allVars,
         NEW h \in Handlers, NothingEscapes(h)
  PROVE  NothingEscapes(h)'
<1> USE DEF ApiInv, HandlerInv
<1>1. CASE SameRequest(h) /\ grew'[h] = grew[h] /\ known' = known
  BY <1>1, StepOfStorage, BystanderEscapesNothing
<1>2. ASSUME NEW g \in Handlers, HandlerStep(g)
      PROVE  NothingEscapes(h)'
  <2>1. known' = known
    <3>1. ASSUME NEW m \in Messages, PurgeOne(g, m)
          PROVE  known' = known
      BY <3>1 DEF PurgeOne, DeleteOne
    <3>2. CASE SweepFirst(g)
      BY <3>2 DEF SweepFirst, ApplyRetention
    <3> QED
      BY <1>2, <3>1, <3>2 DEF HandlerStep, CountMessages, ListMessages,
         ListFails, CheckOne, Answer, vars
  <2> QED  BY <1>1, <1>2, <2>1, OthersWait, HandlerEscapesNothing
<1>3. ASSUME NEW g \in Handlers, NEW k \in Kinds, NEW s \in Selections,
             Begin(g, k, s)
      PROVE  NothingEscapes(h)'
  <2>1. known' = known
    BY <1>3 DEF Begin, vars
  <2>2. CASE g # h
    BY <1>1, <1>3, <2>1, <2>2, OthersWait
  <2>3. CASE g = h
    <3>1. FirstStep(k) \in {"sweep", "count", "loop"}
          /\ (FirstStep(k) = "loop" => k = "existing")
      BY ApiAssumption DEF FirstStep
    <3>2. pc'[h] = FirstStep(k) /\ kind'[h] = k
      BY <1>3, <2>3 DEF Begin, Shape
    <3> QED  BY <3>1, <3>2 DEF NothingEscapes
  <2> QED  BY <2>2, <2>3
<1>4. ASSUME NEW m \in Messages, NEW ok \in BOOLEAN, Receive(m, ok)
      PROVE  NothingEscapes(h)'
  <2>1. SameRequest(h)
    BY <1>4 DEF Receive, SameRequest, requestVars
  <2>2. grew'[h] = (grew[h] \/ (ok /\ pc[h] = "list"))
    BY <1>4 DEF Receive
  <2>3. ~ok => known' = known
    BY <1>4 DEF Receive, Store
  <2> QED  BY <2>1, <2>2, <2>3, StepOfStorage, BystanderEscapesNothing
<1>5. CASE OtherRequests \/ Background \/ UNCHANGED allVars
  <2>1. UNCHANGED apiVars
    BY <1>5 DEF OtherRequests, Background, allVars
  <2>2. known' = known
    BY <1>5 DEF OtherRequests, Background, allVars, DeleteOne, DeleteAll,
       SetRetentionDays, ApplyRetention, StartupSweep, Tick, vars
  <2> QED  BY <1>1, <2>1, <2>2 DEF apiVars, requestVars, SameRequest
<1> QED  BY <1>2, <1>3, <1>4, <1>5 DEF ApiNext

(* If the cache's DeleteOne does not fail, a purge that answered 200 left  *)
(* nothing of what it was asked to delete and what was there when it came, *)
(* unless mail arrived between its Count and its List: whatever number of  *)
(* other purges, deletes and sweeps ran meanwhile, and whichever calls to  *)
(* the backend failed (v2.go:262-283).                                     *)
THEOREM PurgesAreComplete ==
  ASSUME CacheDeletes, FinitelyMany
  PROVE  ApiSpec => []PurgeComplete
<1> DEFINE Inv == ApiInv /\ \A h \in Handlers : NothingEscapes(h)
<1>1. ApiInit => Inv
  <2>1. ApiInit => \A h \in Handlers : NothingEscapes(h)
    BY DEF ApiInit, NothingEscapes
  <2> QED  BY <2>1, InitApiInv
<1>2. Inv /\ [ApiNext]_allVars => Inv'
  BY CacheDeletes, FinitelyMany, NextApiInv, NextEscapesNothing
<1>3. Inv => PurgeComplete
  BY DEF NothingEscapes, PurgeComplete
<1> QED  BY <1>1, <1>2, <1>3, PTL DEF ApiSpec
-----------------------------------------------------------------------------
(* A sweep is postponed for some time, and one that is on record left      *)
(* nothing outdated in the listing.                                        *)
SweepsArePostponed == SweepInterval > 0

ListedIsClean ==
  lastRetentionSweep # Zero =>
    \A m \in View : created[m] >= lastRetentionSweep - retentionDays * Day

LEMMA SweepCleansListing ==
  ASSUME CacheDeletes, TypeOK, SweepSucceeds,
         UNCHANGED <<cacheEnabled, created, retentionDays>>
  PROVE  ListedIsClean'
<1> SUFFICES ASSUME NEW m \in View'
             PROVE  created[m] >= lastRetentionSweep' - retentionDays * Day
  BY DEF ListedIsClean
<1>1. m \in View /\ m \notin Outdated
  BY DEF SweepSucceeds, View, CacheAfter, CacheDeletes
<1>2. ~(created[m] < now - retentionDays * Day)
  BY <1>1 DEF Outdated, Expired
<1>3. m \in Messages /\ created[m] \in Int /\ now \in Int
  BY <1>1 DEF TypeOK, View
<1>4. lastRetentionSweep' = now
  BY DEF SweepSucceeds
<1> DEFINE cut == retentionDays * Day
<1>5. cut \in Int
  BY Cutoff
<1> HIDE DEF cut
<1>6. created[m] >= now - cut
  BY <1>2, <1>3, <1>5 DEF cut
<1> QED  BY <1>4, <1>6 DEF cut

LEMMA StoreKeepsListingClean ==
  ASSUME TypeOK, ListedIsClean,
         NEW m \in Messages, NEW ok \in BOOLEAN, Store(m, ok)
  PROVE  ListedIsClean'
<1>1. CASE ~ok
  BY <1>1 DEF Store, View, storeVars, policyVars, ListedIsClean, Zero
<1>2. CASE ok
  <2>1. UNCHANGED <<retentionDays, lastRetentionSweep, now>>
    BY DEF Store, policyVars
  <2> SUFFICES ASSUME lastRetentionSweep # Zero, NEW n \in View'
               PROVE  created'[n] >= lastRetentionSweep - retentionDays * Day
    BY <2>1 DEF ListedIsClean, Zero
  <2>2. CASE n = m
    <3>1. created'[n] = now
      BY <1>2, <2>2 DEF Store, TypeOK
    <3> DEFINE cut == retentionDays * Day
    <3>2. cut \in Nat
      BY Cutoff
    <3> HIDE DEF cut
    <3>3. now >= lastRetentionSweep - cut
      BY <3>2 DEF TypeOK
    <3> QED  BY <3>1, <3>3 DEF cut
  <2>3. CASE n # m
    <3>1. n \in View /\ created'[n] = created[n]
      BY <1>2, <2>3 DEF Store, View, storeVars, TypeOK
    <3> QED  BY <3>1 DEF ListedIsClean
  <2> QED  BY <2>2, <2>3
<1> QED  BY <1>1, <1>2

LEMMA ListingStaysClean ==
  ASSUME CacheDeletes, TypeOK, ListedIsClean, ServingStep
  PROVE  ListedIsClean'
<1>1. ASSUME View' \subseteq View,
             UNCHANGED <<created, retentionDays, lastRetentionSweep>>
      PROVE  ListedIsClean'
  BY <1>1 DEF ListedIsClean, Zero
<1>2. ASSUME NEW m \in Messages, NEW ok \in BOOLEAN, DeleteOne(m, ok)
      PROVE  ListedIsClean'
  BY <1>1, <1>2, CacheAfterShrinks DEF DeleteOne, View, policyVars
<1>3. ASSUME NEW ok \in BOOLEAN, DeleteAll(ok)
      PROVE  ListedIsClean'
  BY <1>1, <1>3 DEF DeleteAll, View, policyVars
<1>4. ASSUME NEW days \in DaysChoices, SetRetentionDays(days)
      PROVE  ListedIsClean'
  BY <1>4 DEF SetRetentionDays, ListedIsClean, Zero
<1>5. ASSUME \/ SweepSucceeds
             \/ \E m \in Outdated : SweepStopsAt(m)
             \/ SweepCannotList
             \/ UNCHANGED <<base, cache, lastRetentionSweep>>,
             UNCHANGED <<cacheEnabled, created, retentionDays>>
      PROVE  ListedIsClean'
  <2>1. CASE SweepSucceeds
    BY <1>5, <2>1, SweepCleansListing
  <2>2. CASE \/ (\E m \in Outdated : SweepStopsAt(m))
             \/ SweepCannotList
             \/ UNCHANGED <<base, cache, lastRetentionSweep>>
    <3>1. UNCHANGED lastRetentionSweep
      BY <2>2 DEF SweepStopsAt, SweepCannotList
    <3>2. View' \subseteq View
      BY <1>5, <2>2, SweepShrinks DEF View
    <3> QED  BY <1>1, <1>5, <3>1, <3>2
  <2> QED  BY <1>5, <2>1, <2>2
<1>6. ASSUME NEW ok \in BOOLEAN, ApplyRetention(ok)
      PROVE  ListedIsClean'
  BY <1>5, <1>6 DEF ApplyRetention
<1>7. CASE StartupSweep
  BY <1>5, <1>7 DEF StartupSweep
<1>8. CASE Tick \/ UNCHANGED vars
  BY <1>1, <1>8 DEF Tick, vars, View, storeVars, policyVars
<1> QED
  BY <1>2, <1>3, <1>4, <1>6, <1>7, <1>8, StoreKeepsListingClean
     DEF ServingStep

(* A message keeps its time, and new mail is received now.                 *)
LEMMA TimesStay ==
  ASSUME TypeOK, ServingStep
  PROVE  /\ now' \in Nat /\ now' >= now
         /\ \A m \in known : created'[m] = created[m]
         /\ \A m \in known' \ known : created'[m] = now
<1>1. ASSUME NEW m \in Messages, NEW ok \in BOOLEAN, Store(m, ok)
      PROVE  /\ now' = now
             /\ \A n \in known : created'[n] = created[n]
             /\ \A n \in known' \ known : created'[n] = now
  <2>1. CASE ~ok
    BY <1>1, <2>1 DEF Store
  <2>2. CASE ok
    <3>1. created' = [created EXCEPT ![m] = now] /\ known' = known \cup {m}
          /\ m \notin known /\ now' = now
      BY <1>1, <2>2 DEF Store
    <3>2. DOMAIN created = Messages /\ known \subseteq Messages
      BY DEF TypeOK
    <3> QED  BY <3>1, <3>2
  <2> QED  BY <2>1, <2>2
<1>2. CASE \E m \in Messages, ok \in BOOLEAN : Store(m, ok)
  BY <1>1, <1>2 DEF TypeOK
<1>3. CASE created' = created /\ known' = known /\ now' \in {now, now + 1}
  BY <1>3 DEF TypeOK
<1> QED
  BY <1>2, <1>3 DEF ServingStep, DeleteOne, DeleteAll, SetRetentionDays,
     ApplyRetention, StartupSweep, Tick, vars

(* From its sweep on a listing request finds nothing older than its        *)
(* horizon, and what it has found stays so.                                *)
FoundFresh(h) ==
  kind[h] = "messages" =>
    /\ pc[h] # "loop"
    /\ pc[h] \in {"sweep", "count", "list"} => result[h] = {}
    /\ pc[h] \in {"count", "list"} =>
         horizon[h] < now /\ \A m \in View : created[m] > horizon[h]
    /\ result[h] \subseteq known
    /\ \A m \in result[h] : created[m] > horizon[h]

FreshInv ==
  ApiInv /\ ListedIsClean /\ \A h \in Handlers : FoundFresh(h)

LEMMA BystanderStaysFresh ==
  ASSUME TypeOK, Shape, ServingStep, NEW h \in Handlers, SameRequest(h),
         FoundFresh(h)
  PROVE  FoundFresh(h)'
<1> USE DEF SameRequest, FoundFresh
<1>1. horizon[h] \in Int /\ now \in Nat
  BY DEF Shape, TypeOK
<1>2. horizon[h] < now => horizon[h] < now'
  BY <1>1, TimesStay
<1>3. View \subseteq known
  BY DEF TypeOK, View
<1>4. ASSUME kind[h] = "messages", pc[h] \in {"count", "list"},
             NEW m \in View'
      PROVE  created'[m] > horizon[h]
  <2>1. CASE m \in View
    BY <1>3, <1>4, <2>1, TimesStay
  <2>2. CASE m \in known' \ known
    BY <1>1, <1>4, <2>2, TimesStay
  <2> QED  BY <2>1, <2>2, OnlyNewMailAppears
<1>5. ASSUME kind[h] = "messages"
      PROVE  result[h] \subseteq known'
             /\ \A m \in result[h] : created'[m] > horizon[h]
  BY <1>5, TimesStay, OnlyNewMailAppears
<1> QED  BY <1>2, <1>4, <1>5

(* A request that swept, or that found the sweep done a short time ago.    *)
LEMMA SweepSetsHorizon ==
  ASSUME SweepsArePostponed, TypeOK, Shape, ListedIsClean',
         NEW h \in Handlers, SweepFirst(h)
  PROVE  horizon'[h] < now' /\ \A m \in View' : created'[m] > horizon'[h]
<1> DEFINE cut == retentionDays * Day
<1>1. cut \in Nat /\ now \in Nat /\ SweepInterval \in Nat \ {0}
  BY Cutoff, StorageAssumption DEF TypeOK, SweepsArePostponed
<1>2. PICK ok \in BOOLEAN :
        /\ ApplyRetention(ok)
        /\ horizon' = [horizon EXCEPT ![h] =
                         IF ok THEN now - SweepInterval - cut ELSE Spared]
  BY DEF SweepFirst
<1>3. now' = now /\ retentionDays' = retentionDays /\ created' = created
  BY <1>2 DEF ApplyRetention
<1>4. View' \subseteq Messages
  BY <1>2, ApplyShrinks DEF ApplyRetention, TypeOK, View
<1>5. \A m \in View' : created'[m] \in Nat
  BY <1>3, <1>4 DEF TypeOK
<1> HIDE DEF cut
<1>6. CASE ~ok
  <2>1. horizon'[h] = -1
    BY <1>2, <1>6 DEF Shape, Spared
  <2> QED  BY <1>1, <1>3, <1>5, <2>1
<1>7. CASE ok
  <2>1. horizon'[h] = now - SweepInterval - cut
    BY <1>2, <1>7 DEF Shape
  <2>2. /\ lastRetentionSweep' \in Nat
        /\ lastRetentionSweep' > now - SweepInterval
    <3>1. CASE SweepDue /\ SweepSucceeds
      BY <1>1, <3>1 DEF SweepSucceeds
    <3>2. CASE ~SweepDue /\ UNCHANGED lastRetentionSweep
      BY <1>1, <3>2 DEF SweepDue, TypeOK, Zero
    <3> QED  BY <1>2, <1>7, <3>1, <3>2 DEF ApplyRetention
  <2>3. \A m \in View' : created'[m] >= lastRetentionSweep' - cut
    <3>1. lastRetentionSweep' # Zero
      BY <2>2 DEF Zero
    <3> QED  BY <1>3, <3>1 DEF ListedIsClean, cut
  <2> QED  BY <1>1, <1>3, <1>5, <2>1, <2>2, <2>3
<1> QED  BY <1>6, <1>7

LEMMA HandlerStaysFresh ==
  ASSUME SweepsArePostponed, FreshInv, ListedIsClean',
         NEW h \in Handlers, HandlerStep(h)
  PROVE  FoundFresh(h)'
<1> USE DEF FreshInv, ApiInv, Shape, FoundFresh, requestVars
<1> SUFFICES ASSUME kind'[h] = "messages" PROVE FoundFresh(h)'
  OBVIOUS
<1>1. CASE SweepFirst(h)
  <2>1. pc[h] = "sweep" /\ pc'[h] = "count" /\ kind[h] = "messages"
        /\ result'[h] = result[h]
    BY <1>1 DEF SweepFirst
  <2>2. result'[h] = {}
    BY <2>1
  <2> QED  BY <1>1, <2>1, <2>2, SweepSetsHorizon
<1>2. CASE CountMessages(h)
  <2>1. UNCHANGED <<kind, result, horizon>> /\ pc[h] = "count"
        /\ pc'[h] = (IF View = {} THEN "ok" ELSE "list")
    BY <1>2 DEF CountMessages
  <2>2. now' = now /\ created' = created /\ View' = View /\ known' = known
    BY <1>2 DEF CountMessages, vars, View
  <2> QED  BY <2>1, <2>2
<1>3. CASE ListMessages(h)
  <2>1. UNCHANGED <<kind, horizon>> /\ pc[h] = "list"
    BY <1>3 DEF ListMessages
  <2>2. now' = now /\ created' = created /\ View' = View /\ known' = known
    BY <1>3 DEF ListMessages, vars, View
  <2>3. PICK page \in Pages(total[h], View) :
          /\ result' = [result EXCEPT ![h] = page \cap wanted[h]]
          /\ pc' = [pc EXCEPT ![h] = "ok"]
    BY <1>3, <2>1 DEF ListMessages
  <2>4. result'[h] \subseteq View /\ View \subseteq known
    BY <2>3 DEF Pages, TypeOK, View
  <2> QED  BY <2>1, <2>2, <2>3, <2>4
<1>4. CASE ListFails(h)
  <2>1. now' = now /\ created' = created /\ View' = View /\ known' = known
    BY <1>4 DEF ListFails, vars, View
  <2> QED  BY <1>4, <2>1 DEF ListFails
<1>5. ASSUME NEW m \in Messages, PurgeOne(h, m)
      PROVE  FoundFresh(h)'
  BY <1>5 DEF PurgeOne
<1>6. ASSUME NEW m \in Messages, CheckOne(h, m)
      PROVE  FoundFresh(h)'
  BY <1>6 DEF CheckOne
<1>7. CASE Answer(h)
  BY <1>7 DEF Answer
<1> QED
  BY <1>1, <1>2, <1>3, <1>4, <1>5, <1>6, <1>7 DEF HandlerStep

LEMMA NextStaysFresh ==
  ASSUME CacheDeletes, SweepsArePostponed, FinitelyMany, FreshInv,
         [ApiNext]_allVars
  PROVE  FreshInv'
<1> USE DEF FreshInv
<1>1. ServingStep
  BY StepOfStorage
<1>2. TypeOK /\ Shape
  BY DEF ApiInv
<1>3. ApiInv'
  BY NextApiInv
<1>4. ListedIsClean'
  BY <1>1, <1>2, ListingStaysClean
<1> SUFFICES ASSUME NEW h \in Handlers PROVE FoundFresh(h)'
  BY <1>3, <1>4
<1>5. CASE SameRequest(h)
  BY <1>1, <1>2, <1>5, BystanderStaysFresh
<1>6. ASSUME NEW g \in Handlers, HandlerStep(g)
      PROVE  FoundFresh(h)'
  BY <1>2, <1>3, <1>4, <1>5, <1>6, OthersWait, HandlerStaysFresh
<1>7. ASSUME NEW g \in Handlers, NEW k \in Kinds, NEW s \in Selections,
             Begin(g, k, s)
      PROVE  FoundFresh(h)'
  <2>1. CASE g # h
    BY <1>2, <1>5, <1>7, <2>1, OthersWait
  <2>2. CASE g = h
    <3>1. k = "messages" => FirstStep(k) = "sweep"
      BY ApiAssumption DEF FirstStep
    <3>2. pc'[h] = FirstStep(k) /\ kind'[h] = k
      BY <1>2, <1>7, <2>2 DEF Begin, Shape
    <3>3. result'[h] = {}
      BY <1>2, <1>7, <2>2 DEF Begin, ApiInv, HandlerInv, InScope
    <3> QED  BY <3>1, <3>2, <3>3 DEF FoundFresh
  <2> QED  BY <2>1, <2>2
<1>8. ASSUME NEW m \in Messages, NEW ok \in BOOLEAN, Receive(m, ok)
      PROVE  SameRequest(h)
  BY <1>8 DEF Receive, SameRequest, requestVars
<1>9. CASE OtherRequests \/ Background \/ UNCHANGED allVars
  <2>1. UNCHANGED apiVars
    BY <1>9 DEF OtherRequests, Background, allVars
  <2> QED  BY <1>5, <2>1 DEF apiVars, requestVars, SameRequest
<1> QED  BY <1>5, <1>6, <1>7, <1>8, <1>9 DEF ApiNext

(* If the cache's DeleteOne does not fail, a listing shows nothing that    *)
(* was outdated a sweep interval before its request swept, unless that     *)
(* sweep failed: whatever ran between its sweep, its Count and its List,   *)
(* and whichever calls to the backend failed (v2.go:199-203,               *)
(* managed_storage.go:143-192).                                            *)
THEOREM ListingsAreFresh ==
  ASSUME CacheDeletes, SweepsArePostponed, FinitelyMany
  PROVE  ApiSpec => []ListingFresh
<1>1. ApiInit => FreshInv
  <2>1. ApiInit => ListedIsClean
    BY DEF ApiInit, Init, ListedIsClean
  <2>2. ApiInit => \A h \in Handlers : FoundFresh(h)
    BY DEF ApiInit, FoundFresh
  <2> QED  BY <2>1, <2>2, InitApiInv DEF FreshInv
<1>2. FreshInv => ListingFresh
  BY DEF FreshInv, FoundFresh, ListingFresh
<1> QED
  BY <1>1, <1>2, CacheDeletes, SweepsArePostponed, FinitelyMany,
     NextStaysFresh, PTL DEF ApiSpec
-----------------------------------------------------------------------------
(* Whatever requests race, the storage sees one method at a time.          *)
LEMMA ApiStepsStorage ==
  ASSUME [ApiNext]_allVars
  PROVE  [Next]_vars
BY StepOfStorage DEF ServingStep, Next

(* The API uses the storage through its methods only: each step of any of  *)
(* the handlers that race is a step of the storage or none of its steps.   *)
(* So what holds of the storage for any order of calls holds for the       *)
(* requests (v2.go:191-320, managed_storage.go:46-192).                    *)
THEOREM ApiUsesStorage == ApiSpec => Init /\ [][Next]_vars
<1>1. ApiInit => Init
  BY DEF ApiInit
<1> QED  BY <1>1, ApiStepsStorage, PTL DEF ApiSpec

(* However requests interleave, and whatever fails in the backend: a       *)
(* listing shows every message the backend holds                           *)
(* (managed_storage.go:46-119, 194-217).                                   *)
THEOREM ApiHidesNothing ==
  ASSUME CacheReliable
  PROVE  ApiSpec => []NothingHidden
BY CacheReliable, InitTypes, NextTypes, InitHidesNothing, NextHidesNothing,
   ApiUsesStorage, PTL

(* A message that a request reported deleted is never listed or loaded     *)
(* again, whatever other requests are in the middle of                     *)
(* (managed_storage.go:88-114, v2.go:262-283).                             *)
THEOREM ApiDeletionIsFinal ==
  ASSUME CacheReliable
  PROVE  ApiSpec => []DeletedStaysDeleted
<1>1. Init => DeletedStaysDeleted
  BY DEF Init, DeletedStaysDeleted
<1> QED
  BY <1>1, CacheReliable, InitTypes, NextTypes, InitHidesNothing,
     NextHidesNothing, NextKeepsDeleted, ApiUsesStorage, PTL

(* Sweeps that handlers and the ticker start at any time leave nothing     *)
(* outdated behind when they are recorded (managed_storage.go:127-192,     *)
(* v2.go:199-203).                                                         *)
THEOREM ApiSweepsAreSound == ApiSpec => []SweptIsClean
<1>1. Init => SweptIsClean
  BY DEF Init, SweptIsClean
<1> QED
  BY <1>1, InitTypes, NextTypes, NextStaysSwept, ApiUsesStorage, PTL

(* The requests that race implement the abstract mailbox: what has left    *)
(* the listing comes back to none of them (managed_storage.go:46-119,      *)
(* 143-217).                                                               *)
THEOREM ApiImplementsMailbox ==
  ASSUME CacheReliable
  PROVE  ApiSpec => NeverComesBack
<1>1. Init => MB!Init
  BY DEF Init, MB!Init, View
<1> QED
  BY <1>1, CacheReliable, InitTypes, NextTypes, InitHidesNothing,
     NextHidesNothing, StepImplementsMailbox, ApiUsesStorage, PTL
  DEF NeverComesBack, MB!Spec
=============================================================================
