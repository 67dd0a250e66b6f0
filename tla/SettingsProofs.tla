-------------------------- MODULE SettingsProofs ---------------------------
(***************************************************************************)
(* Proofs about Settings for any number of requests, any settings they ask *)
(* for, any servers, any failing sweeps and writes and any number of       *)
(* crashes.                                                                *)
(***************************************************************************)
EXTENDS Settings, OutgoingSmtpProofs

(* What the handlers have let through, and when the process is down. *)
RequestsChecked ==
  /\ \A h \in Handlers :
       pc[h] # "idle" => request[h] \in Requests /\ request[h].retention > 0
  /\ ~up => Quiet

(* Once every assignment is in a snapshot, the file is a normal form of    *)
(* the memory, or the handler that holds the lock is about to make it so.  *)
(* This is what FileIsMemory needs to be inductive: while a handler is     *)
(* between its snapshot and its write nobody else writes the file.         *)
SnapshotIsMemory ==
  up /\ ~unsaved => \/ lock = Free /\ file \in Sanitized(config)
                    \/ lock \in Handlers /\ snapshot[lock] \in Sanitized(config)

(* What a crash found saved is in the file. *)
KeptInFile ==
  ~up /\ kept # Keep => file \in Sanitized(kept) /\ kept \in Settings

Inv == TypeOK /\ RequestsChecked /\ SnapshotIsMemory /\ KeptInFile

(* The servers of a map in their normal form are such a map again, which   *)
(* the next normalisation leaves alone.                                    *)
LEMMA SanitizedServers ==
  ASSUME NEW map \in ServerMaps, NEW servers \in SanitizeMap(map)
  PROVE  servers \in ServerMaps /\ SanitizeMap(servers) = {servers}
<1>1. DOMAIN map \subseteq DOMAIN Trim /\ map \in [DOMAIN map -> Servers]
  BY DEF ServerMaps
<1>2. map \in [DOMAIN map -> Server]
  BY <1>1, SettingsAssumption
<1>3. NormalMap(servers)
  BY <1>1, <1>2, SanitizedIsNormal
<1>4. \A n \in DOMAIN servers : \E m \in DOMAIN map : servers[n] = Normalize(m, map[m])
  BY <1>1, <1>2, SanitizedIsNormal
<1>5. \A n \in DOMAIN servers : n \in DOMAIN Trim /\ servers[n] \in Servers
  <2> SUFFICES ASSUME NEW n \in DOMAIN servers
               PROVE  n \in DOMAIN Trim /\ servers[n] \in Servers
    OBVIOUS
  <2>1. servers[n] \in Server /\ servers[n].name = n
    BY <1>3 DEF NormalMap, Normal
  <2>2. n \in DOMAIN Trim
    BY <2>1 DEF Server
  <2>3. PICK m \in DOMAIN map : servers[n] = Normalize(m, map[m])
    BY <1>4
  <2>4. Normalize(m, map[m]) \in Servers \cup {Invalid}
    BY <1>1, SettingsAssumption
  <2> QED  BY <2>1, <2>2, <2>3, <2>4, OutgoingAssumption
<1>6. servers \in [DOMAIN servers -> Servers] /\ DOMAIN servers \in SUBSET DOMAIN Trim
  BY <1>3, <1>5 DEF NormalMap
<1> QED  BY <1>3, <1>6, NormalMapStays DEF ServerMaps

(* So are the servers of a list.                                           *)
LEMMA ListedServers ==
  ASSUME NEW list \in Seq(Servers)
  PROVE  MapFromList(list) \in ServerMaps
<1> DEFINE map == MapFromList(list)
<1>1. list \in Seq(Server) /\ \A i \in DOMAIN list : list[i] \in Servers
  BY SettingsAssumption
<1>2. NormalMap(map)
  BY <1>1, ListedIsNormal
<1>3. \A n \in DOMAIN map : \E i \in DOMAIN list : map[n] = Normalize("", list[i])
  BY <1>1, ListedIsNormal
<1> HIDE DEF map
<1>4. \A n \in DOMAIN map : n \in DOMAIN Trim /\ map[n] \in Servers
  <2> SUFFICES ASSUME NEW n \in DOMAIN map
               PROVE  n \in DOMAIN Trim /\ map[n] \in Servers
    OBVIOUS
  <2>1. map[n] \in Server /\ map[n].name = n
    BY <1>2 DEF NormalMap, Normal
  <2>2. n \in DOMAIN Trim
    BY <2>1 DEF Server
  <2>3. PICK i \in DOMAIN list : map[n] = Normalize("", list[i])
    BY <1>3
  <2>4. Normalize("", list[i]) \in Servers \cup {Invalid}
    BY <1>1, SettingsAssumption, OutgoingAssumption
  <2> QED  BY <2>1, <2>2, <2>3, <2>4, OutgoingAssumption
<1>5. map \in [DOMAIN map -> Servers] /\ DOMAIN map \in SUBSET DOMAIN Trim
  BY <1>2, <1>4 DEF NormalMap
<1> QED  BY <1>5 DEF ServerMaps, map

(* A map with a server a release saved is a map of servers. *)
LEMMA AddedServers ==
  ASSUME NEW map \in ServerMaps, NEW given \in Servers
  PROVE  AddServer(map, given) \in ServerMaps
<1>1. DOMAIN map \subseteq DOMAIN Trim /\ map \in [DOMAIN map -> Servers]
  BY DEF ServerMaps
<1>2. given.name \in DOMAIN Trim
  BY SettingsAssumption DEF Server
<1> DEFINE names == DOMAIN map \cup {given.name}
<1>3. AddServer(map, given) \in [names -> Servers] /\ names \in SUBSET DOMAIN Trim
  BY <1>1, <1>2 DEF AddServer
<1> QED  BY <1>3 DEF ServerMaps

(* The normal forms of settings are settings that stay as they are, and    *)
(* differ from them in the servers at most.                                *)
LEMMA SanitizedSettings ==
  ASSUME NEW s \in Settings, NEW t \in Sanitized(s)
  PROVE  /\ t \in Settings
         /\ Sanitized(t) = {t}
         /\ \A servers : [t EXCEPT !.servers = servers] = [s EXCEPT !.servers = servers]
<1>1. PICK servers \in SanitizeMap(s.servers) : t = [s EXCEPT !.servers = servers]
  BY DEF Sanitized
<1>2. servers \in ServerMaps /\ SanitizeMap(servers) = {servers}
  BY SanitizedServers DEF Settings
<1>3. t \in Settings /\ t.servers = servers
  BY <1>1, <1>2 DEF Settings
<1>4. [t EXCEPT !.servers = servers] = t
  BY <1>3 DEF Settings
<1>5. Sanitized(t) = {t}
  BY <1>2, <1>3, <1>4 DEF Sanitized
<1>6. \A m : [t EXCEPT !.servers = m] = [s EXCEPT !.servers = m]
  BY <1>1 DEF Settings
<1> QED  BY <1>3, <1>5, <1>6

(* What a start configures are settings in their normal form.              *)
LEMMA ConfiguredSettings ==
  ASSUME NEW f \in Settings \cup {NoFile, Torn}, NEW given \in ServersFiles,
         NEW s \in Configured(f, given)
  PROVE  s \in Settings /\ Sanitized(s) = {s}
<1> DEFINE Replaced(l) == IF given = Keep THEN {l}
                          ELSE Sanitized([l EXCEPT !.servers = given])
<1>1. PICK l \in LoadSettings(f) : \E r \in Replaced(l) : s \in Sanitized(r)
  BY DEF Configured
<1>2. PICK r \in Replaced(l) : s \in Sanitized(r)
  BY <1>1
<1>3. l \in Settings
  BY SettingsAssumption, SanitizedSettings DEF LoadSettings
<1>4. r \in Settings
  <2>1. CASE given = Keep
    BY <1>3, <2>1
  <2>2. CASE given # Keep
    <3>1. [l EXCEPT !.servers = given] \in Settings
      BY <1>3, <2>2, SettingsAssumption DEF Settings
    <3> QED  BY <2>2, <3>1, SanitizedSettings
  <2> QED  BY <2>1, <2>2
<1> QED  BY <1>2, <1>4, SanitizedSettings

LEMMA InitInv == Init => Inv
<1> SUFFICES ASSUME Init PROVE Inv
  OBVIOUS
<1>1. \A h \in Handlers : h # Free
  BY SettingsAssumption
<1>2. config \in Settings
  BY ConfiguredSettings DEF Init
<1>3. TypeOK
  <2>1. /\ pc = [h \in Handlers |-> "idle"] /\ lock = Free
        /\ \A h \in Handlers : pc[h] \in {"truncate", "write"} <=> lock = h
    BY <1>1 DEF Init
  <2>2. up \in BOOLEAN /\ unsaved \in BOOLEAN
    BY DEF Init
  <2>3. crashes \in 0 .. MaxCrashes
    <3>1. MaxCrashes \in Nat /\ crashes = 0
      BY SettingsAssumption DEF Init
    <3> QED  BY <3>1
  <2>4. /\ snapshot \in [Handlers -> Settings]
        /\ request \in [Handlers -> Requests \cup {Flags}]
    BY SettingsAssumption DEF Init
  <2>5. managed \in Nat \ {0}
    BY <1>2 DEF Init, Settings
  <2> QED  BY <1>2, <2>1, <2>2, <2>3, <2>4, <2>5 DEF Init, TypeOK
<1>4. RequestsChecked /\ SnapshotIsMemory /\ KeptInFile
  BY DEF Init, RequestsChecked, SnapshotIsMemory, KeptInFile
<1> QED  BY <1>3, <1>4 DEF Inv

LEMMA BeginPutInv ==
  ASSUME Inv, NEW h \in Handlers, NEW r \in Requests, BeginPut(h, r)
  PROVE  Inv'
<1>1. /\ pc' = [pc EXCEPT ![h] = pc'[h]] /\ pc'[h] \in {"idle", "retention"}
      /\ request' = [request EXCEPT ![h] = request'[h]]
      /\ request'[h] \in Requests \cup {Flags}
      /\ pc'[h] # "idle" => request'[h] \in Requests /\ request'[h].retention > 0
      /\ pc[h] = "idle" /\ up
      /\ UNCHANGED <<worldVars, config, managed, file, lock, snapshot, unsaved>>
  BY SettingsAssumption DEF BeginPut, Answer, Goto, Inv, TypeOK
<1>2. TypeOK'
  BY <1>1 DEF Inv, TypeOK, worldVars
<1>3. RequestsChecked'
  BY <1>1, <1>2 DEF Inv, TypeOK, RequestsChecked, worldVars, Quiet
<1>4. SnapshotIsMemory' /\ KeptInFile'
  BY <1>1 DEF Inv, SnapshotIsMemory, KeptInFile, worldVars
<1> QED  BY <1>2, <1>3, <1>4 DEF Inv

(* A step before the save: the lock, the snapshots and the file stay, and  *)
(* an assignment that changes a field leaves it unsaved.                   *)
LEMMA AssignmentInv ==
  ASSUME Inv, NEW h \in Handlers, up,
         pc[h] \in {"retention", "managed", "sweep", "storage", "policy",
                    "servers"},
         pc' = [pc EXCEPT ![h] = pc'[h]],
         pc'[h] \in {"idle", "managed", "sweep", "storage", "policy",
                     "servers", "save"},
         request' \in {request, [request EXCEPT ![h] = Flags]},
         pc'[h] # "idle" => request' = request,
         config' \in Settings,
         managed' \in Nat \ {0},
         unsaved' \in BOOLEAN,
         unsaved' \/ (config' = config /\ ~unsaved),
         UNCHANGED <<worldVars, file, lock, snapshot>>
  PROVE  Inv'
<1>1. TypeOK'
  BY SettingsAssumption DEF Inv, TypeOK, worldVars
<1>2. RequestsChecked'
  BY DEF Inv, TypeOK, RequestsChecked, worldVars, Quiet
<1>3. SnapshotIsMemory' /\ KeptInFile'
  BY DEF Inv, SnapshotIsMemory, KeptInFile, worldVars
<1> QED  BY <1>1, <1>2, <1>3 DEF Inv

LEMMA RequestTypes ==
  ASSUME Inv, NEW h \in Handlers, pc[h] # "idle"
  PROVE  /\ request[h].retention \in Nat \ {0}
         /\ request[h].policy \in {Keep} \cup Policies
         /\ request[h].servers = Keep \/ request[h].servers \in Seq(Servers)
<1>1. request[h] \in Requests /\ request[h].retention > 0
  BY DEF Inv, RequestsChecked
<1> QED  BY <1>1, SettingsAssumption

LEMMA SetConfigRetentionInv ==
  ASSUME Inv, up, NEW h \in Handlers, SetConfigRetention(h) PROVE Inv'
<1>1. config' \in Settings
  BY RequestTypes DEF SetConfigRetention, Inv, TypeOK, Settings
<1> QED  BY <1>1, AssignmentInv DEF SetConfigRetention, Goto, Inv, TypeOK

LEMMA SetManagedRetentionInv ==
  ASSUME Inv, up, NEW h \in Handlers, SetManagedRetention(h) PROVE Inv'
<1>1. managed' \in Nat \ {0}
  BY RequestTypes DEF SetManagedRetention
<1> QED  BY <1>1, AssignmentInv DEF SetManagedRetention, Goto, Inv, TypeOK

LEMMA SweepInv ==
  ASSUME Inv, up, NEW h \in Handlers, Sweep(h) PROVE Inv'
BY AssignmentInv DEF Sweep, Answer, Goto, Inv, TypeOK

LEMMA SetStorageInv ==
  ASSUME Inv, up, NEW h \in Handlers, SetStorage(h) PROVE Inv'
<1>1. /\ config' \in Settings
      /\ unsaved' \in BOOLEAN
      /\ unsaved' \/ (config' = config /\ ~unsaved)
  <2>1. config \in Settings /\ unsaved \in BOOLEAN
    BY DEF Inv, TypeOK
  <2>2. CASE UNCHANGED <<config, unsaved>>
    BY <2>1, <2>2
  <2>3. CASE /\ request[h].storage \in StorageTypes
             /\ config' = [config EXCEPT !.storage = request[h].storage]
             /\ unsaved' = (unsaved \/ config.storage # request[h].storage)
    <3> DEFINE storage == request[h].storage
    <3>1. storage \in StorageTypes /\ config' = [config EXCEPT !.storage = storage]
      BY <2>3
    <3> HIDE DEF storage
    <3>2. config' \in Settings
      BY <2>1, <3>1 DEF Settings
    <3>3. storage = config.storage => config' = config
      BY <2>1, <3>1 DEF Settings
    <3> QED  BY <2>1, <2>3, <3>2, <3>3 DEF storage
  <2> QED  BY <2>2, <2>3 DEF SetStorage
<1> QED  BY <1>1, AssignmentInv DEF SetStorage, Answer, Goto, Inv, TypeOK

LEMMA SetPolicyInv ==
  ASSUME Inv, up, NEW h \in Handlers, SetPolicy(h) PROVE Inv'
<1>1. config' \in Settings
  <2>1. config \in Settings
    BY DEF Inv, TypeOK
  <2>2. CASE request[h].policy = Keep
    BY <2>1, <2>2 DEF SetPolicy
  <2>3. CASE request[h].policy # Keep
    <3> DEFINE policy == request[h].policy
    <3>1. policy \in Policies /\ config' = [config EXCEPT !.policy = policy]
      BY <2>3, RequestTypes DEF SetPolicy
    <3> HIDE DEF policy
    <3> QED  BY <2>1, <3>1 DEF Settings
  <2> QED  BY <2>2, <2>3
<1> QED  BY <1>1, AssignmentInv DEF SetPolicy, Goto, Inv, TypeOK

LEMMA SetServersInv ==
  ASSUME Inv, up, NEW h \in Handlers, SetServers(h) PROVE Inv'
<1>1. config' \in Settings
  <2>1. config \in Settings
    BY DEF Inv, TypeOK
  <2>2. CASE request[h].servers = Keep
    BY <2>1, <2>2 DEF SetServers
  <2>3. CASE request[h].servers # Keep
    <3> DEFINE map == MapFromList(request[h].servers)
    <3>1. map \in ServerMaps
      BY <2>3, RequestTypes, ListedServers DEF SetServers
    <3>2. config' = [config EXCEPT !.servers = map]
      BY <2>3 DEF SetServers
    <3> HIDE DEF map
    <3> QED  BY <2>1, <3>1, <3>2 DEF Settings
  <2> QED  BY <2>2, <2>3
<1> QED  BY <1>1, AssignmentInv DEF SetServers, Goto, Inv, TypeOK

LEMMA LockAndSnapshotInv ==
  ASSUME Inv, up, NEW h \in Handlers, LockAndSnapshot(h) PROVE Inv'
<1>0. PICK s \in Sanitized(config) : snapshot' = [snapshot EXCEPT ![h] = s]
  BY DEF LockAndSnapshot
<1>1. TypeOK'
  <2>1. s \in Settings
    BY SanitizedSettings DEF Inv, TypeOK
  <2>2. snapshot' \in [Handlers -> Settings]
    BY <1>0, <2>1 DEF Inv, TypeOK
  <2> QED  BY <2>2, SettingsAssumption
           DEF LockAndSnapshot, Goto, Inv, TypeOK, worldVars
<1>2. RequestsChecked'
  BY DEF LockAndSnapshot, Goto, Inv, TypeOK, RequestsChecked, worldVars, Quiet
<1>3. SnapshotIsMemory' /\ KeptInFile'
  <2>1. snapshot'[h] \in Sanitized(config) /\ lock' = h /\ config' = config
    BY <1>0 DEF LockAndSnapshot, Inv, TypeOK
  <2>2. Sanitized(config)' = Sanitized(config)
    BY <2>1 DEF Sanitized
  <2>3. SnapshotIsMemory'
    BY <2>1, <2>2 DEF SnapshotIsMemory
  <2>4. KeptInFile'
    BY DEF LockAndSnapshot, Inv, KeptInFile, worldVars
  <2> QED  BY <2>3, <2>4
<1> QED  BY <1>1, <1>2, <1>3 DEF Inv

(* SaveSettings returns: with the file as the snapshot, or with unsaved    *)
(* set.                                                                    *)
LEMMA UnlockInv ==
  ASSUME Inv, up, NEW h \in Handlers, pc[h] \in {"truncate", "write"},
         Unlock(h),
         file' \in Settings \cup {NoFile, Torn},
         \/ file' = snapshot[h] /\ unsaved' = unsaved
         \/ unsaved' = TRUE,
         UNCHANGED <<worldVars, config, managed>>
  PROVE  Inv'
<1>1. lock = h /\ lock' = Free
  BY DEF Inv, TypeOK, Unlock
<1>2. /\ pc' = [pc EXCEPT ![h] = "idle"]
      /\ request' = [request EXCEPT ![h] = Flags]
      /\ snapshot' = [snapshot EXCEPT ![h] = Flags]
  BY DEF Unlock, Answer, Goto
<1>3. TypeOK'
  BY <1>1, <1>2, SettingsAssumption DEF Inv, TypeOK, worldVars
<1>4. RequestsChecked'
  BY <1>2 DEF Inv, TypeOK, RequestsChecked, worldVars, Quiet
<1>5. SnapshotIsMemory' /\ KeptInFile'
  BY <1>1, SettingsAssumption
     DEF Inv, SnapshotIsMemory, KeptInFile, worldVars
<1> QED  BY <1>3, <1>4, <1>5 DEF Inv

LEMMA TruncateInv ==
  ASSUME Inv, up, NEW h \in Handlers, Truncate(h) PROVE Inv'
<1>1. CASE Unlock(h)
  <2>1. pc'[h] = "idle"
    BY <1>1 DEF Unlock, Answer, Goto, Inv, TypeOK
  <2>2. unsaved' = TRUE /\ file' = file
    BY <2>1 DEF Truncate, Goto, Inv, TypeOK
  <2> QED  BY <1>1, <2>2, UnlockInv DEF Truncate, Inv, TypeOK
<1>2. CASE ~Unlock(h)
  <2>1. /\ lock = h /\ file' = Torn
        /\ pc' = [pc EXCEPT ![h] = "write"]
        /\ UNCHANGED <<worldVars, config, managed, lock, unsaved, request,
                       snapshot>>
    BY <1>2 DEF Truncate, Goto, Inv, TypeOK
  <2>2. TypeOK'
    BY <2>1, SettingsAssumption DEF Inv, TypeOK, worldVars, Truncate
  <2>3. RequestsChecked'
    BY <2>1 DEF Inv, TypeOK, RequestsChecked, worldVars, Quiet, Truncate
  <2>4. SnapshotIsMemory' /\ KeptInFile'
    BY <2>1, SettingsAssumption
       DEF Inv, SnapshotIsMemory, KeptInFile, worldVars
  <2> QED  BY <2>2, <2>3, <2>4 DEF Inv
<1> QED  BY <1>1, <1>2

LEMMA WriteInv ==
  ASSUME Inv, up, NEW h \in Handlers, Write(h) PROVE Inv'
BY UnlockInv DEF Write, Inv, TypeOK

LEMMA ReleaseSaveInv ==
  ASSUME Inv, NEW asked \in Releases, ReleaseSave(asked) PROVE Inv'
<1>1. config' \in Settings
  <2> DEFINE map == AddServer(config.servers, asked)
  <2>1. config \in Settings /\ config.servers \in ServerMaps /\ asked \in Servers
    BY SettingsAssumption DEF Inv, TypeOK, Settings
  <2>2. map \in ServerMaps
    BY <2>1, AddedServers
  <2>3. config' = [config EXCEPT !.servers = map]
    BY DEF ReleaseSave
  <2> HIDE DEF map
  <2> QED  BY <2>1, <2>2, <2>3 DEF Settings
<1> QED  BY <1>1 DEF ReleaseSave, Inv, TypeOK, RequestsChecked,
                     SnapshotIsMemory, KeptInFile, worldVars, Quiet

LEMMA CrashInv == Inv /\ Crash => Inv'
<1> SUFFICES ASSUME Inv, Crash PROVE Inv'
  OBVIOUS
<1>1. TypeOK'
  <2>1. /\ Flags.retention \in Nat \ {0}
        /\ \A h \in Handlers : h # Free
    BY SettingsAssumption DEF Settings
  <2>2. kept' \in Settings \cup {Keep} /\ crashes' \in 0 .. MaxCrashes
    BY SettingsAssumption DEF Crash, Inv, TypeOK
  <2> QED  BY <2>1, <2>2, SettingsAssumption DEF Crash, Inv, TypeOK
<1>2. RequestsChecked' /\ SnapshotIsMemory'
  BY DEF Crash, RequestsChecked, SnapshotIsMemory, Quiet
<1>3. KeptInFile'
  <2>1. Quiet => lock = Free
    BY DEF Quiet, Inv, TypeOK
  <2> QED  BY <2>1, SettingsAssumption
              DEF Crash, Inv, TypeOK, SnapshotIsMemory, KeptInFile
<1> QED  BY <1>1, <1>2, <1>3 DEF Inv

LEMMA StartInv ==
  ASSUME Inv, NEW given \in ServersFiles, Start(given) PROVE Inv'
<1>1. lock = Free
  BY DEF Start, Inv, TypeOK, RequestsChecked, Quiet
<1>2. config' \in Settings /\ Sanitized(config') = {config'}
  BY ConfiguredSettings DEF Start, Inv, TypeOK
<1>3. TypeOK'
  BY <1>1, <1>2 DEF Start, Inv, TypeOK, Settings
<1>4. RequestsChecked' /\ KeptInFile'
  BY DEF Start, Inv, RequestsChecked, KeptInFile, Quiet
<1>5. SnapshotIsMemory'
  <2>1. file' = file /\ lock' = Free /\ unsaved' = (file # config')
    BY <1>1 DEF Start
  <2>2. Sanitized(config)' = Sanitized(config')
    BY DEF Sanitized
  <2> QED  BY <1>2, <2>1, <2>2 DEF SnapshotIsMemory
<1> QED  BY <1>3, <1>4, <1>5 DEF Inv

LEMMA NextInv == Inv /\ [Next]_vars => Inv'
<1> SUFFICES ASSUME Inv, [Next]_vars PROVE Inv'
  OBVIOUS
<1>1. ASSUME NEW h \in Handlers, HandlerStep(h) PROVE Inv'
  <2>1. up
    BY <1>1 DEF HandlerStep
  <2> QED
    BY <1>1, <2>1, SetConfigRetentionInv, SetManagedRetentionInv, SweepInv,
       SetStorageInv, SetPolicyInv, SetServersInv, LockAndSnapshotInv,
       TruncateInv, WriteInv
       DEF HandlerStep
<1>2. CASE UNCHANGED vars
  BY <1>2 DEF vars, worldVars, Inv, TypeOK, RequestsChecked, SnapshotIsMemory,
              KeptInFile, Quiet
<1> QED  BY <1>1, <1>2, BeginPutInv, ReleaseSaveInv, CrashInv, StartInv
            DEF Next

LEMMA InvHolds == Spec => []Inv
BY InitInv, NextInv, PTL DEF Spec

(* Every variable keeps its type; no request puts a period of no days or   *)
(* an unknown storage in force or on disk, and the lock is held by the     *)
(* handler that saves (v2.go:726-748, config.go:201-202).                  *)
THEOREM TypeCorrect == Spec => []TypeOK
<1>1. Inv => TypeOK
  BY DEF Inv
<1> QED  BY <1>1, InvHolds, PTL

(* Once no request is under way the file holds what was assigned last, the *)
(* servers in their normal form, unless an error or a release left         *)
(* something unsaved (v1.go:284-292, config.go:200-216).                   *)
THEOREM SavesNeverOvertake == Spec => []FileIsMemory
<1>1. Inv => FileIsMemory
  BY DEF Inv, TypeOK, SnapshotIsMemory, FileIsMemory, Quiet
<1> QED  BY <1>1, InvHolds, PTL

(* Settings that were saved when the process died are the settings it has  *)
(* when it is started again, the servers in their normal form or replaced  *)
(* by those given then (config.go:94-95, 133-145, 169-216).                *)
THEOREM SettingsSurvive == Spec => SavedSettingsSurvive
<1>1. Inv => \A given \in ServersFiles :
               Start(given) /\ kept # Keep =>
                 config' \in Sanitized(IF given = Keep THEN kept
                                      ELSE [kept EXCEPT !.servers = given])
  <2> SUFFICES ASSUME Inv, NEW given \in ServersFiles, Start(given), kept # Keep
               PROVE  config' \in Sanitized(IF given = Keep THEN kept
                                           ELSE [kept EXCEPT !.servers = given])
    OBVIOUS
  <2>1. file \in Sanitized(kept) /\ kept \in Settings
    BY DEF Inv, KeptInFile, Start
  <2>2. /\ file \in Settings /\ Sanitized(file) = {file}
        /\ [file EXCEPT !.servers = given] = [kept EXCEPT !.servers = given]
    BY <2>1, SanitizedSettings
  <2>3. LoadSettings(file) = {file}
    BY <2>2, SettingsAssumption DEF LoadSettings
  <2>4. config' \in Configured(file, given)
    BY DEF Start
  <2>5. CASE given = Keep
    <3>1. config' \in Sanitized(file)
      BY <2>3, <2>4, <2>5 DEF Configured
    <3>2. config' = file
      BY <2>2, <3>1
    <3> QED  BY <2>1, <2>5, <3>2
  <2>6. CASE given # Keep
    <3> DEFINE replaced == [kept EXCEPT !.servers = given]
    <3>1. PICK r \in Sanitized(replaced) : config' \in Sanitized(r)
      BY <2>2, <2>3, <2>4, <2>6 DEF Configured
    <3>2. replaced \in Settings
      BY <2>1, <2>6, SettingsAssumption DEF Settings
    <3> HIDE DEF replaced
    <3>3. Sanitized(r) = {r}
      BY <3>1, <3>2, SanitizedSettings
    <3>4. config' \in Sanitized(replaced)
      BY <3>1, <3>3
    <3> QED  BY <2>6, <3>4 DEF replaced
  <2> QED  BY <2>5, <2>6
<1> QED  BY <1>1, InvHolds, PTL DEF SavedSettingsSurvive
=============================================================================
