------------------------------ MODULE Settings -----------------------------
(***************************************************************************)
(* The settings: the fields of the shared Config that PUT /api/v2/settings *)
(* assigns one by one without a lock, the retention period ManagedStorage  *)
(* keeps for itself, the servers a release saves, the settings file that   *)
(* SaveSettings writes under settingsMu, and the start of the process that *)
(* reads it (api/v2.go, api/v1.go, config/config.go).                      *)
(*                                                                         *)
(* The servers are a map from names to servers (OutgoingSmtp).  Memory     *)
(* keeps one that a release saved as it is spelt; the file, and so the     *)
(* next start, has what SanitizeOutgoingSMTPMap makes of the map.          *)
(*                                                                         *)
(* DefaultFolders and ForceDefaultInboxOnly, assigned one after the other, *)
(* are one field here (policy); SmtpSession has them apart.  The folders   *)
(* are sanitised when they are assigned, so that a save leaves them alone. *)
(***************************************************************************)
EXTENDS OutgoingSmtp

CONSTANTS
  Handlers,      \* goroutines of net/http: the requests under way at a time
  Requests,      \* the settings the requests ask for
  Keep,          \* a field a request leaves out
  Flags,         \* the settings the process is started with
  ServersFiles,  \* what -outgoing-smtp says at a start: Keep if it is not given
  StorageTypes,  \* memory, maildir, mongodb
  Policies,      \* the folders listed, and whether they are forced
  Servers,       \* the outgoing servers there are
  Releases,      \* the servers that releases ask to save
  NoFile, Torn,  \* there is no settings file; it is cut off
  SweepMayFail, WriteMayFail,
  MaxCrashes     \* bounds the crashes

Free == "free"   \* nobody holds settingsMu

(* Servers by their names. *)
ServerMaps == UNION {[names -> Servers] : names \in SUBSET DOMAIN Trim}

Settings ==
  [retention : Nat \ {0}, storage : StorageTypes, policy : Policies,
   servers : ServerMaps]

ASSUME SettingsAssumption ==
  /\ SweepMayFail \in BOOLEAN
  /\ WriteMayFail \in BOOLEAN
  /\ MaxCrashes \in Nat
  /\ Free \notin Handlers
  /\ Flags \in Settings /\ DOMAIN Flags.servers = {}
  /\ \A given \in ServersFiles : given = Keep \/ given \in ServerMaps
  /\ Releases \subseteq Servers /\ Servers \subseteq Server
  /\ \A s \in Servers, n \in DOMAIN Trim : Normalize(n, s) \in Servers \cup {Invalid}
  /\ {NoFile, Torn, Keep} \cap Settings = {}
  /\ \A r \in Requests :
       /\ r.retention \in Int
       /\ r.policy \in {Keep} \cup Policies
       /\ r.servers = Keep \/ r.servers \in Seq(Servers)

VARIABLES
  up,       \* the process runs
  config,   \* the fields of Config that are settings
  managed,  \* ManagedStorage.retentionDays
  file,     \* the settings file
  lock,     \* settingsMu: the handler that holds it, or Free
  pc,
  request,  \* the settings a handler was asked to set
  snapshot, \* what SaveSettings read under the lock
  crashes,
  unsaved,  \* history: a field was assigned since the last snapshot was
            \* taken, or that snapshot was not written
  kept      \* history: what the settings were at the crash if all was saved

vars == <<up, config, managed, file, lock, pc, request, snapshot, crashes,
          unsaved, kept>>
worldVars == <<up, crashes, kept>>

Quiet == \A h \in Handlers : pc[h] = "idle"
-----------------------------------------------------------------------------
Goto(h, label) == pc' = [pc EXCEPT ![h] = label]

(* The handler answers 200, 400 or 500 and is done with its request. *)
Answer(h) ==
  /\ Goto(h, "idle")
  /\ request' = [request EXCEPT ![h] = Flags]

(* A bug to catch: a period of no days is let through. *)
BeginPutUnchecked(h, r) ==
  /\ up /\ pc[h] = "idle"
  /\ Goto(h, "retention")
  /\ request' = [request EXCEPT ![h] = r]
  /\ UNCHANGED <<worldVars, config, managed, file, lock, snapshot, unsaved>>

(* The body parses; a period of no days is refused. *)
BeginPut(h, r) ==
  /\ up /\ pc[h] = "idle"
  /\ \/ /\ r.retention <= 0
        /\ Answer(h)
     \/ /\ r.retention > 0
        /\ Goto(h, "retention")
        /\ request' = [request EXCEPT ![h] = r]
  /\ UNCHANGED <<worldVars, config, managed, file, lock, snapshot, unsaved>>

SetConfigRetention(h) ==
  /\ pc[h] = "retention"
  /\ config' = [config EXCEPT !.retention = request[h].retention]
  /\ unsaved' = TRUE
  /\ Goto(h, "managed")
  /\ UNCHANGED <<worldVars, managed, file, lock, request, snapshot>>

(* ManagedStorage.SetRetentionDays, under the lock of the storage. *)
SetManagedRetention(h) ==
  /\ pc[h] = "managed"
  /\ managed' = request[h].retention
  /\ Goto(h, "sweep")
  /\ UNCHANGED <<worldVars, config, file, lock, request, snapshot, unsaved>>

(* ManagedStorage.ApplyRetention: the request ends if the sweep fails. *)
Sweep(h) ==
  /\ pc[h] = "sweep"
  /\ \/ Goto(h, "storage") /\ UNCHANGED request
     \/ SweepMayFail /\ Answer(h)
  /\ UNCHANGED <<worldVars, config, managed, file, lock, snapshot, unsaved>>

SetStorage(h) ==
  /\ pc[h] = "storage"
  /\ \/ /\ request[h].storage = Keep
        /\ Goto(h, "policy")
        /\ UNCHANGED <<config, unsaved, request>>
     \/ /\ request[h].storage \notin StorageTypes \cup {Keep}
        /\ Answer(h)
        /\ UNCHANGED <<config, unsaved>>
     \/ /\ request[h].storage \in StorageTypes
        /\ config' = [config EXCEPT !.storage = request[h].storage]
        /\ unsaved' = (unsaved \/ config.storage # request[h].storage)
        /\ Goto(h, "policy")
        /\ UNCHANGED request
  /\ UNCHANGED <<worldVars, managed, file, lock, snapshot>>

SetPolicy(h) ==
  /\ pc[h] = "policy"
  /\ IF request[h].policy = Keep
     THEN UNCHANGED <<config, unsaved>>
     ELSE /\ config' = [config EXCEPT !.policy = request[h].policy]
          /\ unsaved' = TRUE
  /\ Goto(h, "servers")
  /\ UNCHANGED <<worldVars, managed, file, lock, request, snapshot>>

SetServers(h) ==
  /\ pc[h] = "servers"
  /\ IF request[h].servers = Keep
     THEN UNCHANGED <<config, unsaved>>
     ELSE /\ config' = [config EXCEPT !.servers = MapFromList(request[h].servers)]
          /\ unsaved' = TRUE
  /\ Goto(h, "save")
  /\ UNCHANGED <<worldVars, managed, file, lock, request, snapshot>>

(* persistedSettings: what a save may make of the settings.  The settings  *)
(* in memory stay as they are.                                             *)
Sanitized(s) ==
  {[s EXCEPT !.servers = servers] : servers \in SanitizeMap(s.servers)}

(* A bug to catch: the fields are read before the lock is taken. *)
SnapshotUnlocked(h) ==
  /\ pc[h] = "save"
  /\ \E s \in Sanitized(config) : snapshot' = [snapshot EXCEPT ![h] = s]
  /\ unsaved' = FALSE
  /\ Goto(h, "truncate")
  /\ UNCHANGED <<worldVars, config, managed, file, lock, request>>

(* SaveSettings: the lock, and the fields as they are now. *)
LockAndSnapshot(h) ==
  /\ pc[h] = "save"
  /\ lock = Free
  /\ lock' = h
  /\ \E s \in Sanitized(config) : snapshot' = [snapshot EXCEPT ![h] = s]
  /\ unsaved' = FALSE
  /\ Goto(h, "truncate")
  /\ UNCHANGED <<worldVars, config, managed, file, request>>

(* A bug to catch: the lock is not released when the file cannot be opened. *)
TruncateKeepingLock(h) ==
  /\ pc[h] = "truncate"
  /\ \/ /\ file' = Torn
        /\ Goto(h, "write")
        /\ UNCHANGED <<unsaved, request, snapshot>>
     \/ /\ WriteMayFail
        /\ Answer(h)
        /\ snapshot' = [snapshot EXCEPT ![h] = Flags]
        /\ unsaved' = TRUE
        /\ UNCHANGED file
  /\ UNCHANGED <<worldVars, config, managed, lock>>

(* SaveSettings returns. *)
Unlock(h) ==
  /\ Answer(h)
  /\ snapshot' = [snapshot EXCEPT ![h] = Flags]
  /\ lock' = Free

(* ioutil.WriteFile opens the file, which empties it ... *)
Truncate(h) ==
  /\ pc[h] = "truncate"
  /\ \/ /\ file' = Torn
        /\ Goto(h, "write")
        /\ UNCHANGED <<lock, unsaved, request, snapshot>>
     \/ /\ WriteMayFail
        /\ Unlock(h)
        /\ unsaved' = TRUE
        /\ UNCHANGED file
  /\ UNCHANGED <<worldVars, config, managed>>

(* ... and then writes it. *)
Write(h) ==
  /\ pc[h] = "write"
  /\ \/ /\ file' = snapshot[h]
        /\ Unlock(h)
        /\ UNCHANGED unsaved
     \/ /\ WriteMayFail
        /\ Unlock(h)
        /\ unsaved' = TRUE
        /\ UNCHANGED file
  /\ UNCHANGED <<worldVars, config, managed>>

HandlerStep(h) ==
  /\ up
  /\ \/ SetConfigRetention(h) \/ SetManagedRetention(h) \/ Sweep(h)
     \/ SetStorage(h) \/ SetPolicy(h) \/ SetServers(h)
     \/ LockAndSnapshot(h) \/ Truncate(h) \/ Write(h)

(* release_one with "Save": unless its name is taken, the server is added  *)
(* to the map in memory as it is spelt, and nothing is saved.              *)
ReleaseSave(asked) ==
  /\ up
  /\ asked.name \notin DOMAIN config.servers
  /\ config' = [config EXCEPT !.servers = AddServer(@, asked)]
  /\ unsaved' = TRUE
  /\ UNCHANGED <<worldVars, managed, file, lock, pc, request, snapshot>>
-----------------------------------------------------------------------------
(* The process dies, and its memory with it; a write of the file may be    *)
(* cut off.                                                                *)
Crash ==
  /\ up
  /\ crashes < MaxCrashes
  /\ up' = FALSE
  /\ crashes' = crashes + 1
  /\ kept' = IF Quiet /\ ~unsaved THEN config ELSE Keep
  /\ pc' = [h \in Handlers |-> "idle"]
  /\ request' = [h \in Handlers |-> Flags]
  /\ snapshot' = [h \in Handlers |-> Flags]
  /\ lock' = Free
  /\ config' = Flags
  /\ managed' = Flags.retention
  /\ UNCHANGED <<file, unsaved>>

(* A bug to catch: the servers in the file are not read back. *)
LoadSettingsForgetting(f) ==
  IF f \in {NoFile, Torn} THEN {Flags}
  ELSE {[f EXCEPT !.servers = Flags.servers]}

(* loadSettings: a file that is missing or does not parse leaves the flags. *)
LoadSettings(f) == IF f \in {NoFile, Torn} THEN {Flags} ELSE Sanitized(f)

(* Configure: a file of servers on the command line replaces the servers   *)
(* the settings file holds, and whatever there is is sanitised once more.  *)
Configured(f, given) ==
  LET Replaced(s) == IF given = Keep THEN {s}
                     ELSE Sanitized([s EXCEPT !.servers = given])
  IN  UNION {Sanitized(s) : s \in UNION {Replaced(l) : l \in LoadSettings(f)}}

Start(given) ==
  /\ ~up
  /\ up' = TRUE
  /\ config' \in Configured(file, given)
  /\ managed' = config'.retention
  /\ unsaved' = (file # config')
  /\ kept' = Keep
  /\ UNCHANGED <<file, lock, pc, request, snapshot, crashes>>

Init ==
  /\ up = TRUE
  /\ config \in UNION {Configured(NoFile, given) : given \in ServersFiles}
  /\ managed = config.retention
  /\ file = NoFile
  /\ lock = Free
  /\ pc = [h \in Handlers |-> "idle"]
  /\ request = [h \in Handlers |-> Flags]
  /\ snapshot = [h \in Handlers |-> Flags]
  /\ crashes = 0
  /\ unsaved = TRUE
  /\ kept = Keep

Next ==
  \/ \E h \in Handlers, r \in Requests : BeginPut(h, r)
  \/ \E h \in Handlers : HandlerStep(h)
  \/ \E asked \in Releases : ReleaseSave(asked)
  \/ Crash
  \/ \E given \in ServersFiles : Start(given)

(* A goroutine that can run does, and sync.RWMutex hands the lock to those *)
(* who wait in turn (SF).                                                  *)
Spec ==
  /\ Init
  /\ [][Next]_vars
  /\ \A h \in Handlers : SF_vars(HandlerStep(h))
-----------------------------------------------------------------------------
(* Types, and what the types say of the code: no request puts a period of   *)
(* no days or an unknown storage in force or on disk (v2.go:726-730,       *)
(* 744-748), and settingsMu is held exactly by the handler that saves      *)
(* (config.go:201-202).                                                    *)
TypeOK ==
  /\ up \in BOOLEAN /\ unsaved \in BOOLEAN
  /\ crashes \in 0 .. MaxCrashes
  /\ config \in Settings
  /\ managed \in Nat \ {0}
  /\ file \in Settings \cup {NoFile, Torn}
  /\ kept \in Settings \cup {Keep}
  /\ snapshot \in [Handlers -> Settings]
  /\ request \in [Handlers -> Requests \cup {Flags}]
  /\ pc \in [Handlers -> {"idle", "retention", "managed", "sweep", "storage",
                         "policy", "servers", "save", "truncate", "write"}]
  /\ lock \in Handlers \cup {Free}
  /\ \A h \in Handlers : pc[h] \in {"truncate", "write"} <=> lock = h

(* Once no request is under way, what was assigned last is what the file   *)
(* says, unless an error or a release left something unsaved: two saves    *)
(* never overtake each other.  Of the servers the file has the normal      *)
(* form: one that a release left without a name, host or port is missing,  *)
(* and of two whose names are one when trimmed either is there             *)
(* (v2.go:732-767, v1.go:284-292, config.go:200-216).                      *)
FileIsMemory == (up /\ Quiet /\ ~unsaved) => file \in Sanitized(config)

(* Settings that were saved when the process died are the settings it has  *)
(* when it is started again, the servers in their normal form; a file of   *)
(* servers that is given then replaces the servers and nothing else        *)
(* (config.go:94-95, 133-145, 169-216).                                    *)
SavedSettingsSurvive ==
  [][\A given \in ServersFiles :
       Start(given) /\ kept # Keep =>
         config' \in Sanitized(IF given = Keep THEN kept
                              ELSE [kept EXCEPT !.servers = given])]_vars

(* Every settings request is answered, whatever it waits for, or the       *)
(* process dies (v2.go:711-781, config.go:201-202).                        *)
PutsAnswered ==
  \A h \in Handlers : pc[h] = "retention" ~> pc[h] = "idle"

(* The retention period the storage applies is the one the settings file   *)
(* holds, once no request is under way and all was saved: the file is the  *)
(* "Settings JSON path (retention and server behavior)" (config.go:163).   *)
RetentionInForceIsSaved ==
  (up /\ Quiet /\ ~unsaved) => file.retention = managed
=============================================================================
