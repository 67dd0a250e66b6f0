---------------------------- MODULE OutgoingSmtp ---------------------------
(***************************************************************************)
(* Outgoing mail servers: how the settings normalise them                  *)
(* (config/config.go), how POST /api/v2/outgoing-smtp/test tries one       *)
(* (api/v2.go), and how POST /api/v1/messages/{id}/release sends a message *)
(* through one (api/v1.go).                                                *)
(*                                                                         *)
(* A server is a name, a host, a port, an account (user name and password) *)
(* and a mechanism; "" is a text that is empty or blank.  A relay is the   *)
(* server at the other end: whether it offers AUTH, and the step it fails. *)
(***************************************************************************)
EXTENDS Integers, SequencesExt

CONSTANTS
  Trim,      \* strings.TrimSpace of the names
  Upper,     \* strings.ToUpper of the mechanisms
  Texts,     \* the hosts, ports and accounts
  Invalid    \* no server

Server == [name : DOMAIN Trim, host : Texts, port : Texts, account : Texts,
           mechanism : DOMAIN Upper]

ASSUME OutgoingAssumption ==
  /\ Invalid \notin Server /\ "" \in Texts
  /\ "" \in DOMAIN Trim /\ Trim[""] = "" /\ \A n \in DOMAIN Trim : Trim[n] \in DOMAIN Trim
  /\ \A n \in DOMAIN Trim : Trim[Trim[n]] = Trim[n]
  /\ Upper[""] = ""
  /\ \A m \in {"NONE", "PLAIN", "CRAMMD5"} : m \in DOMAIN Upper /\ Upper[m] = m
-----------------------------------------------------------------------------
(* A bug to catch: a mechanism is kept as it is spelt. *)
NormalizeAsSpelt(fallbackName, s) ==
  LET name == IF Trim[s.name] = "" THEN Trim[fallbackName] ELSE Trim[s.name]
  IN  IF "" \in {name, s.host, s.port} THEN Invalid
      ELSE [s EXCEPT !.name = name]

(* normalizeOutgoingSMTPServer *)
Normalize(fallbackName, s) ==
  LET name == IF Trim[s.name] = "" THEN Trim[fallbackName] ELSE Trim[s.name]
      known == Upper[s.mechanism] \in {"PLAIN", "CRAMMD5"}
  IN  IF "" \in {name, s.host, s.port} THEN Invalid
      ELSE [s EXCEPT !.name = name,
                     !.mechanism = IF known THEN Upper[@] ELSE "NONE",
                     !.account = IF known THEN @ ELSE ""]

Valid(servers) == {s \in servers : s # Invalid}

(* SanitizeOutgoingSMTPMap ranges over a map: of two names that are one    *)
(* when trimmed, either server may be the one that is kept.                *)
SanitizeMap(map) ==
  LET normal == Valid({Normalize(n, map[n]) : n \in DOMAIN map})
      names == {s.name : s \in normal}
  IN  {f \in [names -> normal] : \A n \in names : f[n].name = n}

(* OutgoingSMTPMapFromList: the last of a name is kept. *)
MapFromList(list) ==
  LET normal == [i \in DOMAIN list |-> Normalize("", list[i])]
      valid == {i \in DOMAIN list : normal[i] # Invalid}
  IN  [n \in {normal[i].name : i \in valid} |->
         normal[Max({i \in valid : normal[i].name = n})]]

(* normalizeOutgoingSMTPTestConfig *)
TestConfig(s) ==
  LET mechanism == IF s.mechanism = "" THEN "NONE" ELSE Upper[s.mechanism]
  IN  IF \/ "" \in {s.host, s.port}
         \/ mechanism \notin {"NONE", "PLAIN", "CRAMMD5"}
         \/ mechanism # "NONE" /\ s.account = ""
      THEN Invalid
      ELSE [s EXCEPT !.mechanism = mechanism,
                     !.account = IF mechanism = "NONE" THEN "" ELSE @]
-----------------------------------------------------------------------------
(* newOutgoingSMTPClient; STARTTLS is used where the relay offers it. *)
ConnectSteps(s) ==
  {"dial", "greeting", "hello"} \cup (IF s.port = "465" THEN {"tls"} ELSE {"starttls"})

(* authenticateOutgoingSMTPClient *)
Authenticates(s, relay) ==
  \/ s.mechanism = "NONE"
  \/ s.mechanism \in {"PLAIN", "CRAMMD5"} /\ relay.auth /\ relay.fails # "auth"

Opens(s, relay) == relay.fails \notin ConnectSteps(s) /\ Authenticates(s, relay)

(* runOutgoingSMTPConnectivityTest: true is an answer of 200. *)
TestSucceeds(s, relay) ==
  LET config == TestConfig(s)
  IN  /\ config # Invalid
      /\ Opens(config, relay)
      /\ relay.fails \notin {"noop", "quit"}

SendSteps == {"mail", "rcpt", "data", "write", "close"}

(* sendOutgoingSMTPMessage: the relay has the message once the writer is   *)
(* closed, and it is still an error if QUIT fails.                         *)
Taken(s, relay) == Opens(s, relay) /\ relay.fails \notin SendSteps

Send(s, relay) == Taken(s, relay) /\ relay.fails # "quit"

(* release_one with "Save": the server is added under the name it was      *)
(* asked with, as it is spelt, valid or not.                               *)
AddServer(map, asked) ==
  [n \in DOMAIN map \cup {asked.name} |-> IF n = asked.name THEN asked ELSE map[n]]

(* release_one, for a message that is there and a body that decodes: a     *)
(* server that is named is taken from the map.                             *)
Release(map, asked, save, relay) ==
  LET refused == save /\ asked.name \in DOMAIN map
      saved == IF save /\ ~refused THEN AddServer(map, asked) ELSE map
      unknown == asked.name # "" /\ asked.name \notin DOMAIN saved
      used == IF asked.name = "" THEN asked ELSE saved[asked.name]
  IN  IF refused \/ unknown
      THEN [code |-> 400, map |-> saved, taken |-> FALSE]
      ELSE [code |-> IF Send(used, relay) THEN 200 ELSE 500, map |-> saved,
            taken |-> Taken(used, relay)]
-----------------------------------------------------------------------------
(* A release through a server of the map. *)
ReleaseThrough(map, asked, n, relay) ==
  Release(map, [asked EXCEPT !.name = n], FALSE, relay)

(* A server the settings keep, from a file or from a request, is kept as   *)
(* it is by the next save and start, and works for a release if its test   *)
(* succeeds and the relay takes the message.  A server that was tested     *)
(* with a name, or that a release could use as it is spelt, still works    *)
(* once the settings have normalised it, unless they drop it.  The answer  *)
(* 200 means that the relay has the message and 400 that it has not, and   *)
(* no release changes a server that was saved (config.go:246-328,          *)
(* v2.go:482-672, v1.go:261-326).                                          *)
TestPredictsRelease(map, list, asked, save, relay) ==
  /\ \A kept \in SanitizeMap(map) \cup {MapFromList(list)} :
       /\ SanitizeMap(kept) = {kept}
       /\ \A n \in DOMAIN kept :
            TestSucceeds(kept[n], relay) /\ relay.fails \notin SendSteps
              => ReleaseThrough(kept, asked, n, relay).code = 200
  /\ \A tested \in ToSet(list) :
       /\ TestSucceeds(tested, relay) /\ relay.fails \notin SendSteps
       /\ Trim[tested.name] # ""
       => Normalize("", tested) # Invalid /\ Send(Normalize("", tested), relay)
  /\ Send(asked, relay) =>
       \/ Normalize(asked.name, asked) = Invalid
       \/ Send(Normalize(asked.name, asked), relay)
  /\ LET released == Release(map, asked, save, relay)
     IN  /\ released.code = 200 => released.taken
         /\ released.code = 400 => ~released.taken
         /\ \A n \in DOMAIN map : released.map[n] = map[n]
=============================================================================
