---------------------------- MODULE MCSettings -----------------------------
(***************************************************************************)
(* Two settings requests at a time, chosen from a full one, one that       *)
(* leaves most fields out, one refused late and one refused at once; a     *)
(* start may bring servers of its own, none of which is valid.             *)
(*                                                                         *)
(* A request lists a server twice and one without a port.  Of the servers  *)
(* that releases save one has no port, and is dropped by the next save;    *)
(* the other is altered by it, and takes its name when trimmed from a      *)
(* server that is there.                                                   *)
(***************************************************************************)
EXTENDS Settings

Names == {"", "relay", " relay"}
Trimmed == [n \in Names |-> IF n = "" THEN "" ELSE "relay"]
Mechanisms == {"", "NONE", "plain", "PLAIN", "CRAMMD5", "xoauth2"}
Uppered == [m \in Mechanisms |-> IF m = "plain" THEN "PLAIN" ELSE m]

ServerNamed(name, port, mechanism) ==
  [name |-> name, host |-> "host", port |-> port, account |-> "user",
   mechanism |-> mechanism]

NoServers == [n \in {} |-> Invalid]

FlagValues ==
  [retention |-> 10, storage |-> "maildir", policy |-> "open",
   servers |-> NoServers]

Listed == <<ServerNamed(" relay", "465", "CRAMMD5"),
            ServerNamed("relay", "25", "plain"), ServerNamed("relay", "", "NONE")>>

SomeRequests ==
  {[retention |-> 1, storage |-> "memory", policy |-> "open", servers |-> Listed],
   [retention |-> 2, storage |-> Keep, policy |-> Keep, servers |-> Keep],
   [retention |-> 2, storage |-> "floppy", policy |-> "open", servers |-> <<>>],
   [retention |-> 0, storage |-> Keep, policy |-> Keep, servers |-> Keep]}

ReleasedServers ==
  {ServerNamed(" relay", "25", "xoauth2"), ServerNamed(" relay", "", "PLAIN")}

GivenServers == {Keep, [n \in {"relay"} |-> ServerNamed("", "", "PLAIN")]}

(* With what they become when they are normalised. *)
SomeServers ==
  LET asked == ToSet(Listed) \cup ReleasedServers \cup {ServerNamed("", "", "PLAIN")}
  IN  asked \cup Valid({Normalize(n, s) : n \in Names, s \in asked})

FolderPolicies == {"open", "forced"}
Types == {"memory", "maildir", "mongodb"}
=============================================================================
