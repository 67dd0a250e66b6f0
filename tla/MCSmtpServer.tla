---------------------------- MODULE MCSmtpServer ---------------------------
(***************************************************************************)
(* One session with a user of a folder that is always listed, one of a     *)
(* folder that may be listed and one of none, under a policy that changes  *)
(* at any moment, with two Jims and two requests about them at a time.     *)
(***************************************************************************)
EXTENDS SmtpServer

CONSTANTS gateway, ops, rude, flagged

FolderOfUser ==
  [u \in {gateway, ops, NoUser} |->
     IF u = gateway THEN "Gateway" ELSE IF u = ops THEN "Ops" ELSE NoFolder]
AllFolders == {"Gateway", "Ops"}
SomeLists == {{"Gateway"}, {"Gateway", "Ops"}}
RefusedByJim == [j \in Jims |-> IF j = rude THEN {"rcpt"} ELSE {}]
=============================================================================
