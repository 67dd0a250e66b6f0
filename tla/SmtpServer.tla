----------------------------- MODULE SmtpServer ----------------------------
(***************************************************************************)
(* The SMTP server as a whole: the listener (smtp/smtp.go) starts sessions *)
(* (SmtpSession) and asks the chaos monkey (monkey/jim.go) that            *)
(* /api/v2/jim invites, changes and dismisses meanwhile (api/v2.go).       *)
(*                                                                         *)
(* Config.Monkey is the monkey at work or none; config.Jim is the one to   *)
(* invite.  Both are read and written without a lock, and the listener     *)
(* reads Config.Monkey three times for one connection.  A Jim is a model   *)
(* value: his chances are the sets Refuses and Picky.  The speed of his    *)
(* links is left out, and so is GET /api/v2/jim, which changes nothing.    *)
(***************************************************************************)
EXTENDS SmtpSession

CONSTANTS
  Jims,
  NoJim,      \* Config.Monkey is nil
  Flagged,    \* the Jim of the command line
  Refuses,    \* the commands each Jim always refuses: his chance is 1
  Picky,      \* the Jims whose AcceptChance is below 1
  Callers,    \* requests to /api/v2/jim under way at a time
  NoConn,     \* the listener waits in ln.Accept
  MaxCalls    \* bounds these requests

Refusable == {"auth", "mail", "rcpt"}
Labels == {"idle", "invite", "decode", "dismiss"}

ASSUME ServerAssumption ==
  /\ NoJim \notin Jims
  /\ Flagged \in Jims
  /\ Refuses \in [Jims -> SUBSET Refusable]
  /\ Picky \subseteq Jims
  /\ Jims \cap Labels = {}
  /\ NoConn \notin Sessions
  /\ MaxCalls \in Nat

VARIABLES
  jim,       \* config.Jim
  monkey,    \* Config.Monkey
  call,      \* where a request to /api/v2/jim is; a Jim is about to be used
  calls,     \* how many of them were made
  conn,      \* the connection the listener holds
  tested,    \* it found a monkey: it is about to ask him
  monkeyOf,  \* Session.monkey
  dead,      \* a nil dereference has ended the process
  calm,      \* history: Jim was dismissed, or never invited, with no request
             \* under way that could bring him back, and nobody invited him
  hurried    \* history: Jim was dismissed since the listener's last test

jimVars == <<jim, monkey, call, calls, calm>>
listenVars == <<conn, tested, monkeyOf, dead>>
serverVars == <<vars, jimVars, listenVars, hurried>>
-----------------------------------------------------------------------------
Inviting(c) == call[c] \in {"invite", "decode"} \cup Jims

(* A new request finds Jim away (createJim) or at work (updateJim,         *)
(* deleteJim); otherwise it is answered 400 or 404 and changes nothing.    *)
CreateJim(c) ==
  /\ call[c] = "idle" /\ calls < MaxCalls
  /\ monkey = NoJim
  /\ call' = [call EXCEPT ![c] = "invite"]
  /\ calls' = calls + 1
  /\ calm' = FALSE
  /\ UNCHANGED <<jim, monkey, hurried>>

(* A bug to catch: a Jim who is away can be changed. *)
UpdateJimUntested(c) ==
  /\ call[c] = "idle" /\ calls < MaxCalls
  /\ call' = [call EXCEPT ![c] = "decode"]
  /\ calls' = calls + 1
  /\ UNCHANGED <<jim, monkey, calm, hurried>>

UpdateJim(c) ==
  /\ call[c] = "idle" /\ calls < MaxCalls
  /\ monkey # NoJim
  /\ call' = [call EXCEPT ![c] = "decode"]
  /\ calls' = calls + 1
  /\ UNCHANGED <<jim, monkey, calm, hurried>>

DeleteJim(c) ==
  /\ call[c] = "idle" /\ calls < MaxCalls
  /\ monkey # NoJim
  /\ call' = [call EXCEPT ![c] = "dismiss"]
  /\ calls' = calls + 1
  /\ UNCHANGED <<jim, monkey, calm, hurried>>

Invite(c) ==
  /\ call[c] = "invite"
  /\ monkey' = jim
  /\ call' = [call EXCEPT ![c] = "decode"]
  /\ UNCHANGED <<jim, calls, calm, hurried>>

(* newJimFromBody: a body that does not decode leaves the Jim there is;    *)
(* else he is replaced first in config.Jim ...                             *)
Decode(c) ==
  /\ call[c] = "decode"
  /\ \/ /\ call' = [call EXCEPT ![c] = "idle"]
        /\ UNCHANGED jim
     \/ \E j \in Jims :
          /\ jim' = j
          /\ call' = [call EXCEPT ![c] = j]
  /\ UNCHANGED <<monkey, calls, calm, hurried>>

(* ... and then in Config.Monkey, though he may have been dismissed. *)
Replace(c) ==
  /\ call[c] \in Jims
  /\ monkey' = call[c]
  /\ call' = [call EXCEPT ![c] = "idle"]
  /\ UNCHANGED <<jim, calls, calm, hurried>>

Dismiss(c) ==
  /\ call[c] = "dismiss"
  /\ monkey' = NoJim
  /\ call' = [call EXCEPT ![c] = "idle"]
  /\ calm' = \A d \in Callers : ~Inviting(d)
  /\ hurried' = TRUE
  /\ UNCHANGED <<jim, calls>>

JimStep(c) ==
  \/ CreateJim(c) \/ UpdateJim(c) \/ DeleteJim(c)
  \/ Invite(c) \/ Decode(c) \/ Replace(c) \/ Dismiss(c)
-----------------------------------------------------------------------------
(* ValidAUTH, ValidMAIL and ValidRCPT of the session's monkey. *)
Lets(s, command) ==
  command \notin IF monkeyOf[s] = NoJim THEN {} ELSE Refuses[monkeyOf[s]]

(* A bug to catch: the listener asks a monkey there may not be. *)
AcceptUntested(s) ==
  /\ conn = NoConn /\ state[s] = "new"
  /\ conn' = s
  /\ tested' = TRUE
  /\ hurried' = FALSE
  /\ UNCHANGED <<monkeyOf, dead>>

(* ln.Accept returns, and the listener tests Config.Monkey. *)
Accept(s) ==
  /\ conn = NoConn /\ state[s] = "new"
  /\ conn' = s
  /\ tested' = (monkey # NoJim)
  /\ hurried' = FALSE
  /\ UNCHANGED <<monkeyOf, dead>>

(* Config.Monkey.Accept, of whatever Config.Monkey is by now: one who      *)
(* refuses has the connection closed, and none has the process killed.     *)
AskMonkey ==
  /\ tested
  /\ tested' = FALSE
  /\ \/ monkey = NoJim /\ dead' = TRUE /\ UNCHANGED conn
     \/ monkey # NoJim /\ UNCHANGED <<conn, dead>>
     \/ /\ monkey \in Picky
        /\ conn' = NoConn
        /\ UNCHANGED dead
  /\ UNCHANGED <<monkeyOf, hurried>>

(* go Accept(..., cfg.Monkey): the session keeps this monkey. *)
StartSession ==
  /\ conn # NoConn /\ ~tested
  /\ Connect(conn)
  /\ monkeyOf' = [monkeyOf EXCEPT ![conn] = monkey]
  /\ conn' = NoConn
  /\ UNCHANGED <<tested, dead, hurried>>

(* The monkey has a say in AUTH, MAIL and RCPT (Data follows a RCPT); a    *)
(* line he refuses changes nothing.  A monkey who disconnects makes the    *)
(* session leave, which any client may do at the same places.              *)
SessionStep(s) ==
  \/ Hello(s) \/ Rset(s) \/ Queue(s) \/ Leave(s)
  \/ Lets(s, "mail") /\ MailFrom(s)
  \/ Lets(s, "rcpt") /\ Data(s)
  \/ Lets(s, "auth") /\ \E u \in Usernames \cup {NoUser} : Auth(s, u)
  \/ \E claimed \in Folders \cup {NoFolder}, ok \in BOOLEAN :
       EndOfData(s, claimed, ok)

PolicyStep ==
  \/ \E force \in BOOLEAN : SetPolicy(force, listed)
  \/ \E folders \in FolderLists : SetPolicy(forced, folders)

ServerInit ==
  /\ Init
  /\ jim = Flagged
  /\ monkey \in {NoJim, Flagged}
  /\ call = [c \in Callers |-> "idle"]
  /\ calls = 0
  /\ conn = NoConn
  /\ tested = FALSE
  /\ monkeyOf = [s \in Sessions |-> NoJim]
  /\ dead = FALSE
  /\ calm = (monkey = NoJim)
  /\ hurried = FALSE

ServerNext ==
  /\ ~dead
  /\ \/ \E c \in Callers : JimStep(c) /\ UNCHANGED <<vars, listenVars>>
     \/ \E s \in Sessions : Accept(s) /\ UNCHANGED <<vars, jimVars>>
     \/ AskMonkey /\ UNCHANGED <<vars, jimVars>>
     \/ StartSession /\ UNCHANGED jimVars
     \/ \E s \in Sessions :
          SessionStep(s) /\ UNCHANGED <<jimVars, listenVars, hurried>>
     \/ PolicyStep /\ UNCHANGED <<jimVars, listenVars, hurried>>

ServerSpec == ServerInit /\ [][ServerNext]_serverVars
-----------------------------------------------------------------------------
(* Types, and what they say of the code: a session that has not begun has  *)
(* no monkey, and the listener asks the monkey only about a connection it  *)
(* holds (smtp.go:20-41).                                                  *)
ServerTypeOK ==
  /\ TypeOK
  /\ jim \in Jims
  /\ monkey \in Jims \cup {NoJim}
  /\ call \in [Callers -> Labels \cup Jims]
  /\ calls \in 0 .. MaxCalls
  /\ conn \in Sessions \cup {NoConn}
  /\ tested \in BOOLEAN /\ dead \in BOOLEAN
  /\ calm \in BOOLEAN /\ hurried \in BOOLEAN
  /\ monkeyOf \in [Sessions -> Jims \cup {NoJim}]
  /\ tested \/ dead => conn # NoConn
  /\ conn # NoConn => state[conn] = "new"
  /\ \A s \in Sessions : state[s] = "new" => monkeyOf[s] = NoJim

(* Once Jim is away, and no request that could bring him back was under    *)
(* way when he was dismissed, he stays away until somebody invites him;    *)
(* and the one thing that can kill the listener is that he is dismissed    *)
(* between its test and its question (smtp.go:26-31, v2.go:413-472).       *)
ChaosOnlyWhenInvited ==
  /\ calm => monkey = NoJim
  /\ dead => hurried
=============================================================================
