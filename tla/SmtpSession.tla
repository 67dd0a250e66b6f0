---------------------------- MODULE SmtpSession ----------------------------
(***************************************************************************)
(* smtp/session.go: what a session lets a client do and what it stores,    *)
(* while the settings handler changes the authentication policy under it.  *)
(*                                                                         *)
(* One action is one line of the client.  The state machine of the SMTP    *)
(* dialogue (proto) is the library mailhog/smtp, modelled from the         *)
(* handlers session.go installs in it.  The policy is two fields of the    *)
(* shared Config, written and read without a lock.  SmtpServer adds the    *)
(* listener and the chaos monkey that refuses lines and connections.       *)
(***************************************************************************)
EXTENDS Integers, Sequences

CONSTANTS
  Sessions,
  Usernames,      \* what clients authenticate as
  NoUser,         \* authenticatedUsername is empty
  Folders,
  NoFolder,
  FolderOf,       \* splitAuthenticatedUsername(u): the folder of a user
  FolderLists,    \* the default folders the settings may list
  StoreMayFail,
  MaxMails        \* bounds the mails stored in a session

ASSUME SessionAssumption ==
  /\ NoUser \notin Usernames
  /\ NoFolder \notin Folders
  /\ FolderOf \in [Usernames \cup {NoUser} -> Folders \cup {NoFolder}]
  /\ FolderOf[NoUser] = NoFolder
  /\ FolderLists \subseteq SUBSET Folders
  /\ StoreMayFail \in BOOLEAN
  /\ MaxMails \in Nat

VARIABLES
  forced,   \* Config.ForceDefaultInboxOnly
  listed,   \* Config.DefaultFolders
  state,    \* proto.State
  user,     \* authenticatedUsername
  blocked,  \* acceptMessage waits on messageChan
  stored,   \* the folders of the mails a session stored
  queued,   \* how often a session answered 250 queued
  granted,  \* history: the names a session was authenticated as
  lenient,  \* history: the policy was off at some time since the connection
  offered   \* history: the folders that were listed since the connection

policyVars == <<forced, listed>>
historyVars == <<granted, lenient, offered>>
vars == <<policyVars, state, user, blocked, stored, queued, historyVars>>

States == {"new", "established", "mail", "rcpt", "data", "done"}
-----------------------------------------------------------------------------
(* Config.IsFolderAllowed *)
IsFolderAllowed(folder) == forced => folder \in listed

(* smtpVerbFilter, asked for MAIL. *)
VerbFilter(s) == ~forced \/ user[s] # NoUser

Connect(s) ==
  /\ state[s] = "new"
  /\ state' = [state EXCEPT ![s] = "established"]
  /\ lenient' = [lenient EXCEPT ![s] = ~forced]
  /\ offered' = [offered EXCEPT ![s] = listed]
  /\ UNCHANGED <<policyVars, user, blocked, stored, queued, granted>>

(* HELO or EHLO, possibly again. *)
Hello(s) ==
  /\ state[s] \in {"established", "mail", "rcpt"}
  /\ state' = [state EXCEPT ![s] = "mail"]
  /\ UNCHANGED <<policyVars, user, blocked, stored, queued, historyVars>>

(* A bug to catch: the folder is asked for after the user is recorded. *)
AuthRecordedFirst(s, u) ==
  /\ state[s] = "mail"
  /\ user' = [user EXCEPT ![s] = IF u = NoUser THEN @ ELSE u]
  /\ granted' = [granted EXCEPT ![s] = @ \cup {u}]
  /\ UNCHANGED <<policyVars, state, blocked, stored, queued, lenient, offered>>

(* validateAuthentication: an accepted name replaces the one before, an    *)
(* empty one is accepted without the policy and changes nothing.           *)
Auth(s, u) ==
  /\ state[s] = "mail"
  /\ IsFolderAllowed(FolderOf[u])
  /\ user' = [user EXCEPT ![s] = IF u = NoUser THEN @ ELSE u]
  /\ granted' = [granted EXCEPT ![s] = @ \cup {u}]
  /\ UNCHANGED <<policyVars, state, blocked, stored, queued, lenient, offered>>

(* MAIL FROM, then RCPT TO and DATA.                                       *)
MailFrom(s) ==
  /\ state[s] = "mail"
  /\ VerbFilter(s)
  /\ state' = [state EXCEPT ![s] = "rcpt"]
  /\ UNCHANGED <<policyVars, user, blocked, stored, queued, historyVars>>

Data(s) ==
  /\ state[s] = "rcpt"
  /\ state' = [state EXCEPT ![s] = "data"]
  /\ UNCHANGED <<policyVars, user, blocked, stored, queued, historyVars>>

Rset(s) ==
  /\ state[s] \in {"established", "mail", "rcpt"}
  /\ state' = [state EXCEPT ![s] = "mail"]
  /\ UNCHANGED <<policyVars, user, blocked, stored, queued, historyVars>>

(* A bug to catch: the folder the mail itself claims is kept. *)
FolderHeaderKept(s, claimed) ==
  IF FolderOf[user[s]] = NoFolder THEN claimed ELSE FolderOf[user[s]]

(* setFolderHeader: the header the mail came with is replaced or removed. *)
FolderHeader(s, claimed) == FolderOf[user[s]]

(* A bug to catch: a mail that could not be stored is answered 250. *)
EndOfDataIgnoringError(s, claimed, ok) ==
  /\ state[s] = "data"
  /\ ~blocked[s]
  /\ Len(stored[s]) < MaxMails
  /\ \/ /\ ok
        /\ stored' = [stored EXCEPT ![s] = Append(@, FolderHeader(s, claimed))]
     \/ /\ ~ok /\ StoreMayFail
        /\ UNCHANGED stored
  /\ blocked' = [blocked EXCEPT ![s] = TRUE]
  /\ UNCHANGED <<policyVars, state, user, queued, historyVars>>

(* A bug to catch: the answer does not wait for the dispatcher. *)
EndOfDataNotWaiting(s, claimed, ok) ==
  /\ state[s] = "data"
  /\ Len(stored[s]) < MaxMails
  /\ \/ /\ ok
        /\ stored' = [stored EXCEPT ![s] = Append(@, FolderHeader(s, claimed))]
        /\ blocked' = [blocked EXCEPT ![s] = TRUE]
     \/ /\ ~ok /\ StoreMayFail
        /\ UNCHANGED <<stored, blocked>>
  /\ state' = [state EXCEPT ![s] = "mail"]
  /\ UNCHANGED <<policyVars, user, queued, historyVars>>

(* The final dot: acceptMessage stores the mail and goes on to send it to  *)
(* messageChan, or the answer is an error.                                 *)
EndOfData(s, claimed, ok) ==
  /\ state[s] = "data"
  /\ ~blocked[s]
  /\ Len(stored[s]) < MaxMails
  /\ \/ /\ ok
        /\ stored' = [stored EXCEPT ![s] = Append(@, FolderHeader(s, claimed))]
        /\ blocked' = [blocked EXCEPT ![s] = TRUE]
        /\ UNCHANGED state
     \/ /\ ~ok /\ StoreMayFail
        /\ state' = [state EXCEPT ![s] = "mail"]
        /\ UNCHANGED <<stored, blocked>>
  /\ UNCHANGED <<policyVars, user, queued, historyVars>>

(* The dispatcher takes the message, and the answer is 250. *)
Queue(s) ==
  /\ blocked[s]
  /\ blocked' = [blocked EXCEPT ![s] = FALSE]
  /\ queued' = [queued EXCEPT ![s] = @ + 1]
  /\ state' = [state EXCEPT ![s] = "mail"]
  /\ UNCHANGED <<policyVars, user, stored, historyVars>>

(* QUIT, or Read fails or returns nothing, or a monkey disconnects. *)
Leave(s) ==
  /\ state[s] \notin {"new", "done"}
  /\ ~blocked[s]
  /\ state' = [state EXCEPT ![s] = "done"]
  /\ UNCHANGED <<policyVars, user, blocked, stored, queued, historyVars>>
-----------------------------------------------------------------------------
(* updateSettings assigns the two fields one after the other. *)
SetPolicy(force, folders) ==
  /\ forced' = force
  /\ listed' = folders
  /\ lenient' = [s \in Sessions |-> lenient[s] \/ ~force]
  /\ offered' = [s \in Sessions |-> offered[s] \cup folders]
  /\ UNCHANGED <<state, user, blocked, stored, queued, granted>>

Init ==
  /\ forced \in BOOLEAN
  /\ listed \in FolderLists
  /\ state = [s \in Sessions |-> "new"]
  /\ user = [s \in Sessions |-> NoUser]
  /\ blocked = [s \in Sessions |-> FALSE]
  /\ stored = [s \in Sessions |-> <<>>]
  /\ queued = [s \in Sessions |-> 0]
  /\ granted = [s \in Sessions |-> {}]
  /\ lenient = [s \in Sessions |-> FALSE]
  /\ offered = [s \in Sessions |-> {}]

ClientLine(s) ==
  \/ Connect(s) \/ Hello(s) \/ MailFrom(s) \/ Data(s) \/ Rset(s)
  \/ \E u \in Usernames \cup {NoUser} : Auth(s, u)
  \/ \E claimed \in Folders \cup {NoFolder}, ok \in BOOLEAN :
       EndOfData(s, claimed, ok)

Next ==
  \/ \E s \in Sessions : ClientLine(s) \/ Queue(s) \/ Leave(s)
  \/ \E force \in BOOLEAN : SetPolicy(force, listed)
  \/ \E folders \in FolderLists : SetPolicy(forced, folders)

Spec == Init /\ [][Next]_vars
-----------------------------------------------------------------------------
(* Every variable has its type, and a session that waits for the           *)
(* dispatcher is still in DATA: it serves no other line (session.go:162).  *)
TypeOK ==
  /\ forced \in BOOLEAN
  /\ listed \in SUBSET Folders
  /\ state \in [Sessions -> States]
  /\ user \in [Sessions -> Usernames \cup {NoUser}]
  /\ blocked \in [Sessions -> BOOLEAN]
  /\ stored \in [Sessions -> Seq(Folders \cup {NoFolder})]
  /\ queued \in [Sessions -> Nat]
  /\ granted \in [Sessions -> SUBSET (Usernames \cup {NoUser})]
  /\ lenient \in [Sessions -> BOOLEAN]
  /\ offered \in [Sessions -> SUBSET Folders]
  /\ \A s \in Sessions : blocked[s] => state[s] = "data"

StoredFolders(s) == {stored[s][i] : i \in 1..Len(stored[s])}

(* While ForceDefaultInboxOnly is on for a whole session, everything the   *)
(* session stores goes to a folder that was a default folder at some time  *)
(* of the session: no order of EHLO, AUTH, MAIL, RSET and settings changes *)
(* gets a mail anywhere else (session.go:92-122, 148-156, config.go:165,   *)
(* 330-344).                                                               *)
ForcedMeansListed ==
  \A s \in Sessions : ~lenient[s] => StoredFolders(s) \subseteq offered[s]

(* The folder of a stored mail is that of a name the session was accepted  *)
(* with, or none: never the one its own headers claim (session.go:148-153, *)
(* 206-208, session_test.go:286-314).                                      *)
FolderIsGranted ==
  \A s \in Sessions :
    StoredFolders(s) \subseteq {FolderOf[u] : u \in granted[s] \cup {NoUser}}

(* What is answered 250 is what was stored, save for one mail whose        *)
(* session still waits for the dispatcher: no answer is lost or invented   *)
(* when the storage fails (session.go:156-163).                            *)
QueuedIsStored ==
  \A s \in Sessions :
    Len(stored[s]) = queued[s] + (IF blocked[s] THEN 1 ELSE 0)
=============================================================================
