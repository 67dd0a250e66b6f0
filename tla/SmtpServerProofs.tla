-------------------------- MODULE SmtpServerProofs ---------------------------
(***************************************************************************)
(* Proofs about SmtpSession for any sessions, users, folders and policies, *)
(* and about SmtpServer: it implements SmtpSession, so that nothing a monkey *)
(* does weakens what is proved of the sessions; and the monkey himself comes *)
(* and goes as he is told.                                                 *)
(***************************************************************************)
EXTENDS SmtpServer, TLAPS

(* What a session must keep for its mails to go where the policy allows:   *)
(* its user was checked against a list that was offered to it, and without *)
(* a user it does not get past MAIL.                                       *)
PolicyKept ==
  \A s \in Sessions :
    /\ state[s] = "new" => user[s] = NoUser /\ stored[s] = <<>>
    /\ state[s] # "new" => listed \subseteq offered[s]
    /\ state[s] # "new" /\ ~lenient[s] => forced
    /\ user[s] # NoUser /\ ~lenient[s] => FolderOf[user[s]] \in offered[s]
    /\ state[s] \in {"rcpt", "data"} /\ ~lenient[s] => user[s] # NoUser
    /\ user[s] \in granted[s] \cup {NoUser}

(* The three properties, for the mails themselves. *)
MailsKept ==
  \A s \in Sessions :
    /\ Len(stored[s]) = queued[s] + (IF blocked[s] THEN 1 ELSE 0)
    /\ \A i \in 1..Len(stored[s]) :
         /\ ~lenient[s] => stored[s][i] \in offered[s]
         /\ \E u \in granted[s] \cup {NoUser} : stored[s][i] = FolderOf[u]

Inv == TypeOK /\ PolicyKept /\ MailsKept

LEMMA InitInv == Init => Inv
<1> SUFFICES ASSUME Init PROVE Inv
  OBVIOUS
<1> USE DEF Init
<1>1. TypeOK
  BY SessionAssumption DEF TypeOK, States
<1>2. PolicyKept
  BY DEF PolicyKept
<1>3. \A s \in Sessions :
        stored[s] = <<>> /\ queued[s] = 0 /\ blocked[s] = FALSE
  OBVIOUS
<1>4. MailsKept
  <2> HIDE DEF Init
  <2>1. ASSUME NEW s \in Sessions
        PROVE  Len(stored[s]) = queued[s] + (IF blocked[s] THEN 1 ELSE 0)
    <3>1. Len(stored[s]) = 0
      BY <1>3
    <3> QED  BY <3>1, <1>3
  <2>2. ASSUME NEW s \in Sessions, NEW i \in 1..Len(stored[s])
        PROVE  FALSE
    <3>1. Len(stored[s]) = 0
      BY <1>3
    <3> QED  BY <3>1
  <2> QED  BY <2>1, <2>2 DEF MailsKept
<1> QED  BY <1>1, <1>2, <1>4 DEF Inv

USE DEF policyVars, historyVars

(* A line that changes neither the mails nor what the session was granted. *)
LEMMA QuietLine ==
  ASSUME Inv, NEW s \in Sessions,
         Hello(s) \/ MailFrom(s) \/ Data(s) \/ Rset(s) \/ Leave(s)
  PROVE  Inv'
<1>1. UNCHANGED <<forced, listed, user, blocked, stored, queued, granted,
                  lenient, offered>>
  BY DEF Hello, MailFrom, Data, Rset, Leave
<1>2. TypeOK'
  BY <1>1 DEF Inv, TypeOK, States, Hello, MailFrom, Data, Rset, Leave
<1>3. MailsKept'
  BY <1>1 DEF Inv, MailsKept
<1>4. PolicyKept'
  <2>1. CASE Hello(s)
    BY <2>1 DEF Inv, TypeOK, PolicyKept, Hello
  <2>2. CASE MailFrom(s)
    BY <2>2 DEF Inv, TypeOK, PolicyKept, MailFrom, VerbFilter
  <2>3. CASE Data(s)
    BY <2>3 DEF Inv, TypeOK, PolicyKept, Data
  <2>4. CASE Rset(s)
    BY <2>4 DEF Inv, TypeOK, PolicyKept, Rset
  <2>5. CASE Leave(s)
    BY <2>5 DEF Inv, TypeOK, PolicyKept, Leave
  <2> QED  BY <2>1, <2>2, <2>3, <2>4, <2>5
<1> QED  BY <1>2, <1>3, <1>4 DEF Inv

LEMMA ConnectInv ==
  ASSUME Inv, NEW s \in Sessions, Connect(s) PROVE Inv'
<1>1. TypeOK'
  BY DEF Inv, TypeOK, States, Connect
<1>2. PolicyKept'
  BY DEF Inv, TypeOK, PolicyKept, Connect
<1>3. stored[s] = <<>>
  BY DEF Inv, PolicyKept, Connect
<1>4. MailsKept'
  <2> SUFFICES ASSUME NEW t \in Sessions
               PROVE  MailsKept!(t)'
    BY DEF MailsKept
  <2>1. CASE t = s
    BY <1>3, <2>1 DEF Inv, TypeOK, MailsKept, Connect
  <2>2. CASE t # s
    BY <2>2 DEF Inv, TypeOK, MailsKept, Connect
  <2> QED  BY <2>1, <2>2
<1> QED  BY <1>1, <1>2, <1>4 DEF Inv

LEMMA AuthInv ==
  ASSUME Inv, NEW s \in Sessions, NEW u \in Usernames \cup {NoUser}, Auth(s, u)
  PROVE  Inv'
<1>1. TypeOK'
  BY DEF Inv, TypeOK, Auth
<1>2. PolicyKept'
  BY DEF Inv, TypeOK, PolicyKept, Auth, IsFolderAllowed
<1>3. MailsKept'
  BY DEF Inv, TypeOK, MailsKept, Auth
<1> QED  BY <1>1, <1>2, <1>3 DEF Inv

LEMMA EndOfDataInv ==
  ASSUME Inv, NEW s \in Sessions, NEW claimed, NEW ok \in BOOLEAN,
         EndOfData(s, claimed, ok)
  PROVE  Inv'
<1> DEFINE f == FolderOf[user[s]]
<1>1. CASE ~ok
  <2>1. /\ state' = [state EXCEPT ![s] = "mail"]
        /\ ~blocked[s]
        /\ UNCHANGED <<forced, listed, user, blocked, stored, queued, granted,
                       lenient, offered>>
    BY <1>1 DEF EndOfData
  <2>2. TypeOK'
    BY <2>1 DEF Inv, TypeOK, States
  <2>3. PolicyKept'
    BY <1>1 DEF Inv, TypeOK, PolicyKept, EndOfData
  <2>4. MailsKept'
    BY <2>1 DEF Inv, MailsKept
  <2> QED  BY <2>2, <2>3, <2>4 DEF Inv
<1>2. CASE ok
  <2>1. /\ stored' = [stored EXCEPT ![s] = Append(@, f)]
        /\ blocked' = [blocked EXCEPT ![s] = TRUE]
        /\ ~blocked[s] /\ state[s] = "data"
        /\ UNCHANGED <<forced, listed, state, user, queued, granted, lenient,
                       offered>>
    BY <1>2 DEF EndOfData, FolderHeader
  <2>2. f \in Folders \cup {NoFolder}
    BY SessionAssumption DEF Inv, TypeOK
  <2>3. TypeOK'
    BY <2>1, <2>2 DEF Inv, TypeOK
  <2>4. PolicyKept'
    BY <2>1 DEF Inv, TypeOK, PolicyKept
  <2>5. ~lenient[s] => f \in offered[s]
    BY <2>1 DEF Inv, PolicyKept
  <2>6. user[s] \in granted[s] \cup {NoUser}
    BY DEF Inv, PolicyKept
  <2>7. MailsKept'
    <3> SUFFICES ASSUME NEW t \in Sessions PROVE MailsKept!(t)'
      BY DEF MailsKept
    <3>1. CASE t = s
      <4>1. /\ stored[s] \in Seq(Folders \cup {NoFolder})
            /\ stored'[s] = Append(stored[s], f)
            /\ blocked'[s] = TRUE /\ queued[s] \in Nat
        BY <2>1 DEF Inv, TypeOK
      <4>2. /\ Len(stored'[s]) = Len(stored[s]) + 1
            /\ \A i \in 1..Len(stored[s]) : stored'[s][i] = stored[s][i]
            /\ stored'[s][Len(stored[s]) + 1] = f
        BY <4>1, <2>2
      <4>3. Len(stored[s]) = queued[s]
        BY <2>1, <4>1 DEF Inv, MailsKept
      <4>4. ASSUME NEW i \in 1..Len(stored'[s])
            PROVE  /\ ~lenient[s] => stored'[s][i] \in offered[s]
                   /\ \E u \in granted[s] \cup {NoUser} :
                        stored'[s][i] = FolderOf[u]
        <5>1. CASE i = Len(stored[s]) + 1
          BY <4>2, <5>1, <2>5, <2>6
        <5>2. CASE i # Len(stored[s]) + 1
          BY <4>1, <4>2, <4>4, <5>2 DEF Inv, MailsKept
        <5> QED  BY <5>1, <5>2
      <4> QED  BY <3>1, <2>1, <4>1, <4>2, <4>3, <4>4
    <3>2. CASE t # s
      BY <2>1, <3>2 DEF Inv, TypeOK, MailsKept
    <3> QED  BY <3>1, <3>2
  <2> QED  BY <2>3, <2>4, <2>7 DEF Inv
<1> QED  BY <1>1, <1>2

LEMMA QueueInv ==
  ASSUME Inv, NEW s \in Sessions, Queue(s) PROVE Inv'
<1>1. TypeOK'
  BY DEF Inv, TypeOK, States, Queue
<1>2. PolicyKept'
  BY DEF Inv, TypeOK, PolicyKept, Queue
<1>3. MailsKept'
  BY DEF Inv, TypeOK, MailsKept, Queue
<1> QED  BY <1>1, <1>2, <1>3 DEF Inv

LEMMA SetPolicyInv ==
  ASSUME Inv, NEW force \in BOOLEAN, NEW folders \in SUBSET Folders,
         SetPolicy(force, folders)
  PROVE  Inv'
<1>1. TypeOK'
  BY DEF Inv, TypeOK, SetPolicy
<1>2. PolicyKept'
  BY DEF Inv, TypeOK, PolicyKept, SetPolicy
<1>3. MailsKept'
  BY DEF Inv, TypeOK, MailsKept, SetPolicy
<1> QED  BY <1>1, <1>2, <1>3 DEF Inv

LEMMA NextInv ==
  ASSUME Inv, [Next]_vars
  PROVE  Inv'
<1>1. ASSUME NEW s \in Sessions, ClientLine(s)
      PROVE  Inv'
  BY <1>1, ConnectInv, QuietLine, AuthInv, EndOfDataInv DEF ClientLine
<1>2. ASSUME NEW s \in Sessions, Queue(s) \/ Leave(s)
      PROVE  Inv'
  BY <1>2, QueueInv, QuietLine
<1>3. ASSUME NEW force \in BOOLEAN, SetPolicy(force, listed)
      PROVE  Inv'
  BY <1>3, SetPolicyInv DEF Inv, TypeOK
<1>4. ASSUME NEW folders \in FolderLists, SetPolicy(forced, folders)
      PROVE  Inv'
  BY <1>4, SetPolicyInv, SessionAssumption DEF Inv, TypeOK
<1>5. CASE UNCHANGED vars
  BY <1>5 DEF vars, Inv, TypeOK, PolicyKept, MailsKept
<1> QED  BY <1>1, <1>2, <1>3, <1>4, <1>5 DEF Next

LEMMA InvHolds == Spec => []Inv
BY InitInv, NextInv, PTL DEF Spec

(* Every variable keeps its type.                                          *)
THEOREM TypeCorrect == Spec => []TypeOK
BY InvHolds, PTL DEF Inv

(* A session under ForceDefaultInboxOnly stores only in default folders.   *)
THEOREM ForcedSessionsAreConfined == Spec => []ForcedMeansListed
<1>1. Inv => ForcedMeansListed
  BY DEF Inv, MailsKept, ForcedMeansListed, StoredFolders
<1> QED  BY <1>1, InvHolds, PTL

(* No mail names its own folder.                                           *)
THEOREM FoldersAreGranted == Spec => []FolderIsGranted
<1>1. Inv => FolderIsGranted
  BY DEF Inv, MailsKept, FolderIsGranted, StoredFolders
<1> QED  BY <1>1, InvHolds, PTL

(* As many mails are stored as were answered 250 or are about to be.       *)
THEOREM AnswersAreTrue == Spec => []QueuedIsStored
<1>1. Inv => QueuedIsStored
  BY DEF Inv, MailsKept, QueuedIsStored
<1> QED  BY <1>1, InvHolds, PTL
-----------------------------------------------------------------------------
(* Every step of the server is a step of the sessions, or none of theirs.  *)
LEMMA ServerStep ==
  ASSUME ServerTypeOK, [ServerNext]_serverVars
  PROVE  [Next]_vars
<1>1. ASSUME NEW s \in Sessions, SessionStep(s)
      PROVE  Next
  <2>1. CASE Hello(s) \/ Rset(s) \/ MailFrom(s) \/ Data(s)
    BY <2>1 DEF Next, ClientLine
  <2>2. CASE Queue(s) \/ Leave(s)
    BY <2>2 DEF Next
  <2>3. CASE \E u \in Usernames \cup {NoUser} : Auth(s, u)
    BY <2>3 DEF Next, ClientLine
  <2>4. CASE \E claimed \in Folders \cup {NoFolder}, ok \in BOOLEAN :
               EndOfData(s, claimed, ok)
    BY <2>4 DEF Next, ClientLine
  <2> QED  BY <1>1, <2>1, <2>2, <2>3, <2>4 DEF SessionStep
<1>2. ASSUME StartSession
      PROVE  Next
  BY <1>2 DEF StartSession, ServerTypeOK, Next, ClientLine
<1>3. ASSUME PolicyStep
      PROVE  Next
  BY <1>3 DEF PolicyStep, Next
<1>4. UNCHANGED serverVars => UNCHANGED vars
  BY DEF serverVars
<1> QED  BY <1>1, <1>2, <1>3, <1>4 DEF ServerNext

(* The types of the monkey, of the requests about him and of the listener. *)
JimTypeOK ==
  /\ jim \in Jims
  /\ monkey \in Jims \cup {NoJim}
  /\ call \in [Callers -> Labels \cup Jims]
  /\ calls \in 0 .. MaxCalls
  /\ calm \in BOOLEAN

ListenTypeOK ==
  /\ conn \in Sessions \cup {NoConn}
  /\ tested \in BOOLEAN
  /\ dead \in BOOLEAN
  /\ hurried \in BOOLEAN
  /\ monkeyOf \in [Sessions -> Jims \cup {NoJim}]
  /\ tested \/ dead => conn # NoConn
  /\ conn # NoConn => state[conn] = "new"
  /\ \A s \in Sessions : state[s] = "new" => monkeyOf[s] = NoJim

LEMMA ServerTypeSplit == ServerTypeOK <=> TypeOK /\ JimTypeOK /\ ListenTypeOK
BY DEF ServerTypeOK, JimTypeOK, ListenTypeOK

(* A session's own step never brings it back to where it began. *)
LEMMA NewStaysNew ==
  ASSUME TypeOK, [Next]_vars, NEW s \in Sessions, state'[s] = "new"
  PROVE  state[s] = "new"
<1>1. ASSUME NEW t \in Sessions, ClientLine(t)
      PROVE  state[s] = "new"
  BY <1>1 DEF ClientLine, Connect, Hello, MailFrom, Data, Rset, Auth,
              EndOfData, TypeOK
<1>2. ASSUME NEW t \in Sessions, Queue(t) \/ Leave(t)
      PROVE  state[s] = "new"
  BY <1>2 DEF Queue, Leave, TypeOK
<1>3. ASSUME NEW force, NEW folders, SetPolicy(force, folders)
      PROVE  state[s] = "new"
  BY <1>3 DEF SetPolicy
<1>4. CASE UNCHANGED vars
  BY <1>4 DEF vars
<1> QED  BY <1>1, <1>2, <1>3, <1>4 DEF Next

(* A session that has not begun is moved by no line of another: only the   *)
(* listener starts it.                                                     *)
LEMMA OnlyStartMovesNew ==
  ASSUME TypeOK, NEW s \in Sessions, SessionStep(s), NEW t \in Sessions,
         state[t] = "new"
  PROVE  state'[t] = "new"
<1>1. t # s
  BY DEF SessionStep, Hello, Rset, Queue, Leave, MailFrom, Data, Auth,
         EndOfData, TypeOK
<1> QED  BY <1>1 DEF SessionStep, Hello, Rset, Queue, Leave, MailFrom, Data,
                     Auth, EndOfData, TypeOK

(* What makes a dismissal last: while it is calm nobody is about to bring  *)
(* Jim back; and a listener about to ask nobody was hurried.               *)
Calm ==
  /\ calm => monkey = NoJim /\ \A c \in Callers : ~Inviting(c)
  /\ tested /\ monkey = NoJim => hurried
  /\ dead => hurried

ServerInv == TypeOK /\ JimTypeOK /\ ListenTypeOK /\ Calm

LEMMA ServerInitInv == ServerInit => ServerInv
<1> SUFFICES ASSUME ServerInit PROVE ServerInv
  OBVIOUS
<1>1. TypeOK
  BY InitInv DEF ServerInit, Inv
<1>2. JimTypeOK
  BY ServerAssumption DEF ServerInit, JimTypeOK, Labels
<1>3. ListenTypeOK
  BY DEF ServerInit, ListenTypeOK
<1>4. \A c \in Callers : ~Inviting(c)
  BY ServerAssumption DEF ServerInit, Inviting, Labels
<1>5. Calm
  BY <1>4 DEF ServerInit, Calm
<1> QED  BY <1>1, <1>2, <1>3, <1>5 DEF ServerInv

LEMMA JimStepInv ==
  ASSUME ServerInv, NEW c \in Callers, JimStep(c),
         UNCHANGED <<vars, listenVars>>
  PROVE  ServerInv'
<1> USE DEF ServerInv
<1>1. TypeOK'
  BY DEF vars, TypeOK
<1>2. ListenTypeOK'
  <2>1. hurried' \in BOOLEAN
    BY DEF JimStep, CreateJim, UpdateJim, DeleteJim, Invite, Decode, Replace,
           Dismiss, ListenTypeOK
  <2> QED  BY <2>1 DEF ListenTypeOK, listenVars, vars
<1>3. JimTypeOK'
  <2> USE ServerAssumption DEF JimTypeOK, Labels
  <2>1. CASE CreateJim(c)
    <3>1. calls' = calls + 1 /\ calls < MaxCalls /\ calm' = FALSE
      BY <2>1 DEF CreateJim
    <3>2. calls' \in 0 .. MaxCalls
      BY <3>1
    <3>3. calm' \in BOOLEAN
      BY <3>1
    <3> QED  BY <2>1, <3>2, <3>3 DEF CreateJim
  <2>2. CASE UpdateJim(c)
    BY <2>2 DEF UpdateJim
  <2>3. CASE DeleteJim(c)
    BY <2>3 DEF DeleteJim
  <2>4. CASE Invite(c)
    BY <2>4 DEF Invite
  <2>5. CASE Decode(c)
    BY <2>5 DEF Decode
  <2>6. CASE Replace(c)
    BY <2>6 DEF Replace
  <2>7. CASE Dismiss(c)
    BY <2>7 DEF Dismiss
  <2> QED  BY <2>1, <2>2, <2>3, <2>4, <2>5, <2>6, <2>7 DEF JimStep
<1>4. Calm'
  <2> USE ServerAssumption DEF JimTypeOK, Labels, Calm, listenVars, Inviting
  <2>1. CASE CreateJim(c)
    BY <2>1 DEF CreateJim
  <2>2. CASE UpdateJim(c)
    BY <2>2 DEF UpdateJim
  <2>3. CASE DeleteJim(c)
    BY <2>3 DEF DeleteJim
  <2>4. CASE Invite(c)
    BY <2>4 DEF Invite
  <2>5. CASE Decode(c)
    BY <2>5 DEF Decode
  <2>6. CASE Replace(c)
    BY <2>6 DEF Replace
  <2>7. CASE Dismiss(c)
    BY <2>7 DEF Dismiss
  <2> QED  BY <2>1, <2>2, <2>3, <2>4, <2>5, <2>6, <2>7 DEF JimStep
<1> QED  BY <1>1, <1>2, <1>3, <1>4

LEMMA AcceptInv ==
  ASSUME ServerInv, NEW s \in Sessions, Accept(s), UNCHANGED <<vars, jimVars>>
  PROVE  ServerInv'
<1>1. TypeOK'
  BY DEF ServerInv, vars, TypeOK
<1>2. JimTypeOK'
  BY DEF ServerInv, jimVars, JimTypeOK
<1>3. ListenTypeOK'
  BY ServerAssumption DEF ServerInv, ListenTypeOK, Accept, vars
<1>4. Calm'
  BY DEF ServerInv, ListenTypeOK, Calm, Accept, jimVars, Inviting
<1> QED  BY <1>1, <1>2, <1>3, <1>4 DEF ServerInv

LEMMA AskInv ==
  ASSUME ServerInv, ~dead, AskMonkey, UNCHANGED <<vars, jimVars>>
  PROVE  ServerInv'
<1>1. TypeOK'
  BY DEF ServerInv, vars, TypeOK
<1>2. JimTypeOK'
  BY DEF ServerInv, jimVars, JimTypeOK
<1>3. ListenTypeOK'
  <2>1. conn # NoConn /\ UNCHANGED <<state, monkeyOf, hurried>> /\ ~tested'
    BY DEF ServerInv, ListenTypeOK, AskMonkey, vars
  <2>2. CASE UNCHANGED conn
    <3>1. dead' = TRUE \/ dead' = dead
      BY DEF AskMonkey
    <3>2. dead' \in BOOLEAN
      BY <3>1 DEF ServerInv, ListenTypeOK
    <3>3. tested' = FALSE
      BY DEF AskMonkey
    <3> QED  BY <2>1, <2>2, <3>2, <3>3 DEF ServerInv, ListenTypeOK
  <2>3. CASE conn' = NoConn /\ ~dead'
    <3>1. tested' = FALSE
      BY DEF AskMonkey
    <3>2. dead' = FALSE
      BY <2>3 DEF AskMonkey
    <3> QED  BY <2>1, <2>3, <3>1, <3>2 DEF ServerInv, ListenTypeOK
  <2> QED  BY <2>2, <2>3 DEF AskMonkey
<1>4. Calm'
  BY DEF ServerInv, ListenTypeOK, Calm, AskMonkey, jimVars, Inviting
<1> QED  BY <1>1, <1>2, <1>3, <1>4 DEF ServerInv

LEMMA StartInv ==
  ASSUME ServerInv, ~dead, StartSession, UNCHANGED jimVars, TypeOK'
  PROVE  ServerInv'
<1>1. JimTypeOK'
  BY DEF ServerInv, jimVars, JimTypeOK
<1>2. ListenTypeOK'
  BY ServerAssumption DEF ServerInv, ListenTypeOK, JimTypeOK, StartSession,
                          Connect, TypeOK
<1>3. Calm'
  BY DEF ServerInv, Calm, StartSession, jimVars, Inviting
<1> QED  BY <1>1, <1>2, <1>3 DEF ServerInv

(* A step of a session or of the policy leaves the monkey alone. *)
LEMMA SessionInv ==
  ASSUME ServerInv, [Next]_vars, UNCHANGED <<jimVars, listenVars, hurried>>,
         TypeOK',
         \A t \in Sessions : state[t] = "new" => state'[t] = "new"
  PROVE  ServerInv'
<1>1. JimTypeOK'
  BY DEF ServerInv, jimVars, JimTypeOK
<1>2. \A t \in Sessions : state'[t] = "new" => state[t] = "new"
  BY NewStaysNew DEF ServerInv
<1>3. ListenTypeOK'
  BY <1>2 DEF ServerInv, ListenTypeOK, listenVars
<1>4. Calm'
  BY DEF ServerInv, Calm, jimVars, listenVars, Inviting
<1> QED  BY <1>1, <1>3, <1>4 DEF ServerInv

LEMMA ServerNextInv ==
  ASSUME ServerInv, Inv', [ServerNext]_serverVars
  PROVE  ServerInv'
<1>1. TypeOK' /\ [Next]_vars
  BY ServerStep, ServerTypeSplit DEF ServerInv, Inv
<1>2. ASSUME NEW s \in Sessions, SessionStep(s),
             UNCHANGED <<jimVars, listenVars, hurried>>
      PROVE  ServerInv'
  <2>1. \A t \in Sessions : state[t] = "new" => state'[t] = "new"
    BY <1>2, OnlyStartMovesNew DEF ServerInv
  <2> QED  BY <1>1, <1>2, <2>1, SessionInv
<1>3. ASSUME PolicyStep, UNCHANGED <<jimVars, listenVars, hurried>>
      PROVE  ServerInv'
  <2>1. UNCHANGED state
    BY <1>3 DEF PolicyStep, SetPolicy
  <2> QED  BY <1>1, <1>3, <2>1, SessionInv
<1>4. CASE UNCHANGED serverVars
  BY <1>1, <1>4, SessionInv DEF serverVars, vars
<1> QED  BY <1>1, <1>2, <1>3, <1>4, JimStepInv, AcceptInv, AskInv, StartInv
        DEF ServerNext

LEMMA BothHold == ServerSpec => [](Inv /\ ServerInv)
<1>1. ServerInit => Inv /\ ServerInv
  BY ServerInitInv, InitInv DEF ServerInit
<1>2. Inv /\ ServerInv /\ [ServerNext]_serverVars => (Inv /\ ServerInv)'
  BY ServerStep, ServerTypeSplit, NextInv, ServerNextInv DEF ServerInv
<1> QED  BY <1>1, <1>2, PTL DEF ServerSpec

(* Every variable of the server keeps its type, and the listener asks a    *)
(* monkey only about a connection it holds.                                *)
THEOREM ServerTypeCorrect == ServerSpec => []ServerTypeOK
<1>1. ServerInv => ServerTypeOK
  BY ServerTypeSplit DEF ServerInv
<1> QED  BY <1>1, BothHold, PTL

(* Jim is at work only when somebody invited him, and a nil monkey is      *)
(* asked only when he was dismissed between the test and the question.     *)
THEOREM JimComesWhenInvited == ServerSpec => []ChaosOnlyWhenInvited
<1>1. ServerInv => ChaosOnlyWhenInvited
  BY DEF ServerInv, Calm, ChaosOnlyWhenInvited
<1> QED  BY <1>1, BothHold, PTL

(* With the listener and any monkey the sessions are those of SmtpSession. *)
THEOREM ServerRefinesSession == ServerSpec => Spec
<1>1. ServerInit => Init
  BY DEF ServerInit
<1>2. ServerInv /\ [ServerNext]_serverVars => [Next]_vars
  BY ServerStep, ServerTypeSplit DEF ServerInv
<1> QED  BY <1>1, <1>2, BothHold, PTL DEF ServerSpec, Spec

(* Hence the folders, and the answers, of a server with a monkey.          *)
COROLLARY ServerConfinesForced == ServerSpec => []ForcedMeansListed
BY ServerRefinesSession, ForcedSessionsAreConfined, PTL

COROLLARY ServerGrantsFolders == ServerSpec => []FolderIsGranted
BY ServerRefinesSession, FoldersAreGranted, PTL

COROLLARY ServerAnswersTrue == ServerSpec => []QueuedIsStored
BY ServerRefinesSession, AnswersAreTrue, PTL
=============================================================================
