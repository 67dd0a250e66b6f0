---------------------------- MODULE MCApiAnswers ---------------------------
(***************************************************************************)
(* Requests that reach every branch and both sides of every threshold:     *)
(* four messages of two times with folders and tags spelt differently,     *)
(* mails around each limit of the score, and servers that need every rule  *)
(* of normalisation, with a relay that fails at any step.                  *)
(***************************************************************************)
EXTENDS ApiAnswers

Names == {"", "ops", "Ops", "news"}
NameRank == [s \in Names |-> IF s = "" THEN 0 ELSE IF s = "news" THEN 1 ELSE 2]

Text(mimeType, tags) == [type |-> mimeType, tags |-> tags]
Bare == <<>> :> Text("plain", <<>>)

Message(id, created, folder, tags, parts) ==
  [id |-> id, created |-> created, folder |-> folder, tags |-> tags,
   parts |-> parts]

Old == {Message(1, 1, "ops", <<"news">>, Bare),
        Message(2, 1, "Ops", <<"", "ops", "Ops">>, Bare),
        Message(3, 1, "", <<>>,
                <<>> :> Text("mixed", <<>>) @@ <<1>> :> Text("mixed", <<>>)
                  @@ <<1, 2>> :> Text("html", <<"Ops">>)
                  @@ <<1, 1>> :> Text("plain", <<"">>)
                  @@ <<2>> :> Text("plain", <<"news">>)),
        Message(4, 2, "ops", <<>>, Bare),
        Message(5, 2, "news", <<>>, <<>> :> Text("plain", <<"ops", "news">>))}
New == {Message(6, 3, "ops", <<"ops">>, Bare), Message(7, 4, "Ops", <<>>, Bare)}

Boxes == UNION {SetToSeqs(S) : S \in {T \in SUBSET Old : Cardinality(T) <= 3}}
Arrivals == {<<>>} \cup UNION {SetToSeqs(S) : S \in SUBSET New}

(* The storage may list the messages of one time in any order. *)
PagedCases ==
  UNION {[before : {before}, limit : {-1, 1, 3},
          after : {b \o a : b \in {before, Reverse(before)}, a \in Arrivals},
          q : [folder : {"", "ops"}, tag : {NoTag, "", "Ops"},
               order : {"asc", "desc"}]] : before \in Boxes}

User(folder, tags) == [folder |-> folder, tags |-> tags]
Ours(about) == [about |-> about, ours |-> TRUE]
Theirs(about) == [about |-> about, ours |-> FALSE]

Sent(id, headers, user, order, words) ==
  [id |-> id, created |-> 1, headers |-> headers, user |-> user,
   order |-> order, parts |-> <<>> :> Text("plain", words)]

(* Mails with and without tags, spelt and split in every way, some of      *)
(* which claim a folder of their own.                                      *)
SentMails ==
  {Sent(1, <<>>, User("ops", <<>>), <<TRUE, FALSE>>, <<"news">>),
   Sent(2, Theirs("folder") :> <<<<"news">>>> @@ Theirs("legacy") :> <<<<"", "ops">>>>,
        User("", <<>>), <<TRUE, FALSE>>, <<"news">>),
   Sent(3, Ours("folder") :> <<<<"ops">>>> @@ Theirs("folder") :> <<<<"Ops">>>>,
        User("news", <<<<"">>, <<"Ops", "ops">>, <<"news">>>>), <<TRUE, FALSE>>, <<>>),
   Sent(6, Theirs("tags") :> <<<<"Ops", "news">>>>,
        User("", <<<<"ops", "news">>, <<"news">>>>), <<TRUE, FALSE>>, <<>>)}
  \cup {Sent(4, Ours("tags") :> <<<<"ops", "">>, <<"Ops">>>>
                @@ Theirs("tags") :> <<<<"news">>>> @@ Ours("legacy") :> <<<<"Ops">>>>,
             User("Ops", <<<<"news">>>>), order, <<>>) : order \in Orders}

ShownCases ==
  [sent : UNION {SetToSeqs(S) : S \in {T \in SUBSET SentMails : Cardinality(T) <= 3}},
   defaults : BoundedSeq(Names, 2)]

ScoredCases ==
  {m \in [html : BOOLEAN, htmlWords : {0, 7, 11, 89}, plainWords : {0, 11, 89},
          elements : {{}, {"svg"}, {"script", "flex"}, Elements},
          images : {0, 1, 5}, altless : {0, 1},
          links : {{}, {"http"}, {"broken", "javascript"}, Links},
          preheader : BOOLEAN, width : {640, 641}, media : {FALSE},
          marketing : BOOLEAN, unsubscribe : {FALSE}, spam : {0, 2, 3},
          loud : BOOLEAN] :
     /\ m.altless <= m.images
     /\ ~m.html => /\ m.htmlWords = 0 /\ m.images = 0 /\ m.width = 640
                   /\ m.elements = {} /\ m.links = {} /\ ~m.preheader}

RelayNames == {"", "relay", " relay "}
Trimmed == [n \in RelayNames |-> IF n = "" THEN "" ELSE "relay"]
Mechanisms == {"", "NONE", "plain", "PLAIN", "CRAMMD5", "xoauth2"}
Uppered == [m \in Mechanisms |-> IF m = "plain" THEN "PLAIN" ELSE m]


ServerNamed(name, port, account, mechanism) ==
  [name |-> name, host |-> "host", port |-> port, account |-> account,
   mechanism |-> mechanism]

Servers ==
  {ServerNamed("relay", "25", "user", "plain"), ServerNamed(" relay ", "465", "user", "CRAMMD5"),
   ServerNamed("", "25", "", "plain"), ServerNamed("relay", "25", "user", "xoauth2"),
   ServerNamed("relay", "25", "", ""), ServerNamed("relay", "", "", "NONE")}
Maps == UNION {[names -> Servers] : names \in SUBSET (RelayNames \ {""})}

Relays ==
  [auth : BOOLEAN,
   fails : {"dial", "tls", "greeting", "hello", "starttls", "auth", "noop", "mail",
            "rcpt", "data", "write", "close", "quit", "never"}]

ReleasedCases ==
  LET Cases(maps, lists) ==
        [map : maps, list : lists, save : BOOLEAN, asked : Servers, relay : Relays]
  IN  Cases(Maps, {<<>>}) \cup Cases({<<>>}, BoundedSeq(Servers, 2))
=============================================================================
