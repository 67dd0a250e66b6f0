----------------------------- MODULE MailFiling ----------------------------
(***************************************************************************)
(* How a session files a mail (smtp/session.go): the folder and the tags   *)
(* of the name it is authenticated with go into headers of the mail, from  *)
(* which the API (MessageQuery) reads them again.                          *)
(*                                                                         *)
(* A header is known by what it is about and by whether it is spelt as     *)
(* MailHogPlus spells it, or with other capitals; a value is the names     *)
(* between its separators, and a tag of the user name may be several, as   *)
(* it is parted at colons only.  A user is what is left when the name is   *)
(* decoded and parted.  Go ranges over the headers in any order.           *)
(***************************************************************************)
EXTENDS MessageQuery

Headers == [about : {"folder", "tags", "legacy"}, ours : BOOLEAN]
Orders == {<<TRUE, FALSE>>, <<FALSE, TRUE>>}
-----------------------------------------------------------------------------
(* tagsFromHeaderValues, in session.go and in v2.go *)
TagsIn(headers, about, order) ==
  LET Values(ours) ==
        LET key == [about |-> about, ours |-> ours]
        IN  IF key \in DOMAIN headers THEN FlattenSeq(headers[key]) ELSE <<>>
  IN  Values(order[1]) \o Values(order[2])

(* messageTagsFromHeaders *)
TagsFromHeaders(headers, order) ==
  Sanitize(TagsIn(headers, "tags", order) \o TagsIn(headers, "legacy", order))

(* sanitizeTags: the first of the tags that read the same. *)
SanitizeTags(tags) ==
  LET Read(tag) == [i \in DOMAIN tag |-> Norm[tag[i]]]
      First(i) == \A j \in 1 .. i - 1 : Read(tags[j]) # Read(tags[i])
  IN  Picked(tags, {i \in DOMAIN tags : Read(tags[i]) # <<0>> /\ First(i)})

(* A bug to catch: only a header spelt as ours is replaced. *)
SetHeaderAsSpelt(headers, about, values) ==
  LET key == [about |-> about, ours |-> TRUE]
      kept == DOMAIN headers \ {key}
      set == IF values = <<>> THEN {} ELSE {key}
  IN  [h \in kept \cup set |-> IF h \in set THEN values ELSE headers[h]]

(* setMessageHeaderValues, removeMessageHeader *)
SetHeader(headers, about, values) ==
  LET kept == {h \in DOMAIN headers : h.about # about}
      set == IF values = <<>> THEN {} ELSE {[about |-> about, ours |-> TRUE]}
  IN  [h \in kept \cup set |-> IF h \in set THEN values ELSE headers[h]]

(* setFolderHeader, setTagHeaders *)
SetFolder(headers, folder) ==
  SetHeader(headers, "folder", IF Norm[folder] = 0 THEN <<>> ELSE <<<<folder>>>>)

SetTags(headers, tags) ==
  SetHeader(SetHeader(headers, "tags",
                      IF tags = <<>> THEN <<>> ELSE <<FlattenSeq(tags)>>),
            "legacy", <<>>)

(* acceptMessage, up to the Store. *)
Accepted(headers, user, order) ==
  LET own == TagsFromHeaders(headers, order)
      all == [i \in DOMAIN own |-> <<own[i]>>] \o SanitizeTags(user.tags)
  IN  SetTags(SetFolder(headers, user.folder), SanitizeTags(all))

(* folderFromMessage *)
FolderIn(headers) ==
  LET keys == {h \in DOMAIN headers : h.about = "folder"}
  IN  IF keys = {} THEN "" ELSE headers[CHOOSE h \in keys : TRUE][1][1]

(* The message of a mail that was sent, as the API reads it. *)
Filed(sent) ==
  LET headers == Accepted(sent.headers, sent.user, sent.order)
  IN  [id |-> sent.id, created |-> sent.created, parts |-> sent.parts,
       folder |-> FolderIn(headers),
       tags |-> TagsIn(headers, "tags", sent.order)
                  \o TagsIn(headers, "legacy", sent.order)]

(* A mail as a client sends it, with what its session knows of the sender. *)
IsHeaders(headers) ==
  /\ DOMAIN headers \subseteq Headers
  /\ \A h \in DOMAIN headers : headers[h] \in Seq(Seq(Spellings))

IsSent(sent) ==
  /\ IsHeaders(sent.headers)
  /\ sent.user.folder \in Spellings
  /\ sent.user.tags \in Seq(Seq(Spellings))
  /\ sent.order \in Orders
  /\ IsParts(sent.parts)
-----------------------------------------------------------------------------
(* What the API shows of a mail is what its sender was: the folder of the  *)
(* name it was sent with and no other, and the tags of its headers and of  *)
(* that name, each once, none lost and none invented, however the headers  *)
(* it came with were spelt.  Only a mail sent with no tag at all shows     *)
(* those its text names (v2_test.go:116-144), about which nothing is said  *)
(* here but that each is shown once                                        *)
(* (session.go:146-156, 206-329, v2.go:1102-1237).                         *)
FiledAsSent(sent) ==
  LET Names(seqs) == {Norm[n] : n \in ToSet(FlattenSeq(seqs))} \ {0}
      own == UNION {Names(sent.headers[h]) :
                      h \in {k \in DOMAIN sent.headers : k.about # "folder"}}
      all == own \cup Names(sent.user.tags)
      shown == MessageTags(Filed(sent))
  IN  /\ Norm[Filed(sent).folder] = Norm[sent.user.folder]
      /\ all # {} => {Norm[t] : t \in ToSet(shown)} = all
      /\ \A i, j \in DOMAIN shown : i # j => Norm[shown[i]] # Norm[shown[j]]
=============================================================================
