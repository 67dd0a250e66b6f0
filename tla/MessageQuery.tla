---------------------------- MODULE MessageQuery ---------------------------
(***************************************************************************)
(* What GET /api/v2/messages, /search and /folders compute from the        *)
(* messages the storage lists (api/v2.go): filters by folder and tag, the  *)
(* order, the page, and the folders with their counts.                     *)
(*                                                                         *)
(* A name of a folder or tag is one of its spellings; Norm is the place of *)
(* its trimmed lower-case form in the alphabet, 0 for a blank name.  A     *)
(* message is its id, its time, its folder header, the names in its tag    *)
(* headers, and its MIME parts: a function from their paths to their type  *)
(* and to the tags a user name in their text carries.  What the storage    *)
(* itself finds for a search is outside; the rest of a search is the same. *)
(***************************************************************************)
EXTENDS Integers, SequencesExt

CONSTANTS
  Spellings,
  Norm,
  NoTag,         \* the request has no "tag" at all
  DefaultLimit,  \* 50
  MaxLimit       \* 250

ASSUME QueryAssumption ==
  /\ "" \in Spellings
  /\ Norm \in [Spellings -> Nat]
  /\ Norm[""] = 0
  /\ NoTag \notin Spellings
  /\ DefaultLimit \in Nat \ {0}
  /\ MaxLimit \in Nat \ {0}
-----------------------------------------------------------------------------
(* A list in another order: a place comes after the places ahead of it.    *)
Arranged(list, ahead) ==
  [k \in 1 .. Cardinality(DOMAIN ahead) |->
     list[CHOOSE i \in DOMAIN ahead : Cardinality(ahead[i]) = k - 1]]

(* A loop that keeps some of a list: what is at the places, in their order. *)
Picked(list, places) ==
  Arranged(list, [i \in places |-> {j \in places : j < i}])

(* sort.SliceStable *)
Sorted(list, Less(_, _)) ==
  LET Ahead(j, i) ==
        Less(list[j], list[i]) \/ (j < i /\ ~Less(list[i], list[j]))
  IN  Arranged(list, [i \in DOMAIN list |-> {j \in DOMAIN list : Ahead(j, i)}])

(* sanitizeTagNames, sanitizeFolderNames: the first spelling of each name. *)
Sanitize(names) ==
  LET First(i) == \A j \in 1 .. i - 1 : Norm[names[j]] # Norm[names[i]]
  IN  Picked(names, {i \in DOMAIN names : Norm[names[i]] # 0 /\ First(i)})

(* findMessageContentByMIME: the first part of a type, depth first. *)
Before(p, q) ==
  \E i \in DOMAIN q : /\ \A j \in 1 .. i - 1 : j \in DOMAIN p /\ p[j] = q[j]
                      /\ i \in DOMAIN p => p[i] < q[i]

PartsOf(m, mimeType) == {p \in DOMAIN m.parts : m.parts[p].type = mimeType}

FirstPart(m, mimeType) ==
  CHOOSE p \in PartsOf(m, mimeType) :
    \A q \in PartsOf(m, mimeType) : p = q \/ Before(p, q)

(* tagsFromMessageBodyFallback: of the body, the plain and the HTML part,  *)
(* the first whose text names tags.                                        *)
FallbackTags(m) ==
  LET In(mimeType) ==
        IF PartsOf(m, mimeType) = {} THEN <<>>
        ELSE Sanitize(m.parts[FirstPart(m, mimeType)].tags)
      body == Sanitize(m.parts[<<>>].tags)
  IN  IF body # <<>> THEN body
      ELSE IF In("plain") # <<>> THEN In("plain") ELSE In("html")

(* messageTagsFromMessage *)
MessageTags(m) ==
  LET tags == Sanitize(m.tags)
  IN  IF tags # <<>> THEN tags ELSE FallbackTags(m)

FilterByFolder(messages, folder) ==
  Picked(messages, {i \in DOMAIN messages : Norm[messages[i].folder] = Norm[folder]})

HasTag(m, tag) ==
  IF Norm[tag] = 0 THEN MessageTags(m) = <<>>
  ELSE \E i \in DOMAIN MessageTags(m) : Norm[MessageTags(m)[i]] = Norm[tag]

FilterByTag(messages, tag) ==
  Picked(messages, {i \in DOMAIN messages : HasTag(messages[i], tag)})

Earlier(m, n) == m.created < n.created \/ (m.created = n.created /\ m.id < n.id)

(* A bug to catch: messages of one time stay in the order of the storage.  *)
SortByCreatedOnly(messages, order) ==
  Sorted(messages, LAMBDA m, n :
    IF order = "asc" THEN m.created < n.created ELSE m.created > n.created)

(* sortMessagesByCreated: by time, then by id. *)
SortByCreated(messages, order) ==
  Sorted(messages, LAMBDA m, n :
    IF order = "asc" THEN Earlier(m, n) ELSE Earlier(n, m))

(* pageMessages *)
Page(messages, start, limit) ==
  IF start >= Len(messages) THEN <<>>
  ELSE SubSeq(messages, start + 1, Min({start + limit, Len(messages)}))

(* getStartLimit: a number that is missing, wrong or not above 0 is 0. *)
LimitOf(limit) ==
  IF limit > 0 THEN Min({limit, MaxLimit}) ELSE DefaultLimit

(* messages: what is listed, and the page of it that is shown. *)
Listing(messages, q) ==
  LET inFolder == FilterByFolder(messages, q.folder)
  IN  SortByCreated(IF q.tag = NoTag THEN inFolder ELSE FilterByTag(inFolder, q.tag),
                    q.order)

Messages(messages, q, start, limit) ==
  Page(Listing(messages, q), start, LimitOf(limit))

(* folderResults: addFolder *)
AddFolder(items, folder, count) ==
  LET at == SelectInSeq(items, LAMBDA item : Norm[item.name] = Norm[folder])
  IN  IF Norm[folder] = 0 THEN items
      ELSE IF at # 0 THEN [items EXCEPT ![at].count = @ + count]
      ELSE Append(items, [name |-> folder, count |-> count])

(* folderResults: the default folders and those of the messages, by name. *)
FolderResults(messages, defaults) ==
  LET listed == FoldLeft(LAMBDA items, f : AddFolder(items, f, 0), <<>>,
                         Sanitize(defaults))
      counted == FoldLeft(LAMBDA items, m : AddFolder(items, m.folder, 1),
                          listed, messages)
  IN  Sorted(counted, LAMBDA a, b : Norm[a.name] < Norm[b.name])
-----------------------------------------------------------------------------
(* Messages as a storage lists them, in any order, each with an id of its  *)
(* own; what arrives after them is newer.                                  *)
Stamped(M) == \A m \in M : m.created \in Nat /\ m.id \in Nat

IsListing(messages) ==
  /\ messages \in Seq(ToSet(messages))
  /\ Stamped(ToSet(messages))
  /\ \A i, j \in DOMAIN messages : messages[i].id = messages[j].id => i = j

Arrived(M, N) == M \subseteq N /\ \A m \in M, n \in N \ M : Earlier(m, n)

(* The parts of a message: a tree of which the message is the root.        *)
IsParts(parts) ==
  /\ DOMAIN parts \subseteq Seq(Nat)
  /\ IsFiniteSet(DOMAIN parts)
  /\ <<>> \in DOMAIN parts
  /\ \A p \in DOMAIN parts : parts[p].tags \in Seq(Spellings)
-----------------------------------------------------------------------------
(* While mail arrives between two requests for pages, newest or oldest     *)
(* first, the client that asks for the next page misses no message: what   *)
(* it has seen of the messages that were there is the beginning of their   *)
(* list, for any filter, whatever order the storage lists messages of one  *)
(* time in (v2.go:171-223, 1046-1062, 1121-1139, 1257-1299).               *)
PagesMissNothing(q, before, after, limit) ==
  LET full == Listing(before, q)
      seen == ToSet(Messages(before, q, 0, limit))
                \cup ToSet(Messages(after, q, LimitOf(limit), limit))
      again == {i \in DOMAIN full : full[i] \in seen}
  IN  again = 1 .. Cardinality(again) /\
      Cardinality(again) >= Min({LimitOf(limit), Len(full)})

(* The folders and the listings agree: each folder is shown once, in the   *)
(* order of the alphabet, with the number of messages its listing has, and *)
(* every message is in the listing of a folder that is shown or in that of *)
(* no folder (v2.go:380-398, 1064-1119).                                   *)
FoldersAgree(messages, defaults) ==
  LET shown == FolderResults(messages, defaults)
  IN  /\ \A i, j \in DOMAIN shown : i < j => Norm[shown[i].name] < Norm[shown[j].name]
      /\ \A i \in DOMAIN shown :
           shown[i].count = Len(FilterByFolder(messages, shown[i].name))
      /\ \A i \in DOMAIN defaults :
           Norm[defaults[i]] \in {0} \cup {Norm[shown[j].name] : j \in DOMAIN shown}
      /\ \A i \in DOMAIN messages :
           Norm[messages[i].folder] \in
             {0} \cup {Norm[shown[j].name] : j \in DOMAIN shown}
=============================================================================
