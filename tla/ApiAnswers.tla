----------------------------- MODULE ApiAnswers ----------------------------
(***************************************************************************)
(* The answers of the API that are computed from what it holds, one        *)
(* request after the other: listings and folders (MessageQuery) of the     *)
(* mail that was filed (MailFiling), the quality of a mail (EmailQuality), *)
(* tests of and releases through an outgoing server (OutgoingSmtp).  A     *)
(* request comes with everything its answer depends on; what changes while *)
(* it runs is in MessageApi and Settings.                                  *)
(***************************************************************************)
EXTENDS MailFiling, EmailQuality, OutgoingSmtp

CONSTANTS
  Paged,     \* two requests for pages and the messages at each of them
  Shown,     \* requests for the folders, with the mails sent before
  Scored,    \* requests for the quality of a mail
  Released   \* releases, with the servers at hand and the relay

(* What the answers are computed from is what its module says it is.       *)
ASSUME AnswersAssumption ==
  /\ \A c \in Paged :
       /\ IsListing(c.before) /\ IsListing(c.after)
       /\ Arrived(ToSet(c.before), ToSet(c.after))
       /\ c.q.order \in {"asc", "desc"} /\ c.limit \in Int
  /\ \A c \in Shown :
       /\ c.sent \in Seq(ToSet(c.sent)) /\ \A sent \in ToSet(c.sent) : IsSent(sent)
       /\ c.defaults \in Seq(Spellings)
  /\ Scored \subseteq Mail
  /\ \A c \in Released :
       /\ DOMAIN c.map \subseteq DOMAIN Trim /\ c.map \in [DOMAIN c.map -> Server]
       /\ c.list \in Seq(Server) /\ c.asked \in Server /\ c.save \in BOOLEAN

VARIABLE asked

Idle == [about |-> "nothing"]

AskPages ==
  asked = Idle /\ \E c \in Paged : asked' = [about |-> "pages", with |-> c]
AskFolders ==
  asked = Idle /\ \E c \in Shown : asked' = [about |-> "folders", with |-> c]
AskQuality ==
  asked = Idle /\ \E m \in Scored : asked' = [about |-> "quality", with |-> m]
AskRelease ==
  asked = Idle /\ \E c \in Released : asked' = [about |-> "release", with |-> c]
Answered == asked # Idle /\ asked' = Idle

Init == asked = Idle

Next == AskPages \/ AskFolders \/ AskQuality \/ AskRelease \/ Answered

Spec == Init /\ [][Next]_asked
-----------------------------------------------------------------------------
(* A client that turns the pages while mail arrives misses none            *)
(* (v2.go:191-223).                                                        *)
PagingMissesNothing ==
  asked.about = "pages" =>
    PagesMissNothing(asked.with.q, asked.with.before, asked.with.after,
                     asked.with.limit)

(* Every mail is filed as it was sent, and the folders shown agree with    *)
(* the listings behind them (session.go:146-156, v2.go:380-398).           *)
FoldersMatchListings ==
  asked.about = "folders" =>
    LET sent == asked.with.sent
        messages == [i \in DOMAIN sent |-> Filed(sent[i])]
    IN  /\ \A i \in DOMAIN sent : FiledAsSent(sent[i])
        /\ FoldersAgree(messages, asked.with.defaults)

(* No mail is graded better than its findings, or worse for a repair       *)
(* (quality.go:42-91).                                                     *)
QualityIsJust == asked.about = "quality" => GradeIsJust(asked.with)

(* What the test of an outgoing server promises, a release keeps           *)
(* (v2.go:482-510, v1.go:261-326).                                         *)
ReleaseKeepsPromise ==
  asked.about = "release" =>
    TestPredictsRelease(asked.with.map, asked.with.list, asked.with.asked,
                        asked.with.save, asked.with.relay)
=============================================================================
