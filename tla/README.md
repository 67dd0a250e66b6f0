# MailHogPlus-Server: TLA+ models, model checking and proofs

This directory specifies the Go code of MailHogPlus-Server in TLA+. TLC checks
the specifications on small instances, and TLAPS proves the most important
invariants for every value of the constants. Paths such as `api/v2.go:732` are
relative to `src/`.

1. [The system](#1-the-system)
2. [Modules and the code they model](#2-modules-and-the-code-they-model)
3. [Runs, bounds and what they show](#3-runs-bounds-and-what-they-show)
4. [Fairness](#4-fairness)
5. [Proofs](#5-proofs)
6. [Where the code and its promises part](#6-where-the-code-and-its-promises-part)
7. [What is not modelled](#7-what-is-not-modelled)
8. [Plan](#8-plan)

## 1. The system

MailHogPlus is an SMTP server for tests: it accepts all mail, keeps it for some
days, and shows it in a web interface. One process runs an SMTP listener with a
goroutine per session, an HTTP server with a goroutine per request, a
dispatcher, two loops that feed the live interfaces, a WebSocket hub and a
retention ticker. They share one `Config`, one message store and some channels.

| Component (source) | State | Operations | Interacts with |
|---|---|---|---|
| Managed storage (`config/managed_storage.go`) | the backend, an in-memory cache of a maildir, `retentionDays`, `lastRetentionSweep`, all under one mutex | Store, List, Search, Count, Load, DeleteOne, DeleteAll, SetRetentionDays, ApplyRetention, the rebuild of the cache | sessions store; handlers read and delete; ticker and handlers sweep |
| Message API (`api/v1.go`, `api/v2.go`) | one request per goroutine | list, search, folders, delete one, all or filtered, existing-ids, download, release | several calls to the storage per request |
| Settings (`config/config.go`, `api/v2.go:711`) | the fields of `Config`, the settings file, `settingsMu` | PUT settings, SaveSettings, loadSettings, Configure | the storage's retention period; sessions read the policy; a release adds a server |
| SMTP session (`smtp/session.go`) | the state of the dialogue, `authenticatedUsername` | verb filter, AUTH, MAIL, RCPT, end of data, read and write | policy of `Config`, storage, `messageChan`, chaos monkey |
| Delivery (`api/api.go`, loops of `api/v1.go`, `api/v2.go`) | three unbuffered channels, the message each goroutine has in hand | dispatch, Notify, keepalive, Broadcast | from the sessions to event stream and hub |
| WebSocket hub (`websockets/`) | the map of connections, a buffered channel and two goroutines per connection | register, unregister, broadcast, readLoop, writeLoop | apiv2's loop; browsers |
| Log (`main.go`, `api/v2.go:791-920`) | the log file, the buffer of the filtering writer | write, rotate at the start, tail, clear | every `log.Printf`; handlers of the log API |
| Chaos monkey (`monkey/`, `api/v2.go:400-472`) | `Config.Monkey` (at work), `config.Jim` (to be invited) | create, read, update, delete; Accept, ValidAUTH and friends | listener and sessions |
| SMTP listener (`smtp/smtp.go`) | the connection in hand | accept, ask the monkey, start a session | monkey, sessions |
| Message queries (`api/v2.go`, `smtp/session.go`) | none; the headers of a mail | file a mail under folder and tags; filter, count, sort, page | sessions write what handlers read |
| Email quality (`emailquality/quality.go`) | none | score of a message | a handler |
| Outgoing SMTP and release (`api/v1.go`, `api/v2.go`, `config/config.go`) | the map of servers | normalise, save, test, release through a relay | settings |
| Process start (`main.go`) | none | flags and wiring | all |

What is hard about it, with the properties that make each part correct:

- **Storage.** Two stores hold the same messages and either can fail alone; a
  process can die inside a bulk delete or a sweep; sweeps are throttled to one
  a minute while messages grow old and the period changes. Correct means:
  nothing stored is hidden, nothing deleted comes back, a sweep on record left
  nothing outdated, and outdated mail goes in the end.
- **Message API.** A handler calls Count, List and DeleteOne one by one while
  mail arrives and others delete. Correct means: a purge that answers 200 is
  complete and its count is true, existing-ids denies no live message, a
  listing is fresh, and every request is answered.
- **Settings.** The fields are assigned one by one without a lock and saved
  under one. Correct means: the file is what the memory was, the storage
  applies the period that the file holds, and a restart finds what was saved.
- **Session.** The policy changes between AUTH, MAIL and the final dot, and the
  client chooses the order of its lines. Correct means: under the forced policy
  mail goes to listed folders only, a folder is that of an accepted name, and
  250 means stored.
- **Delivery and hub.** Unbuffered channels in a row, receivers that stall,
  connections that are dropped by two goroutines at once. Correct means: both
  interfaces show all mail in one order, a bounded number of messages is in
  flight, no channel is closed twice, and no dead or slow connection is kept or
  holds up the rest.
- **Listener and monkey.** `Config.Monkey` and `config.Jim` are read and
  written by goroutines without a lock; the listener reads `Config.Monkey` three
  times for one connection. Correct means: a monkey who was dismissed stays
  away until he is invited, nothing he does weakens what the sessions promise,
  and the ways to kill the listener are known.
- **Queries.** A header is written by one function and read by another, names
  are compared without their case in some places and as they are in others, and
  pages are cut from a list that changes. Correct means: a mail is shown as it
  was sent, folders agree with listings, and paging skips no message.
- **Quality.** Thresholds, a clamp, doubles that are rounded. Correct means: no
  mail with a critical issue is Green, and a repair never lowers the score.
- **Outgoing servers.** Three normalisations and a chain of network steps, each
  of which may fail. Correct means: a server is normal once it was normalised,
  one that passed its test can release, and 200 and 400 tell the truth.
- **Log.** A write that fails is tried again with the next one, the file is
  cleared under a reader, and the process restarts with a buffer that is lost.
  Correct means: no line about mail is lost or doubled, and a tail shows the
  last lines in their order.

`PROJECT.json` lists every hazard at its line with the properties that cover it.

## 2. Modules and the code they model

An action is a whole method or, where a goroutine can be overtaken in the
middle of a handler, one step of it: the code between two accesses to state
that others use. Actions keep the names of the code. `PROJECT.json` ("map")
gives the lines of every definition. An operator that is commented "A bug to
catch" is a mutation of the definition that follows it; no specification uses
it, and the runs' properties are violated when it takes that definition's
place.

**Mailbox** is the abstract promise of the store to its readers: mail arrives,
mail goes, and what has gone never comes back. `ManagedStorage` implements it
with `box <- View` and `gone <- known \ View`.

**ManagedStorage** has one action per method, since every method holds `m.mu`
from its first to its last line. `base` and `cache` are sets of ids, `View` is
what a reader sees. The ways a method can fail are disjuncts of its action: the
backend refuses, the cache fails after the backend succeeded (logged only), a
`DeleteAll` of the backend removes some and then fails, a sweep stops at the
first message the backend will not delete. The parameters `BaseFaults` and
`CacheFaults` say which calls may fail. `Restart` is a death at any point,
inside a bulk delete or a sweep as well (then less is left in the backend),
followed by `NewManagedStorage` with the rebuild of the cache; `StartupSweep` is
what `Configure` does before anything is served. A tick of the clock is a
minute; the tests use a day of one tick so that messages grow old within the
bound.

**MessageApi** extends it with handlers: `SweepFirst`, `CountMessages`,
`ListMessages`, `PurgeOne`, `CheckOne` and `Answer` are the calls of the
handlers of `api/v2.go` to the storage, and everything else goes on between
them. A request names the messages its folder and tag filter selects by their
set. `total` is the Count that List and Search get as their limit, so that mail
that arrives in between can push a listed message off the page. A handler that
panics because List failed is an answer of its own (net/http recovers).

**SmtpSession** has one action per line of the client and one for each of the
two assignments of the settings handler to the policy. The dialogue (`state`)
is the library mailhog/smtp, modelled from the handlers `session.go` installs:
AUTH and MAIL only when the library allows them. The history variables
`lenient` and `offered` record what the policy was during the session.
`IsFolderAllowed` reads two fields without a lock; it is one step here, and the
property speaks of the policies of the whole session, for which a read
that mixes two of them adds nothing.

**SmtpServer** extends it with the listener and with `/api/v2/jim`. `Accept`,
`AskMonkey` and `StartSession` are the three reads of `Config.Monkey`;
`Invite`, `Decode`, `Replace` and `Dismiss` are the unlocked accesses of the
handlers, any number of which may overlap. A monkey is a model value with a set
of commands he always refuses and a flag that says whether he may refuse a
connection (chances of 1, between, and 0). A session keeps the monkey it was
started with. The module is shown to implement `SmtpSession`
(`ServerRefinesSession`), so that what is proved of sessions holds of the
server.

**MessageQuery**, **MailFiling**, **EmailQuality** and **OutgoingSmtp** hold the
functions that have no state of their own, as operators over what they are
given. A loop that keeps some of a list is the choice of its places (`Picked`),
and a stable sort gives each place its rank (`Sorted`). *MessageQuery*: filters, the search for tags in a mail's MIME parts
(depth first), folder counts, sorting, limits and pages. *MailFiling*: the
headers `acceptMessage` writes, from those a mail comes with and the name it was
sent with, and how the API reads them; a header's spelling and Go's order over
a map are inputs. *EmailQuality*: the rules, what they deduct, the clamp and the
rounding. A score is in hundredths; of the scores that end in half a tenth,
`HalvesUp` are those that the doubles of `quality.go`, added in its order, bring
to the half or above it (two warnings and a hint, 7.95, are rounded up to 8.0
and are Green), and the others fall below it. *OutgoingSmtp*: the
normalisation of a map, of a list and of a test's body, and a connection to a
relay that fails at any one step. What a property there compares with is not the
function itself: filing with what the sender sent, folder counts with the
listings, a test with a release, a mail with the same mail repaired.

**ApiAnswers** asks them, one request at a time, with inputs from its constants.
What these may be is described next to the operators (`IsListing`, `Arrived`,
`IsParts`, `IsHeaders`, `IsSent`, `Server`) and assumed by name.

**Delivery** is the way of a message through `messageChan`, the dispatcher, the
two loops, the event stream (the library goose) and the hub. A send on an
unbuffered channel and its receive are one step. `stalled` is a receiver of the
event stream whose connection accepts no more bytes.

**WebSocketHub** has the hub's select, its range loop one connection at a time,
and the reader and writer goroutine of each connection. The runtime panics of
`close` and of a send on a closed channel set `panicked`. Deadlines are not
timed: a read or a write may fail at any time.

**Settings** takes `updateSettings` apart into its assignments, its call to the
storage, its sweep, and `SaveSettings` with the lock, the copy of the fields,
the truncation and the writing of the file. A crash may come between any two of
them. The servers are a map from names to servers, in the terms of
`OutgoingSmtp`. `ReleaseSave` is `release_one` with "Save": it puts a server into
the map as it is spelt, under any name, with or without a host and a port. A
save writes what `SanitizeOutgoingSMTPMap` makes of the map and leaves the map in
memory as it is (`Sanitized`): invalid servers are dropped, names are trimmed,
mechanisms spelt as they are used, and of two names that are one when trimmed
either server is kept, as Go ranges over the map. `LoadSettings` and `Configured`
normalise once more, at the places where the code does. A start, the first one
too, may be given a file of outgoing servers, which take the place of those that
were saved. `Email` and `Save` of a server are left out. The two fields
of the policy are one field here; `SmtpSession` has them apart. A data race of Go between handlers (the map of servers,
`api/v1.go:291`) may stop the process: that is a `Crash`.

**MailLog** has `splitLogWriter` and `mailEventLogWriter` line by line, with
writes that fail and may leave a fragment in the file, `configureLogging` with
the rotation, and the handlers that tail and clear the file while the logger
appends to it. A tail reads line by line, and the ring of `tailLogLines` is
kept index by index.

`MC*` modules give the constants of the runs; `*Proofs` modules hold the
theorems. `MessageApiProofs` has those of `ManagedStorage` as well,
`SmtpServerProofs` those of `SmtpSession`, and `ApiAnswersProofs` those of
`MessageQuery`, `MailFiling` and `EmailQuality`; `OutgoingSmtpProofs` has the lemmas
about outgoing servers that both `SettingsProofs` and `ApiAnswersProofs` build on.

## 3. Runs, bounds and what they show

| Run | Shows | Bounds |
|---|---|---|
| `storage_clean` | with no failure cache and maildir agree (`CacheAgrees`) and every outdated message goes in the end (`RetentionApplied`), through deletes, changes of the period, restarts | 2 messages, time 0..4, periods invalid, 1, 2 |
| `storage_base_faults` | with every method of the backend failing at will: `NothingHidden`, `DeletedStaysDeleted`, `SweptIsClean`, and the refinement of `Mailbox` (`NeverComesBack`) | 3 messages, time 0..4, throttle of 2 ticks |
| `retention_wedge` | finding: see section 6 | 2 messages, only `DeleteAll` fails |
| `api_races` | two purges or existing-ids requests racing: `CountedOnce`, `PurgeComplete`, `LiveIsReported` | 2 handlers, 2 messages, time 0..2 |
| `api_requests` | one request of any kind while List, Store, DeleteOne fail: `ApiTypeOK`, `ListingFresh`, `RequestsAnswered` | 1 handler, 2 messages, time 0..3 |
| `hub` | `NoPanic`, `NoGaps`, `WrittenInOrder`, `LeavesNothingBehind`, `BroadcastReturns` | 2 connections, buffer of 1, 2 broadcasts |
| `smtp_server` | sessions under listener and monkey: `ForcedMeansListed`, `FolderIsGranted`, `QueuedIsStored`, and `ChaosOnlyWhenInvited` | 1 session of 2 mails, 3 names, 2 folders, 2 lists, 2 Jims, 3 requests about them, 2 at a time |
| `api_answers` | `PagingMissesNothing`, `FoldersMatchListings`, `QualityIsJust`, `ReleaseKeepsPromise` | see below |
| `delivery` | `StreamsAgree`, `InFlightBounded`, `EverythingArrives` | 4 messages |
| `settings_saved` | `FileIsMemory`, `SavedSettingsSurvive`, `PutsAnswered` | 2 requests at a time of 4 kinds, 2 servers saved by releases, 1 crash, starts with and without a file of servers |
| `settings_divergence` | finding: see section 6 | as above, no crash |
| `mail_log` | `NoEventLost`, `TailIsLast`, `TailInOrder` | 4 lines of 3 kinds, 1 tail of 1 or 2 lines, 2 starts |

Every passing run also checks the type invariant of its module, or shares it
with another run of the module.

Why the bounds are enough. In the storage a failure concerns one message, the
ones before it in the order of the list and the ones behind it: three messages
have one of each. Time 4 with a period of 1 or 2 and a throttle of 2 lets a
message expire, a sweep be throttled, and the period change in between. In the
API two handlers are enough for every race of a purge with itself or with
another request, since handlers share nothing but the storage; single deletes,
bulk deletes, sweeps and arrivals run besides. `api_races` has no failing call
(a failure ends a purge with 500 and its properties speak of answers 200);
`api_requests` has them. The hub's connections are independent but for the
range loop, which needs two: one that is visited and one that leaves meanwhile;
a buffer of one is full after one message, and the second broadcast meets it.
The proofs cover any number. Sessions share the policy and the monkey only, which
change at any moment, so one session sees what many would; two mails have
one before and one after each change of policy or name, and the proofs
cover any number. Two requests about Jim overlap at every pair of steps, and a
third one meets what they left. The pipeline of the delivery
holds three messages; the fourth waits in its session. Two settings requests
at a time are every interleaving of two assignments and two saves; there may be
any number one after the other, and the crash may come at each step. Of the
servers of `settings_saved` a request lists three, one twice under names that are
one when trimmed and one without a port; of the two that releases save, one has
no port, which the next save drops, and the other has to be trimmed, loses its
account (a mechanism that is none of PLAIN and CRAMMD5), and meets a server of the
same name; the file given at a start holds one that is invalid. A ring of two
lines is overwritten twice by four lines, so it is full, past full and turned. `api_answers` runs over up to three
of five messages of two times, in every order the storage may list them, with up
to two that arrive between two pages of one or two (limit missing, below and above
the maximum of two); up to three of six mails that spell and split folder and tag
headers in every way; every combination of findings around each threshold of
`quality.go` that the HTML and the text of a mail allow; and maps and lists of up
to two of six servers, which need every rule of normalisation, with a relay that
fails at any of thirteen steps or at none.

`CHECK_DEADLOCK FALSE` stands in two configurations: in `hub.cfg`, since after
the last broadcast and with both connections gone the bounded system stops, and
in `smtp_server.cfg`, since a listener that asks a monkey who is gone kills the
process.

`api_races` uses the symmetry of its handlers; it has no liveness property.

## 4. Fairness

Goroutines that can run are scheduled, hence weak fairness of the steps of a
handler, a loop or a writer. Beyond that:

- `ManagedStorage`: the ticker of `api/api.go:26` calls `ApplyRetention` every
  minute, and `Configure` always calls it at the start, hence weak fairness of
  both. Nothing makes a client delete or a process restart.
- `WebSocketHub`: Go's select takes a ready case at random, and a channel
  serves the senders that wait in turn, hence strong fairness of the hub's
  receives. A writer with a dead peer fails in the end (`writeWait`, ping), and
  so does a reader (`pongWait`): weak fairness of `StopWriting` and
  `StopReading` when the peer or the socket is gone, and only then. Nothing
  makes a peer read or leave.
- `Delivery`: a receiver that stalls reads again or is cut off in the end
  (TCP gives up); without it `EverythingArrives` is false, since the code
  sets no deadline on the event stream: one browser that stops reading and
  keeps its connection holds up all delivery and every session. Keepalives
  cannot starve messages: a channel serves its senders in turn.
- `Settings`: `sync.RWMutex` hands the lock to those who wait in turn, hence
  strong fairness of a handler's steps.
- `SmtpServer`, `MailLog` and `ApiAnswers` state safety only.

## 5. Proofs

All proofs are for every value of the constants that the named assumptions
allow; TLC evaluates the assumptions in the runs.

**MessageApiProofs, on `ManagedStorage`.** `TypeCorrect` (an inductive invariant
as it stands: in particular the retention period in force is positive),
`ListingIsComplete`
(`NothingHidden`), `CacheAndBaseAgree` (`CacheAgrees`), `DeletionIsFinal`
(`DeletedStaysDeleted`), `SweepsAreSound` (`SweptIsClean`) and
`StorageImplementsMailbox` (`NeverComesBack`). All but the first and
`SweepsAreSound` assume `CacheReliable`, that no call to the in-memory cache
fails: with a cache that fails they are false, since the code logs such a
failure and goes on; the cache is the library's in-memory storage, which
reports an error for an unknown id only. `NothingHidden` is inductive by itself
with the types: whatever fails in the backend, a method changes base first and
the cache afterwards by the same messages. `CacheAgrees` holds as long as a
DeleteAll of the backend removes all or nothing (`DeleteAllIsWhole`): that is
the one failure that parts the two, and section 6 says what follows.
`DeletedStaysDeleted` needs that only `Store` adds to what can be loaded, and
that it never takes an id twice. `SweptIsClean` needs the cutoff to be
monotone: a message stored after the sweep is younger than the sweep's cutoff,
and a new period forgets the sweep. The refinement has one step per action:
each one is a `Deliver`, a `Discard` or a stutter of `Mailbox`.

**MessageApiProofs, on `MessageApi`.** All five safety properties of
`MessageApi`, for any number of handlers over any finite set of messages (`FinitelyMany`: they are counted):
`RequestsStayInScope` (`ApiTypeOK`), `NoMessageIsCountedTwice` (`CountedOnce`),
`NoLiveMessageIsDenied` (`LiveIsReported`), `PurgesAreComplete`
(`PurgeComplete`) and `ListingsAreFresh` (`ListingFresh`). The argument is one
invariant per handler and two lemmas: what a handler knows survives any step of
the others (`Bystander...`), and its own steps keep it. What makes the first
true is that while the process lives nothing known comes back
(`OnlyNewMailAppears`): a purge's count lies outside the base for good
(`Removed`), a live id is found or still to be looked up (`LiveInSight`). For a
purge, the Count is an upper bound of what List has to return until mail
arrives, and then what it is to delete is in its hand (`NothingEscapes`). For a
listing, a sweep on record leaves nothing outdated in the listing
(`ListedIsClean`), and mail that arrives after the sweep is younger than the
request's horizon (`FoundFresh`). `PurgesAreComplete` and `ListingsAreFresh`
assume `CacheDeletes` (the cache's DeleteOne does not fail; its other methods and
all of the backend's may), and the latter that the sweep interval is not zero.

The handlers add no way to reach the storage but its methods:
`ApiUsesStorage` says that every behaviour of `ApiSpec` is, for the variables of
the storage, one of `Init /\ [][Next]_vars` of `ManagedStorage` (its fairness is
not implied: it is the ticker's, which `ApiSpec` does not state). With it the
steps proved of the storage are steps proved of the whole, and
`ApiHidesNothing`, `ApiDeletionIsFinal`, `ApiSweepsAreSound` and
`ApiImplementsMailbox` state the storage's promises with any number of requests
at work, under the same condition on the cache as above.

**WebSocketHubProofs.** `TypeCorrect`, `HubNeverPanics` (`NoPanic`),
`NothingIsMissed` (`NoGaps`) and `NothingIsSkipped` (`WrittenInOrder`).
`NoPanic` is not inductive; `OpenWhileRegistered` is what it needs: the range
loop is over registered connections, a registered connection has an open
channel and a reader that has not left, and a connection that is not yet
registered has an open channel. For the order of messages, `Ordered` numbers
what is in the socket, in the writer's hand and in the buffer index by index:
they continue each other, and while a connection is registered they are as many
as it was offered; one that is dropped keeps the order of what is left.

**DeliveryProofs.** `TypeCorrect`, `InterfacesAgree` (`StreamsAgree`) and
`PipelineIsShort` (`InFlightBounded`). The invariant counts: what was taken is
what is on an interface plus what the dispatcher and that interface's loop hold
for it (`OnItsWay`), each of them at its place in the log (`InPlace`), and each
taken once (`TakenOnce`). Lengths and order follow.

**SettingsProofs.** `TypeCorrect`, `SavesNeverOvertake` (`FileIsMemory`) and
`SettingsSurvive` (`SavedSettingsSurvive`), for any requests and any number of
crashes. `FileIsMemory` speaks of the moments when nobody is busy; what holds in
between is `SnapshotIsMemory`: once all that was assigned is in a snapshot, the
file is a normal form of the memory or the handler with the lock is about to make
it one. `KeptInFile` says what a crash leaves behind. Both are about any
servers, lists and maps. That a start finds what the file holds, though it
normalises it up to twice more, rests on the lemmas of `OutgoingSmtpProofs`: what
normalising leaves is normal (`NormalizedIsNormal`, `SanitizedIsNormal`,
`ListedIsNormal`), and a normal map is left alone (`NormalMapStays`), whichever of
two servers was kept. `SettingsAssumption` asks that the servers there are
(`Servers`) be closed under normalising, which the set of all servers is.

**SmtpServerProofs, on `SmtpSession`.** `TypeCorrect`, `ForcedSessionsAreConfined`,
`FoldersAreGranted` and `AnswersAreTrue`. The strengthening relates the
*user* of a session to the policy before any mail is stored: the user is one
that was granted, and while the policy was never off its folder, if any, was
listed (`PolicyKept`), so that a mail that is filed later can go nowhere else;
`MailsKept` holds the same of the mails that are stored.

**SmtpServerProofs, on `SmtpServer`.** `ServerRefinesSession`: `ServerSpec => Spec` of
`SmtpSession`, with the identity as refinement mapping, since the server adds
variables and leaves the sessions' own. Each step of a session that the monkey
allows is one of the session's steps, `StartSession` is its `Connect`, for which
the type invariant is needed (a connection in hand belongs to a session that has
not begun), and the listener's and the handlers' steps are stutters. From it
`ServerConfinesForced`, `ServerGrantsFolders` and `ServerAnswersTrue` carry the
three theorems over. `ServerTypeCorrect` (`ServerTypeOK`) and
`JimComesWhenInvited` (`ChaosOnlyWhenInvited`) need one fact more: while no
request that may bring Jim back was under way at his dismissal, none is
until he is invited; and a listener that has tested and not yet asked has a
monkey, or was hurried by a dismissal.

**MailLogProofs.** `TypeCorrect`, `NothingIsLost` (`NoEventLost`),
`TailsShowTheLast` (`TailIsLast`) and `TailsAreInOrder` (`TailInOrder`), for any
kinds of lines, number of tails and size of ring. The numbers of the lines carry
the argument. `Sound` says of the writer that they increase in the file, in the
buffer and in what is expected, that all of the file is older than all of the
buffer, and that the rest of what is expected is what the buffer holds; a line
that is written is therefore the next one expected. `Ahead` says that what a tail
has scanned is older than what it has still to read and than the buffer,
wherever a clear has left it: hence no line twice. `RingHolds` gives for each
slot of a ring the place, in what was scanned, of the line it holds: the older the
slot the earlier the place, and a line that matches and is in no slot is earlier
than all of them, in a ring that is past full. Pushing a line keeps this
(`PushHolds`), and reading the ring from its index on gives the last lines in
their order (`RingShows`).

**ApiAnswersProofs**, with **OutgoingSmtpProofs.** `PagesAreComplete`
(`PagingMissesNothing`), `MailIsFiledAsSent` (`FoldersMatchListings`),
`QualityIsFair` (`QualityIsJust`) and `ReleasesKeepPromises`
(`ReleaseKeepsPromise`), for any messages, mails, names, servers and relays. The
behaviour is one request after the other, so that the invariant is short
(`Requested`: what is asked is one of the requests); the work is in the lemmas
about the operators. What they take for granted of their inputs is
`AnswersAssumption`, which TLC evaluates on those of the run: a storage lists each
message once, with a time and an id; what arrives between two pages comes after
what was there by time, or at one time by id; a mail has a tree of parts and
headers that are lists of names; servers are records of the right fields. The
second of these is not quite the code's: ids are random, so that of two mails
with the same time the later one may come first in the order, and a page may
then repeat or skip one of that instant; nothing in the repository promises
otherwise.

- *Paging.* A list that is sorted or filtered is given by the rank of each of its
  places (`Arranged`), and ranks in a finite total order without gaps are all
  numbers up to its size (`RanksAreAll`). Time and id order messages totally
  (`OrderedIsTotal`), so a listing is sorted (`ListingIsSorted`), what arrives
  moves all of it by one number of places (`ArrivalsShift`), and the two pages
  overlap or meet (`NothingIsMissed`). With time alone the order is not total,
  and the mutant of this property, which sorts so, skips a message.
- *Folders.* The loops over defaults and messages are folds. The induction
  theorems of the library take an operator and cannot be used; instead each
  induction is over a set of numbers, by the least number outside it
  (`LeastExists`, `SuccessorsReachAll`), after the recursion inside `FoldLeft` and
  `FlattenSeq` was shown to exist (`FoldExists`, `FlatteningExists`).
  `AddedFolderCounts` is one round of the loop; what it keeps is that names are
  distinct and that a count is the number of messages visited so far
  (`AddingAllCounts`); sorting moves the results and no more (`FoldersInOrder`).
- *Filing.* What one function writes the other reads: removing a header and
  setting it leaves one of it (`SetHeaderSets`), reading tags finds a name once
  for all its spellings (`SanitizedTagsReadAll`, `TagsInRead`), whatever the order
  in which Go ranges over the headers (`MailIsFiled`). That a text is
  searched in the first part of a type needs that depth-first order on the paths of
  a tree is total and transitive (`BeforeIsTotal`, `BeforeIsTransitive`).
- *Grades.* A repair trades findings for fewer or cheaper ones (`RepairsLighten`);
  a deduction that is not larger, clamped and rounded, gives no lower score
  whichever halves are rounded up (`RoundingKeepsOrder`, `LighterIsBetter`).
- *Releases.* Normalising is idempotent (`NormalizedIsNormal`, `NormalStays`), a
  normal server is connected to as its test was (`NormalTests`), and so is one
  that was tested, or used by a release, before it was normalised (`TestedIsKept`,
  `UsedIsKept`): test, release and save read a mechanism in three ways that agree
  where the first two succeed. `ReleasesAreTrue` goes through the answers of
  `release_one`.

With these every invariant and every action property that a passing run checks
is proved. Only model-checked are the liveness properties (`RetentionApplied`,
`RequestsAnswered`, `LeavesNothingBehind`, `BroadcastReturns`,
`EverythingArrives`, `PutsAnswered`), which are out of the prover's reach, and the
two violations of section 6.

## 6. Where the code and its promises part

- **A failed DeleteAll wedges retention** (`retention_wedge`,
  `config/managed_storage.go:102-107, 180-181`). When the backend's DeleteAll
  removes some files and then fails, the method returns before the cache is
  touched. The cache still lists messages the backend has lost; every sweep
  comes to the first of them that is outdated, the backend fails to delete it,
  and the sweep returns. Messages behind it stay for ever, until a restart
  rebuilds the cache.
- **Two settings requests part the file from the storage**
  (`settings_divergence`, `api/v2.go:732-734`). `Config.RetentionDays` and the
  period of the storage are assigned in two steps. Two requests that overlap
  leave one period in `Config` and in the file and the other one in force until
  the next start.

Modelled, and no disagreement with anything the repository says: the settings
file is rewritten in place (`config/config.go:215`), and a process that dies after
it was emptied starts with its flags (`SavedSettingsSurvive` speaks of crashes
while nothing is being saved); a Jim who is dismissed between the listener's test
and its question kills the process (`hurried` in `ChaosOnlyWhenInvited`), and one
who is dismissed while another request replaces him is back at work; a settings
request that is refused for its storage type, or whose sweep failed, has
already changed the retention period in memory, and the next request that
succeeds saves it; a server that a release saves is in memory only until the
next settings request that succeeds, and the save then writes its normal form
without a word: one without a name, a host or a port is missing after the next
start, and one whose name is another's when trimmed may take its place
(`api/v1.go:291`, `config/config.go:209`, `FileIsMemory` states this exactly, and
the only promise the code makes is the log line "Saved server with name");
a filtered delete that fails half-way answers 500 with the
first messages gone; the log that is rotated is removed at once.

## 7. What is not modelled

- `main.go`'s flags and wiring, `GET /api/v2/jim`, static assets, CORS, templates:
  no state, or state that is covered where it is used.
- The speed of a monkey's links (`monkey/jim.go`, LinkSpeed): it delays bytes
  and changes nothing else; any delay is an interleaving here.
- Which messages a search finds: the library's storage decides.
- What the regular expressions of `quality.go` and the HTML tokenizer find in a
  text: their findings are inputs of `EmailQuality`.
- The reads of one message, its download and its MIME parts, and the
  bytes a release sends: functions of one immutable message, without a
  property worth more than their code.
- What becomes of rotated log files, and refusals that change nothing.
- The libraries (mailhog/smtp, mailhog/storage, goose, gorilla/websocket) are
  modelled only as far as this code uses them.
- Deletion of the log by another process, and lines of different lengths in a
  file that is cleared while it is read.

## 8. Plan

Order of work, most important behaviour first:

1. Storage, its abstract mailbox and its proofs; the concurrent API on top. Done.
2. Hub, session, delivery, settings, log, each with its runs. Done.
3. Proofs of every safety property of the modules of 1 and 2. Done.
4. The chaos monkey and the listener, composed with the sessions, and the
   refinement that carries the sessions' theorems over. Done.
5. The pure functions, checked against what they promise. Done.
6. Proofs about the pure functions, and the API composed with the storage, so
   that the storage's promises hold under any requests. Done.
7. The servers of `Settings` in the terms of `OutgoingSmtp`: what a release saves,
   what a save makes of it, and what a start finds. Done.
8. Left: two sessions in `smtp_server`, which the proofs cover and the run
   does not; an abstract specification of the live interfaces (one log, two
   readers) that `Delivery` and `WebSocketHub` both implement.
