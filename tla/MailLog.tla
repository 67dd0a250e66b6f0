------------------------------ MODULE MailLog ------------------------------
(***************************************************************************)
(* The mail log: the writer that keeps the lines about mail (main.go), the *)
(* start of the process that rotates and opens the file, and the handlers  *)
(* of api/v2.go that show the last lines and clear the file.               *)
(*                                                                         *)
(* A line is its number and its kind.  The standard logger calls Write for *)
(* one line at a time.  A failing write may leave a fragment of its line   *)
(* at the end of the file, too short to match a query; it and the line     *)
(* that is written next are one line of the file.  All lines are of one    *)
(* length, and a read ends at the end of a line.                           *)
(***************************************************************************)
EXTENDS Integers, Sequences

CONSTANTS
  Kinds,         \* what lines are about
  Mail,          \* the kinds shouldPersistMailLogLine keeps
  Everything,    \* the query that is empty
  Queries,       \* what a tail asks for: Everything or a kind
  LineCounts,    \* how many lines a tail asks for
  Tails,         \* the goroutines that serve GET /api/v2/logs
  StdoutMayFail,
  FileMayFail,
  MaxLogged,     \* bounds the lines that are logged
  MaxStarts      \* bounds the starts of the process

ASSUME LogAssumption ==
  /\ Mail \subseteq Kinds
  /\ Everything \notin Kinds
  /\ Queries \subseteq Kinds \cup {Everything}
  /\ LineCounts \subseteq Nat \ {0}
  /\ StdoutMayFail \in BOOLEAN /\ FileMayFail \in BOOLEAN
  /\ MaxLogged \in Nat /\ MaxStarts \in Nat

VARIABLES
  starts,   \* how often the process was started
  attached, \* the logger writes to the file
  exists,   \* there is a log file
  file,     \* its lines
  ragged,   \* it ends in a fragment of a line
  buf,      \* mailEventLogWriter.buf
  writing,  \* Write is on its way through buf
  logged,   \* how many lines were logged
  expected, \* history: the lines about mail that the file and buf must hold
  tail,     \* for each tail: where it is, what it was asked and has read
  seen,     \* history: the lines it has scanned
  opened,   \* history: how long the file was when it was opened
  cleared   \* history: the file was cleared since

fileVars == <<exists, file, ragged>>
writerVars == <<attached, buf, writing, logged>>
tailVars == <<tail, seen, opened, cleared>>
vars == <<starts, fileVars, writerVars, expected, tailVars>>

Lines == [id : Nat, kind : Kinds]
Fragment == [id |-> 0, kind |-> Everything]
NoTail == [at |-> "idle"]

ShouldPersist(line) == line.kind \in Mail
Matches(query, line) == query = Everything \/ line.kind = query
-----------------------------------------------------------------------------
(* splitLogWriter.Write: a line that stdout refuses goes no further; else  *)
(* the file's writer takes it.                                             *)
Log(kind) ==
  /\ starts > 0 /\ ~writing
  /\ logged < MaxLogged
  /\ logged' = logged + 1
  /\ \/ /\ attached
        /\ buf' = Append(buf, [id |-> logged', kind |-> kind])
        /\ writing' = TRUE
        /\ expected' = IF kind \in Mail
                       THEN Append(expected, [id |-> logged', kind |-> kind])
                       ELSE expected
     \/ /\ ~attached \/ StdoutMayFail
        /\ UNCHANGED <<buf, writing, expected>>
  /\ UNCHANGED <<starts, attached, fileVars, tailVars>>

(* A bug to catch: every line is written. *)
SkipPersisting ==
  /\ writing /\ buf # <<>>
  /\ ~ShouldPersist(Head(buf))
  /\ file' = Append(file, Head(buf))
  /\ ragged' = FALSE
  /\ buf' = Tail(buf)
  /\ UNCHANGED <<starts, attached, writing, logged, exists, expected, tailVars>>

(* mailEventLogWriter.Write: a line not about mail is skipped ... *)
Skip ==
  /\ writing /\ buf # <<>>
  /\ ~ShouldPersist(Head(buf))
  /\ buf' = Tail(buf)
  /\ UNCHANGED <<starts, attached, writing, logged, fileVars, expected,
                 tailVars>>

(* A bug to catch: the line stays in the buffer after it was written. *)
PersistKeeping ==
  /\ writing /\ buf # <<>>
  /\ ShouldPersist(Head(buf))
  /\ file' = Append(file, Head(buf))
  /\ ragged' = FALSE
  /\ \/ buf' = Tail(buf)
     \/ Len(file) < MaxLogged /\ UNCHANGED buf
  /\ UNCHANGED <<starts, attached, writing, logged, exists, expected, tailVars>>

(* ... a line about mail is written and leaves the buffer ... *)
Persist ==
  /\ writing /\ buf # <<>>
  /\ ShouldPersist(Head(buf))
  /\ file' = Append(file, Head(buf))
  /\ ragged' = FALSE
  /\ buf' = Tail(buf)
  /\ UNCHANGED <<starts, attached, writing, logged, exists, expected, tailVars>>

(* A bug to catch: the line leaves the buffer although it was not written. *)
PersistFailsDropping ==
  /\ FileMayFail
  /\ writing /\ buf # <<>>
  /\ ShouldPersist(Head(buf))
  /\ ragged' \in {ragged, TRUE}
  /\ writing' = FALSE
  /\ buf' = Tail(buf)
  /\ UNCHANGED <<starts, attached, logged, exists, file, expected, tailVars>>

(* ... or cannot be written: Write returns, and the next one tries again.  *)
PersistFails ==
  /\ FileMayFail
  /\ writing /\ buf # <<>>
  /\ ShouldPersist(Head(buf))
  /\ ragged' \in {ragged, TRUE}
  /\ writing' = FALSE
  /\ UNCHANGED <<starts, attached, buf, logged, exists, file, expected,
                 tailVars>>

Return ==
  /\ writing /\ buf = <<>>
  /\ writing' = FALSE
  /\ UNCHANGED <<starts, attached, buf, logged, fileVars, expected, tailVars>>
-----------------------------------------------------------------------------
(* truncateLogFile: the file is emptied, or created if it is missing. *)
Emptied == exists' = TRUE /\ file' = <<>> /\ ragged' = FALSE

(* clearLogs: if the file cannot be opened the answer is 500. *)
Clear ==
  /\ starts > 0
  /\ Emptied
  /\ expected' = SubSeq(expected, Len(file) + 1, Len(expected))
  /\ cleared' = [t \in Tails |-> TRUE]
  /\ UNCHANGED <<starts, writerVars, tail, seen, opened>>

(* tailLogLines: a file that is missing is created, and nothing is read.   *)
OpenTail(t, query, max) ==
  /\ starts > 0
  /\ tail[t].at \in {"idle", "answered"}
  /\ exists' = TRUE
  /\ tail' = [tail EXCEPT ![t] =
               [at |-> IF exists THEN "scan" ELSE "answered",
                query |-> query, max |-> max, read |-> 0,
                ring |-> [i \in 0 .. max - 1 |-> Fragment], idx |-> 0,
                total |-> 0, out |-> <<>>]]
  /\ seen' = [seen EXCEPT ![t] = <<>>]
  /\ opened' = [opened EXCEPT ![t] = Len(file)]
  /\ cleared' = [cleared EXCEPT ![t] = FALSE]
  /\ UNCHANGED <<starts, writerVars, file, ragged, expected>>

(* A line that matches overwrites the oldest one in the ring. *)
InRing(r, line) ==
  IF Matches(r.query, line)
  THEN [r EXCEPT !.ring[r.idx] = line,
                 !.idx = (r.idx + 1) % r.max,
                 !.total = @ + 1]
  ELSE r

(* The scanner reads on: where it is, a clear may have left nothing, or    *)
(* lines that are newer.                                                   *)
Scan(t) ==
  /\ tail[t].at = "scan"
  /\ tail[t].read < Len(file)
  /\ LET line == file[tail[t].read + 1] IN
       /\ tail' = [tail EXCEPT ![t] =
                     InRing([tail[t] EXCEPT !.read = @ + 1], line)]
       /\ seen' = [seen EXCEPT ![t] = Append(@, line)]
  /\ UNCHANGED <<starts, fileVars, writerVars, expected, opened, cleared>>

(* A bug to catch: the ring is not turned to its oldest line. *)
RingLinesUnturned(r) ==
  IF r.total <= r.max THEN [i \in 1 .. r.total |-> r.ring[i - 1]]
  ELSE [i \in 1 .. r.max |-> r.ring[i - 1]]

RingLines(r) ==
  IF r.total <= r.max THEN [i \in 1 .. r.total |-> r.ring[i - 1]]
  ELSE [i \in 1 .. r.max |-> r.ring[(r.idx + i - 1) % r.max]]

(* The end of the file: a fragment there is taken for a line. *)
EndTail(t) ==
  /\ tail[t].at = "scan"
  /\ tail[t].read >= Len(file)
  /\ LET more == ragged /\ tail[t].read = Len(file)
         r == IF more THEN InRing(tail[t], Fragment) ELSE tail[t]
     IN  /\ tail' = [tail EXCEPT ![t] =
                      [r EXCEPT !.at = "answered", !.out = RingLines(r)]]
         /\ seen' = [seen EXCEPT ![t] =
                      IF more THEN Append(@, Fragment) ELSE @]
  /\ UNCHANGED <<starts, fileVars, writerVars, expected, opened, cleared>>
-----------------------------------------------------------------------------
(* rotateLogFileIfOlderThan: a file that is old enough is renamed, and     *)
(* removed with the rotated files that are as old, unless a call fails.    *)
Rotate(rotated) ==
  /\ file' = IF rotated THEN <<>> ELSE file
  /\ ragged' = (ragged /\ ~rotated)

(* configureLogging, after the process has died if it ran: what was in its *)
(* buffer is gone.  The file that is there after the rotation is opened,   *)
(* or stdout is all there is.                                              *)
Start ==
  /\ starts < MaxStarts
  /\ starts' = starts + 1
  /\ \E rotated \in {FALSE, exists} :
       /\ Rotate(rotated)
       /\ \/ attached' = TRUE /\ exists' = TRUE
          \/ /\ FileMayFail
             /\ attached' = FALSE
             /\ exists' = (exists /\ ~rotated)
  /\ expected' = file'
  /\ buf' = <<>> /\ writing' = FALSE
  /\ tail' = [t \in Tails |-> NoTail]
  /\ UNCHANGED <<logged, seen, opened, cleared>>

Init ==
  /\ starts = 0
  /\ attached = FALSE
  /\ exists = FALSE
  /\ file = <<>> /\ ragged = FALSE
  /\ buf = <<>> /\ writing = FALSE
  /\ logged = 0
  /\ expected = <<>>
  /\ tail = [t \in Tails |-> NoTail]
  /\ seen = [t \in Tails |-> <<>>]
  /\ opened = [t \in Tails |-> 0]
  /\ cleared = [t \in Tails |-> FALSE]

Next ==
  \/ \E kind \in Kinds : Log(kind)
  \/ Skip \/ Persist \/ PersistFails \/ Return
  \/ Clear
  \/ \E t \in Tails, q \in Queries, n \in LineCounts : OpenTail(t, q, n)
  \/ \E t \in Tails : Scan(t) \/ EndTail(t)
  \/ Start

Spec == Init /\ [][Next]_vars
-----------------------------------------------------------------------------
(* Every variable has its type; the file holds nothing but lines about     *)
(* mail (main.go:91-98, 102-116).                                          *)
TypeOK ==
  /\ starts \in 0 .. MaxStarts /\ logged \in 0 .. MaxLogged
  /\ attached \in BOOLEAN /\ exists \in BOOLEAN
  /\ ragged \in BOOLEAN /\ writing \in BOOLEAN
  /\ file \in Seq({line \in Lines : ShouldPersist(line)})
  /\ buf \in Seq(Lines)
  /\ expected \in Seq(Lines)
  /\ seen \in [Tails -> Seq(Lines \cup {Fragment})]
  /\ opened \in [Tails -> Nat]
  /\ cleared \in [Tails -> BOOLEAN]
  /\ \A t \in Tails : tail[t].at \in {"idle", "scan", "answered"}

(* Every line about mail that the writer took is in the file or still in   *)
(* its buffer, once and in its order, whatever writes have failed, until   *)
(* the file is cleared or the process ends (main.go:81-100).               *)
NoEventLost ==
  /\ Len(file) <= Len(expected)
  /\ \A i \in 1 .. Len(file) : expected[i] = file[i]
  /\ {expected[i] : i \in Len(file) + 1 .. Len(expected)} =
       {buf[i] : i \in {j \in 1 .. Len(buf) : ShouldPersist(buf[j])}}
  /\ \A i, j \in 1 .. Len(expected) : i < j => expected[i].id < expected[j].id

(* out is the last max lines that match among those read, or all of them. *)
LastOf(out, max, read, query) ==
  LET matching == {k \in 1 .. Len(read) : Matches(query, read[k])}
      shown == 1 .. Len(out)
  IN  /\ Len(out) <= max
      /\ \E at \in [shown -> matching] :
           /\ \A i \in shown : out[i] = read[at[i]]
           /\ \A i, j \in shown : i < j => at[i] < at[j]
           /\ \A k \in matching :
                \/ \E i \in shown : at[i] = k
                \/ Len(out) = max /\ \A i \in shown : k < at[i]

(* A tail shows the last lines of what it has read that match its query,   *)
(* in their order and none left out, and unless the file was cleared       *)
(* meanwhile it has read every line that was there when it was opened      *)
(* (v2.go:883-904).                                                        *)
TailIsLast ==
  \A t \in Tails :
    tail[t].at = "answered" =>
      /\ LastOf(tail[t].out, tail[t].max, seen[t], tail[t].query)
      /\ \/ cleared[t]
         \/ /\ tail[t].read \in opened[t] .. Len(file)
            /\ \A i \in 1 .. tail[t].read : seen[t][i] = file[i]

(* No line is shown twice or before an older one, even if the file was     *)
(* cleared, or a write failed and was tried again, while it was read       *)
(* (v2.go:883-904, main.go:87-98).                                         *)
TailInOrder ==
  \A t \in Tails :
    tail[t].at = "answered" =>
      \A i, j \in 1 .. Len(tail[t].out) :
        i < j /\ Fragment \notin {tail[t].out[i], tail[t].out[j]}
          => tail[t].out[i].id < tail[t].out[j].id
=============================================================================
