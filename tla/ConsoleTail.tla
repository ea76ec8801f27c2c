------------------------------ MODULE ConsoleTail ------------------------------
(***************************************************************************)
(* The console streamer of a vCenter build: the goroutine of               *)
(* internal/backend/vcenter/console.go that polls the guest's serial log   *)
(* on the datastore over HTTP and hands what is new to the CompactingWriter*)
(* until the build stops it, takes a last poll and flushes.                *)
(*                                                                         *)
(* A byte of the log is its generation (how often the log was truncated    *)
(* before it was written) and its position, so that the properties can     *)
(* tell a byte that is lost from one that is printed twice.  A poll is two *)
(* or three requests; the log changes between them.                        *)
(***************************************************************************)
EXTENDS Integers, Sequences, Functions

CONSTANTS
  MaxLen,            \* bound: bytes of a generation of the log
  MaxTruncations,    \* bound: truncations of the log
  MaxWriteFailures   \* bound: failed writes to the builder's output

ASSUME ConsoleTailAssumption ==
  MaxLen \in Nat \ {0} /\ MaxTruncations \in Nat /\ MaxWriteFailures \in Nat

VARIABLES
  exists,     \* the log is on the datastore
  gen, len,   \* its generation and its length
  guest,      \* "running" or "off"
  pc,         \* the streamer: its next request, or its place between polls
  stopping,   \* the build called the function start returned
  final,      \* finish runs: the poll under way is the last one
  offset,     \* datastoreConsoleStreamer.offset
  from, to,   \* readRange's start and end
  printed,    \* the bytes handed to the writer, in order
  bytesRead,  \* datastoreConsoleStreamer.bytesRead
  warned,     \* "ended with zero bytes streamed" was printed
  failures,   \* writes that failed so far
  lastPoll,   \* history: how the last poll ended
  settled     \* history: the guest was off when the last poll began

log == <<exists, gen, len, guest>>
request == <<from, to>>
stream == <<offset, printed, bytesRead, failures>>
vars == <<exists, gen, len, guest, pc, stopping, final, offset, from, to,
          printed, bytesRead, warned, failures, lastPoll, settled>>

Requests == {"head", "probe", "read"}

\* The bytes of the log from one position to another, both counted from 1.
Bytes(first, last) == [i \in 1 .. last - first + 1 |-> <<gen, first + i - 1>>]

-----------------------------------------------------------------------------
(* The guest and the datastore.                                            *)

\* The serial port's file appears once the VM is on.
CreateLog ==
  /\ guest = "running" /\ ~exists
  /\ exists' = TRUE
  /\ UNCHANGED <<gen, len, guest>>

GuestWrites ==
  /\ guest = "running" /\ exists /\ len < MaxLen
  /\ len' = len + 1
  /\ UNCHANGED <<exists, gen, guest>>

\* The log is replaced: the datastore's file is written again from its start.
Truncate ==
  /\ guest = "running" /\ exists /\ len > 0 /\ gen < MaxTruncations
  /\ gen' = gen + 1 /\ len' = 0
  /\ UNCHANGED <<exists, guest>>

PowerOff ==
  /\ guest = "running"
  /\ guest' = "off"
  /\ UNCHANGED <<exists, gen, len>>

Outside ==
  /\ CreateLog \/ GuestWrites \/ Truncate \/ PowerOff
  /\ UNCHANGED <<pc, stopping, final, warned, lastPoll, settled, request, stream>>

-----------------------------------------------------------------------------
(* One poll.  A response may still win the race against a cancelled        *)
(* context, so that an answer and RequestFails are both open then.         *)

PollEnds(result) ==
  /\ pc' = IF final THEN "flush" ELSE "tick"
  /\ lastPoll' = result
  /\ UNCHANGED <<stopping, final, warned, settled, log>>

\* Mutant: the offset moves before the write, so a failed write skips bytes.
DeliverFailureAdvances(chunk, newOffset) ==
  \/ /\ offset' = newOffset
     /\ printed' = printed \o chunk
     /\ bytesRead' = bytesRead + Len(chunk)
     /\ UNCHANGED failures
     /\ PollEnds("ok")
  \/ /\ chunk # <<>> /\ failures < MaxWriteFailures
     /\ failures' = failures + 1
     /\ \E n \in 0 .. Len(chunk) - 1 : printed' = printed \o SubSeq(chunk, 1, n)
     /\ offset' = newOffset /\ UNCHANGED bytesRead
     /\ PollEnds("failed")

\* poll with what Tail returned.  A write that fails has printed a part of
\* the chunk and leaves the offset where it was.
Deliver(chunk, newOffset) ==
  \/ /\ offset' = newOffset
     /\ printed' = printed \o chunk
     /\ bytesRead' = bytesRead + Len(chunk)
     /\ UNCHANGED failures
     /\ PollEnds("ok")
  \/ /\ chunk # <<>> /\ failures < MaxWriteFailures
     /\ failures' = failures + 1
     /\ \E n \in 0 .. Len(chunk) - 1 : printed' = printed \o SubSeq(chunk, 1, n)
     /\ UNCHANGED <<offset, bytesRead>>
     /\ PollEnds("failed")

\* Mutant: off by one, a log one byte longer than the offset has nothing new.
SizeKnownOneShort ==
  LET start == IF len < offset THEN 0 ELSE offset
  IN  IF len <= start + 1
        THEN Deliver(<<>>, start) /\ UNCHANGED request
        ELSE /\ from' = start /\ to' = len - 1 /\ pc' = "read"
             /\ UNCHANGED <<log, stopping, final, warned, lastPoll, settled,
                            stream>>

\* Tail, once fileSize returned: what was printed of a longer log is void.
SizeKnown ==
  LET start == IF len < offset THEN 0 ELSE offset
  IN  IF len = start
        THEN Deliver(<<>>, start) /\ UNCHANGED request
        ELSE /\ from' = start /\ to' = len - 1 /\ pc' = "read"
             /\ UNCHANGED <<log, stopping, final, warned, lastPoll, settled,
                            stream>>

\* headSize and rangeProbeSize both answer with the length the log has then:
\* an empty log satisfies no range, and its 416 stands for the size 0.
AnswerSize ==
  /\ pc \in {"head", "probe"} /\ exists
  /\ SizeKnown

\* HEAD is refused, fails, or says no length: fileSize probes with a GET.
HeadRefused ==
  /\ pc = "head"
  /\ pc' = "probe"
  /\ UNCHANGED <<log, stopping, final, warned, lastPoll, settled, request, stream>>

\* A request fails: the ticket, the connection, the status, the body, or the
\* poll's timeout or cancelled context.  An error that isMissingConsoleLog
\* takes for a missing log ends the poll in silence; a missing log always does.
RequestFails ==
  /\ \/ pc = "head" /\ PollEnds("missing")
     \/ pc \in {"probe", "read"} /\ \E e \in {"missing", "failed"} : PollEnds(e)
  /\ UNCHANGED <<request, stream>>

\* Mutant: the new offset is the end that was asked for, not what was read.
AnswerPartialAsAsked ==
  /\ pc = "read" /\ from < len
  /\ LET last == IF to < len THEN to + 1 ELSE len
     IN  Deliver(Bytes(from + 1, last), last + 1)
  /\ UNCHANGED request

\* readRange, 206: the part of the range that the log has when it answers.
AnswerPartial ==
  /\ pc = "read" /\ from < len
  /\ LET last == IF to < len THEN to + 1 ELSE len
     IN  Deliver(Bytes(from + 1, last), last)
  /\ UNCHANGED request

\* Mutant: the offset moves to the end of the range, the chunk is the rest.
AnswerFullAsAsked ==
  /\ pc = "read"
  /\ Deliver(Bytes(IF len < from THEN 1 ELSE from + 1, len), to + 1)
  /\ UNCHANGED request

\* readRange, 200: the server ignored the range and sends all of the log.
AnswerFull ==
  /\ pc = "read"
  /\ Deliver(Bytes(IF len < from THEN 1 ELSE from + 1, len), len)
  /\ UNCHANGED request

\* readRange, 416: the log is not longer than the range's start by now.
AnswerUnsatisfiable ==
  /\ pc = "read" /\ from >= len
  /\ \E known \in {len, from} : Deliver(<<>>, known)
  /\ UNCHANGED request

-----------------------------------------------------------------------------
(* run, and the function that start returns.                               *)

Tick ==
  /\ pc = "tick" /\ ~final
  /\ pc' = "head"
  /\ UNCHANGED <<log, stopping, final, warned, lastPoll, settled, request, stream>>

\* The build is done with the guest, or failed, or was interrupted.
Stop ==
  /\ ~stopping
  /\ stopping' = TRUE
  /\ UNCHANGED <<log, pc, final, warned, lastPoll, settled, request, stream>>

\* Mutant: finish only flushes; the loop's last poll was recent enough.
FinishWithoutPoll ==
  /\ pc = "tick" /\ stopping
  /\ pc' = "flush" /\ final' = TRUE
  /\ settled' = (guest = "off")
  /\ UNCHANGED <<log, stopping, warned, lastPoll, request, stream>>

\* Mutant: the stop function waits for a poll that came through.
FinishAfterGoodPoll ==
  /\ pc = "tick" /\ stopping /\ lastPoll = "ok"
  /\ pc' = "head" /\ final' = TRUE
  /\ settled' = (guest = "off")
  /\ UNCHANGED <<log, stopping, warned, lastPoll, request, stream>>

\* run returns, the stop function goes on to finish and its poll.
Finish ==
  /\ pc = "tick" /\ stopping
  /\ pc' = "head" /\ final' = TRUE
  /\ settled' = (guest = "off")
  /\ UNCHANGED <<log, stopping, warned, lastPoll, request, stream>>

Flush ==
  /\ pc = "flush"
  /\ pc' = "done"
  /\ warned' = (bytesRead = 0)
  /\ UNCHANGED <<log, stopping, final, lastPoll, settled, request, stream>>

Poll == AnswerSize \/ HeadRefused \/ RequestFails \/ AnswerPartial \/ AnswerFull
        \/ AnswerUnsatisfiable

Streamer == Poll \/ Tick \/ Finish \/ Flush

Init ==
  /\ exists = FALSE /\ gen = 0 /\ len = 0 /\ guest = "running"
  /\ pc = "head" /\ stopping = FALSE /\ final = FALSE
  /\ offset = 0 /\ from = 0 /\ to = 0 /\ printed = <<>> /\ bytesRead = 0
  /\ warned = FALSE /\ failures = 0
  /\ lastPoll = "none" /\ settled = FALSE

Next == Outside \/ Streamer \/ Stop

\* Every request ends, at the latest when the poll's context does, and the
\* ticker goes on; once the build has stopped the streamer, run's select
\* takes the branch of the done context.
Spec == Init /\ [][Next]_vars /\ WF_vars(Poll \/ Tick \/ Flush) /\ SF_vars(Finish)

-----------------------------------------------------------------------------
(* Properties.                                                             *)

\* Every variable keeps the type the code gives it.
TypeOK ==
  /\ exists \in BOOLEAN /\ gen \in 0 .. MaxTruncations /\ len \in 0 .. MaxLen
  /\ guest \in {"running", "off"}
  /\ pc \in Requests \cup {"tick", "flush", "done"}
  /\ stopping \in BOOLEAN /\ final \in BOOLEAN
  /\ offset \in 0 .. MaxLen /\ from \in 0 .. MaxLen /\ to \in 0 .. MaxLen
  /\ printed \in Seq((0 .. MaxTruncations) \X (1 .. MaxLen))
  /\ bytesRead \in Nat /\ warned \in BOOLEAN
  /\ failures \in 0 .. MaxWriteFailures
  /\ lastPoll \in {"none", "ok", "missing", "failed"} /\ settled \in BOOLEAN

Before(b, c) == b[1] < c[1] \/ (b[1] = c[1] /\ b[2] < c[2])

\* As long as the output takes what it is given, no byte of the console is
\* printed twice and none before an earlier one, whatever the server answers
\* to a range and however the log grows or is replaced between the requests
\* of a poll (Tail, readRange and poll keep one offset between them).
StreamedInOrder ==
  failures = 0 => \A i, j \in DOMAIN printed : i < j => Before(printed[i], printed[j])

\* The offset never runs ahead of what was printed: of a log that is only
\* appended to, every byte below the offset was handed to the writer, also
\* after a write failed halfway (poll moves the offset last).
NothingSkipped ==
  gen = 0 => \A i \in 1 .. offset : <<0, i>> \in Range(printed)

\* A streamer stopped once the guest was off, whose last poll came through,
\* has printed the log to its end: the installer's last words are not lost
\* between the last tick and the stop (finish polls once more after run).
StoppedStreamIsComplete ==
  pc = "done" /\ settled /\ lastPoll = "ok" /\ gen = 0
    => \A i \in 1 .. len : <<0, i>> \in Range(printed)

\* The warning that the installer may not have used the serial console is
\* only printed of an empty log, if the last poll came through when the guest
\* was off (finish looks at bytesRead after its poll, not before).
ZeroWarningIsTrue ==
  pc = "done" /\ warned /\ settled /\ lastPoll = "ok" => len = 0

\* The build that stops the streamer gets past it: whatever the server does,
\* the poll under way ends, the last one too, and finish returns.
StopReturns == stopping ~> pc = "done"

\* The tests call a log that became shorter truncated, and stream it from its
\* start: where the offset moves back, everything below it was printed.
TruncatedLogStreamedFromStart ==
  [][offset' < offset => \A i \in 1 .. offset' : <<gen, i>> \in Range(printed')]_vars
=============================================================================
