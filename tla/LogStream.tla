----------------------------- MODULE LogStream -----------------------------
(***************************************************************************)
(* The live log of one run: the worker's RunLogger appends to a file, the  *)
(* server's /events handler polls file and run row and sends what is new,  *)
(* and the run page appends it to what it shows.  Worker and server are    *)
(* two processes, so every look at the file or the row may see another     *)
(* state; server and browser are joined by a stream that may break.        *)
(*                                                                         *)
(* The log's text is cut into numbered pieces; piece 0 is a notice that    *)
(* text was left out.  A poll takes no time of the model's: the interval   *)
(* may fire whenever the last poll is over.                                *)
(***************************************************************************)
EXTENDS Integers, Sequences

CONSTANTS
  TailSize,    \* INITIAL_LOG_TAIL_BYTES
  EventSize,   \* LOG_EVENT_BYTES
  PageSize,    \* maxLiveLogCharacters
  MaxPieces,   \* bound: pieces written before the run's end
  MaxCleanup,  \* bound: pieces written after it
  MaxDrops     \* bound: broken connections

ASSUME LogAssumption ==
  /\ {TailSize, EventSize, PageSize} \subseteq Nat \ {0}
  /\ {MaxPieces, MaxCleanup, MaxDrops} \subseteq Nat

\* What the worker logs after a run's end, a line for the container and one
\* for the checkout, is shorter than the tail of 256 KiB.
ASSUME CleanupIsShort == MaxCleanup < TailSize

VARIABLES
  worker,     \* where the worker is with the run
  row,        \* the run's row: its status, "running" for the four executing ones
  exists,     \* the log file exists
  log,        \* its pieces
  written,    \* pieces written so far, to number them
  atEnd,      \* history: pieces written when the run ended
  pc,         \* where poll is; "idle" between polls, "off" without a connection
  offset, initialized, previous, ticks,   \* locals of the handler
  size,       \* the file's size as this poll saw it
  wire,       \* sent and not yet received
  page,       \* where the page is
  shown,      \* the text the page shows
  shownRun,   \* the run it shows
  drops

fileVars   == <<exists, log, written>>
workerVars == <<worker, row, fileVars, atEnd>>
serverVars == <<pc, offset, initialized, previous, ticks, size>>
pageVars   == <<page, shown, shownRun, drops>>
vars == <<workerVars, serverVars, wire, pageVars>>

Notice == 0
Pieces == 1 .. (MaxPieces + MaxCleanup)
Rows   == {"queued", "running", "ended"}
Gone   == {"pruned", "deleted"}   \* no row
Workers == {"away", "claimed", "running", "cleanup", "done", "dead"}
Polls  == {"off", "idle", "stat", "start", "read", "row", "ended"}
Pages  == {"loading", "connecting", "following", "complete", "failed"}

Log(text)   == [event |-> "log", chunk |-> text]
Run(status) == [event |-> "run", run |-> status]
Complete(status) == [event |-> "complete", run |-> status]

Events ==
  [event : {"log"}, chunk : Seq(Pieces \cup {Notice})]
    \cup [event : {"run", "complete"}, run : Rows]

Init ==
  /\ worker = "away" /\ row = "queued"
  /\ exists = FALSE /\ log = <<>> /\ written = 0 /\ atEnd = 0
  /\ pc = "off" /\ offset = 0 /\ initialized = FALSE
  /\ previous = "none" /\ ticks = 0 /\ size = 0
  /\ wire = <<>>
  /\ page = "loading" /\ shown = <<>> /\ shownRun = "none" /\ drops = 0

-----------------------------------------------------------------------------
(* The worker.                                                             *)

WorkerStep == UNCHANGED <<serverVars, wire, pageVars>>

\* claimNextRun.
Claim ==
  /\ worker = "away" /\ row = "queued"
  /\ worker' = "claimed" /\ row' = "running"
  /\ UNCHANGED <<fileVars, atEnd>> /\ WorkerStep

\* The constructor of RunLogger empties the file.
OpenLog ==
  /\ worker = "claimed"
  /\ worker' = "running"
  /\ exists' = TRUE /\ log' = <<>>
  /\ UNCHANGED <<row, written, atEnd>> /\ WorkerStep

\* appendFileSync, which makes a file that is not there.
WriteLog ==
  /\ \/ worker = "running" /\ written < MaxPieces
     \/ worker = "cleanup" /\ written < atEnd + MaxCleanup
  /\ exists' = TRUE
  /\ written' = written + 1
  /\ log' = Append(log, written + 1)
  /\ UNCHANGED <<worker, row, atEnd>> /\ WorkerStep

\* The last updateRun of executeRun: what it logs of a failure comes before.
EndRun ==
  /\ worker = "running"
  /\ worker' = "cleanup" /\ row' = "ended" /\ atEnd' = written
  /\ UNCHANGED fileVars /\ WorkerStep

\* The end of the finally block.
EndCleanup ==
  /\ worker = "cleanup"
  /\ worker' = "done"
  /\ UNCHANGED <<row, fileVars, atEnd>> /\ WorkerStep

\* A kill, and what the next worker finds of it (markActiveRunsInterrupted).
Crash ==
  /\ worker \in {"claimed", "running", "cleanup"}
  /\ worker' = "dead"
  /\ UNCHANGED <<row, fileVars, atEnd>> /\ WorkerStep

MarkInterrupted ==
  /\ worker = "dead" /\ row = "running"
  /\ row' = "ended" /\ atEnd' = written
  /\ UNCHANGED <<worker, fileVars>> /\ WorkerStep

\* A later run of the repository pushes this one out: its row goes first.
PruneRow ==
  /\ worker \notin {"running", "cleanup"} /\ row = "ended"
  /\ row' = "pruned"
  /\ UNCHANGED <<worker, fileVars, atEnd>> /\ WorkerStep

PruneLog ==
  /\ row = "pruned" /\ exists
  /\ exists' = FALSE /\ log' = <<>>
  /\ UNCHANGED <<worker, row, written, atEnd>> /\ WorkerStep

-----------------------------------------------------------------------------
(* The server's other handlers, which never run inside a poll.             *)

Between == pc \in {"off", "idle", "ended"}

\* POST .../cancel of a run nobody has claimed.
CancelQueued ==
  /\ Between /\ row = "queued"
  /\ row' = "ended"
  /\ UNCHANGED <<worker, fileVars, atEnd>> /\ WorkerStep

\* DELETE of the repository, refused only while a run is active: the worker
\* may still clean up after this one.
DeleteRepository ==
  /\ Between /\ row = "ended"
  /\ row' = "deleted" /\ exists' = FALSE /\ log' = <<>>
  /\ UNCHANGED <<worker, written, atEnd>> /\ WorkerStep

-----------------------------------------------------------------------------
(* One poll of GET /api/runs/:runId/events.                                *)

\* initialLogOffset of a file of that size, and where readLogChunk stops.
Tailed(length) == IF length > TailSize THEN length - TailSize ELSE 0
ChunkEnd(from) ==
  IF from + EventSize < Len(log) THEN from + EventSize ELSE Len(log)

PollStep == UNCHANGED <<workerVars, pageVars>>

Send(messages) == wire' = wire \o messages

\* existsSync.
Look ==
  /\ pc = "idle"
  /\ pc' = IF exists THEN "stat" ELSE "row"
  /\ UNCHANGED <<offset, initialized, previous, ticks, size, wire>> /\ PollStep

\* Mutant: a poll that fails is the last, and the stream stays open.
Throw_Stops ==
  /\ pc \in {"stat", "start"} \/ (pc = "read" /\ offset < size)
  /\ ~exists
  /\ pc' = "off"
  /\ UNCHANGED <<offset, initialized, previous, ticks, size, wire>> /\ PollStep

\* The file went after it was looked at: the page does not listen to the
\* "error" event, and the interval goes on.
Throw ==
  /\ pc \in {"stat", "start"} \/ (pc = "read" /\ offset < size)
  /\ ~exists
  /\ pc' = "idle"
  /\ UNCHANGED <<offset, initialized, previous, ticks, size, wire>> /\ PollStep

Stat ==
  /\ pc = "stat" /\ exists
  /\ size' = Len(log)
  /\ pc' = IF initialized THEN "read" ELSE "start"
  /\ IF initialized /\ Len(log) < offset
     THEN offset' = 0 /\ Send(<<Log(<<Notice>>)>>)
     ELSE UNCHANGED <<offset, wire>>
  /\ UNCHANGED <<initialized, previous, ticks>> /\ PollStep

\* initialLogOffset takes the size again.
InitialOffset ==
  /\ pc = "start" /\ exists
  /\ initialized' = TRUE
  /\ offset' = Tailed(Len(log))
  /\ Send(IF offset' > 0 THEN <<Log(<<Notice>>)>> ELSE <<>>)
  /\ pc' = "read"
  /\ UNCHANGED <<previous, ticks, size>> /\ PollStep

\* Mutant: the offset moves by what was asked for, not by what was read.
ReadChunk_Asked ==
  /\ pc = "read" /\ offset < size /\ exists
  /\ Send(<<Log(SubSeq(log, offset + 1, ChunkEnd(offset)))>>)
  /\ offset' = offset + EventSize
  /\ UNCHANGED <<pc, initialized, previous, ticks, size>> /\ PollStep

\* readLogChunk and the loop around it; the file may be another than the one
\* that was measured, and shorter.
ReadChunk ==
  /\ pc = "read" /\ offset < size /\ exists
  /\ IF offset < Len(log)
     THEN LET next == ChunkEnd(offset)
          IN  /\ Send(<<Log(SubSeq(log, offset + 1, next))>>)
              /\ offset' = next
              /\ UNCHANGED pc
     ELSE /\ offset' = Len(log)
          /\ pc' = "row"
          /\ UNCHANGED wire
  /\ UNCHANGED <<initialized, previous, ticks, size>> /\ PollStep

\* getRun, and what the poll makes of it: the stream ends when the run is
\* deleted, or with the poll that finds it over for the last time it waits for.
ReadRunUntil(last) ==
  /\ pc = "row" \/ (pc = "read" /\ offset >= size)
  /\ IF row \in Gone
     THEN /\ pc' = "ended"
          /\ UNCHANGED <<previous, ticks, wire>>
     ELSE /\ previous' = row
          /\ ticks' = IF row = "ended" THEN ticks + 1 ELSE 0
          /\ pc' = IF ticks' >= last THEN "ended" ELSE "idle"
          /\ Send((IF row # previous THEN <<Run(row)>> ELSE <<>>)
                    \o (IF ticks' >= last THEN <<Complete(row)>> ELSE <<>>))
  /\ UNCHANGED <<offset, initialized, size>> /\ PollStep

\* Mutant: the first poll that finds the run over is the last.
ReadRun_OneTick == ReadRunUntil(1)

ReadRun == ReadRunUntil(2)

Poll == Look \/ Throw \/ Stat \/ InitialOffset \/ ReadChunk \/ ReadRun

-----------------------------------------------------------------------------
(* The page, and the browser's EventSource.                                *)

\* The page asks for the run, and follows it if there is one.
Load ==
  /\ page = "loading" /\ Between
  /\ page' = IF row \in Gone THEN "failed" ELSE "connecting"
  /\ shownRun' = IF row \in Gone THEN shownRun ELSE row
  /\ UNCHANGED <<workerVars, serverVars, wire, shown, drops>>

\* The request for the stream; each gets a handler of its own, which polls at
\* once.  A 404 is final for an EventSource.
Connect ==
  /\ page = "connecting"
  /\ wire' = <<>>
  /\ IF row \in Gone
     THEN page' = "failed" /\ pc' = "off"
     ELSE page' = "following" /\ pc' = "idle"
  /\ offset' = 0 /\ initialized' = FALSE /\ previous' = "none" /\ ticks' = 0
  /\ size' = 0
  /\ UNCHANGED <<workerVars, shown, shownRun, drops>>

\* The connection breaks, or the server is restarted.  What a poll sends into a
\* broken connection is lost with what was on its way.
Drop ==
  /\ page = "following" /\ pc = "idle" /\ drops < MaxDrops
  /\ drops' = drops + 1
  /\ page' = "connecting" /\ pc' = "off" /\ wire' = <<>>
  /\ UNCHANGED <<workerVars, offset, initialized, previous, ticks, size, shown, shownRun>>

AppendLiveLog(current, chunk) ==
  LET next == current \o chunk IN
  IF Len(next) <= PageSize THEN next
  ELSE <<Notice>> \o SubSeq(next, Len(next) - PageSize + 1, Len(next))

Receive ==
  /\ page = "following" /\ wire # <<>>
  /\ LET message == Head(wire) IN
       /\ shown' = IF message.event = "log"
                   THEN AppendLiveLog(shown, message.chunk) ELSE shown
       /\ shownRun' = IF message.event = "log" THEN shownRun ELSE message.run
       /\ page' = IF message.event = "complete" THEN "complete" ELSE page
  /\ wire' = Tail(wire)
  /\ UNCHANGED <<workerVars, serverVars, drops>>

\* A stream that ends without "complete" is one the browser opens again.
StreamClosed ==
  /\ page = "following" /\ pc = "ended" /\ wire = <<>>
  /\ page' = "connecting"
  /\ UNCHANGED <<workerVars, serverVars, wire, shown, shownRun, drops>>

-----------------------------------------------------------------------------

Worker ==
  \/ Claim \/ OpenLog \/ WriteLog \/ EndRun \/ EndCleanup
  \/ Crash \/ MarkInterrupted \/ PruneRow \/ PruneLog

Next ==
  \/ Worker \/ CancelQueued \/ DeleteRepository
  \/ Poll
  \/ Load \/ Connect \/ Drop \/ Receive \/ StreamClosed

Spec == Init /\ [][Next]_vars

\* The interval and the browser go on; nothing is asked of the worker.
LiveSpec ==
  Spec /\ WF_vars(Poll) /\ WF_vars(Load) /\ WF_vars(Connect)
       /\ WF_vars(Receive) /\ WF_vars(StreamClosed)

-----------------------------------------------------------------------------
(* Properties.                                                             *)

\* Every variable has its type; no poll looks past the second tick.
TypeOK ==
  /\ worker \in Workers /\ row \in Rows \cup Gone
  /\ exists \in BOOLEAN /\ log \in Seq(Pieces)
  /\ written \in 0 .. (MaxPieces + MaxCleanup) /\ atEnd \in 0 .. MaxPieces
  /\ pc \in Polls
  /\ offset \in Nat /\ initialized \in BOOLEAN
  /\ previous \in Rows \cup {"none"} /\ ticks \in 0 .. 2
  /\ size \in Nat
  /\ wire \in Seq(Events)
  /\ page \in Pages /\ shown \in Seq(Pieces \cup {Notice})
  /\ shownRun \in Rows \cup {"none"}
  /\ drops \in 0 .. MaxDrops

\* The page never leaves text out without a notice in its place, whatever the
\* tail, the chunks, the page's own cut and reconnections do to it.  (Text may
\* come twice, after a reconnection.)  Said of a run that still exists: the log
\* of a deleted one may be another file.  The /events poll and appendLiveLog.
NoSilentGap ==
  row \notin Gone =>
    /\ shown # <<>> => shown[1] \in {Notice, 1}
    /\ \A i \in 1 .. Len(shown) - 1 :
         {shown[i], shown[i + 1]} \cap {Notice} = {} => shown[i + 1] <= shown[i] + 1

\* A page told that the run is complete shows the run as ended and everything
\* that was logged before it ended, down to the reason for its failure, though
\* the poll reads the log before it reads the status.  The terminalTicks of the
\* /events poll.
ShowsTheEnd ==
  page = "complete" =>
    /\ shownRun = "ended"
    /\ row \notin Gone /\ atEnd > 0 => shown # <<>> /\ shown[Len(shown)] >= atEnd

\* A page stops following a run that is over: it is told "complete", or that
\* there is no such run.  The /events handler and the browser's reconnections.
StreamEnds == row \in {"ended"} \cup Gone ~> page \in {"complete", "failed"}
=============================================================================
