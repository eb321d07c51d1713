---------------------------- MODULE RunLifecycle ----------------------------
(***************************************************************************)
(* The life of a run: the server queues, stops and deletes, the one worker *)
(* claims and executes (apps/worker/src/worker.ts), and either process may *)
(* be killed between any two database writes.                              *)
(*                                                                         *)
(* JavaScript runs the worker on one thread, so the stop poll can fire     *)
(* only where executeRun awaits: the pcs of Awaiting.  The server is       *)
(* another process: its steps fall anywhere.                               *)
(***************************************************************************)
EXTENDS RunStore

CONSTANT NoApp   \* no app is being tested

ASSUME LifecycleAssumption == NoApp \notin Apps

VARIABLES
  pc,         \* where run() and executeRun are
  job,        \* executeRun's locals
  container,  \* the runner container, as Docker has it
  stopping    \* SIGTERM received: QaBuddyWorker.stop is under way

workerVars == <<pc, job, container, stopping>>
vars == <<storeVars, workerVars>>

(* Commands are the pcs where a command runs in the container.             *)
Commands == {"setup", "build", "exec"}
Awaiting == {"source", "detect", "start"} \cup Commands
Ending   == {"skip", "finish", "history", "cleanup", "prune"}
Loop     == {"write", "phase", "loop", "record", "close"}
PC       == {"down", "boot", "idle"} \cup Awaiting \cup Loop \cup Ending

\* A container killed under a command is "dying" until its stream ends.
Container == {"none", "created", "up", "dying", "killed", "removed"}

\* run: the claimed run; todo: apps not started; app: the app under test and
\* outcome, what is known of it; cancelled: a stop was noticed; verdict: the
\* status the run will end with; seen: the status updateRun read; block: the
\* part of executeRun under way, or "throw", finally with an error pending.
NoJob == [run |-> 0, todo |-> {}, app |-> NoApp, outcome |-> "none", block |-> "try",
          cancelled |-> FALSE, verdict |-> "passed", seen |-> "queued"]

Cur == job.run

LifecycleInit ==
  /\ StoreInit
  /\ pc = "down"
  /\ job = NoJob
  /\ container = "none"
  /\ stopping = FALSE

Goto(label) == pc' = label /\ UNCHANGED <<container, stopping>>

\* Control leaves the try block with an error: the run will end as v.
Abort(v) ==
  /\ pc' = "skip"
  /\ job' = [job EXCEPT !.verdict = v, !.block = "catch"]
  /\ UNCHANGED stopping

-----------------------------------------------------------------------------
(* The server: one action per request handler.                             *)

Submit(p, q) == CreateRun(p, q) /\ UNCHANGED workerVars
Stop(r) == RequestRunCancellation(r) /\ UNCHANGED workerVars
Delete(p) == DeleteRepository(p) /\ UNCHANGED workerVars

Server ==
  \/ \E p \in Repos, q \in Requests : Submit(p, q)
  \/ \E r \in Runs : Stop(r)
  \/ \E p \in Repos : Delete(p)

-----------------------------------------------------------------------------
(* The worker process starts, stops and dies.                              *)

\* initialize: leftover containers go first; the restart policy brings the
\* process back.
Boot ==
  /\ pc = "down"
  /\ Goto("boot")
  /\ UNCHANGED <<storeVars, job>>

Recover ==
  /\ pc = "boot"
  /\ MarkActiveRunsInterrupted
  /\ Goto("idle")
  /\ UNCHANGED job

Die == pc' = "down" /\ job' = NoJob /\ container' = "none" /\ stopping' = FALSE

\* Killed, or ended by an error nothing catches: what is in memory is gone.
Crash == pc # "down" /\ Die /\ UNCHANGED storeVars

\* SIGTERM: with a runner, stop() leaves executeRun running while Docker
\* removes it; without one the process exits at once.
Terminate ==
  /\ pc # "down" /\ ~stopping
  /\ \/ container # "none" /\ stopping' = TRUE /\ UNCHANGED <<pc, job, container>>
     \/ container = "none" /\ Die
  /\ UNCHANGED storeVars

\* Killing the container ends the stream of whatever command is attached.
KillContainer ==
  container' = IF container # "up" THEN container
               ELSE IF pc \in Commands THEN "dying" ELSE "killed"

RemoveOnShutdown ==
  /\ stopping /\ container \in {"created", "up"}
  /\ IF container = "up" THEN KillContainer ELSE container' = "removed"
  /\ UNCHANGED <<storeVars, pc, job, stopping>>

\* stop() has returned: the database is closed and the process exits.
Exit ==
  /\ stopping /\ container \notin {"created", "up"}
  /\ Die
  /\ UNCHANGED storeVars

-----------------------------------------------------------------------------
(* executeRun.                                                             *)

Claim(r) ==
  /\ pc = "idle" /\ ~stopping
  /\ ClaimNextRun(r)
  /\ Goto("source")
  /\ job' = [NoJob EXCEPT !.run = r,
                          !.todo = {a \in Apps : appStatus[r][a] = "pending"}]

\* The interval timer: the kill is sent once, and does nothing to a container
\* that is not running yet.
Poll ==
  /\ pc \in Awaiting
  /\ ~job.cancelled /\ cancel[Cur]
  /\ job' = [job EXCEPT !.cancelled = TRUE]
  /\ KillContainer
  /\ UNCHANGED <<storeVars, pc, stopping>>

\* cloneRepository or archiveLocalWorkingTree returns; updateRun reads the row
SourceReady ==
  /\ pc = "source"
  /\ \/ job.cancelled /\ Abort("interrupted") /\ UNCHANGED container
     \/ /\ ~job.cancelled
        /\ Goto("write")
        /\ job' = [job EXCEPT !.seen = status[Cur]]
  /\ UNCHANGED storeVars

\* ... or throws: the catch block does not look at cancelled
SourceFails ==
  /\ pc = "source"
  /\ \E v \in {"failed", "timed_out"} : Abort(v)
  /\ UNCHANGED <<storeVars, container>>

\* updateRun writes the commit, and every other column as it was read
WriteSource ==
  /\ pc = "write"
  /\ SetStatus(Cur, job.seen)
  /\ Goto(IF request[Cur].auto THEN "detect" ELSE "start")
  /\ UNCHANGED job

Detect ==
  /\ pc = "detect"
  /\ \/ \E S \in (SUBSET Apps) \ {{}} :
          /\ SetDetectedApps(Cur, S)
          /\ Goto("start")
          /\ job' = [job EXCEPT !.todo = S]
     \/ Abort("failed") /\ UNCHANGED <<storeVars, container>>

\* DockerRunner.start: pull, create, start
CreateContainer ==
  /\ pc = "start" /\ container = "none"
  /\ container' = "created"
  /\ UNCHANGED <<storeVars, pc, job, stopping>>

ContainerUp ==
  /\ pc = "start" /\ container = "created"
  /\ container' = "up"
  /\ UNCHANGED <<storeVars, pc, job, stopping>>

\* Nothing looks at cancelled here.  Setup and build run when configured.
StartReturns ==
  /\ pc = "start" /\ container \in {"up", "killed"}
  /\ \/ \E c \in {<<"setup", "setup">>, <<"build", "building">>} :
          Goto(c[1]) /\ SetStatus(Cur, c[2])
     \/ Goto("phase") /\ UNCHANGED storeVars
  /\ UNCHANGED job

StartFails ==
  /\ pc = "start"
  /\ \E v \in {"failed", "timed_out"} : Abort(v)
  /\ UNCHANGED <<storeVars, container>>

\* Once a command is over, a dying container is a dead one.
Settled == IF container = "dying" THEN "killed" ELSE container

\* Setup or build ends with an exit code; build follows setup when configured
PhaseReturns ==
  /\ pc \in {"setup", "build"} /\ container \in {"up", "dying"}
  /\ container' = Settled
  /\ \/ /\ Abort(IF job.cancelled THEN "interrupted" ELSE "failed")
        /\ UNCHANGED storeVars
     \/ /\ ~job.cancelled
        /\ \/ pc = "setup" /\ pc' = "build" /\ SetStatus(Cur, "building")
           \/ pc' = "phase" /\ UNCHANGED storeVars
        /\ UNCHANGED <<job, stopping>>

\* ... or throws: a time limit, or the container is gone
PhaseThrows ==
  /\ pc \in {"setup", "build"}
  /\ \E v \in {"failed", "timed_out"} : Abort(v)
  /\ container' \in {Settled, "killed"}
  /\ UNCHANGED storeVars

\* The durations behind the time limits are read after the status is written
EnterTesting ==
  /\ pc = "phase"
  /\ SetStatus(Cur, "testing")
  /\ \/ Goto("loop") /\ UNCHANGED job
     \/ Abort("failed") /\ UNCHANGED container

\* The head of the app loop
StartApp(a) ==
  /\ pc = "loop" /\ ~job.cancelled
  /\ a \in job.todo
  /\ SetAppStatus(Cur, a, "running")
  /\ Goto("exec")
  /\ job' = [job EXCEPT !.app = a, !.todo = @ \ {a}]

LoopStopped ==
  /\ pc = "loop" /\ job.cancelled /\ job.todo # {}
  /\ Abort("interrupted")
  /\ UNCHANGED <<storeVars, container>>

\* Mutant: no ensureRunning after the test command.
ExecReturns_Unchecked ==
  /\ pc = "exec" /\ container \in {"up", "dying"}
  /\ container' = Settled
  /\ \E o \in {"passed", "failed", "skipped"} :
       /\ pc' = IF o = "skipped" THEN "close" ELSE "record"
       /\ job' = [job EXCEPT !.outcome = o]
  /\ UNCHANGED <<storeVars, stopping>>

\* Mutant: the snapshot is replaced before the check for a stop.
ExecReturns_RecordFirst ==
  /\ pc = "exec" /\ container \in {"up", "dying"}
  /\ container' = Settled
  /\ job.cancelled /\ Abort("interrupted")
  /\ ReplaceCoverageSnapshot(RepoOf(Cur), job.app, Cur)

\* The test command ended: how depends on its exit code and its reports
ExecReturns ==
  /\ pc = "exec" /\ container \in {"up", "dying"}
  /\ container' = Settled
  /\ \/ job.cancelled /\ Abort("interrupted")
     \/ /\ ~job.cancelled
        /\ \E o \in {"passed", "failed", "skipped"} :
             /\ pc' = IF o = "skipped" THEN "close" ELSE "record"
             /\ job' = [job EXCEPT !.outcome = o]
        /\ UNCHANGED stopping
  /\ UNCHANGED storeVars

\* The command was stopped at its own limit, or could not be run: the app
\* fails without coverage and the loop goes on.
ExecThrows ==
  /\ pc = "exec"
  /\ container' = Settled
  /\ \/ job.cancelled /\ Abort("interrupted")
     \/ /\ ~job.cancelled
        /\ pc' = "close"
        /\ job' = [job EXCEPT !.outcome = "failed"]
        /\ UNCHANGED stopping
  /\ UNCHANGED storeVars

\* The run is out of time
ExecTimesOut ==
  /\ pc = "exec"
  /\ container' \in {Settled, "killed"}
  /\ Abort(IF job.cancelled THEN "interrupted" ELSE "timed_out")
  /\ UNCHANGED storeVars

\* recordCoverageSnapshot: not from a local tree, not without per-file coverage
RecordSnapshot ==
  /\ pc = "record"
  /\ \/ ~request[Cur].local /\ ReplaceCoverageSnapshot(RepoOf(Cur), job.app, Cur)
     \/ UNCHANGED storeVars
  /\ Goto("close")
  /\ UNCHANGED job

\* Mutant: a failed app is not counted.
FinishApp_Uncounted ==
  /\ pc = "close"
  /\ SetAppStatus(Cur, job.app, job.outcome)
  /\ Goto("loop")
  /\ job' = [job EXCEPT !.app = NoApp, !.outcome = "none"]

FinishApp ==
  /\ pc = "close"
  /\ SetAppStatus(Cur, job.app, job.outcome)
  /\ Goto("loop")
  /\ job' = [job EXCEPT !.app = NoApp, !.outcome = "none",
               !.verdict = IF job.outcome = "failed" THEN "failed" ELSE @]

\* After the last app nothing looks at cancelled any more
Conclude ==
  /\ pc = "loop" /\ job.todo = {}
  /\ Goto("finish")
  /\ UNCHANGED <<storeVars, job>>

\* A write of the try block throws, before it changed anything.  One that does
\* so elsewhere is part of Detect, StartFails and PhaseThrows; the snapshot's is
\* caught on its own (RecordSnapshot).  At "history" the run has its verdict.
WriteThrows ==
  /\ job.block = "try"
  /\ \/ pc \in {"write", "phase", "close", "finish", "history"}
     \/ pc = "loop" /\ ~job.cancelled /\ job.todo # {}
  /\ Abort("failed")
  /\ UNCHANGED <<storeVars, container>>

-----------------------------------------------------------------------------
(* The ends of the try and catch blocks, and finally: each database write  *)
(* is its own step.                                                        *)

SkipApps ==
  /\ pc = "skip"
  /\ SkipPendingApps(Cur)
  /\ Goto("finish")
  /\ UNCHANGED job

\* Only a noticed stop gives the verdict interrupted.  Nothing looks at what
\* the run's status is by now.
Finish ==
  /\ pc = "finish"
  /\ EndRun(Cur, job.verdict, IF job.verdict = "interrupted" THEN "stop" ELSE "other")
  /\ Goto(IF job.verdict \in Verdicts /\ status[Cur] # "absent" THEN "history" ELSE "cleanup")
  /\ UNCHANGED job

RecordHistory ==
  /\ pc = "history"
  /\ \E S \in SUBSET Apps : InsertHistory(Cur, S)
  /\ Goto("cleanup")
  /\ UNCHANGED job

\* A write of the catch block throws: finally runs with the error pending
CatchThrows ==
  /\ job.block = "catch" /\ pc \in {"skip", "finish", "history"}
  /\ job' = [job EXCEPT !.block = "throw"]
  /\ Goto("cleanup")
  /\ UNCHANGED storeVars

\* A removal that fails is logged; the container is forgotten either way
Cleanup ==
  /\ pc = "cleanup"
  /\ pc' = "prune" /\ container' = "none"
  /\ UNCHANGED <<storeVars, job, stopping>>

\* The repository may be gone by now: then there is nothing to prune.  With an
\* error pending executeRun then throws, and the process ends.
Prune ==
  /\ pc = "prune"
  /\ \/ RepoOf(Cur) \in repos /\ PruneRuns(RepoOf(Cur))
     \/ RepoOf(Cur) \notin repos /\ UNCHANGED storeVars
  /\ \/ job.block # "throw" /\ Goto("idle") /\ job' = NoJob
     \/ job.block = "throw" /\ Die

-----------------------------------------------------------------------------
Execute ==
  \/ \E r \in Runs : Claim(r)
  \/ SourceReady \/ SourceFails \/ WriteSource \/ Detect
  \/ CreateContainer \/ ContainerUp \/ StartReturns \/ StartFails
  \/ PhaseReturns \/ PhaseThrows \/ EnterTesting
  \/ \E a \in Apps : StartApp(a)
  \/ LoopStopped \/ ExecReturns \/ ExecThrows \/ ExecTimesOut
  \/ RecordSnapshot \/ FinishApp \/ Conclude \/ WriteThrows
  \/ SkipApps \/ Finish \/ RecordHistory \/ CatchThrows \/ Cleanup \/ Prune

Process == Boot \/ Recover \/ Crash \/ Terminate \/ RemoveOnShutdown \/ Exit

Next == Server \/ Process \/ Poll \/ Execute

Spec == LifecycleInit /\ [][Next]_vars

-----------------------------------------------------------------------------
(* Properties.                                                             *)

JobType ==
  [run : 0 .. MaxRuns, todo : SUBSET Apps, app : Apps \cup {NoApp},
   outcome : {"none", "passed", "failed", "skipped"}, cancelled : BOOLEAN,
   block : {"try", "catch", "throw"}, verdict : Terminal, seen : Active]

TypeOK ==
  /\ repos \subseteq Repos
  /\ created \in 0 .. MaxRuns
  /\ request \in [Runs -> [repo : Repos \cup {NoRepo}, local : BOOLEAN, auto : BOOLEAN]]
  /\ status \in [Runs -> Status]
  /\ cancel \in [Runs -> BOOLEAN]
  /\ reason \in [Runs -> Reason]
  /\ appStatus \in [Runs -> [Apps -> AppStatus]]
  /\ snapshot \in [Repos -> [Apps -> 0 .. MaxRuns]]
  /\ history \subseteq Repos \X Runs \X Apps
  /\ pc \in PC
  /\ job \in JobType
  /\ container \in Container
  /\ stopping \in BOOLEAN

\* A repository never has two active runs, whatever the server and the worker
\* interleave: createRun's check and its insert are one transaction.
OneActiveRun ==
  \A r, q \in Runs :
    status[r] \in Active /\ status[q] \in Active /\ RepoOf(r) = RepoOf(q) => r = q

\* An executing run is held by the live worker, or the worker is down or has
\* not recovered yet: no run is left executing for ever, which would refuse
\* every later run of its repository.
ExecutingIsHeld ==
  \A r \in Runs : status[r] \in Executing => Cur = r \/ pc \in {"down", "boot"}

\* A finished run has no app still pending or running, at any instant: the
\* catch block skips the apps before it ends the run, so a crash in between
\* leaves the run to recovery and never a finished run with an open app.
FinishedRunIsClosed ==
  \A r \in Runs : status[r] \in Terminal =>
    \A a \in Apps : appStatus[r][a] \notin OpenApp

\* README: a run passes only when every app's tests and coverage do; an app
\* that timed out or could not be run counts against it too.
PassedMeansAllPassed ==
  \A r \in Runs : status[r] = "passed" =>
    \A a \in Apps : appStatus[r][a] \in {"none", "passed", "skipped"}

\* A stop the worker noticed in time to log it never ends in a pass.
NoticedStopNeverPasses ==
  Cur # 0 /\ status[Cur] = "passed" => ~job.cancelled

\* README, "Stopping a run": a stopped run finishes as interrupted, not
\* failed.  Here for a stop the worker noticed and logged.
NoticedStopIsInterrupted ==
  Cur # 0 /\ job.cancelled /\ status[Cur] \in Terminal => status[Cur] = "interrupted"

\* README, "Stopping a run": killing the container interrupts whatever command
\* is running rather than waiting for it to finish.
NoticedStopKillsCommand ==
  job.cancelled /\ pc \in Commands => container # "up"

\* README, "Stopping a run": stopped runs never update a coverage snapshot.
StoppedRunKeepsSnapshots ==
  \A r \in Runs : reason[r] = "stop" =>
    \A a \in Apps : snapshot[RepoOf(r)][a] # r

\* What is left of "stopped runs never update a coverage snapshot": an app the
\* stop cut short has not, though apps that finished before the stop have.
CutAppKeepsSnapshot ==
  \A r \in Runs, a \in Apps :
    reason[r] = "stop" /\ appStatus[r][a] = "skipped" => snapshot[RepoOf(r)][a] # r

\* The baseline of the coverage gaps is a commit of the remote: no snapshot
\* comes from a local tree or from another repository's run.
SnapshotProvenance ==
  \A p \in Repos, a \in Apps :
    LET r == snapshot[p][a] IN
    r # 0 /\ status[r] # "absent" => RepoOf(r) = p /\ ~request[r].local

\* Only runs that ended passed or failed leave points in the app trends.
TrendsOnlyFromVerdicts ==
  \A h \in history : status[h[2]] \in Verdicts \cup {"absent"}

\* A finished run never changes again: no late write of the worker, no stop
\* and no restart reopens it or alters its verdict.  The one exception is the
\* worker that still holds the run: when updateRun has stored its verdict and
\* the insert into coverage_history then throws, the catch block makes the run
\* failed.
FinishedIsFinal ==
  [][\A r \in Runs : status[r] \in Terminal =>
       \/ status'[r] \in {status[r], "absent"}
       \/ r = Cur /\ status[r] \in Verdicts /\ status'[r] = "failed"]_vars

\* Pruning counts every run of the repository, active ones included, and yet
\* never deletes one: the active run is always the newest.
ActiveRunNeverDropped ==
  [][\A r \in Runs : status[r] \in Active => status'[r] # "absent"]_vars
=============================================================================
