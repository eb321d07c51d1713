------------------------ MODULE RunLifecycle_proofs ------------------------
(***************************************************************************)
(* Machine-checked proofs about RunLifecycle, for any number of            *)
(* repositories, applications and runs, any request bodies and any         *)
(* retention limit.  IInv is the inductive invariant the theorems share:   *)
(* Table says what the rows of the database mean to each other, Worker how *)
(* the worker's locals relate to the rows of the run it holds.  The last   *)
(* part proves that RunLifecycle implements RunQueue: each step of the     *)
(* server, the worker, a crash or the recovery is a step of the queue or   *)
(* leaves it as it is.                                                     *)
(***************************************************************************)
EXTENDS RunRefinement, FiniteSetTheorems, WellFoundedInduction, TLAPS

\* The pcs of the try block up to the end of its loop: the held run executes.
Working == Awaiting \cup Loop

\* Run ids are given out once and in order; a row belongs to a repository.
Rows ==
  \A r \in Runs :
    /\ r > created => status[r] = "absent"
    /\ status[r] = "absent" <=> RepoOf(r) = NoRepo

\* What makes pruning safe: an active run is the newest of its repository.
ActiveIsNewest ==
  \A r, q \in Runs : status[r] \in Active /\ RepoOf(q) = RepoOf(r) => q <= r

\* The catch block runs although the verdict is stored: the insert into
\* coverage_history threw.  The run may be deleted by now.
Overruled ==
  job.block = "catch" /\ job.verdict = "failed" /\ status[Cur] \in Verdicts \cup {"absent"}

\* The locals of executeRun and the row of the run it executes agree.
Holding ==
  /\ Cur <= created
  /\ Cur = 0 <=> pc \in {"down", "boot", "idle"}
  /\ pc \in Working => status[Cur] \in Executing /\ job.block = "try"
  /\ pc \in {"skip", "finish"} => status[Cur] \in Executing \/ Overruled
  /\ pc = "skip" => job.block = "catch"
  /\ pc = "history" => status[Cur] \in Verdicts \cup {"absent"}
  /\ pc \in {"cleanup", "prune"} /\ job.block # "throw" => status[Cur] \in Terminal \cup {"absent"}
  /\ job.block = "throw" =>
       pc \in {"cleanup", "prune"} /\ status[Cur] \in Executing \cup Verdicts \cup {"absent"}
  /\ pc = "write" => job.seen \in Executing

\* Every open app of the held run is known to the loop.
Tracking ==
  /\ pc \in Awaiting \cup Loop =>
       /\ \A a \in Apps : appStatus[Cur][a] \in OpenApp => a \in job.todo \/ a = job.app
       /\ IF pc \in {"exec", "record", "close"} THEN job.app \in Apps ELSE job.app = NoApp
  /\ pc \in {"record", "close"} => job.outcome # "none"
  /\ pc = "finish" => \A a \in Apps : appStatus[Cur][a] \notin OpenApp
  /\ \A r \in Runs : status[r] = "queued" =>
       \A a \in Apps : appStatus[r][a] \in {"none", "pending"}

\* An app that failed is in the verdict.
Counting ==
  /\ pc \in Awaiting \cup Loop => job.verdict \in Verdicts
  /\ pc = "skip" => job.verdict # "passed"
  /\ pc \in Awaiting \cup Loop \cup {"finish"} /\ job.verdict = "passed" =>
       \A a \in Apps : appStatus[Cur][a] # "failed"

\* A noticed stop is still before the worker, or in the verdict: the loop has
\* at least one app, and looks after each.
Noticing ==
  /\ \A r \in Runs : status[r] = "queued" =>
       request[r].auto \/ \E a \in Apps : appStatus[r][a] = "pending"
  /\ pc \in {"source", "write"} => request[Cur].auto \/ job.todo # {}
  /\ pc \in {"start", "setup", "build", "phase"} => job.todo # {}
  /\ pc \in {"record", "close"} => ~job.cancelled
  /\ pc = "loop" /\ job.cancelled => job.todo # {}
  /\ pc = "finish" /\ job.cancelled => job.verdict # "passed"

\* Snapshots and trend points refer to runs that were created.
References ==
  /\ \A p \in Repos, a \in Apps : snapshot[p][a] <= created
  /\ \A h \in history : h[2] <= created

\* The conjuncts about the database alone, whatever the worker is doing.
Table ==
  /\ Rows
  /\ ActiveIsNewest
  /\ FinishedRunIsClosed
  /\ PassedMeansAllPassed
  /\ References
  /\ SnapshotProvenance
  /\ TrendsOnlyFromVerdicts

\* The conjuncts that tie the worker's locals to the database.
Worker ==
  /\ Holding
  /\ ExecutingIsHeld
  /\ Tracking
  /\ Counting
  /\ Noticing
  /\ NoticedStopNeverPasses

IInv == TypeOK /\ Table /\ Worker

USE RunStoreAssumption, LifecycleAssumption
USE DEF Cur, RepoOf, Runs, Executing, Active, Terminal, Verdicts, OpenApp,
        Commands, Awaiting, Ending, Loop, Working

-----------------------------------------------------------------------------
(* The type of the worker's locals.                                        *)

LEMMA NoJobTyped == NoJob \in JobType
BY DEF NoJob, JobType

\* The locals of executeRun keep their types under updates of one field.
LEMMA JobCancelled ==
  ASSUME NEW j \in JobType
  PROVE  [j EXCEPT !.cancelled = TRUE] \in JobType
BY DEF JobType

LEMMA JobThrown ==
  ASSUME NEW j \in JobType
  PROVE  [j EXCEPT !.block = "throw"] \in JobType
BY DEF JobType

LEMMA JobSeen ==
  ASSUME NEW j \in JobType, NEW s \in Active
  PROVE  [j EXCEPT !.seen = s] \in JobType
BY DEF JobType

LEMMA JobTodo ==
  ASSUME NEW j \in JobType, NEW S \in SUBSET Apps
  PROVE  [j EXCEPT !.todo = S] \in JobType
BY DEF JobType

LEMMA JobOutcome ==
  ASSUME NEW j \in JobType, NEW o \in {"passed", "failed", "skipped"}
  PROVE  [j EXCEPT !.outcome = o] \in JobType
BY DEF JobType

\* Every step leaves the locals well typed.
LEMMA JobTyped == IInv /\ [Next]_vars => job' \in JobType
<1> SUFFICES ASSUME IInv, [Next]_vars PROVE job' \in JobType
  OBVIOUS
<1>1. job \in JobType /\ NoJob \in JobType
  BY NoJobTyped DEF IInv, TypeOK
<1>2. ASSUME NEW v \in Terminal, Abort(v) PROVE job' \in JobType
  <2>1. [job EXCEPT !.verdict = v, !.block = "catch"] \in JobType
    BY <1>1 DEF JobType
  <2> QED BY <1>2, <2>1 DEF Abort
<1>3. CASE Server
  BY <1>1, <1>3 DEF Server, Submit, Stop, Delete, workerVars
<1>4. CASE Process
  BY <1>1, <1>4 DEF Process, Boot, Recover, Crash, Terminate, RemoveOnShutdown, Exit, Die
<1>5. CASE Poll
  BY <1>1, <1>5, JobCancelled DEF Poll
<1>6. CASE Execute
  <2>1. ASSUME NEW r \in Runs, Claim(r) PROVE job' \in JobType
    <3> DEFINE S == {a \in Apps : appStatus[r][a] = "pending"}
    <3>1. job' = [NoJob EXCEPT !.run = r, !.todo = S]
      BY <2>1 DEF Claim
    <3>2. S \in SUBSET Apps
      OBVIOUS
    <3> HIDE DEF S
    <3>3. [NoJob EXCEPT !.run = r, !.todo = S] \in JobType
      <4>1. r \in 0 .. MaxRuns
        OBVIOUS
      <4> QED BY <1>1, <3>2, <4>1 DEF JobType
    <3> QED BY <3>1, <3>3
  <2>2. CASE SourceReady
    <3>1. pc = "source" => status[Cur] \in Active
      BY DEF IInv, Worker, Holding
    <3>2. CASE Abort("interrupted")
      BY <1>2, <3>2
    <3>3. CASE job' = [job EXCEPT !.seen = status[Cur]]
      BY <1>1, <2>2, <3>1, <3>3, JobSeen DEF SourceReady
    <3> QED BY <2>2, <3>2, <3>3 DEF SourceReady
  <2>3. CASE SourceFails \/ LoopStopped \/ StartFails \/ WriteThrows
    BY <1>2, <2>3 DEF SourceFails, LoopStopped, StartFails, WriteThrows
  <2>4. CASE Detect
    <3>1. CASE \E v \in Terminal : Abort(v)
      BY <1>2, <3>1
    <3>2. ASSUME NEW S \in SUBSET Apps, job' = [job EXCEPT !.todo = S]
          PROVE  job' \in JobType
      <4>1. [job EXCEPT !.todo = S] \in JobType
        BY <1>1, JobTodo
      <4> QED BY <3>2, <4>1
    <3> QED BY <2>4, <3>1, <3>2 DEF Detect
  <2>5. CASE PhaseReturns \/ PhaseThrows \/ ExecTimesOut
    BY <1>1, <1>2, <2>5 DEF PhaseReturns, PhaseThrows, ExecTimesOut
  <2>6. ASSUME NEW a \in Apps, StartApp(a) PROVE job' \in JobType
    <3>1. [job EXCEPT !.app = a, !.todo = @ \ {a}] \in JobType
      BY <1>1 DEF JobType
    <3> QED BY <2>6, <3>1 DEF StartApp
  <2>7. CASE ExecReturns \/ ExecThrows
    BY <1>1, <1>2, <2>7, JobOutcome DEF ExecReturns, ExecThrows
  <2>8. CASE FinishApp
    <3> DEFINE v == IF job.outcome = "failed" THEN "failed" ELSE job.verdict
    <3>1. v \in Terminal
      BY <1>1 DEF JobType
    <3> HIDE DEF v
    <3>2. [job EXCEPT !.app = NoApp, !.outcome = "none", !.verdict = v] \in JobType
      BY <1>1, <3>1 DEF JobType
    <3> QED BY <2>8, <3>2 DEF FinishApp, v
  <2>9. CASE Prune
    BY <1>1, <2>9 DEF Prune, Die
  <2>10. CASE EnterTesting
    BY <1>1, <1>2, <2>10 DEF EnterTesting
  <2>11. CASE CatchThrows
    BY <1>1, <2>11, JobThrown DEF CatchThrows
  <2> QED
    BY <1>1, <1>6, <2>1, <2>2, <2>3, <2>4, <2>5, <2>6, <2>7, <2>8, <2>9, <2>10, <2>11
    DEF Execute, WriteSource, CreateContainer, ContainerUp, StartReturns, RecordSnapshot,
        Conclude, SkipApps, Finish, RecordHistory, Cleanup
<1>7. CASE UNCHANGED vars
  BY <1>1, <1>7 DEF vars, workerVars
<1> QED BY <1>3, <1>4, <1>5, <1>6, <1>7 DEF Next

-----------------------------------------------------------------------------
(* The types of the remaining variables.                                   *)

\* The worker's program counter, the container and the shutdown flag.
LEMMA ControlTyped ==
  IInv /\ [Next]_vars => pc' \in PC /\ container' \in Container /\ stopping' \in BOOLEAN
<1> SUFFICES ASSUME IInv, [Next]_vars
             PROVE  pc' \in PC /\ container' \in Container /\ stopping' \in BOOLEAN
  OBVIOUS
<1> USE DEF PC, Container
<1>1. pc \in PC /\ container \in Container /\ stopping \in BOOLEAN
  BY DEF IInv, TypeOK
<1>2. Settled \in Container
  BY <1>1 DEF Settled
<1>3. CASE Server
  BY <1>1, <1>3 DEF Server, Submit, Stop, Delete, workerVars
<1>4. CASE Process
  BY <1>1, <1>4
  DEF Process, Boot, Recover, Crash, Terminate, RemoveOnShutdown, Exit, Die, Goto, KillContainer
<1>5. CASE Poll
  BY <1>1, <1>5 DEF Poll, KillContainer
<1>6. CASE Execute
  <2>1. CASE SourceReady \/ SourceFails \/ WriteSource
    BY <1>1, <2>1 DEF SourceReady, SourceFails, WriteSource, Goto, Abort
  <2>7. ASSUME Detect PROVE pc' \in {"start", "skip"} /\ UNCHANGED <<container, stopping>>
    BY <2>7 DEF Detect, Goto, Abort
  <2>9. ASSUME NEW r \in Runs, Claim(r) PROVE pc' = "source" /\ UNCHANGED <<container, stopping>>
    BY <2>9 DEF Claim, Goto
  <2>2. CASE CreateContainer \/ ContainerUp \/ StartReturns \/ StartFails
    BY <1>1, <2>2 DEF CreateContainer, ContainerUp, StartReturns, StartFails, Goto, Abort
  <2>3. CASE PhaseReturns \/ PhaseThrows \/ EnterTesting
    BY <1>1, <1>2, <2>3 DEF PhaseReturns, PhaseThrows, EnterTesting, Goto, Abort
  <2>4. CASE ExecReturns \/ ExecThrows \/ ExecTimesOut
    BY <1>1, <1>2, <2>4 DEF ExecReturns, ExecThrows, ExecTimesOut, Abort
  <2>5. CASE LoopStopped \/ RecordSnapshot \/ FinishApp \/ Conclude \/ WriteThrows
    BY <1>1, <2>5
    DEF LoopStopped, RecordSnapshot, FinishApp, Conclude, WriteThrows, Goto, Abort
  <2>8. ASSUME NEW a \in Apps, StartApp(a) PROVE pc' = "exec" /\ UNCHANGED <<container, stopping>>
    BY <2>8 DEF StartApp, Goto
  <2>6. CASE SkipApps \/ Finish \/ RecordHistory \/ CatchThrows \/ Cleanup \/ Prune
    BY <1>1, <2>6
    DEF SkipApps, Finish, RecordHistory, CatchThrows, Cleanup, Prune, Die, Goto
  <2> QED BY <1>1, <1>6, <2>1, <2>2, <2>3, <2>4, <2>5, <2>6, <2>7, <2>8, <2>9 DEF Execute
<1>7. CASE UNCHANGED vars
  BY <1>1, <1>7 DEF vars, workerVars
<1> QED BY <1>3, <1>4, <1>5, <1>6, <1>7 DEF Next

\* The tables' part of TypeOK.
StoreTyped ==
  /\ repos \subseteq Repos
  /\ created \in 0 .. MaxRuns
  /\ request \in [Runs -> [repo : Repos \cup {NoRepo}, local : BOOLEAN, auto : BOOLEAN]]
  /\ status \in [Runs -> Status]
  /\ cancel \in [Runs -> BOOLEAN]
  /\ reason \in [Runs -> Reason]
  /\ appStatus \in [Runs -> [Apps -> AppStatus]]
  /\ snapshot \in [Repos -> [Apps -> 0 .. MaxRuns]]
  /\ history \subseteq Repos \X Runs \X Apps

\* Every step leaves the tables well typed.
LEMMA TablesTyped == IInv /\ [Next]_vars => StoreTyped'
<1> SUFFICES ASSUME IInv, [Next]_vars PROVE StoreTyped'
  OBVIOUS
<1> USE DEF StoreTyped, Status, AppStatus, Reason
<1>1. StoreTyped /\ job \in JobType
  BY DEF IInv, TypeOK
<1>2. \A apps \in [Apps -> AppStatus] : SkipOpen(apps) \in [Apps -> AppStatus]
  BY DEF SkipOpen
<1>3. \A S \in SUBSET Apps : Pending(S) \in [Apps -> AppStatus]
  BY DEF Pending
<1>4. ASSUME UNCHANGED storeVars PROVE StoreTyped'
  BY <1>1, <1>4 DEF storeVars
<1>5. ASSUME NEW S \in SUBSET Runs, DropRuns(S), UNCHANGED created,
             repos' \subseteq repos, history' \subseteq history,
             snapshot' \in [Repos -> [Apps -> 0 .. MaxRuns]]
      PROVE  StoreTyped'
  BY <1>1, <1>5 DEF DropRuns, NoRequest, NoApps
<1>6. ASSUME NEW r \in Runs, NEW s \in Status, SetStatus(r, s) PROVE StoreTyped'
  BY <1>1, <1>6 DEF SetStatus
<1>7. CASE Server
  <2>1. ASSUME NEW p \in Repos, NEW q \in Requests, Submit(p, q) PROVE StoreTyped'
    <3>1. q.local \in BOOLEAN /\ q.auto \in BOOLEAN /\ q.apps \in SUBSET Apps
      OBVIOUS
    <3>2. created + 1 \in Runs
      BY <1>1, <2>1 DEF Submit, CreateRun
    <3>3. request' \in [Runs -> [repo : Repos \cup {NoRepo}, local : BOOLEAN, auto : BOOLEAN]]
      BY <1>1, <2>1, <3>1, <3>2 DEF Submit, CreateRun
    <3> QED BY <1>1, <1>3, <2>1, <3>1, <3>2, <3>3 DEF Submit, CreateRun
  <2>2. ASSUME NEW r \in Runs, Stop(r) PROVE StoreTyped'
    <3>1. appStatus[r] \in [Apps -> AppStatus]
      BY <1>1
    <3>2. CASE StopQueued(r)
      BY <1>1, <1>2, <3>1, <3>2 DEF StopQueued
    <3>3. CASE FlagStop(r)
      BY <1>1, <3>3 DEF FlagStop
    <3> QED BY <2>2, <3>2, <3>3 DEF Stop, RequestRunCancellation
  <2>3. ASSUME NEW p \in Repos, Delete(p) PROVE StoreTyped'
    <3>1. snapshot' \in [Repos -> [Apps -> 0 .. MaxRuns]]
      BY <1>1, <2>3 DEF Delete, DeleteRepository
    <3> QED BY <1>5, <2>3, <3>1 DEF Delete, DeleteRepository, RunsOf
  <2> QED BY <1>7, <2>1, <2>2, <2>3 DEF Server
<1>8. CASE Process
  <2>1. CASE Recover
    <3>1. status' \in [Runs -> Status] /\ reason' \in [Runs -> Reason]
      BY <1>1, <2>1 DEF Recover, MarkActiveRunsInterrupted
    <3>2. appStatus' \in [Runs -> [Apps -> AppStatus]]
      BY <1>1, <1>2, <2>1 DEF Recover, MarkActiveRunsInterrupted
    <3> QED BY <1>1, <2>1, <3>1, <3>2 DEF Recover, MarkActiveRunsInterrupted
  <2> QED BY <1>4, <1>8, <2>1 DEF Process, Boot, Crash, Terminate, RemoveOnShutdown, Exit
<1>9. CASE Poll
  BY <1>4, <1>9 DEF Poll
<1>10. CASE Execute
  <2>1. pc \in Working \cup Ending => Cur \in Runs
    BY <1>1 DEF IInv, Worker, Holding, JobType
  <2>2. ASSUME NEW r \in Runs, Claim(r) PROVE StoreTyped'
    BY <1>1, <2>2 DEF Claim, ClaimNextRun
  <2>3. CASE WriteSource
    BY <1>1, <1>6, <2>1, <2>3 DEF WriteSource, JobType
  <2>4. CASE StartReturns
    BY <1>4, <1>6, <2>1, <2>4 DEF StartReturns
  <2>5. CASE PhaseReturns
    BY <1>4, <1>6, <2>1, <2>5 DEF PhaseReturns
  <2>6. CASE EnterTesting
    BY <1>6, <2>1, <2>6 DEF EnterTesting
  <2>7. CASE Detect
    <3>1. ASSUME NEW S \in SUBSET Apps, SetDetectedApps(Cur, S) PROVE StoreTyped'
      <4>1. appStatus' \in [Runs -> [Apps -> AppStatus]]
        BY <1>1, <1>3, <3>1 DEF SetDetectedApps
      <4> QED BY <1>1, <3>1, <4>1 DEF SetDetectedApps
    <3> QED BY <1>4, <2>7, <3>1 DEF Detect
  <2>8. ASSUME FinishApp \/ \E a \in Apps : StartApp(a) PROVE StoreTyped'
    <3>1. ASSUME NEW a, NEW s \in AppStatus, SetAppStatus(Cur, a, s) PROVE StoreTyped'
      <4>1. appStatus' \in [Runs -> [Apps -> AppStatus]]
        BY <1>1, <3>1 DEF SetAppStatus
      <4> QED BY <1>1, <3>1, <4>1 DEF SetAppStatus
    <3>2. job.outcome \in AppStatus /\ "running" \in AppStatus
      BY <1>1 DEF JobType
    <3>3. CASE FinishApp
      BY <3>1, <3>2, <3>3 DEF FinishApp
    <3>4. ASSUME NEW a \in Apps, StartApp(a) PROVE StoreTyped'
      BY <3>1, <3>2, <3>4 DEF StartApp
    <3> QED BY <2>8, <3>3, <3>4
  <2>9. CASE RecordSnapshot
    <3>1. Cur \in 0 .. MaxRuns
      BY <1>1 DEF JobType
    <3>2. ASSUME ReplaceCoverageSnapshot(RepoOf(Cur), job.app, Cur)
          PROVE  snapshot' \in [Repos -> [Apps -> 0 .. MaxRuns]]
      BY <1>1, <3>1, <3>2 DEF ReplaceCoverageSnapshot
    <3> QED BY <1>1, <1>4, <2>9, <3>2 DEF RecordSnapshot, ReplaceCoverageSnapshot
  <2>10. CASE SkipApps
    BY <1>1, <1>2, <2>1, <2>10 DEF SkipApps, SkipPendingApps
  <2>11. CASE Finish
    BY <1>1, <1>4, <2>11 DEF Finish, EndRun, JobType
  <2>12. CASE RecordHistory
    <3>1. status[Cur] \in Verdicts => RepoOf(Cur) \in Repos
      BY <1>1, <2>1, <2>12 DEF RecordHistory, IInv, Table, Rows
    <3>2. history' \subseteq Repos \X Runs \X Apps
      BY <1>1, <2>1, <2>12, <3>1 DEF RecordHistory, InsertHistory
    <3> QED BY <1>1, <2>12, <3>2 DEF RecordHistory, InsertHistory
  <2>13. CASE Prune
    BY <1>1, <1>4, <1>5, <2>13 DEF Prune, PruneRuns, Aged, RunsOf
  <2> QED
    BY <1>4, <1>10, <2>2, <2>3, <2>4, <2>5, <2>6, <2>7, <2>8, <2>9, <2>10, <2>11, <2>12, <2>13
    DEF Execute, SourceReady, SourceFails, CreateContainer, ContainerUp, StartFails, PhaseThrows,
        LoopStopped, ExecReturns, ExecThrows, ExecTimesOut, Conclude, WriteThrows, CatchThrows,
        Cleanup
<1>11. CASE UNCHANGED vars
  BY <1>4, <1>11 DEF vars
<1> QED BY <1>7, <1>8, <1>9, <1>10, <1>11 DEF Next

\* TypeOK is preserved, given the rest of the invariant.
LEMMA TypeStep == IInv /\ [Next]_vars => TypeOK'
  BY JobTyped, ControlTyped, TablesTyped DEF StoreTyped, TypeOK

-----------------------------------------------------------------------------
(* The database: Table is preserved.                                       *)

\* Pruning never takes an active run: none of its repository's is newer.
LEMMA ActiveIsNotAged ==
  ASSUME IInv, NEW p \in repos, NEW r \in Aged(p)
  PROVE  r \in Runs /\ RepoOf(r) = p /\ status[r] \notin Active
<1>1. r \in RunsOf(p) /\ Cardinality({q \in RunsOf(p) : q > r}) >= Keep
  BY DEF Aged
<1>2. r \in Runs /\ RepoOf(r) = p
  BY <1>1 DEF RunsOf
<1>3. ASSUME status[r] \in Active PROVE FALSE
  <2>1. {q \in RunsOf(p) : q > r} = {}
    BY <1>2, <1>3 DEF IInv, Table, ActiveIsNewest, RunsOf
  <2>2. Cardinality({q \in RunsOf(p) : q > r}) = 0
    BY <2>1, FS_EmptySet
  <2> QED BY <1>1, <2>2
<1> QED BY <1>2, <1>3

\* Deleting rows of runs that are over disturbs nothing about the others.
LEMMA DropKeepsTable ==
  ASSUME IInv, NEW S \in SUBSET Runs, \A r \in S : status[r] \notin Active, DropRuns(S),
         created' = created, history' \subseteq history,
         \A p \in Repos, a \in Apps : snapshot'[p][a] \in {0, snapshot[p][a]}
  PROVE  Table'
<1> USE DEF IInv, Table, TypeOK, DropRuns, NoRequest, NoApps
<1>1. Rows' /\ ActiveIsNewest'
  BY DEF Rows, ActiveIsNewest
<1>2. FinishedRunIsClosed' /\ PassedMeansAllPassed'
  BY DEF FinishedRunIsClosed, PassedMeansAllPassed
<1>3. References' /\ TrendsOnlyFromVerdicts'
  <2>1. \A h \in history : h[2] \in Runs
    OBVIOUS
  <2>2. References'
    <3>1. ASSUME NEW p \in Repos, NEW a \in Apps PROVE snapshot'[p][a] <= created'
      <4>1. 0 <= created /\ snapshot[p][a] <= created
        BY DEF References
      <4> QED BY <4>1
    <3>2. \A h \in history' : h[2] <= created'
      BY DEF References
    <3> QED BY <3>1, <3>2 DEF References
  <2>3. ASSUME NEW h \in history' PROVE status'[h[2]] \in Verdicts \cup {"absent"}
    <3>1. h[2] \in Runs /\ status[h[2]] \in Verdicts \cup {"absent"}
      BY <2>1 DEF TrendsOnlyFromVerdicts
    <3> QED BY <3>1
  <2> QED BY <2>2, <2>3 DEF TrendsOnlyFromVerdicts
<1>4. SnapshotProvenance'
  BY DEF SnapshotProvenance, References
<1> QED BY <1>1, <1>2, <1>3, <1>4

\* A run may move from one active status to another.
LEMMA SetStatusKeepsTable ==
  ASSUME IInv, NEW r \in Runs, status[r] \in Active, NEW s \in Active, SetStatus(r, s)
  PROVE  Table'
<1> USE DEF IInv, Table, TypeOK, SetStatus
<1>1. Rows' /\ ActiveIsNewest'
  BY DEF Rows, ActiveIsNewest
<1>2. FinishedRunIsClosed' /\ PassedMeansAllPassed'
  BY DEF FinishedRunIsClosed, PassedMeansAllPassed
<1>3. References' /\ TrendsOnlyFromVerdicts'
  <2>1. \A h \in history : h[2] \in Runs
    OBVIOUS
  <2> QED BY <2>1 DEF References, TrendsOnlyFromVerdicts
<1>4. SnapshotProvenance'
  BY DEF SnapshotProvenance, References
<1> QED BY <1>1, <1>2, <1>3, <1>4

\* The app rows of an active run may change at will.
LEMMA AppsKeepTable ==
  ASSUME IInv, status[Cur] \in Active, Cur \in Runs,
         UNCHANGED <<created, request, status, snapshot, history>>,
         \A r \in Runs \ {Cur} : appStatus'[r] = appStatus[r]
  PROVE  Table'
<1> USE DEF IInv, Table, TypeOK
<1>1. Rows' /\ ActiveIsNewest' /\ References' /\ TrendsOnlyFromVerdicts'
  BY DEF Rows, ActiveIsNewest, References, TrendsOnlyFromVerdicts
<1>2. SnapshotProvenance'
  BY DEF SnapshotProvenance
<1>3. FinishedRunIsClosed' /\ PassedMeansAllPassed'
  BY DEF FinishedRunIsClosed, PassedMeansAllPassed
<1> QED BY <1>1, <1>2, <1>3

\* Every step keeps the tables consistent.
LEMMA TableStep == IInv /\ [Next]_vars => Table'
<1> SUFFICES ASSUME IInv, [Next]_vars PROVE Table'
  OBVIOUS
<1> USE DEF IInv, Table
<1>1. ASSUME UNCHANGED storeVars PROVE Table'
  BY <1>1
  DEF storeVars, Rows, ActiveIsNewest, FinishedRunIsClosed, PassedMeansAllPassed, References,
      SnapshotProvenance, TrendsOnlyFromVerdicts
<1>2. pc \in Working => Cur \in Runs /\ status[Cur] \in Executing
  BY DEF TypeOK, Worker, Holding, JobType
<1>3. ASSUME NEW p \in Repos, NEW q \in Requests, Submit(p, q) PROVE Table'
  <2> USE DEF TypeOK, Submit, CreateRun, RunsOf
  <2>1. created + 1 \in Runs /\ status[created + 1] = "absent" /\ p # NoRepo
    BY <1>3 DEF Rows
  <2>2. Rows'
    BY <1>3, <2>1 DEF Rows
  <2>3. ActiveIsNewest'
    BY <1>3, <2>1 DEF ActiveIsNewest, Rows
  <2>4. FinishedRunIsClosed' /\ PassedMeansAllPassed'
    BY <1>3, <2>1 DEF FinishedRunIsClosed, PassedMeansAllPassed
  <2>5. References' /\ TrendsOnlyFromVerdicts'
    BY <1>3, <2>1 DEF References, TrendsOnlyFromVerdicts
  <2>6. SnapshotProvenance'
    BY <1>3, <2>1 DEF References, SnapshotProvenance
  <2> QED BY <2>2, <2>3, <2>4, <2>5, <2>6
<1>4. ASSUME NEW r \in Runs, Stop(r) PROVE Table'
  <2>1. CASE StopQueued(r)
    <3> USE DEF TypeOK, StopQueued
    <3>1. Rows' /\ ActiveIsNewest' /\ References'
      BY <2>1 DEF Rows, ActiveIsNewest, References
    <3>2. FinishedRunIsClosed'
      BY <2>1 DEF FinishedRunIsClosed, SkipOpen
    <3>3. PassedMeansAllPassed' /\ TrendsOnlyFromVerdicts'
      BY <2>1 DEF PassedMeansAllPassed, TrendsOnlyFromVerdicts
    <3>4. SnapshotProvenance'
      BY <2>1 DEF SnapshotProvenance, References
    <3> QED BY <3>1, <3>2, <3>3, <3>4
  <2>2. CASE FlagStop(r)
    BY <2>2
    DEF FlagStop, Rows, ActiveIsNewest, FinishedRunIsClosed, PassedMeansAllPassed, References,
        SnapshotProvenance, TrendsOnlyFromVerdicts
  <2> QED BY <1>4, <2>1, <2>2 DEF Stop, RequestRunCancellation
<1>5. ASSUME NEW p \in Repos, Delete(p) PROVE Table'
  <2>1. \A x \in Repos, a \in Apps : snapshot'[x][a] \in {0, snapshot[x][a]}
    BY <1>5 DEF Delete, DeleteRepository, TypeOK
  <2> QED BY <1>5, <2>1, DropKeepsTable DEF Delete, DeleteRepository, RunsOf
<1>6. CASE Recover
  <2> USE DEF TypeOK, Recover, MarkActiveRunsInterrupted
  <2>1. Rows' /\ ActiveIsNewest' /\ References'
    BY <1>6 DEF Rows, ActiveIsNewest, References
  <2>2. FinishedRunIsClosed'
    BY <1>6 DEF FinishedRunIsClosed, SkipOpen
  <2>3. PassedMeansAllPassed' /\ TrendsOnlyFromVerdicts'
    BY <1>6 DEF PassedMeansAllPassed, TrendsOnlyFromVerdicts
  <2>4. SnapshotProvenance'
    BY <1>6 DEF SnapshotProvenance, References
  <2> QED BY <2>1, <2>2, <2>3, <2>4
<1>7. ASSUME NEW r \in Runs, Claim(r) PROVE Table'
  BY <1>7, SetStatusKeepsTable DEF Claim, ClaimNextRun, Queued, SetStatus
<1>8. CASE WriteSource
  BY <1>2, <1>8, SetStatusKeepsTable DEF WriteSource, Worker, Holding
<1>9. CASE StartReturns \/ PhaseReturns \/ EnterTesting
  BY <1>1, <1>2, <1>9, SetStatusKeepsTable DEF StartReturns, PhaseReturns, EnterTesting
<1>10. CASE Detect \/ FinishApp \/ \E a \in Apps : StartApp(a)
  <2>1. CASE UNCHANGED storeVars
    BY <1>1, <2>1
  <2>2. CASE \E S \in SUBSET Apps : pc \in Working /\ SetDetectedApps(Cur, S)
    BY <1>2, <2>2, AppsKeepTable DEF SetDetectedApps, TypeOK
  <2>3. CASE \E a \in Apps \cup {NoApp}, o \in AppStatus : pc \in Working /\ SetAppStatus(Cur, a, o)
    BY <1>2, <2>3, AppsKeepTable DEF SetAppStatus, TypeOK
  <2>4. CASE FinishApp
    BY <2>3, <2>4 DEF FinishApp, TypeOK, JobType, AppStatus
  <2>5. ASSUME NEW a \in Apps, StartApp(a) PROVE Table'
    BY <2>3, <2>5 DEF StartApp, AppStatus
  <2>6. CASE Detect
    BY <2>1, <2>2, <2>6 DEF Detect
  <2> QED BY <1>10, <2>4, <2>5, <2>6
<1>s. CASE SkipApps
  <2>0. Cur \in Runs
    BY <1>s DEF SkipApps, TypeOK, Worker, Holding, JobType
  <2>1. CASE status[Cur] \in Executing
    BY <1>s, <2>0, <2>1, AppsKeepTable DEF SkipApps, SkipPendingApps, TypeOK
  <2>2. CASE status[Cur] \notin Executing
    <3> USE DEF TypeOK, SkipApps, SkipPendingApps, SkipOpen
    <3>1. Rows' /\ ActiveIsNewest' /\ References' /\ SnapshotProvenance' /\ TrendsOnlyFromVerdicts'
      BY <1>s
      DEF Rows, ActiveIsNewest, References, SnapshotProvenance, TrendsOnlyFromVerdicts
    <3>2. FinishedRunIsClosed'
      BY <1>s, <2>0 DEF FinishedRunIsClosed
    <3>3. PassedMeansAllPassed'
      BY <1>s, <2>0 DEF PassedMeansAllPassed
    <3> QED BY <3>1, <3>2, <3>3
  <2> QED BY <2>1, <2>2
<1>11. CASE RecordSnapshot
  <2> USE DEF TypeOK, ReplaceCoverageSnapshot
  <2>1. ASSUME ReplaceCoverageSnapshot(RepoOf(Cur), job.app, Cur), ~request[Cur].local
        PROVE  Table'
    <3>1. Cur \in Runs /\ status[Cur] # "absent" /\ Cur <= created /\ RepoOf(Cur) \in Repos
      BY <1>2, <1>11 DEF RecordSnapshot, Rows
    <3>2. Rows' /\ ActiveIsNewest' /\ FinishedRunIsClosed' /\ PassedMeansAllPassed'
          /\ TrendsOnlyFromVerdicts'
      BY <2>1
      DEF Rows, ActiveIsNewest, FinishedRunIsClosed, PassedMeansAllPassed, TrendsOnlyFromVerdicts
    <3>3. \A p \in Repos, a \in Apps :
            \/ snapshot'[p][a] = snapshot[p][a]
            \/ snapshot'[p][a] = Cur /\ p = RepoOf(Cur)
      BY <2>1, <3>1
    <3>4. References'
      BY <2>1, <3>1, <3>3 DEF References
    <3>5. SnapshotProvenance'
      <4>1. request' = request /\ status' = status
        BY <2>1
      <4>2. ASSUME NEW p \in Repos, NEW a \in Apps,
                   snapshot'[p][a] # 0, status[snapshot'[p][a]] # "absent"
            PROVE  RepoOf(snapshot'[p][a]) = p /\ ~request[snapshot'[p][a]].local
        <5>1. CASE snapshot'[p][a] = snapshot[p][a]
          BY <4>2, <5>1 DEF SnapshotProvenance
        <5>2. CASE snapshot'[p][a] = Cur /\ p = RepoOf(Cur)
          BY <2>1, <5>2
        <5> QED BY <3>3, <5>1, <5>2
      <4> QED BY <4>1, <4>2 DEF SnapshotProvenance
    <3> QED BY <3>2, <3>4, <3>5
  <2> QED BY <1>1, <1>11, <2>1 DEF RecordSnapshot
<1>12. CASE Finish
  <2> USE DEF TypeOK, Finish, EndRun
  <2>0. CASE status[Cur] = "absent"
    BY <1>1, <1>12, <2>0
  <2> SUFFICES ASSUME status[Cur] # "absent" PROVE Table'
    BY <2>0
  <2>1. /\ Cur \in Runs /\ status[Cur] # "absent" /\ job.verdict \in Terminal
        /\ status[Cur] \in Executing \/ (status[Cur] \in Verdicts /\ job.verdict = "failed")
    BY <1>12 DEF JobType, Worker, Holding, Overruled
  <2>2. Rows' /\ ActiveIsNewest' /\ References'
    BY <1>12, <2>1 DEF Rows, ActiveIsNewest, References
  <2>3. FinishedRunIsClosed'
    BY <1>12, <2>1 DEF FinishedRunIsClosed, Worker, Tracking
  <2>4. PassedMeansAllPassed'
    <3>1. job.verdict = "passed" =>
            \A a \in Apps : appStatus[Cur][a] \in {"none", "passed", "skipped"}
      BY <1>12, <2>1 DEF Worker, Tracking, Counting, AppStatus
    <3> QED BY <1>12, <2>1, <3>1 DEF PassedMeansAllPassed
  <2>5. TrendsOnlyFromVerdicts'
    BY <1>12, <2>1 DEF TrendsOnlyFromVerdicts
  <2>6. SnapshotProvenance'
    BY <1>12, <2>1 DEF SnapshotProvenance, References
  <2> QED BY <2>2, <2>3, <2>4, <2>5, <2>6
<1>13. CASE RecordHistory
  <2> USE DEF TypeOK, RecordHistory, InsertHistory
  <2>1. Cur \in Runs
    BY <1>13 DEF Worker, Holding, JobType
  <2>2. Rows' /\ ActiveIsNewest' /\ FinishedRunIsClosed' /\ PassedMeansAllPassed'
    BY <1>13 DEF Rows, ActiveIsNewest, FinishedRunIsClosed, PassedMeansAllPassed
  <2>3. SnapshotProvenance'
    BY <1>13 DEF SnapshotProvenance
  <2>4. \A h \in history' : h \in history \/ (h[2] = Cur /\ status[Cur] \in Verdicts)
    <3>1. SUFFICES ASSUME NEW h \in history', h \notin history
                   PROVE  h[2] = Cur /\ status[Cur] \in Verdicts
      OBVIOUS
    <3>2. status[Cur] \in Verdicts /\ \E a \in Apps : h = <<RepoOf(Cur), Cur, a>>
      BY <1>13, <3>1
    <3> QED BY <3>2
  <2>5. References' /\ TrendsOnlyFromVerdicts'
    BY <1>13, <2>1, <2>4 DEF References, TrendsOnlyFromVerdicts, Rows
  <2> QED BY <2>2, <2>3, <2>5
<1>14. CASE Prune
  <2>1. CASE UNCHANGED storeVars
    BY <1>1, <2>1
  <2>2. CASE RepoOf(Cur) \in repos /\ PruneRuns(RepoOf(Cur))
    <3>1. Aged(RepoOf(Cur)) \in SUBSET Runs
          /\ \A r \in Aged(RepoOf(Cur)) : status[r] \notin Active
      BY <2>2, ActiveIsNotAged
    <3> QED BY <2>2, <3>1, DropKeepsTable DEF PruneRuns
  <2> QED BY <1>14, <2>1, <2>2 DEF Prune
<1>15. CASE UNCHANGED vars
  BY <1>1, <1>15 DEF vars
<1> QED
  BY <1>1, <1>3, <1>4, <1>5, <1>6, <1>7, <1>8, <1>9, <1>10, <1>s, <1>11, <1>12, <1>13, <1>14,
     <1>15
  DEF Next, Server, Process, Poll, Execute, Boot, Crash, Terminate, RemoveOnShutdown, Exit,
      SourceReady, SourceFails, CreateContainer, ContainerUp, StartFails, PhaseThrows,
      LoopStopped, ExecReturns, ExecThrows, ExecTimesOut, Conclude, WriteThrows, CatchThrows,
      Cleanup

-----------------------------------------------------------------------------
(* The worker: Worker is preserved.                                        *)

\* An error anywhere in the try block leads to the catch block with a verdict
\* that is not a pass.  The run is still executing, unless it was the insert
\* into coverage_history that threw.
LEMMA AbortKeepsWorker ==
  ASSUME IInv, NEW v \in {"failed", "timed_out", "interrupted"}, Abort(v),
         \/ pc \in Working
         \/ job.block = "try" /\ pc = "finish"
         \/ job.block = "try" /\ pc = "history" /\ v = "failed",
         UNCHANGED storeVars \/ (pc \in Working /\ SetStatus(Cur, "testing"))
  PROVE  Worker'
<1> USE DEF IInv, TypeOK, Worker, Abort
<1>1. job' = [job EXCEPT !.verdict = v, !.block = "catch"] /\ pc' = "skip" /\ job \in JobType
  OBVIOUS
<1>2. job'.run = job.run /\ job'.verdict = v /\ job'.block = "catch"
  BY <1>1 DEF JobType
<1>3. /\ UNCHANGED <<created, request, appStatus>> /\ Cur \in Runs
      /\ status' = status \/ (status' = [status EXCEPT ![Cur] = "testing"] /\ pc \in Working)
  BY DEF storeVars, SetStatus, Holding, JobType
<1>4. status'[Cur] \in Executing \/ (v = "failed" /\ status'[Cur] \in Verdicts \cup {"absent"})
  BY <1>3 DEF Holding, Overruled
<1>5. Holding'
  BY <1>1, <1>2, <1>3, <1>4 DEF Holding, Overruled
<1>6. ExecutingIsHeld'
  BY <1>1, <1>2, <1>3 DEF ExecutingIsHeld, Holding
<1>7. \A r \in Runs : status'[r] = "queued" => status[r] = "queued"
  BY <1>3
<1>8. Tracking' /\ Counting'
  BY <1>1, <1>2, <1>3, <1>7 DEF Tracking, Counting
<1>9. Noticing'
  BY <1>1, <1>2, <1>3, <1>7 DEF Noticing
<1>10. NoticedStopNeverPasses'
  <2>1. job'.cancelled = job.cancelled
    BY <1>1 DEF JobType
  <2>2. status'[Cur] = "passed" => status[Cur] = "passed"
    BY <1>3
  <2> QED BY <1>2, <2>1, <2>2 DEF NoticedStopNeverPasses
<1> QED BY <1>5, <1>6, <1>8, <1>9, <1>10

\* The server's steps: the held run keeps its row, its status and its apps.
LEMMA ServerKeepsWorker == IInv /\ Server => Worker'
<1> USE DEF IInv, TypeOK, Worker, workerVars
<1>1. ASSUME IInv, NEW p \in Repos, NEW q \in Requests, Submit(p, q) PROVE Worker'
  <2> USE DEF Submit, CreateRun
  <2>1. created + 1 \in Runs /\ status[created + 1] = "absent"
    BY <1>1 DEF Table, Rows
  <2>2. Cur # 0 => Cur \in Runs
    BY <1>1 DEF JobType
  <2>3. Cur # created + 1
    BY <1>1, <2>1 DEF Holding, JobType
  <2>4. Holding' /\ ExecutingIsHeld'
    BY <1>1, <2>1, <2>2, <2>3 DEF Holding, Overruled, ExecutingIsHeld
  <2>5. Tracking' /\ Counting'
    BY <1>1, <2>1, <2>2, <2>3 DEF Tracking, Counting, Pending
  <2>6. Noticing'
    BY <1>1, <2>1, <2>2, <2>3 DEF Noticing, Pending
  <2>7. NoticedStopNeverPasses'
    BY <1>1, <2>1, <2>2 DEF NoticedStopNeverPasses
  <2> QED BY <2>4, <2>5, <2>6, <2>7
<1>2. ASSUME IInv, NEW r \in Runs, Stop(r) PROVE Worker'
  <2> USE DEF Stop
  <2>1. CASE StopQueued(r)
    BY <1>2, <2>1
    DEF StopQueued, Holding, Overruled, ExecutingIsHeld, Tracking, Counting, Noticing,
        NoticedStopNeverPasses
  <2>2. CASE FlagStop(r)
    BY <1>2, <2>2
    DEF FlagStop, Holding, Overruled, ExecutingIsHeld, Tracking, Counting, Noticing,
        NoticedStopNeverPasses
  <2> QED BY <1>2, <2>1, <2>2 DEF RequestRunCancellation
<1>3. ASSUME IInv, NEW p \in Repos, Delete(p) PROVE Worker'
  <2> USE DEF Delete, DeleteRepository, DropRuns, NoRequest, NoApps, RunsOf
  <2>1. Cur # 0 => Cur \in Runs
    BY <1>3 DEF JobType
  <2>2. Holding' /\ ExecutingIsHeld'
    BY <1>3, <2>1 DEF Holding, Overruled, ExecutingIsHeld
  <2>3. Tracking' /\ Counting'
    BY <1>3, <2>1 DEF Tracking, Counting, Holding
  <2>4. Noticing' /\ NoticedStopNeverPasses'
    BY <1>3, <2>1 DEF Noticing, NoticedStopNeverPasses, Holding
  <2> QED BY <2>2, <2>3, <2>4
<1> QED BY <1>1, <1>2, <1>3 DEF Server

\* The process steps: a worker without a run holds nothing.
LEMMA ProcessKeepsWorker == IInv /\ Process => Worker'
<1> USE DEF IInv, TypeOK, Worker
<1>1. ASSUME IInv, UNCHANGED storeVars, Die PROVE Worker'
  BY <1>1
  DEF Die, NoJob, storeVars, Holding, Overruled, ExecutingIsHeld, Tracking, Counting, Noticing,
      NoticedStopNeverPasses
<1>2. ASSUME IInv, UNCHANGED <<storeVars, pc, job>> PROVE Worker'
  BY <1>2
  DEF storeVars, Holding, Overruled, ExecutingIsHeld, Tracking, Counting, Noticing,
      NoticedStopNeverPasses
<1>3. ASSUME IInv, Boot PROVE Worker'
  BY <1>3
  DEF Boot, Goto, storeVars, Holding, Overruled, ExecutingIsHeld, Tracking, Counting, Noticing,
      NoticedStopNeverPasses
<1>4. ASSUME IInv, Recover PROVE Worker'
  BY <1>4
  DEF Recover, Goto, MarkActiveRunsInterrupted, Holding, Overruled, ExecutingIsHeld, Tracking,
      Counting, Noticing, NoticedStopNeverPasses
<1> QED BY <1>1, <1>2, <1>3, <1>4 DEF Process, Crash, Terminate, RemoveOnShutdown, Exit

\* The steps of the timer and of executeRun.
LEMMA ExecuteKeepsWorker == IInv /\ (Poll \/ Execute) => Worker'
<1> SUFFICES ASSUME IInv, Poll \/ Execute PROVE Worker'
  OBVIOUS
<1>a. ASSUME NEW v \in {"failed", "timed_out", "interrupted"}, Abort(v), UNCHANGED storeVars,
             \/ pc \in Working
             \/ job.block = "try" /\ v = "failed" /\ pc \in {"finish", "history"}
      PROVE  Worker'
  BY <1>a, AbortKeepsWorker
<1>e. ASSUME Abort("failed"), pc \in Working, SetStatus(Cur, "testing") PROVE Worker'
  BY <1>e, AbortKeepsWorker
<1> USE DEF IInv, TypeOK, Worker, Goto
<1>1. job \in JobType /\ (Cur # 0 => Cur \in Runs) /\ (pc \in Working \cup Ending => Cur \in Runs)
  BY DEF Holding, JobType
<1>2. CASE Poll
  <2>1. job' = [job EXCEPT !.cancelled = TRUE] /\ pc' = pc /\ UNCHANGED storeVars
    BY <1>2 DEF Poll
  <2>2. /\ job'.run = job.run /\ job'.todo = job.todo /\ job'.app = job.app
        /\ job'.outcome = job.outcome /\ job'.verdict = job.verdict /\ job'.seen = job.seen
        /\ job'.block = job.block
    BY <1>1, <2>1 DEF JobType
  <2>3. pc \in Awaiting
    BY <1>2 DEF Poll
  <2> QED BY <2>1, <2>2, <2>3
    DEF storeVars, Holding, ExecutingIsHeld, Tracking, Counting, Noticing, NoticedStopNeverPasses
<1>3. ASSUME NEW r \in Runs, Claim(r) PROVE Worker'
  <2> USE DEF Claim, ClaimNextRun, Queued
  <2>1. job'.run = r /\ job'.todo = {a \in Apps : appStatus[r][a] = "pending"}
        /\ job'.app = NoApp /\ job'.verdict = "passed" /\ ~job'.cancelled /\ job'.block = "try"
    BY <1>3 DEF NoJob
  <2>2. Holding' /\ ExecutingIsHeld'
    <3>1. r <= created /\ r # 0 /\ pc = "idle"
      BY <1>3 DEF Table, Rows
    <3>2. \A q \in Runs : status[q] \notin Executing
      BY <3>1 DEF Holding, ExecutingIsHeld
    <3>3. created' = created /\ status' = [status EXCEPT ![r] = "cloning"] /\ pc' = "source"
      BY <1>3
    <3> QED BY <2>1, <3>1, <3>2, <3>3 DEF Holding, ExecutingIsHeld
  <2>3. Tracking' /\ Counting'
    BY <1>3, <2>1 DEF Tracking, Counting
  <2>4. Noticing' /\ NoticedStopNeverPasses'
    BY <1>3, <2>1 DEF Noticing, NoticedStopNeverPasses
  <2> QED BY <2>2, <2>3, <2>4
<1>4. CASE SourceReady
  <2>1. CASE Abort("interrupted")
    BY <1>a, <1>4, <2>1 DEF SourceReady
  <2>2. CASE ~job.cancelled /\ pc' = "write" /\ job' = [job EXCEPT !.seen = status[Cur]]
    <3>1. /\ job'.run = job.run /\ job'.todo = job.todo /\ job'.app = job.app
          /\ job'.verdict = job.verdict /\ job'.cancelled = job.cancelled
          /\ job'.seen = status[Cur] /\ job'.block = job.block
      BY <1>1, <2>2 DEF JobType
    <3>2. pc = "source" /\ UNCHANGED storeVars
      BY <1>4 DEF SourceReady
    <3> QED BY <1>1, <2>2, <3>1, <3>2
      DEF storeVars, Holding, ExecutingIsHeld, Tracking, Counting, Noticing,
          NoticedStopNeverPasses
  <2> QED BY <1>4, <2>1, <2>2 DEF SourceReady
<1>5. CASE SourceFails \/ StartFails \/ PhaseThrows \/ LoopStopped \/ WriteThrows
  <2>1. CASE WriteThrows
    BY <1>a, <2>1 DEF WriteThrows
  <2>2. CASE SourceFails \/ StartFails \/ PhaseThrows \/ LoopStopped
    BY <1>a, <2>2 DEF SourceFails, StartFails, PhaseThrows, LoopStopped
  <2> QED BY <1>5, <2>1, <2>2
<1>6. CASE WriteSource
  BY <1>1, <1>6
  DEF WriteSource, SetStatus, Holding, ExecutingIsHeld, Tracking, Counting, Noticing,
      NoticedStopNeverPasses
<1>7. CASE Detect
  <2>1. CASE Abort("failed") /\ UNCHANGED storeVars
    BY <1>a, <1>7, <2>1 DEF Detect
  <2>2. ASSUME NEW S \in (SUBSET Apps) \ {{}}, SetDetectedApps(Cur, S), pc' = "start",
               job' = [job EXCEPT !.todo = S]
        PROVE  Worker'
    <3>1. /\ job'.run = job.run /\ job'.todo = S /\ job'.app = job.app
          /\ job'.verdict = job.verdict /\ job'.cancelled = job.cancelled /\ job'.block = job.block
      BY <1>1, <2>2 DEF JobType
    <3>2. pc = "detect" /\ Cur \in Runs /\ S # {}
      BY <1>1, <1>7, <2>2 DEF Detect
    <3>3. Holding' /\ ExecutingIsHeld'
      BY <2>2, <3>1, <3>2 DEF SetDetectedApps, Holding, ExecutingIsHeld
    <3>4. Tracking' /\ Counting'
      BY <2>2, <3>1, <3>2 DEF SetDetectedApps, Pending, Tracking, Counting, Holding
    <3>5. Noticing' /\ NoticedStopNeverPasses'
      BY <2>2, <3>1, <3>2 DEF SetDetectedApps, Noticing, NoticedStopNeverPasses, Holding
    <3> QED BY <3>3, <3>4, <3>5
  <2> QED BY <1>7, <2>1, <2>2 DEF Detect
<1>8. CASE CreateContainer \/ ContainerUp
  BY <1>8
  DEF CreateContainer, ContainerUp, storeVars, Holding, ExecutingIsHeld, Tracking, Counting,
      Noticing, NoticedStopNeverPasses
<1>p. ASSUME pc \in {"start", "setup", "build"}, pc' \in {"setup", "build", "phase"}, job' = job,
              UNCHANGED storeVars \/ \E s \in Executing : SetStatus(Cur, s)
       PROVE  Worker'
  <2>1. CASE UNCHANGED storeVars
    BY <1>1, <1>p, <2>1
    DEF storeVars, Holding, ExecutingIsHeld, Tracking, Counting, Noticing, NoticedStopNeverPasses
  <2>2. ASSUME NEW s \in Executing, SetStatus(Cur, s) PROVE Worker'
    BY <1>1, <1>p, <2>2
    DEF SetStatus, Holding, ExecutingIsHeld, Tracking, Counting, Noticing, NoticedStopNeverPasses
  <2> QED BY <1>p, <2>1, <2>2
<1>9. CASE StartReturns
  <2>1. ASSUME NEW c \in {<<"setup", "setup">>, <<"build", "building">>},
               pc' = c[1], SetStatus(Cur, c[2])
        PROVE  pc' \in {"setup", "build"} /\ \E s \in Executing : SetStatus(Cur, s)
    BY <2>1
  <2> QED BY <1>9, <1>p, <2>1 DEF StartReturns
<1>10. CASE PhaseReturns
  <2>1. CASE UNCHANGED storeVars /\ Abort(IF job.cancelled THEN "interrupted" ELSE "failed")
    BY <1>a, <1>10, <2>1 DEF PhaseReturns
  <2> QED BY <1>10, <1>p, <2>1 DEF PhaseReturns
<1>11. CASE EnterTesting
  <2>1. CASE Abort("failed")
    BY <1>e, <1>11, <2>1 DEF EnterTesting
  <2>2. CASE ~Abort("failed")
    BY <1>1, <1>11, <2>2
    DEF EnterTesting, SetStatus, Holding, ExecutingIsHeld, Tracking, Counting, Noticing,
        NoticedStopNeverPasses
  <2> QED BY <2>1, <2>2
<1>12. ASSUME NEW a \in Apps, StartApp(a) PROVE Worker'
  <2> USE DEF StartApp, SetAppStatus
  <2>1. /\ job'.run = job.run /\ job'.todo = job.todo \ {a} /\ job'.app = a
        /\ job'.verdict = job.verdict /\ job'.cancelled = job.cancelled /\ job'.block = job.block
    BY <1>1, <1>12 DEF JobType
  <2>2. pc = "loop" /\ pc' = "exec" /\ Cur \in Runs /\ job.app = NoApp
    BY <1>1, <1>12 DEF Tracking
  <2>3. \A b \in Apps : appStatus'[Cur][b] = IF b = a THEN "running" ELSE appStatus[Cur][b]
    BY <1>12, <2>2
  <2>4. Holding' /\ ExecutingIsHeld'
    BY <1>12, <2>1, <2>2 DEF Holding, ExecutingIsHeld
  <2>5. Tracking' /\ Counting'
    BY <1>12, <2>1, <2>2, <2>3 DEF Tracking, Counting, Holding
  <2>6. Noticing' /\ NoticedStopNeverPasses'
    BY <1>12, <2>1, <2>2 DEF Noticing, NoticedStopNeverPasses, Holding
  <2> QED BY <2>4, <2>5, <2>6
<1>13. CASE ExecReturns \/ ExecThrows \/ ExecTimesOut
  <2>1. CASE \E v \in {"failed", "timed_out", "interrupted"} : Abort(v)
    BY <1>a, <1>13, <2>1 DEF ExecReturns, ExecThrows, ExecTimesOut
  <2>2. ASSUME NEW o \in {"passed", "failed", "skipped"}, ~job.cancelled,
               pc' \in {"record", "close"}, job' = [job EXCEPT !.outcome = o]
        PROVE  Worker'
    <3>1. /\ job'.run = job.run /\ job'.todo = job.todo /\ job'.app = job.app
          /\ job'.verdict = job.verdict /\ job'.cancelled = job.cancelled /\ job'.outcome = o
          /\ job'.block = job.block
      BY <1>1, <2>2 DEF JobType
    <3>2. pc = "exec" /\ UNCHANGED storeVars
      BY <1>13 DEF ExecReturns, ExecThrows, ExecTimesOut
    <3> QED BY <1>1, <2>2, <3>1, <3>2
      DEF storeVars, Holding, ExecutingIsHeld, Tracking, Counting, Noticing,
          NoticedStopNeverPasses
  <2> QED BY <1>13, <2>1, <2>2 DEF ExecReturns, ExecThrows, ExecTimesOut
<1>14. CASE RecordSnapshot
  BY <1>14
  DEF RecordSnapshot, ReplaceCoverageSnapshot, storeVars, Holding, ExecutingIsHeld, Tracking,
      Counting, Noticing, NoticedStopNeverPasses
<1>15. CASE FinishApp
  <2> USE DEF FinishApp, SetAppStatus
  <2>1. /\ job'.run = job.run /\ job'.todo = job.todo /\ job'.app = NoApp
        /\ job'.cancelled = job.cancelled /\ job'.block = job.block
        /\ job'.verdict = IF job.outcome = "failed" THEN "failed" ELSE job.verdict
    BY <1>1, <1>15 DEF JobType
  <2>2. pc = "close" /\ pc' = "loop" /\ Cur \in Runs /\ job.app \in Apps
    BY <1>1, <1>15 DEF Tracking
  <2>3. /\ \A a \in Apps :
             appStatus'[Cur][a] = IF a = job.app THEN job.outcome ELSE appStatus[Cur][a]
        /\ job.outcome \in Verdicts \cup {"skipped"}
    BY <1>1, <1>15, <2>2 DEF Tracking, JobType
  <2>4. Holding' /\ ExecutingIsHeld'
    BY <1>15, <2>1, <2>2 DEF Holding, ExecutingIsHeld
  <2>5. Tracking'
    BY <1>15, <2>1, <2>2, <2>3 DEF Tracking, Holding
  <2>6. Counting'
    BY <1>15, <2>1, <2>2, <2>3 DEF Counting
  <2>7. Noticing' /\ NoticedStopNeverPasses'
    BY <1>15, <2>1, <2>2 DEF Noticing, NoticedStopNeverPasses, Holding
  <2> QED BY <2>4, <2>5, <2>6, <2>7
<1>16. CASE Conclude
  BY <1>16
  DEF Conclude, storeVars, Holding, ExecutingIsHeld, Tracking, Counting, Noticing,
      NoticedStopNeverPasses
<1>17. CASE SkipApps
  BY <1>1, <1>17
  DEF SkipApps, SkipPendingApps, SkipOpen, Holding, Overruled, ExecutingIsHeld, Tracking,
      Counting, Noticing, NoticedStopNeverPasses
<1>18. CASE Finish
  <2>1. /\ pc = "finish" /\ job' = job /\ Cur \in Runs /\ job.verdict \in Terminal
        /\ UNCHANGED <<created, request, appStatus>>
        /\ status' = IF status[Cur] = "absent" THEN status
                     ELSE [status EXCEPT ![Cur] = job.verdict]
        /\ pc' = IF job.verdict \in Verdicts /\ status[Cur] # "absent"
                 THEN "history" ELSE "cleanup"
    BY <1>1, <1>18 DEF Finish, EndRun, storeVars, JobType
  <2>2. Holding'
    BY <2>1 DEF Holding, Overruled
  <2>3. ExecutingIsHeld'
    BY <2>1 DEF ExecutingIsHeld
  <2>4. Tracking' /\ Counting' /\ Noticing'
    BY <2>1 DEF Tracking, Counting, Noticing
  <2>5. NoticedStopNeverPasses'
    BY <2>1 DEF Noticing, NoticedStopNeverPasses
  <2> QED BY <2>2, <2>3, <2>4, <2>5
<1>19. CASE RecordHistory \/ Cleanup
  BY <1>19
  DEF RecordHistory, InsertHistory, Cleanup, storeVars, Holding, ExecutingIsHeld, Tracking,
      Counting, Noticing, NoticedStopNeverPasses
<1>21. CASE CatchThrows
  <2>1. /\ job' = [job EXCEPT !.block = "throw"] /\ pc' = "cleanup" /\ UNCHANGED storeVars
        /\ job.block = "catch" /\ pc \in {"skip", "finish", "history"}
    BY <1>21 DEF CatchThrows
  <2>2. job'.run = job.run /\ job'.block = "throw" /\ job'.cancelled = job.cancelled
    BY <1>1, <2>1 DEF JobType
  <2>3. Holding'
    BY <2>1, <2>2 DEF storeVars, Holding, Overruled
  <2>4. ExecutingIsHeld' /\ Tracking' /\ Counting' /\ Noticing' /\ NoticedStopNeverPasses'
    BY <2>1, <2>2
    DEF storeVars, ExecutingIsHeld, Tracking, Counting, Noticing, NoticedStopNeverPasses
  <2> QED BY <2>3, <2>4
<1>20. CASE Prune
  <2>1. /\ pc' = IF job.block = "throw" THEN "down" ELSE "idle"
        /\ job' = NoJob /\ job'.run = 0 /\ job'.block = "try" /\ created' = created
    BY <1>20 DEF Prune, Die, NoJob, PruneRuns, storeVars
  <2>2. \A r \in Runs : \/ status'[r] = "absent"
                        \/ /\ status'[r] = status[r] /\ request'[r] = request[r]
                           /\ appStatus'[r] = appStatus[r]
    BY <1>20 DEF Prune, PruneRuns, DropRuns, storeVars
  <2>3. pc = "prune"
    BY <1>20 DEF Prune
  <2>4. Holding' /\ ExecutingIsHeld'
    <3>1. job.block # "throw" => \A r \in Runs : status[r] \notin Executing
      BY <2>3 DEF Holding, ExecutingIsHeld
    <3>2. ExecutingIsHeld'
      BY <2>1, <2>2, <3>1 DEF ExecutingIsHeld
    <3> QED BY <2>1, <3>2 DEF Holding
  <2>5. Tracking' /\ Counting'
    BY <2>1, <2>2, <2>3 DEF Tracking, Counting
  <2>6. NoticedStopNeverPasses'
    BY <2>1 DEF NoticedStopNeverPasses
  <2>7. Noticing'
    <3>1. ASSUME NEW r \in Runs, status'[r] = "queued"
          PROVE  request'[r].auto \/ \E a \in Apps : appStatus'[r][a] = "pending"
      <4>1. status[r] = "queued" /\ request'[r] = request[r] /\ appStatus'[r] = appStatus[r]
        BY <2>2, <3>1
      <4> QED BY <4>1 DEF Noticing
    <3> QED BY <2>1, <3>1 DEF Noticing
  <2> QED BY <2>4, <2>5, <2>6, <2>7
<1> QED
  BY <1>2, <1>3, <1>4, <1>5, <1>6, <1>7, <1>8, <1>9, <1>10, <1>11, <1>12, <1>13, <1>14, <1>15,
     <1>16, <1>17, <1>18, <1>19, <1>20, <1>21
  DEF Execute

-----------------------------------------------------------------------------
(* The theorems.                                                           *)

LEMMA InitHolds == LifecycleInit => IInv
<1> SUFFICES ASSUME LifecycleInit PROVE IInv
  OBVIOUS
<1> USE DEF LifecycleInit, StoreInit
<1>1. NoJob \in JobType
  BY DEF NoJob, JobType
<1>2. TypeOK
  <2>1. pc \in PC /\ container \in Container /\ stopping \in BOOLEAN /\ job \in JobType
    BY <1>1 DEF PC, Container
  <2>2. /\ request \in [Runs -> [repo : Repos \cup {NoRepo}, local : BOOLEAN, auto : BOOLEAN]]
        /\ appStatus \in [Runs -> [Apps -> AppStatus]]
    BY DEF NoRequest, NoApps, AppStatus
  <2>3. /\ repos \subseteq Repos /\ created \in 0 .. MaxRuns
        /\ status \in [Runs -> Status] /\ cancel \in [Runs -> BOOLEAN]
        /\ reason \in [Runs -> Reason] /\ history \subseteq Repos \X Runs \X Apps
    BY DEF Status, Reason
  <2>4. snapshot \in [Repos -> [Apps -> 0 .. MaxRuns]]
    OBVIOUS
  <2> QED BY <2>1, <2>2, <2>3, <2>4 DEF TypeOK
<1>3. Rows /\ ActiveIsNewest /\ References
  BY DEF Rows, ActiveIsNewest, References, NoRequest
<1>4. FinishedRunIsClosed /\ PassedMeansAllPassed /\ TrendsOnlyFromVerdicts
  BY DEF FinishedRunIsClosed, PassedMeansAllPassed, TrendsOnlyFromVerdicts
<1>5. SnapshotProvenance
  BY DEF SnapshotProvenance
<1>6. Worker
  BY DEF Worker, NoJob, Holding, ExecutingIsHeld, Tracking, Counting, Noticing,
         NoticedStopNeverPasses
<1> QED BY <1>2, <1>3, <1>4, <1>5, <1>6 DEF IInv, Table

\* IInv is inductive, so it holds in every reachable state.
THEOREM Invariance == Spec => []IInv
<1>1. IInv /\ [Next]_vars => IInv'
  <2> SUFFICES ASSUME IInv, [Next]_vars PROVE IInv'
    OBVIOUS
  <2>1. TypeOK' /\ Table'
    BY TypeStep, TableStep
  <2>2. Worker'
    <3>1. CASE UNCHANGED vars
      BY <3>1
      DEF vars, storeVars, workerVars, IInv, Worker, Holding, Overruled, ExecutingIsHeld, Tracking,
          Counting, Noticing, NoticedStopNeverPasses
    <3> QED BY <3>1, ServerKeepsWorker, ProcessKeepsWorker, ExecuteKeepsWorker DEF Next
  <2> QED BY <2>1, <2>2 DEF IInv
<1> QED BY <1>1, InitHolds, PTL DEF Spec

\* The database and the worker's memory hold only values of their types.
THEOREM TypeCorrect == Spec => []TypeOK
<1>1. IInv => TypeOK
  BY DEF IInv
<1> QED BY <1>1, Invariance, PTL

\* Never two active runs of a repository: each would have to be the newest.
THEOREM OneActive == Spec => []OneActiveRun
<1>1. IInv => OneActiveRun
  BY DEF IInv, Table, ActiveIsNewest, OneActiveRun
<1> QED BY <1>1, Invariance, PTL

\* A run that executes is held by the live worker or awaits recovery.
THEOREM NoOrphans == Spec => []ExecutingIsHeld
<1>1. IInv => ExecutingIsHeld
  BY DEF IInv, Worker
<1> QED BY <1>1, Invariance, PTL

\* No finished run has an app still pending or running.
THEOREM FinishedClosed == Spec => []FinishedRunIsClosed
<1>1. IInv => FinishedRunIsClosed
  BY DEF IInv, Table
<1> QED BY <1>1, Invariance, PTL

\* A run passes only if no app of it failed, was stopped or timed out.
THEOREM PassIsEarned == Spec => []PassedMeansAllPassed
<1>1. IInv => PassedMeansAllPassed
  BY DEF IInv, Table
<1> QED BY <1>1, Invariance, PTL

\* A stop the worker noticed never ends in a pass.
THEOREM StopNeverPasses == Spec => []NoticedStopNeverPasses
<1>1. IInv => NoticedStopNeverPasses
  BY DEF IInv, Worker
<1> QED BY <1>1, Invariance, PTL

\* Coverage snapshots come from remote runs of their own repository.
THEOREM SnapshotsAreRemote == Spec => []SnapshotProvenance
<1>1. IInv => SnapshotProvenance
  BY DEF IInv, Table
<1> QED BY <1>1, Invariance, PTL

\* Trend points come from runs that passed or failed.
THEOREM TrendsFromVerdicts == Spec => []TrendsOnlyFromVerdicts
<1>1. IInv => TrendsOnlyFromVerdicts
  BY DEF IInv, Table
<1> QED BY <1>1, Invariance, PTL

\* The steps that write no status, and neither create nor delete a run.
Quiet ==
  \/ Poll \/ Boot \/ Crash \/ Terminate \/ RemoveOnShutdown \/ Exit
  \/ SourceReady \/ SourceFails \/ Detect \/ CreateContainer \/ ContainerUp \/ StartFails
  \/ PhaseThrows \/ LoopStopped \/ ExecReturns \/ ExecThrows \/ ExecTimesOut
  \/ RecordSnapshot \/ FinishApp \/ Conclude \/ WriteThrows
  \/ SkipApps \/ RecordHistory \/ CatchThrows \/ Cleanup
  \/ \E a \in Apps : StartApp(a)

LEMMA StatusKept ==
  ASSUME Quiet
  PROVE  UNCHANGED <<created, request, status>>
<1>1. ASSUME NEW a \in Apps, StartApp(a) PROVE UNCHANGED <<created, request, status>>
  BY <1>1 DEF StartApp, SetAppStatus
<1>2. CASE Detect \/ FinishApp \/ RecordSnapshot \/ SkipApps \/ RecordHistory
  BY <1>2
  DEF Detect, FinishApp, RecordSnapshot, SkipApps, RecordHistory, SetDetectedApps, SetAppStatus,
      ReplaceCoverageSnapshot, SkipPendingApps, InsertHistory, storeVars
<1>3. CASE Poll \/ Boot \/ Crash \/ Terminate \/ RemoveOnShutdown \/ Exit \/ SourceReady
           \/ SourceFails \/ CreateContainer \/ ContainerUp \/ StartFails \/ PhaseThrows
           \/ LoopStopped \/ ExecReturns \/ ExecThrows \/ ExecTimesOut \/ Conclude
           \/ WriteThrows \/ CatchThrows \/ Cleanup
  BY <1>3
  DEF Poll, Boot, Crash, Terminate, RemoveOnShutdown, Exit, SourceReady, SourceFails,
      CreateContainer, ContainerUp, StartFails, PhaseThrows, LoopStopped, ExecReturns,
      ExecThrows, ExecTimesOut, Conclude, WriteThrows, CatchThrows, Cleanup, storeVars
<1> QED BY <1>1, <1>2, <1>3 DEF Quiet

\* Before it ends the run, executeRun writes only active statuses to it.
LEMMA StatusMoves ==
  ASSUME TypeOK, WriteSource \/ StartReturns \/ PhaseReturns \/ EnterTesting
  PROVE  UNCHANGED storeVars \/ \E s \in Active : pc \in Working /\ SetStatus(Cur, s)
<1>1. CASE WriteSource
  BY <1>1 DEF WriteSource, TypeOK, JobType
<1>2. CASE StartReturns
  BY <1>2 DEF StartReturns
<1>3. CASE PhaseReturns \/ EnterTesting
  BY <1>3 DEF PhaseReturns, EnterTesting
<1> QED BY <1>1, <1>2, <1>3

\* A finished run never changes again: every write of a status is to a run
\* that is queued or executing.  One step is excepted, and the statement says
\* so: where the insert into coverage_history throws after the verdict is
\* stored, the catch block of the worker that holds the run makes it failed.
THEOREM Finality == Spec => FinishedIsFinal
<1>1. ASSUME IInv, Next, NEW r \in Runs, status[r] \in Terminal
      PROVE  \/ status'[r] \in {status[r], "absent"}
             \/ r = Cur /\ status[r] \in Verdicts /\ status'[r] = "failed"
  <2> USE DEF IInv, TypeOK
  <2>1. pc \in Working => Cur \in Runs /\ status[Cur] \in Executing
    BY <1>1 DEF Worker, Holding, JobType
  <2>2. CASE UNCHANGED storeVars
    BY <2>2 DEF storeVars
  <2>3. CASE Server
    <3>1. ASSUME NEW p \in Repos, NEW q \in Requests, Submit(p, q)
          PROVE  status'[r] = status[r]
      <4>1. created + 1 \in Runs /\ status[created + 1] = "absent"
        BY <1>1, <3>1 DEF Table, Rows, Submit, CreateRun
      <4> QED BY <1>1, <3>1, <4>1 DEF Submit, CreateRun
    <3>2. ASSUME NEW q \in Runs, Stop(q) PROVE status'[r] = status[r]
      BY <1>1, <3>2 DEF Stop, RequestRunCancellation, StopQueued, FlagStop
    <3>3. ASSUME NEW p \in Repos, Delete(p) PROVE status'[r] \in {status[r], "absent"}
      BY <1>1, <3>3 DEF Delete, DeleteRepository, DropRuns
    <3> QED BY <2>3, <3>1, <3>2, <3>3 DEF Server
  <2>4. CASE Recover \/ Prune
    BY <1>1, <2>4 DEF Recover, Prune, MarkActiveRunsInterrupted, PruneRuns, DropRuns, storeVars
  <2>5. CASE \E q \in Runs : Claim(q)
    BY <1>1, <2>5 DEF Claim, ClaimNextRun, Queued
  <2>6. CASE \E s \in Active : pc \in Working /\ SetStatus(Cur, s)
    BY <1>1, <2>1, <2>6 DEF SetStatus
  <2>7. CASE WriteSource \/ StartReturns \/ PhaseReturns \/ EnterTesting
    BY <1>1, <2>2, <2>6, <2>7, StatusMoves
  <2>8. CASE Finish
    <3>1. CASE status[Cur] = "absent"
      BY <2>2, <2>8, <3>1 DEF Finish, EndRun
    <3>2. CASE status[Cur] # "absent"
      <4>1. status' = [status EXCEPT ![Cur] = job.verdict]
        BY <2>8, <3>2 DEF Finish, EndRun
      <4>2. status[Cur] \in Executing \/ (status[Cur] \in Verdicts /\ job.verdict = "failed")
        BY <1>1, <2>8, <3>2 DEF Finish, Worker, Holding, Overruled
      <4> QED BY <1>1, <4>1, <4>2
    <3> QED BY <3>1, <3>2
  <2>9. CASE status' = status
    BY <2>9
  <2> QED
    BY <1>1, <2>3, <2>4, <2>5, <2>7, <2>8, <2>9, StatusKept
    DEF Next, Process, Execute, Quiet
<1>2. IInv /\ [Next]_vars =>
        [\A r \in Runs : status[r] \in Terminal =>
           \/ status'[r] \in {status[r], "absent"}
           \/ r = Cur /\ status[r] \in Verdicts /\ status'[r] = "failed"]_vars
  BY <1>1
<1> QED BY <1>2, Invariance, PTL DEF Spec, FinishedIsFinal

\* No step deletes a run that is queued or executing: only repository deletion
\* and pruning delete rows, and neither takes an active one.
THEOREM ActiveIsKept == Spec => ActiveRunNeverDropped
<1>1. ASSUME IInv, Next, NEW r \in Runs, status[r] \in Active
      PROVE  status'[r] # "absent"
  <2> USE DEF IInv, TypeOK
  <2>1. CASE \E p \in Repos : Delete(p)
    BY <1>1, <2>1 DEF Delete, DeleteRepository, DropRuns, RunsOf
  <2>2. CASE Prune
    <3>1. CASE UNCHANGED storeVars
      BY <1>1, <3>1 DEF storeVars
    <3>2. CASE RepoOf(Cur) \in repos /\ PruneRuns(RepoOf(Cur))
      <4>1. r \notin Aged(RepoOf(Cur))
        BY <1>1, <3>2, ActiveIsNotAged
      <4> QED BY <1>1, <3>2, <4>1 DEF PruneRuns, DropRuns
    <3> QED BY <2>2, <3>1, <3>2 DEF Prune
  <2>3. CASE \E p \in Repos, q \in Requests : Submit(p, q)
    BY <1>1, <2>3 DEF Submit, CreateRun
  <2>4. CASE \E q \in Runs : Stop(q)
    BY <1>1, <2>4 DEF Stop, RequestRunCancellation, StopQueued, FlagStop
  <2>5. CASE Recover
    BY <1>1, <2>5 DEF Recover, MarkActiveRunsInterrupted
  <2>q. ASSUME NEW q \in Runs, Claim(q) PROVE status'[r] # "absent"
    BY <1>1, <2>q DEF Claim, ClaimNextRun
  <2>6. CASE UNCHANGED storeVars \/ status' = status
    BY <1>1, <2>6 DEF storeVars
  <2>7. CASE \E s \in Active : SetStatus(Cur, s)
    BY <1>1, <2>7 DEF SetStatus
  <2>8. CASE WriteSource \/ StartReturns \/ PhaseReturns \/ EnterTesting
    BY <1>1, <2>6, <2>7, <2>8, StatusMoves
  <2>9. CASE Finish
    BY <1>1, <2>6, <2>9 DEF Finish, EndRun, JobType
  <2> QED
    BY <1>1, <2>1, <2>2, <2>3, <2>4, <2>5, <2>q, <2>6, <2>8, <2>9, StatusKept
    DEF Next, Server, Process, Execute, Quiet
<1>2. IInv /\ [Next]_vars =>
        [\A r \in Runs : status[r] \in Active => status'[r] # "absent"]_vars
  BY <1>1
<1> QED BY <1>2, Invariance, PTL DEF Spec, ActiveRunNeverDropped

-----------------------------------------------------------------------------
(* What the coverage snapshots say about the runs they name.  The worker   *)
(* writes a snapshot (record) and the status of its app (close) in two     *)
(* steps, between which it may die, and the status may be written later by *)
(* recovery: Recorded accounts for every snapshot in between.              *)

\* The apps the loop has not started are pending, the one under test is
\* running, and only a verdict is recorded.
Untested ==
  /\ pc \in {"source", "write", "detect"} =>
       \A a \in Apps : appStatus[Cur][a] \in {"none", "pending"}
  /\ pc \in Awaiting \cup Loop => \A a \in job.todo : appStatus[Cur][a] = "pending"
  /\ pc \in {"exec", "record", "close"} => appStatus[Cur][job.app] = "running"
  /\ pc = "record" => job.outcome \in Verdicts

\* Only a run that has ended says why, and one with a verdict was not stopped.
Reasons ==
  \A r \in Runs :
    /\ status[r] \in Active => reason[r] = "none"
    /\ status[r] \in Verdicts => reason[r] = "other"
    /\ status[r] = "absent" => reason[r] = "none" /\ \A a \in Apps : appStatus[r][a] = "none"

\* The app of a snapshot has its verdict, or is about to get it, or something
\* came in between: a crash, and then recovery has skipped it, or will; or a
\* write that threw, and then the catch block has skipped it, or will.
Recorded ==
  \A r \in Runs, a \in Apps :
    status[r] # "absent" /\ snapshot[RepoOf(r)][a] = r =>
      \/ appStatus[r][a] \in Verdicts
      \/ r = Cur /\ pc = "close" /\ a = job.app /\ job.outcome \in Verdicts
      \/ r = Cur /\ pc \in {"skip", "finish"} /\ job.block = "catch" /\ job.verdict = "failed"
      \/ r = Cur /\ job.block = "throw"
      \/ r # Cur /\ status[r] \in Executing
      \/ reason[r] \in {"restart", "other"}

SInv == Untested /\ Reasons /\ Recorded

\* The held run is one of the table's rows, and is executing while worked on.
LEMMA HeldRun ==
  ASSUME IInv
  PROVE  /\ job \in JobType
         /\ pc \in Working => Cur \in Runs /\ status[Cur] \in Executing
BY DEF IInv, TypeOK, Worker, Holding, JobType

\* In the catch block, and with an error pending, the run has not ended or has
\* a verdict; without a run there is neither.
LEMMA CaughtRun ==
  ASSUME IInv
  PROVE  /\ pc \in {"skip", "finish"} \/ job.block = "throw" =>
              status[Cur] \in Executing \cup Verdicts \cup {"absent"}
         /\ pc = "finish" /\ status[Cur] \in Verdicts => job.verdict = "failed"
         /\ job.block = "throw" => pc \in {"cleanup", "prune"}
         /\ pc \in {"down", "boot", "idle"} => Cur = 0
BY DEF IInv, Worker, Holding, Overruled

\* Every step leaves the apps of the held run as the loop believes them to be.
LEMMA UntestedKept == IInv /\ Untested /\ [Next]_vars => Untested'
<1> SUFFICES ASSUME IInv, Untested, [Next]_vars PROVE Untested'
  OBVIOUS
<1> USE DEF Goto
<1>1. job \in JobType /\ (pc \in Working => Cur \in Runs /\ status[Cur] \in Executing)
  BY HeldRun
<1>t. appStatus \in [Runs -> [Apps -> AppStatus]]
  BY DEF IInv, TypeOK
<1>2. ASSUME pc' \notin Awaiting \cup Loop PROVE Untested'
  BY <1>2 DEF Untested
<1>3. ASSUME UNCHANGED <<appStatus, pc>>, job'.run = job.run, job'.todo = job.todo,
             job'.app = job.app, job'.outcome = job.outcome
      PROVE  Untested'
  BY <1>3 DEF Untested
<1>4. CASE Server
  <2>1. job' = job /\ pc' = pc
    BY <1>4 DEF Server, Submit, Stop, Delete, workerVars
  <2>2. ASSUME pc \in Working PROVE appStatus'[Cur] = appStatus[Cur]
    <3>1. CASE \E p \in Repos, q \in Requests : Submit(p, q)
      <4>1. Cur # created + 1
        BY <1>1, <2>2 DEF IInv, TypeOK, Worker, Holding
      <4> QED BY <1>1, <1>t, <2>2, <3>1, <4>1 DEF Submit, CreateRun
    <3>2. CASE \E r \in Runs : Stop(r)
      BY <1>1, <1>t, <2>2, <3>2 DEF Stop, RequestRunCancellation, StopQueued, FlagStop
    <3>3. CASE \E p \in Repos : Delete(p)
      BY <1>1, <1>t, <2>2, <3>3 DEF Delete, DeleteRepository, DropRuns, RunsOf
    <3> QED BY <1>4, <3>1, <3>2, <3>3 DEF Server
  <2> QED BY <2>1, <2>2 DEF Untested
<1>5. CASE Process
  BY <1>2, <1>3, <1>5
  DEF Process, Boot, Recover, Crash, Terminate, RemoveOnShutdown, Exit, Die, storeVars
<1>6. CASE Poll
  <2>1. /\ job'.run = job.run /\ job'.todo = job.todo /\ job'.app = job.app
        /\ job'.outcome = job.outcome
    BY <1>1, <1>6 DEF Poll, JobType
  <2> QED BY <1>3, <1>6, <2>1 DEF Poll, storeVars
<1>7. ASSUME NEW r \in Runs, Claim(r) PROVE Untested'
  <2>1. job'.run = r /\ job'.todo = {a \in Apps : appStatus[r][a] = "pending"}
    BY <1>7 DEF Claim, NoJob
  <2>2. \A a \in Apps : appStatus[r][a] \in {"none", "pending"}
    BY <1>7 DEF Claim, ClaimNextRun, Queued, IInv, Worker, Tracking
  <2> QED BY <1>7, <2>1, <2>2 DEF Claim, ClaimNextRun, Untested
<1>8. CASE SourceReady
  <2>1. CASE Abort("interrupted")
    BY <1>2, <2>1 DEF Abort
  <2>2. CASE pc' = "write" /\ job' = [job EXCEPT !.seen = status[Cur]]
    BY <1>1, <1>8, <2>2 DEF SourceReady, Untested, JobType, storeVars
  <2> QED BY <1>8, <2>1, <2>2 DEF SourceReady
<1>9. CASE Detect
  <2>1. CASE Abort("failed")
    BY <1>2, <2>1 DEF Abort
  <2>2. ASSUME NEW S \in (SUBSET Apps) \ {{}}, SetDetectedApps(Cur, S), pc' = "start",
               job' = [job EXCEPT !.todo = S]
        PROVE  Untested'
    <3>1. job'.run = job.run /\ job'.todo = S /\ Cur \in Runs
      BY <1>1, <1>9, <2>2 DEF Detect, JobType
    <3> QED BY <1>t, <2>2, <3>1 DEF SetDetectedApps, Pending, Untested
  <2> QED BY <1>9, <2>1, <2>2 DEF Detect
<1>10. CASE SourceFails \/ StartFails \/ PhaseThrows \/ LoopStopped \/ ExecTimesOut
            \/ WriteThrows
  BY <1>2, <1>10
  DEF SourceFails, StartFails, PhaseThrows, LoopStopped, ExecTimesOut, WriteThrows, Abort
<1>11. CASE WriteSource \/ CreateContainer \/ ContainerUp \/ StartReturns \/ RecordSnapshot
  BY <1>11
  DEF WriteSource, CreateContainer, ContainerUp, StartReturns, RecordSnapshot, SetStatus,
      ReplaceCoverageSnapshot, storeVars, Untested
<1>e. CASE EnterTesting
  <2>1. CASE Abort("failed")
    BY <1>2, <2>1 DEF Abort
  <2>2. CASE pc' = "loop" /\ UNCHANGED job
    BY <1>e, <2>2 DEF EnterTesting, SetStatus, Untested
  <2> QED BY <1>e, <2>1, <2>2 DEF EnterTesting
<1>12. CASE PhaseReturns
  <2>1. CASE \E v \in {"interrupted", "failed"} : Abort(v)
    BY <1>2, <2>1 DEF Abort
  <2>2. CASE pc' \in {"build", "phase"} /\ UNCHANGED <<appStatus, job>>
    BY <1>12, <2>2 DEF PhaseReturns, Untested
  <2> QED BY <1>12, <2>1, <2>2 DEF PhaseReturns, SetStatus, storeVars
<1>13. ASSUME NEW a \in Apps, StartApp(a) PROVE Untested'
  <2>1. job'.run = job.run /\ job'.todo = job.todo \ {a} /\ job'.app = a
    BY <1>1, <1>13 DEF StartApp, JobType
  <2>2. \A b \in Apps : appStatus'[Cur][b] = IF b = a THEN "running" ELSE appStatus[Cur][b]
    BY <1>1, <1>t, <1>13 DEF StartApp, SetAppStatus
  <2>3. job.todo \subseteq Apps
    BY <1>1 DEF JobType
  <2> QED BY <1>13, <2>1, <2>2, <2>3 DEF StartApp, Untested
<1>14. CASE ExecReturns \/ ExecThrows
  <2>1. CASE Abort("interrupted")
    BY <1>2, <2>1 DEF Abort
  <2>2. ASSUME NEW o \in {"passed", "failed", "skipped"}, job' = [job EXCEPT !.outcome = o],
               pc' \in {"record", "close"}, pc' = "record" => o # "skipped"
        PROVE  Untested'
    <3>1. /\ job'.run = job.run /\ job'.todo = job.todo /\ job'.app = job.app /\ job'.outcome = o
      BY <1>1, <2>2 DEF JobType
    <3> QED BY <1>14, <2>2, <3>1 DEF ExecReturns, ExecThrows, Untested, storeVars
  <2> QED BY <1>14, <2>1, <2>2 DEF ExecReturns, ExecThrows
<1>15. CASE FinishApp
  <2>1. job'.run = job.run /\ job'.todo = job.todo
    BY <1>1, <1>15 DEF FinishApp, JobType
  <2>2. \A b \in Apps : b # job.app => appStatus'[Cur][b] = appStatus[Cur][b]
    BY <1>1, <1>t, <1>15 DEF FinishApp, SetAppStatus
  <2>3. job.todo \subseteq Apps
    BY <1>1 DEF JobType
  <2> QED BY <1>15, <2>1, <2>2, <2>3 DEF FinishApp, Untested
<1>16. CASE Conclude \/ SkipApps \/ Finish \/ RecordHistory \/ CatchThrows \/ Cleanup \/ Prune
  BY <1>2, <1>16
  DEF Conclude, SkipApps, Finish, RecordHistory, CatchThrows, Cleanup, Prune, Die
<1>17. CASE UNCHANGED vars
  BY <1>3, <1>17 DEF vars, storeVars, workerVars
<1> QED
  BY <1>4, <1>5, <1>6, <1>7, <1>8, <1>9, <1>10, <1>11, <1>e, <1>12, <1>13, <1>14, <1>15, <1>16,
     <1>17
  DEF Next, Execute

\* Every step leaves reasons to runs that have ended.
LEMMA ReasonsKept == IInv /\ Reasons /\ [Next]_vars => Reasons'
<1> SUFFICES ASSUME IInv, Reasons, [Next]_vars PROVE Reasons'
  OBVIOUS
<1>1. job \in JobType /\ (pc \in Working => Cur \in Runs /\ status[Cur] \in Executing)
  BY HeldRun
<1>t. /\ appStatus \in [Runs -> [Apps -> AppStatus]] /\ status \in [Runs -> Status]
      /\ reason \in [Runs -> Reason] /\ created \in 0 .. MaxRuns
  BY DEF IInv, TypeOK
<1>2. ASSUME UNCHANGED <<status, reason, appStatus>> PROVE Reasons'
  BY <1>2 DEF Reasons
<1>3. ASSUME pc \in Working, UNCHANGED <<status, reason>>,
             \A r \in Runs : r # Cur => appStatus'[r] = appStatus[r]
      PROVE  Reasons'
  BY <1>1, <1>3 DEF Reasons
<1>4. ASSUME NEW S, DropRuns(S) PROVE Reasons'
  BY <1>4 DEF DropRuns, NoApps, Reasons
<1>5. CASE Server
  <2>1. ASSUME NEW p \in Repos, NEW q \in Requests, Submit(p, q) PROVE Reasons'
    <3>1. status[created + 1] = "absent"
      BY <1>t, <2>1 DEF IInv, Table, Rows, Submit, CreateRun
    <3> QED BY <1>t, <2>1, <3>1 DEF Submit, CreateRun, Reasons
  <2>2. ASSUME NEW r \in Runs, Stop(r) PROVE Reasons'
    <3>1. CASE StopQueued(r)
      BY <1>t, <3>1 DEF StopQueued, Reasons
    <3>2. CASE FlagStop(r)
      BY <1>2, <3>2 DEF FlagStop
    <3> QED BY <2>2, <3>1, <3>2 DEF Stop, RequestRunCancellation
  <2>3. ASSUME NEW p \in Repos, Delete(p) PROVE Reasons'
    BY <1>4, <2>3 DEF Delete, DeleteRepository
  <2> QED BY <1>5, <2>1, <2>2, <2>3 DEF Server
<1>6. CASE Recover
  BY <1>t, <1>6 DEF Recover, MarkActiveRunsInterrupted, Reasons
<1>7. ASSUME NEW r \in Runs, Claim(r) PROVE Reasons'
  BY <1>t, <1>7 DEF Claim, ClaimNextRun, Queued, Reasons
<1>8. CASE WriteSource \/ StartReturns \/ PhaseReturns \/ EnterTesting
  <2>1. ASSUME NEW s \in Active, pc \in Working, SetStatus(Cur, s) PROVE Reasons'
    BY <1>1, <1>t, <2>1 DEF SetStatus, Reasons
  <2>2. pc \in Working
    BY <1>8 DEF WriteSource, StartReturns, PhaseReturns, EnterTesting
  <2>3. UNCHANGED storeVars \/ \E s \in Active : SetStatus(Cur, s)
    BY <1>8, StatusMoves DEF IInv
  <2> QED BY <1>2, <2>1, <2>2, <2>3 DEF storeVars
<1>9. CASE Detect \/ FinishApp
  BY <1>1, <1>2, <1>3, <1>t, <1>9
  DEF Detect, FinishApp, SetDetectedApps, SetAppStatus, storeVars
<1>a. ASSUME NEW a \in Apps, StartApp(a) PROVE Reasons'
  BY <1>1, <1>3, <1>t, <1>a DEF StartApp, SetAppStatus
<1>s. CASE SkipApps
  <2>1. \A r \in Runs, a \in Apps : appStatus[r][a] = "none" => appStatus'[r][a] = "none"
    BY <1>t, <1>s DEF SkipApps, SkipPendingApps, SkipOpen
  <2> QED BY <1>s, <2>1 DEF SkipApps, SkipPendingApps, Reasons
<1>10. CASE Finish
  <2>1. CASE UNCHANGED storeVars
    BY <1>2, <2>1 DEF storeVars
  <2>2. CASE ~UNCHANGED storeVars
    <3>1. /\ status' = [status EXCEPT ![Cur] = job.verdict] /\ appStatus' = appStatus
          /\ reason' = [reason EXCEPT ![Cur] =
                          IF job.verdict = "interrupted" THEN "stop" ELSE "other"]
      BY <1>10, <2>2 DEF Finish, EndRun
    <3>2. job.verdict \in Terminal
      BY <1>1 DEF JobType
    <3> QED BY <1>t, <3>1, <3>2 DEF Reasons
  <2> QED BY <2>1, <2>2
<1>11. CASE Prune
  BY <1>2, <1>4, <1>11 DEF Prune, PruneRuns, storeVars
<1> QED
  BY <1>2, <1>5, <1>6, <1>7, <1>8, <1>9, <1>a, <1>s, <1>10, <1>11
  DEF Next, Process, Poll, Execute, Boot, Crash, Terminate, RemoveOnShutdown, Exit,
      SourceReady, SourceFails, CreateContainer, ContainerUp, StartFails, PhaseThrows,
      LoopStopped, ExecReturns, ExecThrows, ExecTimesOut, Conclude, WriteThrows, CatchThrows,
      Cleanup, RecordSnapshot, RecordHistory, ReplaceCoverageSnapshot, InsertHistory, vars,
      storeVars

\* A queued run has no snapshot; the run under way has one of an app only if
\* that app has its verdict, or is about to get it.
LEMMA SnapshotsOfHeld ==
  ASSUME IInv, SInv, NEW a \in Apps
  PROVE  /\ \A r \in Runs : status[r] = "queued" => snapshot[RepoOf(r)][a] # r
         /\ pc \in Working /\ snapshot[RepoOf(Cur)][a] = Cur =>
              \/ appStatus[Cur][a] \in Verdicts
              \/ pc = "close" /\ a = job.app /\ job.outcome \in Verdicts
<1> USE DEF SInv
<1>1. pc \in Working => Cur \in Runs /\ status[Cur] \in Executing
  BY HeldRun
<1>2. \A r \in Runs : status[r] = "queued" =>
        /\ appStatus[r][a] \in {"none", "pending"} /\ reason[r] = "none"
        /\ r = Cur => pc \notin {"close", "skip", "finish"} /\ job.block # "throw"
  BY <1>1, CaughtRun DEF IInv, Worker, Tracking, Reasons
<1>3. pc \in Working => reason[Cur] = "none" /\ job.block # "throw"
  BY <1>1, CaughtRun DEF Reasons
<1> QED BY <1>1, <1>2, <1>3 DEF Recorded

\* Every step leaves each snapshot accounted for.
LEMMA RecordedKept == IInv /\ SInv /\ [Next]_vars => Recorded'
<1> SUFFICES ASSUME IInv, SInv, [Next]_vars, NEW r \in Runs, NEW a \in Apps,
                    status'[r] # "absent", snapshot'[RepoOf(r)'][a] = r
             PROVE  \/ appStatus'[r][a] \in Verdicts
                    \/ r = Cur' /\ pc' = "close" /\ a = job'.app /\ job'.outcome \in Verdicts
                    \/ r = Cur' /\ pc' \in {"skip", "finish"} /\ job'.block = "catch"
                       /\ job'.verdict = "failed"
                    \/ r = Cur' /\ job'.block = "throw"
                    \/ r # Cur' /\ status'[r] \in Executing
                    \/ reason'[r] \in {"restart", "other"}
  BY DEF Recorded
<1> DEFINE Goal == \/ appStatus'[r][a] \in Verdicts
                   \/ r = Cur' /\ pc' = "close" /\ a = job'.app /\ job'.outcome \in Verdicts
                   \/ r = Cur' /\ pc' \in {"skip", "finish"} /\ job'.block = "catch"
                      /\ job'.verdict = "failed"
                   \/ r = Cur' /\ job'.block = "throw"
                   \/ r # Cur' /\ status'[r] \in Executing
                   \/ reason'[r] \in {"restart", "other"}
<1> USE DEF Goto
<1>1. job \in JobType /\ (pc \in Working => Cur \in Runs /\ status[Cur] \in Executing)
  BY HeldRun
<1>t. /\ appStatus \in [Runs -> [Apps -> AppStatus]] /\ status \in [Runs -> Status]
      /\ reason \in [Runs -> Reason] /\ created \in 0 .. MaxRuns
      /\ snapshot \in [Repos -> [Apps -> 0 .. MaxRuns]]
      /\ request \in [Runs -> [repo : Repos \cup {NoRepo}, local : BOOLEAN, auto : BOOLEAN]]
  BY DEF IInv, TypeOK
<1>r. status[r] # "absent" /\ snapshot[RepoOf(r)][a] = r =>
        \/ appStatus[r][a] \in Verdicts
        \/ r = Cur /\ pc = "close" /\ a = job.app /\ job.outcome \in Verdicts
        \/ r = Cur /\ pc \in {"skip", "finish"} /\ job.block = "catch" /\ job.verdict = "failed"
        \/ r = Cur /\ job.block = "throw"
        \/ r # Cur /\ status[r] \in Executing
        \/ reason[r] \in {"restart", "other"}
  BY DEF SInv, Recorded
<1>q. status[r] = "queued" => snapshot[RepoOf(r)][a] # r
  BY SnapshotsOfHeld
<1>h. pc \in Working /\ r = Cur /\ snapshot[RepoOf(r)][a] = r =>
        appStatus[r][a] \in Verdicts \/ (pc = "close" /\ a = job.app /\ job.outcome \in Verdicts)
  BY SnapshotsOfHeld
<1>c. /\ pc \in {"skip", "finish"} \/ job.block = "throw" =>
           \/ status[Cur] \in Executing \cup {"absent"}
           \/ r = Cur => reason[r] = "other" /\ (pc = "finish" => job.verdict = "failed")
      /\ job.block = "throw" => pc \in {"cleanup", "prune"}
      /\ pc \in {"down", "boot", "idle"} => r # Cur
  BY CaughtRun DEF SInv, Reasons
<1> SUFFICES Goal
  BY DEF Goal
<1> HIDE DEF Goal
<1>2. ASSUME UNCHANGED <<request, status, reason, appStatus, snapshot>>, Cur' = Cur,
             pc \in {"close", "skip", "finish"} => UNCHANGED <<pc, job>>,
             job.block = "throw" => job'.block = "throw"
      PROVE  Goal
  BY <1>2, <1>r DEF Goal
<1>d. ASSUME UNCHANGED storeVars, Die PROVE Goal
  <2>1. Cur' # r
    BY <1>d DEF Die, NoJob
  <2>2. UNCHANGED <<request, status, reason, appStatus, snapshot>>
    BY <1>d DEF storeVars
  <2> QED BY <1>1, <1>c, <1>r, <2>1, <2>2 DEF Goal
<1>3. CASE Server
  <2>0. job' = job /\ pc' = pc
    BY <1>3 DEF Server, Submit, Stop, Delete, workerVars
  <2>1. ASSUME NEW p \in Repos, NEW q \in Requests, Submit(p, q) PROVE Goal
    <3>1. CASE r = created + 1
      <4>1. RepoOf(r)' = p
        BY <1>t, <2>1, <3>1 DEF Submit, CreateRun
      <4>2. snapshot[p][a] <= created
        BY <2>1 DEF IInv, Table, References
      <4> QED BY <1>t, <2>1, <3>1, <4>1, <4>2 DEF Submit, CreateRun
    <3>2. CASE r # created + 1
      BY <1>t, <1>r, <2>0, <2>1, <3>2 DEF Submit, CreateRun, Goal
    <3> QED BY <3>1, <3>2
  <2>2. ASSUME NEW q \in Runs, Stop(q) PROVE Goal
    <3>1. CASE StopQueued(q)
      BY <1>t, <1>r, <1>q, <2>0, <3>1 DEF StopQueued, Goal
    <3>2. CASE FlagStop(q)
      BY <1>2, <2>0, <3>2 DEF FlagStop
    <3> QED BY <2>2, <3>1, <3>2 DEF Stop, RequestRunCancellation
  <2>3. ASSUME NEW p \in Repos, Delete(p) PROVE Goal
    <3>1. r \notin RunsOf(p) /\ request'[r] = request[r] /\ status'[r] = status[r]
          /\ reason'[r] = reason[r] /\ appStatus'[r] = appStatus[r]
      BY <2>3 DEF Delete, DeleteRepository, DropRuns
    <3>2. snapshot'[RepoOf(r)] = snapshot[RepoOf(r)]
      BY <1>t, <2>3, <3>1 DEF Delete, DeleteRepository, RunsOf
    <3> QED BY <1>r, <2>0, <3>1, <3>2 DEF Goal
  <2> QED BY <1>3, <2>1, <2>2, <2>3 DEF Server
<1>4. CASE Recover
  <2>1. snapshot' = snapshot /\ request' = request /\ job' = job /\ pc = "boot"
    BY <1>4 DEF Recover, MarkActiveRunsInterrupted
  <2>2. CASE status[r] \in Executing
    BY <1>4, <2>2 DEF Recover, MarkActiveRunsInterrupted, Goal
  <2>3. CASE status[r] \notin Executing
    BY <1>4, <1>c, <1>r, <2>1, <2>3 DEF Recover, MarkActiveRunsInterrupted, Goal
  <2> QED BY <2>2, <2>3
<1>5. CASE Boot \/ Crash \/ Terminate \/ RemoveOnShutdown \/ Exit
  BY <1>2, <1>d, <1>5 DEF Boot, Crash, Terminate, RemoveOnShutdown, Exit, storeVars
<1>6. ASSUME NEW q \in Runs, Claim(q) PROVE Goal
  <2>1. job'.run = q
    BY <1>6 DEF Claim, NoJob
  <2>2. r # q /\ pc = "idle"
    BY <1>6, <1>q DEF Claim, ClaimNextRun, Queued
  <2> QED BY <1>c, <1>r, <1>t, <1>6, <2>1, <2>2 DEF Claim, ClaimNextRun, Goal
<1>7. ASSUME UNCHANGED storeVars, job'.run = job.run, pc \in Working, pc # "close" PROVE Goal
  BY <1>2, <1>7, <1>c DEF storeVars
<1>8. CASE Poll \/ SourceReady \/ SourceFails \/ CreateContainer \/ ContainerUp \/ StartFails
           \/ PhaseThrows \/ LoopStopped \/ ExecReturns \/ ExecThrows \/ ExecTimesOut
           \/ Conclude
  <2>1. job'.run = job.run
    BY <1>1, <1>8
    DEF Poll, SourceReady, SourceFails, CreateContainer, ContainerUp, StartFails, PhaseThrows,
        LoopStopped, ExecReturns, ExecThrows, ExecTimesOut, Conclude, Abort, JobType
  <2>2. UNCHANGED storeVars /\ pc \in Working /\ pc # "close"
    BY <1>8
    DEF Poll, SourceReady, SourceFails, CreateContainer, ContainerUp, StartFails, PhaseThrows,
        LoopStopped, ExecReturns, ExecThrows, ExecTimesOut, Conclude
  <2> QED BY <1>7, <2>1, <2>2
<1>v. CASE WriteThrows \/ CatchThrows \/ Cleanup
  <2>1. UNCHANGED <<request, status, reason, appStatus, snapshot>>
    BY <1>v DEF WriteThrows, CatchThrows, Cleanup, storeVars
  <2>2. /\ job'.run = job.run
        /\ \/ pc' = "skip" /\ job'.block = "catch" /\ job'.verdict = "failed"
           \/ job'.block = "throw"
           \/ pc = "cleanup" /\ job'.block = job.block
    BY <1>1, <1>v DEF WriteThrows, CatchThrows, Cleanup, Abort, JobType
  <2>3. CASE r = Cur
    BY <1>r, <2>1, <2>2, <2>3 DEF Goal
  <2>4. CASE r # Cur
    BY <1>r, <2>1, <2>2, <2>4 DEF Goal
  <2> QED BY <2>3, <2>4
<1>9. CASE WriteSource \/ StartReturns \/ PhaseReturns \/ EnterTesting
  <2>1. job'.run = job.run /\ pc \in Working /\ pc # "close"
    BY <1>1, <1>9 DEF WriteSource, StartReturns, PhaseReturns, EnterTesting, Abort, JobType
  <2>2. ASSUME NEW s \in Active, pc \in Working, SetStatus(Cur, s) PROVE Goal
    <3>1. r = Cur => appStatus[r][a] \in Verdicts
      BY <1>h, <2>1, <2>2 DEF SetStatus
    <3> QED BY <1>1, <1>t, <1>r, <2>1, <2>2, <3>1 DEF SetStatus, Goal
  <2> QED BY <1>7, <1>9, <2>1, <2>2, StatusMoves DEF IInv
<1>10. CASE Detect
  <2>1. job'.run = job.run
    BY <1>1, <1>10 DEF Detect, Abort, JobType
  <2>2. ASSUME NEW S, SetDetectedApps(Cur, S) PROVE Goal
    <3>1. r # Cur
      BY <1>10, <1>h, <2>2 DEF Detect, SetDetectedApps, SInv, Untested
    <3> QED BY <1>r, <1>t, <2>1, <2>2, <3>1 DEF SetDetectedApps, Goal
  <2> QED BY <1>7, <1>10, <2>1, <2>2 DEF Detect
<1>11. ASSUME NEW b \in Apps, StartApp(b) PROVE Goal
  <2>1. job'.run = job.run /\ pc = "loop" /\ snapshot' = snapshot /\ request' = request
    BY <1>1, <1>11 DEF StartApp, SetAppStatus, JobType
  <2>2. ~ (r = Cur /\ a = b)
    BY <1>11, <1>h, <2>1 DEF StartApp, SInv, Untested
  <2> QED BY <1>r, <1>t, <1>11, <2>1, <2>2 DEF StartApp, SetAppStatus, Goal
<1>12. CASE RecordSnapshot
  <2>1. UNCHANGED <<request, status, reason, appStatus, job>> /\ pc = "record" /\ pc' = "close"
    BY <1>12 DEF RecordSnapshot, ReplaceCoverageSnapshot, storeVars
  <2>2. CASE snapshot'[RepoOf(r)][a] = snapshot[RepoOf(r)][a]
    BY <1>r, <2>1, <2>2 DEF Goal
  <2>3. CASE snapshot'[RepoOf(r)][a] # snapshot[RepoOf(r)][a]
    <3>1. snapshot' = [snapshot EXCEPT ![RepoOf(Cur)][job.app] = Cur]
      BY <1>12, <2>3 DEF RecordSnapshot, ReplaceCoverageSnapshot, storeVars
    <3>2. RepoOf(r) = RepoOf(Cur) /\ RepoOf(r) \in Repos /\ a = job.app
      BY <1>t, <2>3, <3>1
    <3>3. r = Cur /\ a = job.app
      BY <1>t, <2>1, <3>1, <3>2
    <3> QED BY <2>1, <3>3 DEF SInv, Untested, Goal
  <2> QED BY <2>2, <2>3
<1>13. CASE FinishApp
  <2>1. job'.run = job.run /\ pc = "close" /\ snapshot' = snapshot /\ request' = request
    BY <1>1, <1>13 DEF FinishApp, SetAppStatus, JobType
  <2>2. CASE r = Cur /\ a = job.app
    <3>1. appStatus[r][a] = "running"
      BY <2>1, <2>2 DEF SInv, Untested
    <3>2. job.outcome \in Verdicts
      BY <1>h, <2>1, <2>2, <3>1
    <3> QED BY <1>t, <1>13, <2>2, <3>2 DEF FinishApp, SetAppStatus, Goal
  <2>3. CASE ~ (r = Cur /\ a = job.app)
    BY <1>r, <1>t, <1>13, <2>1, <2>3 DEF FinishApp, SetAppStatus, Goal
  <2> QED BY <2>2, <2>3
<1>14. CASE SkipApps
  <2>1. appStatus[r][a] \in Verdicts => appStatus'[r][a] \in Verdicts
    BY <1>t, <1>14 DEF SkipApps, SkipPendingApps, SkipOpen
  <2> QED BY <1>c, <1>r, <1>14, <2>1 DEF SkipApps, SkipPendingApps, Goal
<1>15. CASE Finish
  <2>1. /\ pc = "finish" /\ UNCHANGED <<job, request, appStatus, snapshot>> /\ status[r] # "absent"
        /\ r # Cur => reason'[r] = reason[r] /\ status'[r] = status[r]
        /\ r = Cur /\ job.verdict # "interrupted" => reason'[r] = "other"
    BY <1>t, <1>15 DEF Finish, EndRun, storeVars
  <2>2. CASE r # Cur
    BY <1>r, <2>1, <2>2 DEF Goal
  <2>3. CASE r = Cur
    <3>1. status[r] \in Executing => reason[r] = "none"
      BY DEF SInv, Reasons
    <3> QED BY <1>c, <1>r, <2>1, <2>3, <3>1 DEF Goal
  <2> QED BY <2>2, <2>3
<1>16. CASE RecordHistory
  BY <1>2, <1>c, <1>16 DEF RecordHistory, InsertHistory
<1>17. CASE Prune
  <2>1. Cur' # r /\ pc = "prune"
    BY <1>17 DEF Prune, Die, NoJob
  <2>2. /\ request'[r] = request[r] /\ status'[r] = status[r] /\ reason'[r] = reason[r]
        /\ appStatus'[r] = appStatus[r] /\ snapshot' = snapshot
    BY <1>17 DEF Prune, PruneRuns, DropRuns, storeVars
  <2> QED BY <1>c, <1>r, <2>1, <2>2 DEF Goal
<1>18. CASE UNCHANGED vars
  BY <1>2, <1>18 DEF vars, storeVars, workerVars
<1> QED
  BY <1>3, <1>4, <1>5, <1>6, <1>8, <1>v, <1>9, <1>10, <1>11, <1>12, <1>13, <1>14, <1>15, <1>16,
     <1>17, <1>18
  DEF Next, Process, Execute

-----------------------------------------------------------------------------
\* An app that a stop cut short leaves the coverage baseline as it was: the
\* test command was still running when the stop was noticed, or never ran, and
\* only after it has ended without a stop is the snapshot replaced.
THEOREM CutAppsKeepSnapshots == Spec => []CutAppKeepsSnapshot
<1>1. LifecycleInit => SInv
  BY DEF LifecycleInit, StoreInit, SInv, Untested, Reasons, Recorded, NoApps
<1>2. IInv /\ SInv /\ [Next]_vars => SInv'
  BY UntestedKept, ReasonsKept, RecordedKept DEF SInv
<1>3. IInv /\ SInv => CutAppKeepsSnapshot
  <2> SUFFICES ASSUME IInv, SInv, NEW r \in Runs, NEW a \in Apps,
                      reason[r] = "stop", appStatus[r][a] = "skipped"
               PROVE  snapshot[RepoOf(r)][a] # r
    BY DEF CutAppKeepsSnapshot
  <2>1. status[r] \notin Executing \cup Verdicts \cup {"absent"}
    BY DEF SInv, Reasons
  <2>2. r = Cur => pc \notin {"close", "skip", "finish"} /\ job.block # "throw"
    BY <2>1, HeldRun, CaughtRun
  <2> QED BY <2>1, <2>2 DEF SInv, Recorded
<1> QED BY <1>1, <1>2, <1>3, Invariance, PTL DEF Spec

-----------------------------------------------------------------------------
(* RunLifecycle implements RunQueue.                                       *)

\* At most one run executes, of all repositories.  Recovery ends every
\* executing run in one step; the queue ends one run at a time.
OneWorks ==
  \A r, q \in Runs : status[r] \in Executing /\ status[q] \in Executing => r = q

USE DEF Queue!Ids

QStep == [Queue!QueueNext]_(Queue!queueVars)

-----------------------------------------------------------------------------
(* How a step of RunLifecycle looks from the queue.                        *)

\* No run goes from one phase to another.
LEMMA Invisible ==
  ASSUME created' = created, \A r \in Runs : RepoOf(r)' = RepoOf(r),
         \A r \in Runs : PhaseOf(status'[r]) = PhaseOf(status[r])
  PROVE  QStep
BY DEF QStep, Queue!queueVars

\* One run moves, to the phase of status s.
LEMMA Moved ==
  ASSUME TypeOK, NEW r \in Runs, NEW s \in Status, created' = created, request' = request,
         status' = [status EXCEPT ![r] = s]
  PROVE  /\ [q \in Runs |-> PhaseOf(status[q])]' =
              [[q \in Runs |-> PhaseOf(status[q])] EXCEPT ![r] = PhaseOf(s)]
         /\ [q \in Runs |-> RepoOf(q)]' = [q \in Runs |-> RepoOf(q)]
BY DEF TypeOK

\* A run that was waiting or working is over.
LEMMA Finishes ==
  ASSUME TypeOK, NEW r \in Runs, NEW s \in Terminal, status[r] \in Active,
         created' = created, request' = request, status' = [status EXCEPT ![r] = s]
  PROVE  QStep
<1>1. s \in Status /\ PhaseOf(s) = "over" /\ PhaseOf(status[r]) \in {"waiting", "working"}
  BY DEF Status, PhaseOf
<1>2. Queue!Ended(r)
  BY <1>1, Moved DEF Queue!Ended, Queue!Unfinished
<1> QED BY <1>2 DEF QStep, Queue!QueueNext

\* Rows of runs that are over go, and none is its repository's newest unless
\* all of the repository's go.
LEMMA Drops ==
  ASSUME TypeOK, NEW S \in SUBSET Runs, DropRuns(S), created' = created,
         \A r \in S : status[r] \in Terminal,
         \A r \in S : \/ \E q \in Runs \ S : RepoOf(q) = RepoOf(r) /\ q > r
                      \/ \A q \in Runs : RepoOf(q) = RepoOf(r) => q \in S
  PROVE  QStep
<1>1. \A r \in S : PhaseOf(status[r]) = "over"
  BY DEF PhaseOf
<1>2. \A r \in Runs : /\ PhaseOf(status'[r]) = IF r \in S THEN "absent" ELSE PhaseOf(status[r])
                      /\ RepoOf(r)' = IF r \in S THEN NoRepo ELSE RepoOf(r)
  BY DEF DropRuns, NoRequest, PhaseOf
<1>3. Queue!Forgotten(S)
  BY <1>1, <1>2 DEF Queue!Forgotten
<1> QED BY <1>3 DEF QStep, Queue!QueueNext

\* Pruning leaves a newer run of the repository: the newest is never among
\* the aged ones, since none is newer and Keep is at least one.
LEMMA NewestStays ==
  ASSUME NEW p, NEW r \in Aged(p)
  PROVE  \E q \in Runs \ Aged(p) : RepoOf(q) = p /\ q > r
<1> DEFINE D == {MaxRuns - q : q \in RunsOf(p)}
<1>1. r \in RunsOf(p) /\ Cardinality({q \in RunsOf(p) : q > r}) >= Keep
  BY DEF Aged
<1>2. RunsOf(p) \subseteq Runs
  BY DEF RunsOf
<1>3. D \in SUBSET Nat /\ D # {}
  BY <1>1, <1>2
<1>4. PICK d \in D : \A m \in D : d <= m
  <2> DEFINE Less == OpToRel(<, Nat)
  <2>1. \A m, d \in Nat : m < d => <<m, d>> \in Less
    BY DEF OpToRel
  <2>2. IsWellFoundedOn(Less, Nat)
    BY NatLessThanWellFounded
  <2> HIDE DEF D, Less
  <2>3. \E d \in D : \A m \in D : ~(<<m, d>> \in Less)
    BY <1>3, <2>2, WFMin
  <2>4. \A m, d \in D : m \in Nat /\ d \in Nat /\ (d <= m \/ m < d)
    BY <1>3
  <2> QED BY <2>1, <2>3, <2>4
<1>5. PICK q \in RunsOf(p) : d = MaxRuns - q
  BY <1>4
<1>6. \A k \in RunsOf(p) : k <= q
  BY <1>2, <1>4, <1>5
<1>7. {k \in RunsOf(p) : k > q} = {}
  BY <1>2, <1>6
<1>8. q \notin Aged(p)
  <2>1. Cardinality({k \in RunsOf(p) : k > q}) = 0
    BY <1>7, FS_EmptySet
  <2> QED BY <2>1 DEF Aged
<1>9. q >= r /\ q # r
  BY <1>1, <1>2, <1>6, <1>8
<1> QED BY <1>1, <1>2, <1>5, <1>8, <1>9 DEF RunsOf

-----------------------------------------------------------------------------
(* The simulation.                                                         *)

\* The worker only moves the run it holds from one executing status to another.
LEMMA StaysExecuting ==
  ASSUME IInv, WriteSource \/ StartReturns \/ PhaseReturns \/ EnterTesting
  PROVE  UNCHANGED storeVars \/ \E s \in Executing : pc \in Working /\ SetStatus(Cur, s)
<1>1. CASE WriteSource
  BY <1>1 DEF WriteSource, IInv, Worker, Holding
<1>2. CASE StartReturns
  BY <1>2 DEF StartReturns
<1>3. CASE PhaseReturns \/ EnterTesting
  BY <1>3 DEF PhaseReturns, EnterTesting
<1> QED BY <1>1, <1>2, <1>3

\* Claiming starts the oldest waiting run while no other works.
LEMMA ClaimBegins ==
  ASSUME IInv, NEW r \in Runs, Claim(r)
  PROVE  QStep
<1>1. /\ created' = created /\ request' = request /\ status' = [status EXCEPT ![r] = "cloning"]
      /\ status[r] = "queued" /\ \A q \in Runs : status[q] = "queued" => r <= q
  BY DEF Claim, ClaimNextRun, Queued
<1>2. \A q \in Runs : status[q] \notin Executing
  BY DEF Claim, IInv, Worker, Holding, ExecutingIsHeld
<1>3. "cloning" \in Status /\ PhaseOf("cloning") = "working"
  BY DEF Status, PhaseOf
<1>4. /\ PhaseOf(status[r]) = "waiting"
      /\ \A q \in Runs : /\ PhaseOf(status[q]) # "working"
                         /\ PhaseOf(status[q]) = "waiting" => r <= q
  BY <1>1, <1>2 DEF PhaseOf
<1>5. Queue!Begun(r)
  <2> DEFINE f == [q \in Runs |-> PhaseOf(status[q])]
             o == [q \in Runs |-> RepoOf(q)]
  <2>1. TypeOK
    BY DEF IInv
  <2>2. f' = [f EXCEPT ![r] = "working"] /\ o' = o
    BY <1>1, <1>3, <2>1, Moved, Zenon
  <2>3. /\ f[r] = "waiting"
        /\ \A q \in Runs : f[q] # "working" /\ (f[q] = "waiting" => r <= q)
    BY <1>4
  <2>4. created' = created
    BY <1>1
  <2> QED BY <2>2, <2>3, <2>4, Zenon DEF Queue!Begun
<1> QED BY <1>5 DEF QStep, Queue!QueueNext

\* Each step of the server is one of the queue.
LEMMA ServerSimulates == IInv /\ Server => QStep
<1> USE DEF IInv, TypeOK, Table, Rows
<1>1. ASSUME IInv, NEW p \in Repos, NEW q \in Requests, Submit(p, q) PROVE QStep
  <2>1. /\ created < MaxRuns /\ created' = created + 1 /\ created + 1 \in Runs
        /\ status' = [status EXCEPT ![created + 1] = "queued"]
        /\ \A r \in Runs : RepoOf(r) = p => status[r] \notin Active
    BY <1>1 DEF Submit, CreateRun, RunsOf
  <2>2. [r \in Runs |-> RepoOf(r)]' = [[r \in Runs |-> RepoOf(r)] EXCEPT ![created + 1] = p]
    BY <1>1, <2>1 DEF Submit, CreateRun
  <2>3. [r \in Runs |-> PhaseOf(status[r])]' =
          [[r \in Runs |-> PhaseOf(status[r])] EXCEPT ![created + 1] = "waiting"]
    BY <1>1, <2>1 DEF PhaseOf
  <2>4. \A r \in Runs : status[r] \notin Active => PhaseOf(status[r]) \notin {"waiting", "working"}
    BY DEF PhaseOf
  <2>5. Queue!Submitted(p)
    BY <2>1, <2>2, <2>3, <2>4 DEF Queue!Submitted, Queue!Unfinished
  <2> QED BY <2>5 DEF QStep, Queue!QueueNext
<1>2. ASSUME IInv, NEW r \in Runs, Stop(r) PROVE QStep
  <2>1. CASE StopQueued(r)
    BY <1>2, <2>1, Finishes DEF StopQueued
  <2>2. CASE FlagStop(r)
    BY <2>2, Invisible DEF FlagStop
  <2> QED BY <1>2, <2>1, <2>2 DEF Stop, RequestRunCancellation
<1>3. ASSUME IInv, NEW p \in Repos, Delete(p) PROVE QStep
  <2>1. /\ DropRuns(RunsOf(p)) /\ created' = created /\ RunsOf(p) \in SUBSET Runs
        /\ \A r \in RunsOf(p) : status[r] \in Terminal
    BY <1>3 DEF Delete, DeleteRepository, RunsOf, Status
  <2>2. \A r \in RunsOf(p) : \A q \in Runs : RepoOf(q) = RepoOf(r) => q \in RunsOf(p)
    BY DEF RunsOf
  <2> QED BY <1>3, <2>1, <2>2, Drops
<1> QED BY <1>1, <1>2, <1>3 DEF Server

\* Recovery ends the run that was executing, if one was.
LEMMA RecoverSimulates == IInv /\ OneWorks /\ Recover => QStep
<1> SUFFICES ASSUME IInv, OneWorks, Recover PROVE QStep
  OBVIOUS
<1>1. /\ created' = created /\ request' = request
      /\ status' = [r \in Runs |-> IF status[r] \in Executing THEN "interrupted" ELSE status[r]]
  BY DEF Recover, MarkActiveRunsInterrupted
<1>2. CASE \A r \in Runs : status[r] \notin Executing
  BY <1>1, <1>2, Invisible
<1>3. ASSUME NEW r \in Runs, status[r] \in Executing PROVE QStep
  <2>1. status' = [status EXCEPT ![r] = "interrupted"]
    BY <1>1, <1>3 DEF OneWorks, IInv, TypeOK
  <2> QED BY <1>1, <1>3, <2>1, Finishes DEF IInv
<1> QED BY <1>2, <1>3

\* Each step of the worker is one of the queue, or invisible to it.
LEMMA ExecuteSimulates == IInv /\ Execute => QStep
<1> SUFFICES ASSUME IInv, Execute PROVE QStep
  OBVIOUS
<1>1. TypeOK /\ job \in JobType /\ (pc \in Working => Cur \in Runs /\ status[Cur] \in Executing)
  BY HeldRun DEF IInv
<1>2. ASSUME UNCHANGED <<created, request, status>> PROVE QStep
  BY <1>2, Invisible
<1>3. CASE WriteSource \/ StartReturns \/ PhaseReturns \/ EnterTesting
  <2>1. ASSUME NEW s \in Executing, pc \in Working, SetStatus(Cur, s) PROVE QStep
    <3>1. \A r \in Runs : PhaseOf(status'[r]) = PhaseOf(status[r])
      BY <1>1, <2>1 DEF SetStatus, PhaseOf, TypeOK
    <3> QED BY <2>1, <3>1, Invisible DEF SetStatus
  <2> QED BY <1>2, <1>3, <2>1, StaysExecuting DEF storeVars
<1>4. CASE Finish
  <2>1. CASE UNCHANGED storeVars
    BY <1>2, <2>1 DEF storeVars
  <2>2. CASE ~UNCHANGED storeVars
    <3>1. /\ created' = created /\ request' = request /\ status[Cur] # "absent"
          /\ status' = [status EXCEPT ![Cur] = job.verdict]
      BY <1>4, <2>2 DEF Finish, EndRun
    <3>2. Cur \in Runs /\ job.verdict \in Terminal
      BY <1>1, <1>4 DEF Finish, IInv, Worker, Holding, JobType
    <3>3. CASE status[Cur] \in Active
      BY <1>1, <3>1, <3>2, <3>3, Finishes
    <3>4. CASE status[Cur] \in Terminal
      <4>1. \A r \in Runs : PhaseOf(status'[r]) = PhaseOf(status[r])
        BY <1>1, <3>1, <3>2, <3>4 DEF PhaseOf, TypeOK
      <4> QED BY <3>1, <4>1, Invisible
    <3> QED BY <1>1, <3>1, <3>2, <3>3, <3>4 DEF TypeOK, Status
  <2> QED BY <2>1, <2>2
<1>5. CASE Prune
  <2>1. CASE UNCHANGED storeVars
    BY <1>2, <2>1 DEF storeVars
  <2>2. CASE RepoOf(Cur) \in repos /\ PruneRuns(RepoOf(Cur))
    <3> DEFINE p == RepoOf(Cur)
    <3>1. /\ DropRuns(Aged(p)) /\ created' = created /\ Aged(p) \in SUBSET Runs /\ p \in Repos
      BY <1>1, <2>2 DEF PruneRuns, Aged, RunsOf, TypeOK
    <3>2. \A r \in Aged(p) : RepoOf(r) = p /\ status[r] \in Terminal
      <4>1. \A r \in Aged(p) : r \in Runs /\ RepoOf(r) = p /\ status[r] \notin Active
        BY <2>2, ActiveIsNotAged
      <4>2. \A r \in Runs : RepoOf(r) = p => status[r] # "absent"
        BY <3>1 DEF IInv, Table, Rows
      <4> QED BY <1>1, <4>1, <4>2 DEF TypeOK, Status
    <3>3. \A r \in Aged(p) : \E q \in Runs \ Aged(p) : RepoOf(q) = RepoOf(r) /\ q > r
      BY <3>2, NewestStays
    <3> HIDE DEF p
    <3> QED BY <1>1, <3>1, <3>2, <3>3, Drops
  <2> QED BY <1>5, <2>1, <2>2 DEF Prune
<1>6. CASE Quiet
  BY <1>2, <1>6, StatusKept
<1> QED BY <1>3, <1>4, <1>5, <1>6, ClaimBegins DEF Execute, Quiet

\* Only claiming makes a run execute, and only when none does.
LEMMA OneWorksKept == IInv /\ OneWorks /\ [Next]_vars => OneWorks'
<1> SUFFICES ASSUME IInv, OneWorks, [Next]_vars PROVE OneWorks'
  OBVIOUS
<1>1. TypeOK /\ job \in JobType /\ (pc \in Working => Cur \in Runs /\ status[Cur] \in Executing)
  BY HeldRun DEF IInv
<1>2. ASSUME \A r \in Runs : status'[r] \in Executing => status[r] \in Executing PROVE OneWorks'
  BY <1>2 DEF OneWorks
<1>3. CASE Server
  <2>1. ASSUME NEW r, NEW s \in {"queued", "interrupted"}, status' = [status EXCEPT ![r] = s]
        PROVE  OneWorks'
    BY <1>1, <1>2, <2>1 DEF Executing, TypeOK
  <2>2. ASSUME NEW p \in Repos, NEW kind \in Requests, Submit(p, kind) PROVE OneWorks'
    <3>1. status' = [status EXCEPT ![created + 1] = "queued"]
      BY <2>2 DEF Submit, CreateRun
    <3> QED BY <2>1, <3>1
  <2>3. ASSUME NEW r \in Runs, Stop(r) PROVE OneWorks'
    <3>1. status' = [status EXCEPT ![r] = "interrupted"] \/ status' = status
      BY <2>3 DEF Stop, RequestRunCancellation, StopQueued, FlagStop
    <3>2. CASE status' = status
      BY <1>2, <3>2
    <3> QED BY <2>1, <3>1, <3>2
  <2>4. ASSUME NEW p \in Repos, Delete(p) PROVE OneWorks'
    BY <1>1, <1>2, <2>4 DEF Delete, DeleteRepository, DropRuns, Executing
  <2> QED BY <1>3, <2>2, <2>3, <2>4 DEF Server
<1>4. ASSUME NEW r \in Runs, Claim(r) PROVE OneWorks'
  <2>1. \A q \in Runs : status[q] \notin Executing
    BY <1>4 DEF Claim, IInv, Worker, Holding, ExecutingIsHeld
  <2> QED BY <1>1, <1>4, <2>1 DEF Claim, ClaimNextRun, OneWorks, TypeOK
<1>5. CASE WriteSource \/ StartReturns \/ PhaseReturns \/ EnterTesting
  <2>1. ASSUME NEW s \in Executing, pc \in Working, SetStatus(Cur, s) PROVE OneWorks'
    BY <1>1, <1>2, <2>1 DEF SetStatus, TypeOK
  <2> QED BY <1>2, <1>5, <2>1, StaysExecuting DEF storeVars
<1>6. CASE Finish
  <2>1. job.verdict \notin Executing
    BY <1>1 DEF JobType
  <2>2. \A r \in Runs : status'[r] \in {status[r], job.verdict}
    BY <1>1, <1>6 DEF Finish, EndRun, storeVars, TypeOK
  <2> QED BY <1>2, <2>1, <2>2
<1>7. CASE Recover \/ Prune
  BY <1>2, <1>7 DEF Recover, Prune, MarkActiveRunsInterrupted, PruneRuns, DropRuns, storeVars
<1>8. CASE status' = status
  BY <1>2, <1>8
<1>9. CASE UNCHANGED vars
  BY <1>8, <1>9 DEF vars, storeVars
<1> QED
  BY <1>3, <1>4, <1>5, <1>6, <1>7, <1>8, <1>9, StatusKept DEF Next, Process, Execute, Quiet

-----------------------------------------------------------------------------
\* What the queue promises holds of the server and the worker, whatever they
\* interleave and wherever they are killed: one unfinished run per repository,
\* one run at a time, oldest first, finished is final, and pruning forgets only
\* finished runs and never the newest.
THEOREM QueueIsImplemented == Spec => ImplementsQueue
<1>1. LifecycleInit => Queue!QueueInit /\ OneWorks
  BY DEF LifecycleInit, StoreInit, Queue!QueueInit, OneWorks, NoRequest, PhaseOf
<1>2. IInv /\ OneWorks /\ [Next]_vars => QStep
  <2> SUFFICES ASSUME IInv, OneWorks, [Next]_vars PROVE QStep
    OBVIOUS
  <2>1. ASSUME UNCHANGED storeVars PROVE QStep
    BY <2>1, Invisible DEF storeVars
  <2> QED
    BY <2>1, ServerSimulates, RecoverSimulates, ExecuteSimulates
    DEF Next, Process, Poll, Boot, Crash, Terminate, RemoveOnShutdown, Exit, vars
<1> QED
  BY <1>1, <1>2, OneWorksKept, Invariance, PTL
  DEF Spec, ImplementsQueue, Queue!QueueSpec, QStep
=============================================================================
