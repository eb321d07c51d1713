# QA Buddy: models and proofs

QA Buddy queues test runs for GitHub repositories, executes each in a Docker
container, and keeps coverage, trends and "slices" (which part of a frontend
reaches which backend code) in SQLite. This directory holds TLA+ models of its
control logic, the TLC runs that check them, and proofs that TLAPS checks.
`src/` paths below are relative to the repository's root.

Contents: [inventory](#1-the-system), [plan](#2-plan),
[modules](#3-the-modules-and-the-code), [runs](#4-the-runs),
[bounds](#5-bounds), [fairness and assumptions](#6-fairness-and-assumptions),
[proofs](#7-proofs), [findings](#8-where-the-code-and-its-documents-disagree),
[what is not modelled](#9-what-is-not-modelled).

Running them, in this directory:

    tlc -workers 2 -config RunLifecycle.cfg MC_RunLifecycle
    tlapm RunLifecycle_proofs.tla

## 1. The system

### Processes and what they share

- **server** (`apps/server`): a Fastify HTTP API. One handler per request; each
  handler is synchronous up to its database calls, so requests interleave only
  between database methods.
- **worker** (`apps/worker`): one Node process, one loop. It claims the oldest
  queued run, executes it, and claims a slice build only when no run is queued.
- **watcher** (`docker/dev-watch.mjs`, development only): builds the sources,
  starts the worker as a child, rebuilds and restarts it when a file changes.
- **web** (`apps/web`): React pages that poll the API and follow one event
  stream per run page.

Server and worker share the SQLite file and the log files; watcher and server
share `worker-restart.json`; worker and Docker share the runner container.
Nothing is pushed between processes: a stop is a column the worker polls, the
live log is a file the server polls, a held restart is a file the dashboard
reads.

### Components

| component | state | operations | hard behaviour | what makes it correct |
| --- | --- | --- | --- | --- |
| Run database (`packages/db/src/database.ts`) | repositories, runs, app runs, coverage snapshots and history, slice builds and slices | `createRun`, `claimNextRun`, `updateRun`, `requestRunCancellation`, `markActiveRunsInterrupted`, `pruneRuns`, ... | two processes; some methods are several statements | one active run per repository; a finished run stays finished; pruning and deletion never take an active run |
| Run execution (`apps/worker/src/worker.ts`) | locals of `executeRun`, the runner, the stop poll | claim, source, detect, setup, build, test each app, record, finish, clean up | a kill between any two writes; a stop at any await; time limits | every run ends; a pass means every app passed; a finished run has no open app |
| Runner container (`docker-runner.ts`) | the container, one exec's stream and timers | `start`, `exec`, `stopCommand`, `forceStop`, `remove` | output races three limits; the kill of a command may hang or fail | a cut command is gone before the next; the run ends near its deadline |
| HTTP API (`apps/server/src/server.ts`) | none of its own | submit, stop, delete, settings, reads | acts on rows the worker is using | refusals keep the worker's rows intact |
| Slice builds (`slices/build.ts`, database) | `slice_builds`, `slices` | queue, claim, analyse, replace, finish, prune | a repository may be deleted under its build | slices only move forward; a passed build's slices are stored |
| Watcher and held restarts (`dev-watch.mjs`, `worker-restart.mjs`, `apps/server/src/worker-restart.ts`) | timers, a rebuild in progress, the child, the file | change, rebuild, hold, decide, release, shut down | callbacks overlap; two writers of one file | one worker at a time; the newest source comes to run; held work is not cut |
| Checkout and processes (`git.ts`, `process.ts`) | a child process, attempts | clone with retries, archive a working tree | retries against the deadline; a checkout edited while it is copied | a timeout is not retried; the run keeps to its deadline; a copy reported clean is its commit |
| Detection (`detection.ts`) | report files | manifests to apps, clear and find reports | reports left by earlier commands | distinct apps; only this run's reports are read |
| Reports (`coverage.ts`, `test-results.ts`) | none | read, sum and detail coverage and tests | two formats, three ways to name a file | totals, files and gaps agree; no failure is lost |
| Coverage trends (`coverage-trends.ts`, `trend-model.ts`, `slice_history`) | points | points per run, carried forward; slices seeded by builds | runs that test some apps only, builds between them | a point sums the last known state of each app; a slice's newest point is its coverage |
| Live log (`log-stream.ts`, `logger.ts`, the `/events` handler) | offset, last status | poll, send, end | file grows, is cut or removed while read | no gap without a notice, the end of the run is shown, the stream ends |
| Slice analysis (`apps/worker/src/slices/*`) | queues, matched routes | follow imports, match calls to routes | cycles, shadowed names, several matches, shared clients | reachable files and only those; no request lost or sent to two backends |
| Settings, groups, validation | rows | edit, group, validate | edited while a run uses its copy | a run keeps the settings it was queued with |
| Web pages | page state | load, follow, stop, re-run | late answers, reconnects | the page shows the run's last state |
| API reference, export, packaging | none | | | not modelled |

The hazards these components are exposed to, each at its line, with the
properties that would catch it, are listed in `PROJECT.json`.

## 2. Plan

The core came first: the run store and the life of a run, the queue it
implements, the commands in the runner container, the watcher with held
restarts, slice builds, the live log, with proofs about runs, commands and
builds. Then what a run consumes and produces: the checkout, detection and
reports, coverage trends with the history of slices, limits and chart scale,
and the slice analysis, with proofs about the checkout, the limits and the
watcher, and about the live log.

What is left, in this order:

1. **RepositorySettings**: settings and groups edited beside runs that hold
   their copy; groups that name apps which come and go.
2. **RunPage**: the page against late answers (leaving it, Stop, Re-run), beside
   LogStream.
3. An identity for a held restart in WorkerRestart's file, to say for which hold
   a decision was made (the server decides on a copy that the watcher may
   release first, `apps/server/src/worker-restart.ts:50`).

Every safety property the passing runs check is proved for all values of the
constants; only liveness stays with TLC (section 7).

## 3. The modules and the code

`PROJECT.json` maps every definition to its lines. The correspondence in short:

**RunStore** is the database as server and worker use it. A run is its creation
number, which is the order `(created_at, rowid)` that claiming and pruning sort
by. Each operator is one statement or transaction: better-sqlite3 is
synchronous, so what one method does inside `transaction(...)` is atomic, and a
method that is several bare statements is several operators (`updateRun` reads
the row, writes it, then inserts the history: `SourceReady` reads,
`WriteSource`/`EndRun` write, `InsertHistory` follows).

A busy database that outlasts its timeout throws. Where depends on the place:

- in the try block of `executeRun` the catch block ends the run as failed
  (`WriteThrows`; `Detect`, `StartFails` and `PhaseThrows` have a throw of their
  own). At `history` the run had its verdict: `updateRun` stores it first and
  inserts the trend points in a second statement, and the catch block does not
  look at the status it overwrites, so a passed run becomes a failed one. That
  is the one exception stated in `FinishedIsFinal`;
- a snapshot's write is caught on its own (`RecordSnapshot`);
- in the catch block (`CatchThrows`), finally runs with the error pending, then
  it leaves `executeRun` and ends the process (`Prune` with `Die`);
- in finally, in the claim and in recovery nothing catches it: a `Crash`.

**RunLifecycle** EXTENDS RunStore with the two processes. `pc` names where
`run()` and `executeRun` are: `Awaiting` are the places where the worker awaits
(only there can the stop poll fire, since JavaScript runs to completion),
`Loop` and `Ending` the steps between two database writes. `job` holds
`executeRun`'s locals. `container` is the runner as Docker sees it; a container
killed under a command is "dying" until the command's stream ends. `Crash` may
fall at any `pc`; `Terminate`, `RemoveOnShutdown` and `Exit` are SIGTERM, where
`stop()` removes the container while `executeRun` goes on. What a command does
is any exit code or error.

**RunQueue** is the abstract promise: one unfinished run per repository, one run
at a time, oldest first, finished runs stay finished, only finished runs are
forgotten. **RunRefinement** maps RunLifecycle onto it (a status to a phase) and
adds fairness.

**RunnerExec** refines what RunLifecycle calls a command: the commands of one
run, with time. `due` holds exec's timers, `phase` where `exec` or
`stopCommand` is, `procs` each command's process group, `stream` what the
attached output does. The end of that output is what `exec` waits for, not the
end of the processes: a command may be over with some of its group "left" in the
background, which outlive the stream when they do not write to it and then run
beside the next command, until they end or a SIGKILL to their group or the
container takes them. `Throw` and `Return` are the ends of exec together with
the lines of `executeRun` that read them. A call to Docker may take time
(`lag`) or fail (`faults`). The clock stands still while a timer is due: Node
runs it then, unless the worker waits for Docker. RunLifecycle's `ExecReturns`,
`ExecThrows` and `ExecTimesOut` are the outcomes `Return`, a command's own
timeout, and a RunnerTimeoutError.

**WorkerRestart** is the watcher: one thread, so `task` is the callback that is
running and what it has read so far, while the server and the worker act between
its reads and writes. `rb` is where `rebuild()` is, `holding` the hold timer,
`file` is `worker-restart.json`. Source versions are numbers; a build reads some
version between the one it began with and the one there is now. The child
`pnpm` and its worker are one process, the build of all packages is one build,
and a killed process's exit event arrives within the second the watcher waits.

**SliceBuilds** is the life of slice builds beside test runs, which only compete
for the worker there. `slices[p]` is the build whose slices the repository
holds. A database call that throws leads to `Throws` in the try block and to
`FailThrows` in the catch block, which ends the process. `DeleteRepository` may
fall during a build, as in the code, which refuses
it only for runs; `ReplaceSlices` then fails on its foreign key.

**LogStream** is the live log of one run. The text is cut into numbered pieces;
piece 0 is a notice of text left out. `worker` and `row` are the little of
executeRun that a reader can tell: the file is made, lines are appended, the row
ends, cleanup logs more, a later run prunes the row and then the file. `pc` is
where the server's `poll` is: it looks for the file, measures it, reads chunks
and reads the row, and the worker may act between any two of these; the server's
own handlers (`CancelQueued`, `DeleteRepository`) act only between polls. `wire`
is what the stream carries, `page` and `shown` the run page, which cuts its text
too. A broken connection loses what was on its way; the browser connects again.

**Checkout** is how a run gets its source. `step` and `phase` name the command
that `cloneRepository` or `archiveLocalWorkingTree` is at and where `runProcess`
is in it; each command has the time left by the run. `Fails` and `DecideRetry`
are the catch block of the fetch, operand by operand. `head`, `index` and `work`
are the developer's checkout as trees from files to contents, which `Edit` and
`Commit` change while a command runs; `sha` is the tree recorded for the run and
`copy` the one it tests. **WorkingTree** has what git lists of such a checkout
and `Overlay`, the two loops that lay it over the archive.

**Detection**, **Coverage**, **Limits** are algorithms as operators: manifests
to apps and the reports of an app; both coverage formats, their details and
test results; an app's time limit and the chart's scale. A report is what its
parser sees (a record or a sequence of lines), a path a sequence of segments.
**AppReports** composes them into one app of a run: clear, run, read, decide,
with the test command as the environment that writes reports to its places, and
a `disk` that remembers who wrote each file.

**CoverageTrend** is `buildCoverageTrend` and its readers. **TrendHistory**
composes it with the three records a run leaves of an app (its snapshot, its row
of `coverage_history`, the points of `slice_history`) and with builds that
replace the slices and seed points between runs. `live` is what `executeRun`
holds in memory and a crash loses.

**ModuleGraph** (imports to files), **UrlCalls** (requests of a file and the
routes they match), **Endpoints** (NestJS controllers in module order with their
operation ids, Express routers with their mounts) and **EmberData** (requests a
model's adapter makes) are the parts of **SliceAnalysis**, which is
`analyzeSlices`: `queue` and `frontend` of `traceFrontend`, `matched` and
`unmatched` of the two matchings, `traced` of `traceBackend`; a queue is a set,
traced in any order. EmberData's operators are parameters of SliceAnalysis, which
MC_SliceAnalysis gives it. A source file is a
list of what the parsers look for in it (statements, declarations with their
scope, calls, classes); lexing it is left out.

The **_proofs** modules hold the theorems; the **MC_** modules hold bounds and symmetry. Operators marked
"Mutant" in a comment are plausible mistakes in the operator that follows them;
each is known to break one property and no specification uses them.

Left out everywhere: wording and log lines (unless a property is about them),
columns no property tells apart, redaction, file names.

## 4. The runs

| run | shows |
| --- | --- |
| `run_lifecycle` | Three kinds of actor over two runs of a repository, with stops, crashes and restarts at every step: `OneActiveRun`, `ExecutingIsHeld`, `FinishedRunIsClosed`, `PassedMeansAllPassed`, `NoticedStopNeverPasses`, `CutAppKeepsSnapshot`; no step drops an active run (`ActiveRunNeverDropped`), and none alters a verdict but the catch block after a failed insert of trend points (`FinishedIsFinal`). |
| `run_refinement` | Two repositories: `ImplementsQueue`, every step is one of RunQueue's or invisible to it; `EveryRunEnds` under fairness. |
| `runner_exec` | A setup and two apps: `OneCommandAtATime`; `CutCommandIsGone`, with all it started; `RunnerIsUsable`, `OverrunIsBounded`, `TimeoutIsEarned`, `SilenceIsCut`, `RunEnds`. |
| `worker_restart` | `HeldRestartIsShown`, `HeldWorkIsNotCut`, and `LatestRunsOrIsHeld`: the newest source that compiles comes to run, unless a restart waits for a decision. |
| `slice_builds` | `PassedBuildIsStored`, `NewestSlicesWin`, `EveryBuildEnds`. |
| `log_stream` | `NoSilentGap`: the page announces what it leaves out; `ShowsTheEnd`: a page told "complete" shows all that was logged before the run ended; `StreamEnds`: it is told, or learns that the run is gone. |
| `checkout` | `EndsInTime` and `RetryIsWorthIt`: retries keep to the run's time; `CopyIsTree`: an untouched checkout is copied as it is; `CleanIsCommit`: whatever is edited meanwhile, a copy reported clean is the commit; `CheckoutEnds`. |
| `app_reports` | `FreshReports`: nothing is read that the command did not write; `ReportAddsUp`: files, gaps (lines, functions, branches) and totals of either format agree. |
| `trend_history` | `TrendsAgree`: every point is the sum of what was last measured, with the tests of the apps' last rows; `MoversHold`; `PointIsCurrent`: the point a run writes is the slice's coverage as the database sums it; `SeedsFillGaps`: builds add points and change none. |
| `slice_analysis` | `SliceIsClosed`: both traversals give exactly the reachable files; `NothingIsLost`: each request is reported, under the variable that holds it; `OneBackend`: a shared client's request goes to one backend. |
| `restart_stuck`, `staged_work` | Statements of the documents that the code does not keep: section 8. |

Each property of a passing run is broken by the mutant `PROJECT.json` names,
under the run's own bounds. The modules' `TypeOK` and some further properties
are proved (section 7) and not run again: in AppReports `FailureIsCounted` (no
failed suite is lost) and `SparesSlowApps` (an app is cut only beyond what its
past earns it), in SliceAnalysis `MostSpecificRoute` (the choice does not depend
on the order of the routes).

The algorithms that no state machine exercises widely enough are also compared
with reference definitions over all small inputs, in the named assumptions of
MC_AppReports (`DetectedAppsAreDistinct`, `ScaleOnSmallInputs`,
`LabelsAreSpread`) and MC_SliceAnalysis (`ScoreIsBestFit`, `ImportsFindFiles`,
`IdsAreUnique`, `ModulesInOrder`, `BranchesAreCovered`, `NearestHostWins`), which
TLC evaluates before it starts.

Deadlock is checked where the system goes on for ever (`run_lifecycle`,
`run_refinement`, `slice_builds`: a worker can always crash or look again). It
is off where the modelled thing ends: `runner_exec` with its run, `log_stream`
when page and worker have finished, `checkout`, `app_reports` and
`slice_analysis` with their result, `trend_history` after its last run and
build, and the WorkerRestart runs, where an operator may shut the service down.

## 5. Bounds

- `run_lifecycle`: one repository, two apps, two runs, `Keep = 1`. Two runs are
  enough for one to be finished and pruned while the other is active, and for
  late writes of the first to meet the second; two apps for one to end before
  the other is cut. Symmetry over apps and repositories is used only here, where
  all properties are safety properties.
- `run_refinement`: two repositories with a run each, or two runs of one. Order
  between repositories and oldest-first claiming need two.
- `runner_exec`: three commands, deadline 6, silence 2, app limit 3, grace 1,
  one tick of delay and one failure. The limits differ, so each can be the first
  to fire and two can be due at once; two apps can be cut and the deadline still
  passed during the second cut's grace. One failure is a bound of the property
  of `OneCommandAtATime` too: with two, a broken stream whose container cannot be
  killed leaves a command running under the next (hazard `docker-runner.ts:206`).
- `worker_restart`: four versions of which the third does not compile, one piece
  of work, one crash or power loss, one decision. Two pieces of work and two
  decisions were checked too and give nothing new.
- `slice_builds`: two repositories, three builds, one finished build kept. Three
  builds let one be pruned, one be stored and one be active.

- `log_stream`: tail and chunk of two pieces, a page of three, four pieces before
  the run's end and one after it, one broken connection. The log outgrows tail,
  chunk and page, and a reconnection can find less, as much or more than before.

- `checkout`: three files (source, credentials, build output) with two contents
  each or absent, in HEAD, index and working tree; deadline 4, delays 1 and 2,
  probe 2, one edit or commit. Two delays make the last of three fetches final;
  with a probe the second delay no longer fits, and a probe may cross the
  deadline. Every checkout is an initial state, so one edit meets all of them.
- `app_reports`: a detected app of each kind and a configured one, three
  histories around the default limit, three places for reports, reports left
  over or not, two files named in three ways, LCOV reports of three lines and
  test reports of two suites; detail limit 2 and test case limit 3, so both are
  reached.
- `trend_history`: two apps, two metrics, three runs, one build, two slices of
  which one spans both backends. A test leaves coverage without test
  results, test results without coverage, both, or nothing. Three runs let a value be carried over a run
  that measured nothing; the build falls between any two.
- `slice_analysis`: two frontends and three backends (NestJS with a generated
  client, Express, NestJS called by URL); 8 parts of the source vary
  independently, among them cyclic imports, a shadowed variable, a shared client
  that names one backend or two, a missing module.

The bounds `MaxRuns`, `MaxBuilds`, `MaxVersion`, `MaxWork`, `MaxFaults`,
`MaxDecisions`, `MaxLag`, `MaxPieces`, `MaxCleanup`, `MaxDrops`, `MaxEdits`,
`MaxLines`, `MaxSuites` appear only in guards, `MaxNesting` is how deep the
expressions of a request may nest, and `MaxPrefix` keeps Express
mounts that lead back to themselves finite; the proofs hold for every value
of them.

## 6. Fairness and assumptions

- **The worker comes back.** `docker-compose.yml` restarts server and worker
  unless stopped by hand (`restart: unless-stopped`), so `Boot` and the shutdown
  steps are weakly fair, and crashes do not go on for ever
  (`<>[][Crash \/ Terminate => Execute]_vars`): under an endless series of
  crashes no run can be promised to end. The condition does not exclude the
  worker ending itself after a write of its catch block threw, which is a step of
  `Execute`.
- **Commands end.** The steps of `executeRun` are weakly fair as one action
  (`Execute`), so something of the run happens; git and test commands have time
  limits in the code, and RunnerExec shows that those suffice (`RunEnds` needs
  no fairness of commands, kills or streams, only of timers, time and Docker's
  answers).
- **Docker answers.** Creating an exec, inspecting it and killing a container
  have no limit in the code (hazard `docker-runner.ts:83`).
- **Slice builds** wait behind runs, so `EveryBuildEnds` assumes that new runs
  stop arriving; nothing else bounds the wait.
- **WorkerRestart** uses strong fairness for the watcher's callbacks: Node runs
  a callback that becomes ready again and again between two hold polls.
  Decisions are bounded by `MaxDecisions`: people stop changing their minds.
- **LogStream**: the poll's interval, the browser's reconnection and delivery go
  on; `StreamEnds` starts where the run has ended, so nothing is asked of the
  worker, and broken connections are bounded by `MaxDrops`.
- **Checkout**: timers fire and time passes; `CheckoutEnds` asks nothing of git,
  GitHub or the developer.
- Nobody is obliged to submit, stop, delete, edit or decide anything.
- **Clock.** Runs are created in the order of `created_at`: the host's clock
  does not step back between two requests. There is one worker, as
  `docker-compose.yml` has it.

## 7. Proofs

All theorems hold for every value of the constants (any repositories, apps,
runs, limits, files) that satisfies the named assumptions of the modules:
`RunStoreAssumption` (the worker keeps at least one run, a manual configuration
has an app), `LifecycleAssumption`, `SliceBuildsAssumption`, `ExecAssumption`,
`CheckoutAssumption`, `WorkingTreeAssumption`, `RestartAssumption`,
`LimitsAssumption`, `AppReportsAssumption`, `ReportersAssumption`, `RecipeIsAList`, `NestingAssumption`, `ItemsAreLists`,
`TrendHistoryAssumption`, `NullIsApart` of AppReports and of TrendHistory,
`LogAssumption`, and `CleanupIsShort` of LogStream: what the worker logs after a
run's end is shorter than the tail a page opens with. `ShowsTheEnd` needs it: a
longer cleanup, written between the two sizes one poll takes (`statSync`, then
`initialLogOffset`), would push the end of the log out of that tail. Each proof module of a state machine proves
`Init => IInv` and `IInv /\ [Next]_vars => IInv'`, one lemma per group of actions
or per conjunct, then derives the properties.

**RunLifecycle_proofs.** The checked properties are not inductive. `OneActiveRun`
follows from `ActiveIsNewest`: an active run is the newest of its repository.
That also makes pruning safe (`ActiveRunNeverDropped`: at least one newer run
exists for every pruned one). `FinishedRunIsClosed` and `PassedMeansAllPassed`
need what the loop knows: every open app is still to do or under test
(`Tracking`), a failed app is in the verdict (`Counting`), and a noticed stop is
still ahead of the loop or in the verdict (`Noticing`, which rests on every run
having an app). `FinishedIsFinal` rests on `Holding`: while the worker holds a
run before its last write, the row is executing, so the read and the write of
`updateRun` cannot straddle a terminal status, since the server only flags an
executing run; or the run is `Overruled`: its verdict is stored, the insert of
its trend points threw, and the catch block is about to end it as failed. Theorems: `Invariance`, `TypeCorrect`, `OneActive`, `NoOrphans`,
`FinishedClosed`, `PassIsEarned`, `StopNeverPasses`, `SnapshotsAreRemote`,
`TrendsFromVerdicts`, `Finality`, `ActiveIsKept`, `CutAppsKeepSnapshots`.
The last needs more (`Untested`, `Reasons`, `Recorded`): the worker writes a
snapshot and its app's status in two steps, so each snapshot is accounted for by
the app's verdict, by the step under way, by a write that threw, or by a crash and
the recovery after it.

The same module shows that RunLifecycle implements RunQueue
(`QueueIsImplemented`). Each step maps to one of the queue (submission, claim,
end, deletion, pruning) or changes none of its variables. Recovery ends every
executing run in one step and the queue one at a time, which `OneWorks`
reconciles; pruning never takes the newest run (`NewestStays`, by
well-foundedness, since `Keep` is at least one).

**Slices_proofs** is about two modules. Of SliceBuilds: `ActiveIsNewest` again, and `SlicesAreOwned` (the slices
of a repository are of one of its builds). `NewestSlicesWin` needs both: the
build that replaces them is active, so the newest. `Held` says what the build in
the worker's hands may assume after a deletion. Theorems: `Invariance`,
`TypeCorrect`, `OneActive`, `NoOrphanBuild`, `PassIsStored`, `DeletionIsClean`,
`SlicesMoveForward`.

Of SliceAnalysis, for any recipe and any checkout: `SlicesAreClosed`. Its state is
a worklist, so `AnalysisInv` says of a trace under way that the start and what
each traced file loads are traced or queued, and that whatever is traced or
queued lies in every closed set that has the start (`FrontendTracing`,
`BackendTracing`); with the queue empty both give the least closed set. A
backend's queue starts from the handlers of the endpoints matched, so it also
needs that each of them is a file of that backend, through all that makes an
endpoint: the controllers' routes and their published ids, Express mounts, which
are followed through files of the backend only (`RoutesAreOfParsed`), and both
matchings (`AddedAreOfBackend`). Theorems: `AnalysisInvariance`, `SlicesAreClosed`; they
assume only `RecipeIsAList` (the configured backends are an array).

What a slice reports is the second invariant, `ReportsInv`. `Sound` says that
every request told of fits its item (`Fits`: it has the URL written there, and
goes through a shared client only if the file points its clients to that
backend) and that its endpoint is among those `matchCall` gives for it; `Told`
says that of a matched backend every name taken and every URL written is told
of. `Told` lasts because matching only adds (`Grows`), and holds of a backend once
it is matched because the names gathered while tracing are those the frontend
takes.
Under it lie the pure parts. `ScanFinds` (a URL written is found, where it
stands or at the request that uses its variable) and `ScanFits` (what is found
fits its item) go through the declarations of a file item by item
(`DeclaredInOrder`, `DeclaredAre`, `LookedUp`); `SpecificScoresMore` compares the
tables of two routes row by row (`ScoresInOrder`): a route that spells out a
segment another takes as a parameter scores strictly more. Both are inductions
over a number for which a set of numbers is shown to have 0 and every successor
(`NatInduct`, from well-foundedness), which needs no operator parameter.
Theorems: `ReportsInvariance`, `NothingGetsLost`, `MostSpecificRouteWins`,
`OneBackendIsAsked`. They assume `ItemsAreLists` (the items of a file and the
segments of a URL are arrays, and no array or call is the `Null` that stands for
the code's null) and `RecipeIsAList`. `ReportsInv` quantifies over all lines and
calls, so TLC checks what follows from it, not the invariant itself.

**RunnerExec_proofs.** `Clock` bounds, for every phase, what time may still pass:
the run's timer lies within `Deadline + lag`, each grace adds one `Grace`.
`Pending` says which errors may be thrown where, `Alone` counts the failures
that explain a command working when it is not its turn, `Gone` says that a
command whose timeout has been decided on has lost its process group unless
Docker failed, `Earned` what the commands already run say. `CommandsRunAlone` is
`OneCommandAtATime /\ CutCommandIsGone`; of what a command leaves in the
background before it ends by itself it promises nothing. Theorems: `Invariance`, `TypeCorrect`, `CommandsRunAlone`,
`RunnerStaysUsable`, `DeadlineIsACap`, `TimeoutsAreEarned`, and, with `Listening`
(the silence timer is armed for one limit after the last output), `SilenceAlone`.

**Checkout_proofs.** `Timing` bounds the clock in each phase (a delay ends
before the deadline, a probe at most `ProbeLimit` after it); `Retrying` says
which errors lead to a probe or a delay; `Developer` and `Copying` say what the
steps taken so far have left in `sha`, `copy` and the two lists, as long as the
developer has not committed, or not touched the checkout at all. That an
untouched checkout is copied exactly rests on `OverlayIsTree`: the archive of
HEAD with git's two lists laid over it is the working tree's committable part.
Theorems: `Invariance`, `TypeCorrect`, `EndsNearDeadline`, `RetriesAreWorthIt`,
`CopiesAreFaithful`, `CleanRunsAreCommits`.

**WorkerRestart_proofs.** `Stopping` ties where `rebuild` stands to the worker
(no build while one lives), `Resting` says that a watcher that is down has
nothing under way, and `Reading` that what the running callback has read of the
held work still holds when it acts on it, though server and worker run between
its steps. Theorems: `Invariance`, `TypeCorrect`, `NeverTwoWorkers`,
`HeldIsShown`, `HeldWorkIsKept`.

**LogStream_proofs** follows the text on its way. While the run has a row its log
is 1, 2, ..., `written` (`LogOK`), so what a connection sends is a run of
numbers, perhaps after a notice. `Carried` says that some function of the
messages under way gives the piece the page's text ends with after each of them
(`Rank`: `Beyond` after a notice), that every chunk starts at most one past it,
and that the last of them agrees with the handler's `offset`. `Terminal` says
what the second terminal tick is for: the poll that sends "complete" has seen a
file with all of the log. Theorems: `Invariance`, `TypeCorrect`,
`GapsAreMarked`, `EndIsShown`.

**AppReports_proofs.** `IInv` rests on `FromCommand`: once the reports are
cleared, every file that lies where reading looks was written by the app's own
command. That `clearAppReports` covers every place `discoverCoverageReport` may
read, and the details beside it, is a lemma about `Cleared`. `TestsAsWritten` says that no step changes what a test result
file says. From these follow `ReportsAreFresh` and `FailuresAreCounted`; the
latter needs that `parseTestResults`, a fold over the suites, loses no failure,
which goes by induction on their number with the fold unrolled as a function.
`SlowAppsAreSpared` rests on `HeadroomIsKept`, which says of every finite set of
durations what `appTimeLimit` gives, from the existence of a slowest one;
`DomainAlwaysFits` says of every pair of percentages that the chart's scale
contains it in whole ticks, by the two roundings of `niceDomain` one after the
other.

`ReportsAddUp` follows both formats from the file to the stored gaps.
`Contents` is the invariant: every report of the app's command is what the
reporter of that name writes, and a detailed report lies beside the summary of
the same records; so the format that `discoverCoverageReport` takes a file for
by its name is the one it has (`FoundIs`). For Istanbul, a record and its entry
in the summary come to the same path, whether they name the file from the root
of the disk, of the repository or of the app (`OwnPath`, `RecordGaps`), and the
lines that `toLineRanges` makes ranges of are the missed ones, no line twice
(`RangesSpan`, `CapKeeps`). For LCOV, the two parsers are folds over the lines
of text that are run in step: the files closed and the one being read sum up to
no more than the totals (`StepAdds`), and the gaps taken of each file are no
more than the misses counted for it (`PairSteps`). `SumBound` then gives the
totals from finite sums that do not depend on the order taken. The assumptions
it needs are those of `ReportersAssumption`, about the tools that write the
reports and the app's configuration: an Istanbul report has one record of a
file; a path has a name, a line is at least 1; every manifest has a test
command, since other packages are no apps; a configured path ends in no other
format's name. They are asserted of the run's constants.

**TrendHistory_proofs.** `IInv`: each row and point is well formed, dated within
its run, and the only one of its run and app or slice; the rows in the worker's
hands are of the run under way and of apps already tested. It gives
`TypeCorrect` and `SeedsFill` (a seeded point is dated by the newest snapshot in
it). `PointsAreCurrent` also needs `OwnRecords` (in a run of a remote ref, what
was got in memory of a directory is what its app's snapshot holds), and that
`Measured` and `Listed` are one set of files seen along two joins, whose sums are
equal. It assumes `OwnPaths`: every app reports on a directory of its own, each
file once. The run's configuration asserts it of its constants; a renamed package
breaks it (section 8, `CountsOnce`).

`TrendsHold` and `MoversAlwaysHold` need no more of the state than `IInv`: they
say what `buildCoverageTrend` and its readers compute of any set of rows that it
allows. The argument has four parts. A sum over a set does not depend on the
order the fold takes (`AnyOrder`, `SumExists`: induction over the parts of a
finite set, in first-order form). A sorted sequence gives each element at the
place of its rank, and ranks are a bijection (`RankOrders`, `Sorted`), so the
points are the runs in order. What `After` knows after a run is the value of the
newest row that has one (`LatestKnows`, `AfterKnows`, by induction on the
place). Cutting a window keeps this (`SliceDrawn`), and in it an app's first
known point is that of the first run that knows it (`MoversMatch`), the top
mover has rank 0 (`TopIs`), a pass rate rounded down is 100% only if nothing
failed (`RateIs`), and a sum of one app is the app (`TotalOfOne`, `HeadlineIs`).

Only model-checked: liveness (`EveryRunEnds`, `EveryBuildEnds`, `RunEnds`,
`LatestRunsOrIsHeld`, `StreamEnds`, `CheckoutEnds`), which is out of the
prover's reach, and what the MC modules assert of their constants (section 3).

## 8. Where the code and its documents disagree

Two are runs with `expect: violation`, whose counterexample is a behaviour of
the model, and findings in `PROJECT.json` with the lines:

- `restart_stuck` (`LatestRuns`): "waiting for another source change". A restart
  held while the old worker is being stopped waits, after a failed build, for
  work that no worker will finish; later changes are recorded and never built.
- `staged_work` (`UncommittedWorkIsIncluded`): the copy of a local checkout is
  made "so uncommitted work is included". A change that was staged and not
  touched since is in neither of git's lists, so the run tests the committed
  content and reports the copy as clean.

Others were observed on the models and are not kept as runs. Their definitions
stay in the modules; name one as the only property of the module's cfg to see
the behaviour.

- `NoticedStopIsInterrupted` (RunLifecycle): "a stopped run finishes as
  interrupted, not failed". A stop noticed while a phase fails for another
  reason ends the run as failed or timed out; one noticed after the last app's
  check leaves the verdict as it was.
- `NoticedStopKillsCommand` (RunLifecycle): "killing the container interrupts
  whatever command is running". The kill is sent once; noticed before the
  container is up it kills nothing, and setup or build then run to their end.
- `StoppedRunKeepsSnapshots` (RunLifecycle): "stopped runs never update a
  coverage snapshot". Apps that finished before the stop have.
- `DecisionKept` (WorkerRestart): recording a change "keeps an earlier
  decision", except one that the server writes between the watcher's read and
  its rename.
- `FailedBuildKeepsSlices` (SliceBuilds): "a failed build keeps the previous
  slices". A worker that dies between storing the slices and finishing the build
  leaves a build that recovery fails although its slices are in place; so does a
  write of the status that throws there, by way of the catch block.
- `CountsOnce` (TrendHistory, with `RenamedDirs`, `RenamedReports` and
  `RenamedShapes` of MC_TrendHistory for the directories, reports and shapes):
  the comment at `database.ts:1941-1944` says that a path counts once, but the
  join at `database.ts:1957` is on the path alone, so that after a package was
  renamed the snapshots of both names count.

Observations that contradict no text, so that no property states them: a passed
run whose trend points cannot be written ends as failed, its apps all passed
(section 3); a git
child killed by a signal has no exit code, which the catch block takes for a
timeout although time is left (`git.ts:130`); the token probe after the last
failed fetch may end after the deadline, by at most its own limit
(`EndsInTime`); of several backends that own a generated client, the first does
not get a call that a later one serves too (`analyze.ts:446-447`); an Express
router that mounts itself under a prefix is followed without end
(`MaxPrefix` stops the model); a URL variable is found under a variable of an
inner scope that has its name and holds no URL, which a comment takes for "the
innermost visible one" (`url-calls.ts:209`); a URL variable that is itself
named as a backend's base constant is read as the base at the request that uses
it, yet its declaration counts as used, so the URL it holds is in no report
(`url-calls.ts:233`, `:371`; `Writes` leaves such variables out); a file that imports the shared
clients of two backends and names neither sends its relative paths to both
(`OneBackend` excludes it); lines that cleanup logs after the second poll
that finds the run over never reach an open page (they are in the download), and
a line that cleanup logs after its repository was deleted makes the log file
anew, for good.

## 9. What is not modelled

**Of modelled parts.** LogStream: redaction, the download, characters cut at a
chunk's end, leaving the page. Checkout: the credentials on the command line,
two paths that differ in case only. Reports: reading JSON and LCOV text (data
formats; a report is what its parser sees), two entries for one path in a
report, which the snapshot's primary key refuses, the type of a branch. TrendHistory: the trend's
other scopes (groups of apps) beyond subsets, metrics beyond two. SliceAnalysis:
lexing and parsing TypeScript and templates (a file is a list of what the
parsers look for), pluralising model names (`TypeNames` gives the plural),
symbolic links, a sibling mounted under a prefix counting as a load
(`module-graph.ts:23-25`), a service defined by two files of a frontend (the
code takes the last, the model both). RunnerExec: the wording of errors,
resource limits, which Docker enforces, processes that leave their command's
process group (`setsid`), which no signal of the code reaches.

**Parts without a module.** Each says in `PROJECT.json` why. *Validation*
(`packages/shared/src/validation.ts`) has no state and no steps: its guards
appear where an accepted value matters. *Repository settings and app groups* are
single-statement writes whose only interplay with runs, the configuration copied
into a run, is in RunStore; the groups of a later sync are in the plan. *The API
reference and the exports* build text from one read. *The web pages* other than
the run page (in LogStream) and the chart (in Limits and CoverageTrend) render
what they load. *Redaction* is string replacement. *Migrations* run once, before
anything else, and *packaging* is build files, of which only the restart policy
matters here (section 6). A second worker on the same database is not modelled:
nothing in the repository starts one, and WorkerRestart shows that the watcher
does not.
