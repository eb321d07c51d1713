--------------------------- MODULE WorkerRestart ---------------------------
(***************************************************************************)
(* The development watcher that rebuilds and restarts the worker when its  *)
(* source changes (docker/dev-watch.mjs in mode "worker"), the held        *)
(* restart it shares with the server through worker-restart.json, and the  *)
(* worker's own work, which the watcher reads from the database.           *)
(*                                                                         *)
(* The watcher is one thread: while a callback runs (task), no other event *)
(* of it is handled.  The server and the worker are other processes; their *)
(* steps fall between any two accesses of a callback to the file or the    *)
(* database.                                                               *)
(***************************************************************************)
EXTENDS Naturals

CONSTANTS
  HoldsRestarts,  \* the watcher runs in mode "worker"
  Broken,         \* the versions of the source that do not compile
  MaxVersion,     \* bound: versions of the source
  MaxWork,        \* bound: runs and slice builds the worker takes up
  MaxFaults,      \* bound: deaths of the worker on its own and power losses
  MaxDecisions    \* bound: decisions made on the dashboard

ASSUME RestartAssumption ==
  /\ HoldsRestarts \in BOOLEAN
  /\ MaxVersion \in Nat \ {0}
  /\ Broken \subseteq 1..MaxVersion
  /\ MaxWork \in Nat
  /\ MaxFaults \in Nat
  /\ MaxDecisions \in Nat

VARIABLES
  src,       \* the version of the source now
  debounced, \* scheduleRebuild's timer is set
  task,      \* the watcher's running callback and what it has read
  holding,   \* holdTimer is set: a restart is held
  rb,        \* where rebuild() is
  queued,    \* rebuildQueued
  from,      \* the version when the running build began, 1 if none runs
  shut,      \* the watcher itself: "no", shutting down, "down" or "off"
  app,       \* the worker process and whether its exit event was handled
  built,     \* the version last built
  two,       \* history: a second worker was started beside a live one
  work,      \* a run or slice build is executing, as the database says
  heldWork,  \* history: it was executing when the restart was held
  file,      \* worker-restart.json and its decision
  post,      \* the decision of a request the server is answering
  works, faults, decisions  \* counters for the bounds

watcherVars == <<debounced, task, holding, rb, queued, from, shut>>
appVars     == <<app, built, two>>
workVars    == <<work, heldWork>>
fileVars    == <<file, post>>
counters    == <<works, faults, decisions>>
vars == <<src, watcherVars, appVars, workVars, fileVars, counters>>

Choices == {"now", "afterRun"}
Files   == {"absent", "undecided"} \cup Choices
NoTask  == [at |-> "none", copy |-> "absent", saw |-> "nothing"]
Task    == [at: {"none", "read", "write", "check", "go"}, copy: Files,
            saw: {"work", "nothing", "unreadable"}]
Alive   == {"booting", "up"}

RestartInit ==
  /\ src = 1 /\ built = 1
  /\ debounced = FALSE /\ holding = FALSE /\ queued = FALSE /\ two = FALSE
  /\ task = NoTask
  /\ rb = "build" /\ from = 1
  /\ shut = "no"
  /\ app = "none"
  /\ work = FALSE /\ heldWork = FALSE
  /\ file = "absent" /\ post = "idle"
  /\ works = 0 /\ faults = 0 /\ decisions = 0

\* The thread is free for its next event.
Free == shut = "no" /\ task.at = "none"

-----------------------------------------------------------------------------
(* The held restart, docker/worker-restart.mjs.                            *)

RecordChange(existing) == IF existing = "absent" THEN "undecided" ELSE existing

\* Mutant: any decision restarts at once.
ShouldRestart_AnyDecision(pending, saw) == pending \in Choices \/ saw = "nothing"

ShouldRestart(pending, saw) == pending = "now" \/ saw = "nothing"

\* What readActiveWork may return.
ActiveWork == {"unreadable", IF work THEN "work" ELSE "nothing"}

-----------------------------------------------------------------------------
(* Source changes and the decision to hold.                                *)

Change ==
  /\ src < MaxVersion
  /\ src' = src + 1
  /\ debounced' = (shut = "no")
  /\ UNCHANGED <<task, holding, rb, queued, from, shut, appVars, workVars,
                 fileVars, counters>>

\* The debounced callback, by what it meets first.
ChangeNoted ==
  /\ holding
  /\ task' = [NoTask EXCEPT !.at = "write", !.copy = file]

ChangeHeld ==
  /\ ~holding /\ HoldsRestarts /\ app # "none"
  /\ work
  /\ task' = [NoTask EXCEPT !.at = "read", !.saw = "work"]

ChangeRebuilds ==
  /\ ~holding
  /\ \/ task' = [NoTask EXCEPT !.at = "go"] /\ (~HoldsRestarts \/ app = "none")
     \/ \E saw \in ActiveWork \ {"work"}:
           task' = [NoTask EXCEPT !.at = "go", !.saw = saw]

Debounced ==
  /\ Free /\ debounced
  /\ debounced' = FALSE
  /\ ChangeNoted \/ ChangeHeld \/ ChangeRebuilds
  /\ UNCHANGED <<src, holding, rb, queued, from, shut, appVars, workVars,
                 fileVars, counters>>

ReadPending ==
  /\ task.at = "read"
  /\ task' = [task EXCEPT !.at = "write", !.copy = file]
  /\ UNCHANGED <<src, debounced, holding, rb, queued, from, shut, appVars,
                 workVars, fileVars, counters>>

WritePending ==
  /\ task.at = "write"
  /\ file' = RecordChange(task.copy)
  /\ holding' = TRUE
  /\ heldWork' = IF holding THEN heldWork ELSE work
  /\ task' = NoTask
  /\ UNCHANGED <<src, debounced, rb, queued, from, shut, appVars, work, post,
                 counters>>

\* The hold timer: read the file, then the database, then decide.
CheckHeldRestart ==
  /\ Free /\ holding
  /\ task' = [NoTask EXCEPT !.at = "check", !.copy = file]
  /\ UNCHANGED <<src, debounced, holding, rb, queued, from, shut, appVars,
                 workVars, fileVars, counters>>

KeepHolding ==
  /\ task.at = "check"
  /\ \E saw \in ActiveWork: saw # "unreadable" /\ ~ShouldRestart(task.copy, saw)
  /\ task' = NoTask
  /\ UNCHANGED <<src, debounced, holding, rb, queued, from, shut, appVars,
                 workVars, fileVars, counters>>

\* Mutant: the timer of the hold is not cleared.
ReleaseHeldRestart_TimerKept ==
  /\ task.at = "check"
  /\ \E saw \in ActiveWork:
        /\ saw = "unreadable" \/ ShouldRestart(task.copy, saw)
        /\ task' = [task EXCEPT !.at = "go", !.saw = saw]
  /\ file' = "absent"
  /\ UNCHANGED <<src, debounced, holding, rb, queued, from, shut, appVars,
                 workVars, post, counters>>

ReleaseHeldRestart ==
  /\ task.at = "check"
  /\ \E saw \in ActiveWork:
        /\ saw = "unreadable" \/ ShouldRestart(task.copy, saw)
        /\ task' = [task EXCEPT !.at = "go", !.saw = saw]
  /\ holding' = FALSE
  /\ file' = "absent"
  /\ UNCHANGED <<src, debounced, rb, queued, from, shut, appVars, workVars,
                 post, counters>>

-----------------------------------------------------------------------------
(* rebuild(): stop the worker, build, start it.                            *)

Signalled(child) == IF child \in Alive THEN "dying" ELSE child

\* The start of rebuild() with child as the worker.
BeginRebuild(child) ==
  /\ queued' = FALSE
  /\ app' = Signalled(child)
  /\ \/ child = "none" /\ rb' = "build" /\ from' = src
     \/ child # "none" /\ rb' = "stop" /\ from' = 1

QueueRebuild ==
  /\ rb # "idle"
  /\ queued' = TRUE
  /\ UNCHANGED <<rb, from, app>>

Rebuild ==
  /\ task.at = "go"
  /\ task' = NoTask
  /\ QueueRebuild \/ (rb = "idle" /\ BeginRebuild(app))
  /\ UNCHANGED <<src, debounced, holding, shut, built, two, workVars,
                 fileVars, counters>>

\* waitForExit gives up on SIGTERM: SIGKILL.
StopTimesOut ==
  /\ Free /\ rb = "stop" /\ app # "none"
  /\ rb' = "kill"
  /\ app' = "dead"
  /\ UNCHANGED <<src, debounced, task, holding, queued, from, shut, built,
                 two, workVars, fileVars, counters>>

\* The exit event of a killed process arrives within the second waited for it.
StopReturns ==
  /\ Free /\ app # "dead"
  /\ rb = "kill" \/ (rb = "stop" /\ app = "none")
  /\ rb' = "build"
  /\ from' = src
  /\ UNCHANGED <<src, debounced, task, holding, queued, shut, appVars,
                 workVars, fileVars, counters>>

\* Mutant: a change during the build is forgotten.
BuildEnds_QueueDropped ==
  /\ Free /\ rb = "build"
  /\ \E v \in from..src:
        /\ built' = v
        /\ two' = (two \/ (v \notin Broken /\ app # "none"))
        /\ app' = IF v \in Broken THEN app ELSE "booting"
  /\ queued' = FALSE /\ rb' = "idle" /\ from' = 1
  /\ UNCHANGED <<src, debounced, task, holding, shut, workVars, fileVars,
                 counters>>

\* The packages are compiled, one after another, from versions the source
\* had meanwhile.
BuildEnds ==
  /\ Free /\ rb = "build"
  /\ \E v \in from..src:
        LET child == IF v \in Broken THEN app ELSE "booting" IN
        /\ built' = v
        /\ two' = (two \/ (v \notin Broken /\ app # "none"))
        /\ \/ queued /\ BeginRebuild(child)
           \/ ~queued /\ rb' = "idle" /\ app' = child /\ UNCHANGED <<queued, from>>
  /\ UNCHANGED <<src, debounced, task, holding, shut, workVars, fileVars,
                 counters>>

-----------------------------------------------------------------------------
(* The worker process.                                                     *)

\* initialize(): runs and builds a previous worker left are ended.
Recover ==
  /\ app = "booting"
  /\ app' = "up"
  /\ work' = FALSE /\ heldWork' = FALSE
  /\ UNCHANGED <<src, watcherVars, built, two, fileVars, counters>>

ClaimWork ==
  /\ app = "up" /\ ~work /\ works < MaxWork
  /\ work' = TRUE
  /\ works' = works + 1
  /\ UNCHANGED <<src, watcherVars, appVars, heldWork, fileVars, faults,
                 decisions>>

FinishWork ==
  /\ app \in {"up", "dying"} /\ work
  /\ work' = FALSE /\ heldWork' = FALSE
  /\ UNCHANGED <<src, watcherVars, appVars, fileVars, counters>>

\* After SIGTERM the worker removes its runner and exits.
WorkerExits ==
  /\ app = "dying"
  /\ app' = "dead"
  /\ UNCHANGED <<src, watcherVars, built, two, workVars, fileVars, counters>>

WorkerDies ==
  /\ app \in Alive /\ faults < MaxFaults
  /\ app' = "dead"
  /\ faults' = faults + 1
  /\ UNCHANGED <<src, watcherVars, built, two, workVars, fileVars, works,
                 decisions>>

-----------------------------------------------------------------------------
(* The watcher process: the worker's exit event, SIGTERM, container death. *)

Gone(how) ==
  /\ shut' = how
  /\ app' = "none"
  /\ debounced' = FALSE /\ holding' = FALSE /\ queued' = FALSE
  /\ task' = NoTask /\ rb' = "idle" /\ from' = 1

ExitHandled ==
  /\ shut \in {"no", "stop", "kill"} /\ task.at = "none" /\ app = "dead"
  /\ \/ shut = "no" /\ rb = "idle" /\ ~queued /\ Gone("down")
     \/ /\ shut # "no" \/ rb # "idle" \/ queued
        /\ app' = "none"
        /\ UNCHANGED watcherVars
  /\ UNCHANGED <<src, built, two, workVars, fileVars, counters>>

Shutdown ==
  /\ Free
  /\ \/ app = "none" /\ Gone("off")
     \/ /\ app # "none"
        /\ shut' = "stop"
        /\ app' = Signalled(app)
        /\ debounced' = FALSE /\ holding' = FALSE
        /\ UNCHANGED <<task, rb, queued, from>>
  /\ UNCHANGED <<src, built, two, workVars, fileVars, counters>>

\* A rebuild under way does nothing more: it returns before its next build.
ShutdownTimesOut ==
  /\ shut = "stop" /\ app # "none"
  /\ shut' = "kill"
  /\ app' = "dead"
  /\ UNCHANGED <<src, debounced, task, holding, rb, queued, from, built, two,
                 workVars, fileVars, counters>>

ShutdownEnds ==
  /\ shut = "kill" \/ (shut = "stop" /\ app = "none")
  /\ Gone("off")
  /\ UNCHANGED <<src, built, two, workVars, fileVars, counters>>

PowerLoss ==
  /\ shut # "off" /\ faults < MaxFaults
  /\ Gone("down")
  /\ faults' = faults + 1
  /\ UNCHANGED <<src, built, two, workVars, fileVars, works,
                 decisions>>

\* The container's restart policy starts a new watcher.
Boot ==
  /\ shut = "down"
  /\ shut' = "no"
  /\ file' = IF HoldsRestarts THEN "absent" ELSE file
  /\ rb' = "build" /\ from' = src
  /\ UNCHANGED <<src, debounced, task, holding, queued, appVars, workVars,
                 post, counters>>

-----------------------------------------------------------------------------
(* The server: POST /api/worker-restart.                                   *)

DecideRead ==
  /\ post = "idle" /\ file # "absent" /\ decisions < MaxDecisions
  /\ post' \in Choices
  /\ decisions' = decisions + 1
  /\ UNCHANGED <<src, watcherVars, appVars, workVars, file, works, faults>>

DecideWrite ==
  /\ post # "idle"
  /\ file' = post
  /\ post' = "idle"
  /\ UNCHANGED <<src, watcherVars, appVars, workVars, counters>>

ServerDies ==
  /\ post # "idle"
  /\ post' = "idle"
  /\ UNCHANGED <<src, watcherVars, appVars, workVars, file, counters>>

-----------------------------------------------------------------------------
Watcher == Debounced \/ ReadPending \/ WritePending \/ CheckHeldRestart
             \/ KeepHolding \/ ReleaseHeldRestart \/ Rebuild \/ StopTimesOut
             \/ StopReturns \/ BuildEnds \/ ExitHandled \/ Shutdown
             \/ ShutdownTimesOut \/ ShutdownEnds \/ Boot

Worker == Recover \/ ClaimWork \/ FinishWork \/ WorkerExits

Server == DecideRead \/ DecideWrite \/ ServerDies

Next == Change \/ Watcher \/ Worker \/ Server \/ WorkerDies \/ PowerLoss

Spec == RestartInit /\ [][Next]_vars

\* Node runs every callback that stays ready, and one that becomes ready
\* again and again (between two hold polls) too; the worker boots and its
\* work ends (time limits); the restart policy starts the watcher again.
Fairness ==
  /\ SF_vars(Debounced) /\ SF_vars(StopTimesOut \/ StopReturns \/ BuildEnds)
  /\ SF_vars(ExitHandled)
  /\ WF_vars(CheckHeldRestart)
  /\ WF_vars(task.at # "none" /\ Watcher)
  /\ WF_vars(Recover) /\ WF_vars(FinishWork)
  /\ WF_vars(Boot)

LiveSpec == Spec /\ Fairness
-----------------------------------------------------------------------------
TypeOK ==
  /\ src \in 1..MaxVersion /\ built \in 1..MaxVersion /\ from \in 1..src
  /\ debounced \in BOOLEAN /\ holding \in BOOLEAN /\ queued \in BOOLEAN
  /\ two \in BOOLEAN /\ work \in BOOLEAN /\ heldWork \in BOOLEAN
  /\ task \in Task
  /\ rb \in {"idle", "stop", "kill", "build"}
  /\ shut \in {"no", "stop", "kill", "down", "off"}
  /\ app \in {"none", "dying", "dead"} \cup Alive
  /\ file \in Files
  /\ post \in Choices \cup {"idle"}
  /\ works \in 0..MaxWork /\ faults \in 0..MaxFaults
  /\ decisions \in 0..MaxDecisions

\* rebuild() never starts a worker beside a live one: two workers would claim
\* and recover each other's runs (dev-watch.mjs startApp, stopApp).
OneWorker == ~two

\* A held restart is always on the dashboard, where it can be decided: the
\* server's and the watcher's accesses to the file never lose it.
HeldRestartIsShown == holding => file # "absent"

\* Work that was under way when the restart was held is cut short by the
\* watcher only on a decision "now", or if the database cannot be read:
\* "the watcher holds the restart" (README, Local development).
HeldWorkIsNotCut ==
  [][(app = "up" /\ app' = "dying" /\ shut' = "no" /\ work /\ heldWork)
       => (task.copy = "now" \/ task.saw = "unreadable")]_vars

\* Where the watcher may come to rest: the latest source runs, or does not
\* compile, or the operator has stopped the service.
Settled ==
  \/ shut \notin {"no", "down"}
  \/ built = src /\ (app \in Alive \/ src \in Broken)

\* A restart is held for work that no live worker will finish.
HeldForNobody == holding /\ app = "none" /\ rb = "idle" /\ work

\* Once the source stops changing, the worker comes to run it, whatever
\* callbacks, exits, builds and decisions raced, or the restart is held for
\* work of a worker that no longer runs and waits for a decision.
LatestRunsOrIsHeld == <>[](Settled \/ (HeldForNobody /\ file # "now"))

-----------------------------------------------------------------------------
(* What comments and documents say, and the code does not do.              *)

\* "waiting for another source change" (dev-watch.mjs, after a failed build):
\* the next change is built.
LatestRuns == <>[]Settled

\* "Keeps an earlier decision" (worker-restart.mjs, recordChange): noting a
\* change never takes back a decision.
DecisionKept ==
  [][(task.at = "write" /\ task'.at = "none" /\ file \in Choices)
       => file' \in Choices]_vars
=============================================================================
