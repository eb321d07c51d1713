---------------------------- MODULE SliceBuilds ----------------------------
(***************************************************************************)
(* Slice builds: the server queues them, the one worker executes them      *)
(* between test runs (apps/worker/src/slices/build.ts), and the slices a   *)
(* build found replace the repository's earlier ones in the database.      *)
(*                                                                         *)
(* Each action issues at most one statement or transaction of the          *)
(* database, so the server's steps, and a crash, fall between any two.     *)
(* A build is named by its creation order, (created_at, rowid).  Test runs *)
(* are RunLifecycle's; here they only compete for the worker.              *)
(***************************************************************************)
EXTENDS Integers, FiniteSets

CONSTANTS
  Repos,      \* repositories that may exist
  NoRepo,     \* no repository
  MaxBuilds,  \* bound: how many builds are ever created
  KeepBuilds  \* SLICE_BUILD_HISTORY_LIMIT

ASSUME SliceBuildsAssumption ==
  /\ NoRepo \notin Repos
  /\ MaxBuilds \in Nat
  /\ KeepBuilds \in Nat

Builds   == 1 .. MaxBuilds
Active   == {"queued", "running"}
Finished == {"passed", "failed"}

VARIABLES
  repos,       \* repositories that exist
  configured,  \* repositories with a slice_config_json
  created,     \* builds created so far
  owner,       \* build -> its repository
  status,      \* build -> slice_builds.status, "absent" without a row
  slices,      \* repository -> the build whose slices it holds, 0 if none
  queuedRuns,  \* repositories with a queued test run
  run,         \* the repository whose run is executing, as the database says
  pc,          \* where run() and executeSliceBuild are
  cur          \* the build the worker holds

buildTables == <<owner, status>>
runTables   == <<queuedRuns, run>>
tables      == <<repos, configured, created, buildTables, slices, runTables>>
vars        == <<tables, pc, cur>>

\* Where executeSliceBuild is: its build's row is "running" up to the update
\* that ends it.
Building == {"check", "source", "analyze", "replace", "pass", "fail"}
PC == {"down", "boot", "idle", "run", "look", "prune"} \cup Building

BuildsOf(p) == {b \in Builds : owner[b] = p /\ status[b] # "absent"}
Live(b)     == status[b] # "absent"

SliceBuildsInit ==
  /\ repos = Repos
  /\ configured = {}
  /\ created = 0
  /\ owner = [b \in Builds |-> NoRepo]
  /\ status = [b \in Builds |-> "absent"]
  /\ slices = [p \in Repos |-> 0]
  /\ queuedRuns = {} /\ run = NoRepo
  /\ pc = "down" /\ cur = 0

-----------------------------------------------------------------------------
(* The server.                                                             *)

SetSliceConfig(p) ==
  /\ p \in repos
  /\ configured' = configured \cup {p}
  /\ UNCHANGED <<repos, created, buildTables, slices, runTables, pc, cur>>

CreateSliceBuild(p) ==
  /\ p \in repos \cap configured
  /\ created < MaxBuilds
  /\ \A b \in BuildsOf(p) : status[b] \notin Active
  /\ created' = created + 1
  /\ owner' = [owner EXCEPT ![created + 1] = p]
  /\ status' = [status EXCEPT ![created + 1] = "queued"]
  /\ UNCHANGED <<repos, configured, slices, runTables, pc, cur>>

\* An active run keeps the repository; an active slice build does not.  The
\* foreign keys delete its builds and slices with it.
DeleteRepository(p) ==
  /\ p \in repos /\ p \notin queuedRuns /\ p # run
  /\ repos' = repos \ {p}
  /\ configured' = configured \ {p}
  /\ status' = [b \in Builds |-> IF owner[b] = p THEN "absent" ELSE status[b]]
  /\ slices' = [slices EXCEPT ![p] = 0]
  /\ UNCHANGED <<created, owner, runTables, pc, cur>>

QueueRun(p) ==
  /\ p \in repos /\ p \notin queuedRuns /\ p # run
  /\ queuedRuns' = queuedRuns \cup {p}
  /\ UNCHANGED <<repos, configured, created, buildTables, slices, run, pc, cur>>

StopQueuedRun(p) ==
  /\ p \in queuedRuns
  /\ queuedRuns' = queuedRuns \ {p}
  /\ UNCHANGED <<repos, configured, created, buildTables, slices, run, pc, cur>>

Server ==
  \E p \in Repos : \/ SetSliceConfig(p) \/ CreateSliceBuild(p)
                   \/ DeleteRepository(p) \/ QueueRun(p) \/ StopQueuedRun(p)

-----------------------------------------------------------------------------
(* The worker's loop.                                                      *)

Boot ==
  /\ pc = "down"
  /\ pc' = "boot"
  /\ UNCHANGED <<tables, cur>>

\* initialize(): what an earlier worker left executing is ended, the runs
\* first; then each build is failed by a statement of its own.
RecoverRun ==
  /\ pc = "boot" /\ run # NoRepo
  /\ run' = NoRepo
  /\ UNCHANGED <<repos, configured, created, buildTables, slices, queuedRuns,
                 pc, cur>>

FailRunningBuild ==
  /\ pc = "boot" /\ run = NoRepo
  /\ \E b \in Builds :
        /\ status[b] = "running"
        /\ status' = [status EXCEPT ![b] = "failed"]
  /\ UNCHANGED <<repos, configured, created, owner, slices, runTables, pc, cur>>

\* Mutant: the worker starts without failing the builds left running.
Recovered_Unfailed ==
  /\ pc = "boot" /\ run = NoRepo
  /\ pc' = "idle"
  /\ UNCHANGED <<tables, cur>>

Recovered ==
  /\ pc = "boot" /\ run = NoRepo
  /\ \A b \in Builds : status[b] # "running"
  /\ pc' = "idle"
  /\ UNCHANGED <<tables, cur>>

\* Test runs take priority.
ClaimNextRun ==
  /\ pc = "idle"
  /\ \E p \in queuedRuns :
        /\ run' = p
        /\ queuedRuns' = queuedRuns \ {p}
  /\ pc' = "run"
  /\ UNCHANGED <<repos, configured, created, buildTables, slices, cur>>

EndRun ==
  /\ pc = "run"
  /\ run' = NoRepo
  /\ pc' = "idle"
  /\ UNCHANGED <<repos, configured, created, buildTables, slices, queuedRuns, cur>>

NoRunQueued ==
  /\ pc = "idle" /\ queuedRuns = {}
  /\ pc' = "look"
  /\ UNCHANGED <<tables, cur>>

Oldest(b) == /\ status[b] = "queued"
             /\ \A c \in Builds : status[c] = "queued" => b <= c

ClaimNextSliceBuild ==
  /\ pc = "look"
  /\ \E b \in Builds :
        /\ Oldest(b)
        /\ status' = [status EXCEPT ![b] = "running"]
        /\ cur' = b
  /\ pc' = "check"
  /\ UNCHANGED <<repos, configured, created, owner, slices, runTables>>

\* Nothing to do: the loop sleeps and looks for a run again.
NothingQueued ==
  /\ pc = "look" /\ \A b \in Builds : status[b] # "queued"
  /\ pc' = "idle"
  /\ UNCHANGED <<tables, cur>>

-----------------------------------------------------------------------------
(* executeSliceBuild.                                                      *)

Repo == owner[cur]

\* The repository is looked up once; it may be deleted during the checkout.
FindRepository ==
  /\ pc = "check"
  /\ pc' = IF Repo \in repos THEN "source" ELSE "fail"
  /\ UNCHANGED <<tables, cur>>

\* The checkout succeeded; setSliceBuildSource touches no column kept here.
SourceReady ==
  /\ pc = "source"
  /\ pc' = "analyze"
  /\ UNCHANGED <<tables, cur>>

\* Mutant: the build is finished before its slices are stored.
Analyzed_FinishFirst ==
  /\ pc = "analyze"
  /\ pc' = "pass"
  /\ UNCHANGED <<tables, cur>>

Analyzed ==
  /\ pc = "analyze"
  /\ pc' = "replace"
  /\ UNCHANGED <<tables, cur>>

\* Mutant: the old slices are deleted outside the transaction.
Throws_AfterDelete ==
  /\ pc \in Building \ {"fail"}
  /\ slices' = IF pc = "replace" THEN [slices EXCEPT ![Repo] = 0] ELSE slices
  /\ pc' = "fail"
  /\ UNCHANGED <<repos, configured, created, buildTables, runTables, cur>>

\* Git fails or exceeds the time limit, no frontend can be sliced, a read or
\* write of the database throws, or the slices violate a constraint of their
\* tables, that of the repository too.
Throws ==
  /\ pc \in Building \ {"fail"}
  /\ pc' = "fail"
  /\ UNCHANGED <<tables, cur>>

\* One transaction; its inserts refuse a repository that is gone.
ReplaceSlices ==
  /\ pc = "replace" /\ Repo \in repos
  /\ slices' = [slices EXCEPT ![Repo] = cur]
  /\ pc' = "pass"
  /\ UNCHANGED <<repos, configured, created, buildTables, runTables, cur>>

\* An UPDATE by id: nothing happens if the row was deleted.
FinishSliceBuild(b, s) ==
  status' = IF Live(b) THEN [status EXCEPT ![b] = s] ELSE status

Pass ==
  /\ pc = "pass"
  /\ FinishSliceBuild(cur, "passed")
  /\ pc' = "prune"
  /\ UNCHANGED <<repos, configured, created, owner, slices, runTables, cur>>

Fail ==
  /\ pc = "fail"
  /\ FinishSliceBuild(cur, "failed")
  /\ pc' = "prune"
  /\ UNCHANGED <<repos, configured, created, owner, slices, runTables, cur>>

\* pruneSliceBuilds: all but the newest KeepBuilds finished builds.
Prunable(p) ==
  LET done == {b \in BuildsOf(p) : status[b] \notin Active}
  IN {b \in done : Cardinality({c \in done : c > b}) >= KeepBuilds}

Prune ==
  /\ pc = "prune"
  /\ status' = [b \in Builds |-> IF b \in Prunable(Repo) THEN "absent" ELSE status[b]]
  /\ pc' = "idle"
  /\ cur' = 0
  /\ UNCHANGED <<repos, configured, created, owner, slices, runTables>>

\* The catch block's write throws: finally prunes, and the error leaves
\* executeSliceBuild and ends the process.
FailThrows ==
  /\ pc = "fail"
  /\ status' = [b \in Builds |-> IF b \in Prunable(Repo) THEN "absent" ELSE status[b]]
  /\ pc' = "down"
  /\ cur' = 0
  /\ UNCHANGED <<repos, configured, created, owner, slices, runTables>>

-----------------------------------------------------------------------------
\* The worker is killed or stopped: stop() waits for no slice build.
Crash ==
  /\ pc # "down"
  /\ pc' = "down"
  /\ cur' = 0
  /\ UNCHANGED tables

Work ==
  \/ Boot \/ RecoverRun \/ FailRunningBuild \/ Recovered
  \/ ClaimNextRun \/ EndRun \/ NoRunQueued \/ ClaimNextSliceBuild \/ NothingQueued
  \/ FindRepository \/ SourceReady \/ Analyzed \/ Throws \/ ReplaceSlices
  \/ Pass \/ Fail \/ FailThrows \/ Prune

Next == Server \/ Work \/ Crash

Spec == SliceBuildsInit /\ [][Next]_vars

\* The restart policy starts the worker again, git and Docker answer or run
\* into a time limit, and neither crashes nor new test runs go on for ever.
LiveSpec ==
  /\ Spec
  /\ WF_vars(Work)
  /\ <>[][~(Crash \/ \E p \in Repos : QueueRun(p))]_vars
-----------------------------------------------------------------------------
TypeOK ==
  /\ repos \subseteq Repos /\ configured \subseteq repos
  /\ created \in 0..MaxBuilds
  /\ owner \in [Builds -> Repos \cup {NoRepo}]
  /\ status \in [Builds -> Active \cup Finished \cup {"absent"}]
  /\ slices \in [Repos -> 0..created]
  /\ queuedRuns \subseteq repos /\ run \in repos \cup {NoRepo}
  /\ pc \in PC /\ cur \in 0..created
  /\ pc \in Building \cup {"prune"} => cur # 0

\* A repository never has two builds queued or running, so no two builds can
\* disagree about its slices (createSliceBuild's transaction).
OneActiveBuild ==
  \A b, c \in Builds :
    b # c /\ owner[b] = owner[c] /\ owner[b] \in Repos
      => status[b] \notin Active \/ status[c] \notin Active

\* A running build is in the worker's hands, or recovery will come to it: a
\* build that fell between would block its repository's builds for ever.
RunningBuildIsHeld ==
  \A b \in Builds :
    status[b] = "running" => (b = cur /\ pc \in Building) \/ pc \in {"down", "boot"}

\* A build that passed stored its slices, and only a newer build of the
\* repository has replaced them since.
PassedBuildIsStored ==
  \A b \in Builds : status[b] = "passed" => slices[owner[b]] >= b

\* Nothing is left of a deleted repository, although its build may still be
\* executing and writes to the database after the deletion.
DeletedLeavesNothing ==
  \A p \in Repos \ repos : slices[p] = 0 /\ BuildsOf(p) = {}

\* The slices of a repository are never replaced by those of an older build.
NewestSlicesWin ==
  [][\A p \in Repos : p \in repos' => slices'[p] >= slices[p]]_vars

\* Every build requested is finished in the end, behind test runs and through
\* crashes, or goes with its repository.
EveryBuildEnds ==
  \A b \in Builds : status[b] \in Active ~> status[b] \notin Active

-----------------------------------------------------------------------------
\* "A failed build keeps the previous slices" (README, Slices).
FailedBuildKeepsSlices ==
  \A b \in Builds : status[b] = "failed" => slices[owner[b]] # b
=============================================================================
