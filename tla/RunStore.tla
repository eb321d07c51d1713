------------------------------ MODULE RunStore ------------------------------
(***************************************************************************)
(* The run tables of packages/db/src/database.ts: repositories, runs,      *)
(* app_runs, coverage_snapshots and coverage_history.  Server and worker   *)
(* are separate processes that share nothing but this database.            *)
(*                                                                         *)
(* Every operator below is one method of QaBuddyDatabase, or one of its    *)
(* transactions where a method issues several: each is atomic, and nothing *)
(* else is.  A run is named by its creation order, which is the order      *)
(* (created_at, rowid) that claiming and pruning sort by.                  *)
(***************************************************************************)
EXTENDS Integers, FiniteSets

CONSTANTS
  Repos,      \* repositories the database may hold
  Apps,       \* application names a repository may contain
  Requests,   \* bodies of POST .../runs, joined with the repository's settings
  MaxRuns,    \* bound: how many runs are ever created
  Keep,       \* historyLimit of the worker, at least 1 (index.ts)
  NoRepo      \* repository of a run id that has no row

ASSUME RunStoreAssumption ==
  /\ MaxRuns \in Nat
  /\ Keep \in Nat \ {0}
  /\ NoRepo \notin Repos
  /\ Requests \subseteq [local : BOOLEAN, auto : BOOLEAN, apps : SUBSET Apps]
  /\ \A q \in Requests : ~q.auto => q.apps # {}

Runs == 1 .. MaxRuns

Executing == {"cloning", "setup", "building", "testing"}
Active    == {"queued"} \cup Executing
Terminal  == {"passed", "failed", "timed_out", "interrupted"}
Verdicts  == {"passed", "failed"}
OpenApp   == {"pending", "running"}

\* "absent" is a run without a row, "none" an app without a row in app_runs;
\* snapshot 0 is an app without a coverage snapshot.
Status    == Active \cup Terminal \cup {"absent"}
AppStatus == OpenApp \cup {"none", "passed", "failed", "skipped"}
Reason    == {"none", "stop", "restart", "other"}

VARIABLES
  repos,      \* repositories that exist
  created,    \* runs created so far
  request,    \* run -> what was asked for: repository, local, auto
  status,     \* run -> runs.status
  cancel,     \* run -> runs.cancel_requested
  reason,     \* run -> runs.error, as far as it says why a run was cut short
  appStatus,  \* run -> app -> app_runs.status
  snapshot,   \* repository -> app -> run_id of its coverage snapshot
  history     \* rows <<repository, run, app>> of coverage_history

storeVars ==
  <<repos, created, request, status, cancel, reason, appStatus, snapshot, history>>

NoRequest == [repo |-> NoRepo, local |-> FALSE, auto |-> FALSE]
NoApps    == [a \in Apps |-> "none"]
RepoOf(r) == request[r].repo
RunsOf(p) == {r \in Runs : RepoOf(r) = p}
Pending(S) == [a \in Apps |-> IF a \in S THEN "pending" ELSE "none"]

StoreInit ==
  /\ repos = Repos
  /\ created = 0
  /\ request = [r \in Runs |-> NoRequest]
  /\ status = [r \in Runs |-> "absent"]
  /\ cancel = [r \in Runs |-> FALSE]
  /\ reason = [r \in Runs |-> "none"]
  /\ appStatus = [r \in Runs |-> NoApps]
  /\ snapshot = [p \in Repos |-> [a \in Apps |-> 0]]
  /\ history = {}

-----------------------------------------------------------------------------
(* Methods the server calls.                                               *)

\* Mutant: the check for an active run is lost.
CreateRun_Unchecked(p, q) ==
  /\ p \in repos
  /\ created < MaxRuns
  /\ created' = created + 1
  /\ request' = [request EXCEPT ![created + 1] =
                   [repo |-> p, local |-> q.local, auto |-> q.auto]]
  /\ status' = [status EXCEPT ![created + 1] = "queued"]
  /\ appStatus' = [appStatus EXCEPT ![created + 1] = Pending(q.apps)]
  /\ UNCHANGED <<repos, cancel, reason, snapshot, history>>

\* createRun: refused while the repository has an active run.
CreateRun(p, q) ==
  /\ p \in repos
  /\ created < MaxRuns
  /\ \A r \in RunsOf(p) : status[r] \notin Active
  /\ created' = created + 1
  /\ request' = [request EXCEPT ![created + 1] =
                   [repo |-> p, local |-> q.local, auto |-> q.auto]]
  /\ status' = [status EXCEPT ![created + 1] = "queued"]
  /\ appStatus' = [appStatus EXCEPT ![created + 1] = Pending(q.apps)]
  /\ UNCHANGED <<repos, cancel, reason, snapshot, history>>

\* skipPendingApps, and the UPDATE inside markActiveRunsInterrupted
SkipOpen(apps) == [a \in Apps |-> IF apps[a] \in OpenApp THEN "skipped" ELSE apps[a]]

\* Mutant: the apps of a run stopped in the queue stay pending.
StopQueued_OpenApps(r) ==
  /\ status[r] = "queued"
  /\ status' = [status EXCEPT ![r] = "interrupted"]
  /\ cancel' = [cancel EXCEPT ![r] = TRUE]
  /\ reason' = [reason EXCEPT ![r] = "stop"]
  /\ UNCHANGED <<repos, created, request, appStatus, snapshot, history>>

\* requestRunCancellation on a run nobody has claimed: it ends at once.
StopQueued(r) ==
  /\ status[r] = "queued"
  /\ status' = [status EXCEPT ![r] = "interrupted"]
  /\ cancel' = [cancel EXCEPT ![r] = TRUE]
  /\ reason' = [reason EXCEPT ![r] = "stop"]
  /\ appStatus' = [appStatus EXCEPT ![r] = SkipOpen(@)]
  /\ UNCHANGED <<repos, created, request, snapshot, history>>

\* Mutant: the server ends a run in flight itself, under the worker's hands.
FlagStop_EndsRun(r) ==
  /\ status[r] \in Executing
  /\ cancel' = [cancel EXCEPT ![r] = TRUE]
  /\ status' = [status EXCEPT ![r] = "interrupted"]
  /\ reason' = [reason EXCEPT ![r] = "stop"]
  /\ appStatus' = [appStatus EXCEPT ![r] = SkipOpen(@)]
  /\ UNCHANGED <<repos, created, request, snapshot, history>>

\* requestRunCancellation on a run in flight: only the polled flag is set.
FlagStop(r) ==
  /\ status[r] \in Executing
  /\ cancel' = [cancel EXCEPT ![r] = TRUE]
  /\ UNCHANGED <<repos, created, request, status, reason, appStatus, snapshot, history>>

RequestRunCancellation(r) == StopQueued(r) \/ FlagStop(r)

\* What deleting the rows of runs S leaves behind (app_runs cascade).
DropRuns(S) ==
  /\ request' = [r \in Runs |-> IF r \in S THEN NoRequest ELSE request[r]]
  /\ status' = [r \in Runs |-> IF r \in S THEN "absent" ELSE status[r]]
  /\ cancel' = [r \in Runs |-> IF r \in S THEN FALSE ELSE cancel[r]]
  /\ reason' = [r \in Runs |-> IF r \in S THEN "none" ELSE reason[r]]
  /\ appStatus' = [r \in Runs |-> IF r \in S THEN NoApps ELSE appStatus[r]]

\* deleteRepository: refused while a run is active.  Its runs, snapshots and
\* trend points go with it; a slice build does not hold it back.
DeleteRepository(p) ==
  /\ p \in repos
  /\ \A r \in RunsOf(p) : status[r] \notin Active
  /\ repos' = repos \ {p}
  /\ DropRuns(RunsOf(p))
  /\ snapshot' = [snapshot EXCEPT ![p] = [a \in Apps |-> 0]]
  /\ history' = {h \in history : h[1] # p}
  /\ UNCHANGED created

-----------------------------------------------------------------------------
(* Methods the worker calls.                                               *)

Queued == {r \in Runs : status[r] = "queued"}

\* Mutant: ORDER BY created_at DESC.
ClaimNextRun_NewestFirst(r) ==
  /\ r \in Queued
  /\ \A q \in Queued : r >= q
  /\ status' = [status EXCEPT ![r] = "cloning"]
  /\ UNCHANGED <<repos, created, request, cancel, reason, appStatus, snapshot, history>>

\* claimNextRun: the oldest queued run starts cloning.
ClaimNextRun(r) ==
  /\ r \in Queued
  /\ \A q \in Queued : r <= q
  /\ status' = [status EXCEPT ![r] = "cloning"]
  /\ UNCHANGED <<repos, created, request, cancel, reason, appStatus, snapshot, history>>

\* The UPDATE of updateRun with a status and no finish.
SetStatus(r, s) ==
  /\ status' = [status EXCEPT ![r] = s]
  /\ UNCHANGED <<repos, created, request, cancel, reason, appStatus, snapshot, history>>

\* The UPDATE of updateRun when it ends the run, whatever its status; a run
\* without a row is left alone.
EndRun(r, s, why) ==
  IF status[r] = "absent" THEN UNCHANGED storeVars
  ELSE /\ status' = [status EXCEPT ![r] = s]
       /\ reason' = [reason EXCEPT ![r] = why]
       /\ UNCHANGED <<repos, created, request, cancel, appStatus, snapshot, history>>

\* The INSERT that updateRun issues after the UPDATE, outside any transaction.
\* A failed app may have neither coverage nor test results to record.
InsertHistory(r, S) ==
  /\ {a \in Apps : appStatus[r][a] = "passed"} \subseteq S
  /\ S \subseteq {a \in Apps : appStatus[r][a] \in Verdicts}
  /\ history' = IF status[r] \in Verdicts
                THEN history \cup {<<RepoOf(r), r, a>> : a \in S} ELSE history
  /\ UNCHANGED <<repos, created, request, status, cancel, reason, appStatus, snapshot>>

\* setDetectedApps: the app rows are replaced by the detected and selected ones.
SetDetectedApps(r, S) ==
  /\ appStatus' = [appStatus EXCEPT ![r] = Pending(S)]
  /\ UNCHANGED <<repos, created, request, status, cancel, reason, snapshot, history>>

\* startAppRun and finishAppRun
SetAppStatus(r, a, s) ==
  /\ appStatus' = [appStatus EXCEPT ![r][a] = s]
  /\ UNCHANGED <<repos, created, request, status, cancel, reason, snapshot, history>>

SkipPendingApps(r) ==
  /\ appStatus' = [appStatus EXCEPT ![r] = SkipOpen(@)]
  /\ UNCHANGED <<repos, created, request, status, cancel, reason, snapshot, history>>

ReplaceCoverageSnapshot(p, a, r) ==
  /\ snapshot' = [snapshot EXCEPT ![p][a] = r]
  /\ UNCHANGED <<repos, created, request, status, cancel, reason, appStatus, history>>

\* Mutant: a status added later is missing from the recovery query.
MarkActiveRunsInterrupted_NoBuilding ==
  LET cut == {r \in Runs : status[r] \in Executing \ {"building"}} IN
  /\ status' = [r \in Runs |-> IF r \in cut THEN "interrupted" ELSE status[r]]
  /\ reason' = [r \in Runs |-> IF r \in cut THEN "restart" ELSE reason[r]]
  /\ appStatus' = [r \in Runs |-> IF r \in cut THEN SkipOpen(appStatus[r]) ELSE appStatus[r]]
  /\ UNCHANGED <<repos, created, request, cancel, snapshot, history>>

\* markActiveRunsInterrupted, on worker start
MarkActiveRunsInterrupted ==
  LET cut == {r \in Runs : status[r] \in Executing} IN
  /\ status' = [r \in Runs |-> IF r \in cut THEN "interrupted" ELSE status[r]]
  /\ reason' = [r \in Runs |-> IF r \in cut THEN "restart" ELSE reason[r]]
  /\ appStatus' = [r \in Runs |-> IF r \in cut THEN SkipOpen(appStatus[r]) ELSE appStatus[r]]
  /\ UNCHANGED <<repos, created, request, cancel, snapshot, history>>

\* Mutant: OFFSET keep - 1.
Aged_OffByOne(p) == {r \in RunsOf(p) : Cardinality({q \in RunsOf(p) : q > r}) >= Keep - 1}

\* pruneRuns: all but the newest Keep runs of the repository, whatever their status.
Aged(p) == {r \in RunsOf(p) : Cardinality({q \in RunsOf(p) : q > r}) >= Keep}

PruneRuns(p) ==
  /\ DropRuns(Aged(p))
  /\ UNCHANGED <<repos, created, snapshot, history>>
=============================================================================
