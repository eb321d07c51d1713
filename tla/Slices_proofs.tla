---------------------------- MODULE Slices_proofs ----------------------------
(***************************************************************************)
(* Proofs about the builds of slices (SliceBuilds), for any repositories   *)
(* and any number of builds, and about the analysis that finds the slices  *)
(* (SliceAnalysis), for any recipe and any checkouts.                      *)
(*                                                                         *)
(* The invariant IInv of the builds adds to the checked properties what    *)
(* they rest on: an active build is its repository's newest                *)
(* (ActiveIsNewest), the slices of a repository come from one of its own   *)
(* builds (SlicesAreOwned), and the build the worker holds still runs      *)
(* unless its repository is gone (Held).                                   *)
(*                                                                         *)
(* The invariant AnalysisInv of the analysis says of a trace that has not  *)
(* ended that what is left to do leads to the files still missing          *)
(* (FrontendTracing, BackendTracing), of one that has that it is a closure *)
(* (FrontendIsClosed, BackendsAreClosed), and that a backend's endpoints   *)
(* are of files inside it (PreparedBelong, MatchedBelong).                 *)
(*                                                                         *)
(* The invariant ReportsInv is about what a slice reports.  Every request  *)
(* told of is one that some item of the frontend makes, with the URL       *)
(* written there, and it reaches the endpoint it is said to (Sound); of a  *)
(* backend that is matched, every URL written and every name taken from    *)
(* its package is told of (Told).  That the scan finds those URLs is shown *)
(* from the declarations of a file in their order, and that the route      *)
(* written out wins from the rows of the score table, both by induction.   *)
(***************************************************************************)
EXTENDS SliceBuilds, SliceAnalysis, NaturalsInduction, WellFoundedInduction, FiniteSetTheorems, TLAPS

-----------------------------------------------------------------------------
(* Builds of slices                                                        *)

\* A build has a row and an owner only once created, and a row only while
\* its repository exists.
Rows ==
  \A b \in Builds :
    /\ b > created => owner[b] = NoRepo
    /\ b <= created => owner[b] \in Repos
    /\ Live(b) => owner[b] \in repos

ActiveIsNewest ==
  \A b, c \in Builds : status[b] \in Active /\ owner[c] = owner[b] => c <= b

SlicesAreOwned ==
  \A p \in Repos : /\ slices[p] # 0 => owner[slices[p]] = p
                   /\ p \notin repos => slices[p] = 0

Held ==
  /\ RunningBuildIsHeld
  /\ pc \in Building /\ owner[cur] \in repos => status[cur] = "running"
  /\ pc = "pass" /\ owner[cur] \in repos => slices[owner[cur]] = cur

IInv == TypeOK /\ Rows /\ ActiveIsNewest /\ SlicesAreOwned
          /\ PassedBuildIsStored /\ Held

-----------------------------------------------------------------------------
(* What pruning may take: finished builds.                                 *)
LEMMA PrunableIsFinished ==
  \A p \in Repos \cup {NoRepo} : \A b \in Prunable(p) : b \in Builds /\ status[b] \notin Active
BY DEF Prunable, BuildsOf

\* The initial state satisfies the invariant.
LEMMA InitHolds == SliceBuildsInit => IInv
BY SliceBuildsAssumption
   DEF SliceBuildsInit, IInv, TypeOK, Rows, ActiveIsNewest, SlicesAreOwned,
       PassedBuildIsStored, Held, RunningBuildIsHeld, Building, PC, Builds,
       Active, Finished, Live

-----------------------------------------------------------------------------
(* The server's steps: a row appears or is deleted, the worker is where it *)
(* was.                                                                    *)

LEMMA CreateKeeps ==
  ASSUME IInv, NEW p \in Repos, CreateSliceBuild(p)
  PROVE  IInv'
<1> DEFINE new == created + 1
<1>1. /\ new \in Builds /\ owner[new] = NoRepo /\ status[new] = "absent"
      /\ NoRepo \notin Repos /\ created \in Nat /\ Builds \subseteq Nat
  BY SliceBuildsAssumption
     DEF IInv, TypeOK, Rows, CreateSliceBuild, Builds, Live
<1>2. \A b \in Builds : owner[b] = p => status[b] \notin Active /\ b <= created
  BY <1>1, SliceBuildsAssumption
     DEF IInv, TypeOK, Rows, CreateSliceBuild, BuildsOf, Builds, Active
<1>3. /\ \A b \in Builds : b # new => owner'[b] = owner[b] /\ status'[b] = status[b]
      /\ owner'[new] = p /\ status'[new] = "queued"
      /\ created' = new
      /\ p \in repos
      /\ UNCHANGED <<repos, configured, slices, queuedRuns, run, pc, cur>>
  BY <1>1 DEF IInv, TypeOK, CreateSliceBuild, runTables
<1>4. TypeOK'
  <2>1. owner' \in [Builds -> Repos \cup {NoRepo}]
    BY <1>1 DEF IInv, TypeOK, CreateSliceBuild
  <2>2. status' \in [Builds -> Active \cup Finished \cup {"absent"}]
    BY <1>1 DEF IInv, TypeOK, CreateSliceBuild, Active
  <2> QED
    BY <1>1, <1>3, <2>1, <2>2, SliceBuildsAssumption DEF IInv, TypeOK, CreateSliceBuild, Builds
<1>5. Rows'
  BY <1>1, <1>3 DEF IInv, TypeOK, Rows, Builds, Live
<1>6. ActiveIsNewest'
  BY <1>1, <1>2, <1>3 DEF IInv, TypeOK, Rows, ActiveIsNewest, Builds
<1>7. SlicesAreOwned'
  <2> SUFFICES ASSUME NEW q \in Repos
               PROVE  /\ slices[q] # 0 => owner'[slices[q]] = q
                      /\ q \notin repos => slices[q] = 0
    BY <1>3 DEF SlicesAreOwned
  <2>1. slices[q] # 0 => slices[q] \in Builds /\ slices[q] # new
    BY <1>1, SliceBuildsAssumption DEF IInv, TypeOK, Builds, SlicesAreOwned
  <2> QED
    BY <1>3, <2>1 DEF IInv, SlicesAreOwned
<1>8. PassedBuildIsStored'
  BY <1>3 DEF IInv, PassedBuildIsStored
<1>9. Held'
  <2>1. pc \in Building => cur \in Builds /\ cur # new
    BY <1>1, SliceBuildsAssumption DEF IInv, TypeOK, Builds
  <2> QED
    BY <1>3, <2>1 DEF IInv, Held, RunningBuildIsHeld, Building
<1> QED
  BY <1>4, <1>5, <1>6, <1>7, <1>8, <1>9 DEF IInv

LEMMA DeleteKeeps ==
  ASSUME IInv, NEW p \in Repos, DeleteRepository(p)
  PROVE  IInv'
<1>1. /\ \A b \in Builds : status'[b] = IF owner[b] = p THEN "absent" ELSE status[b]
      /\ \A q \in Repos : slices'[q] = IF q = p THEN 0 ELSE slices[q]
      /\ repos' = repos \ {p} /\ configured' = configured \ {p}
      /\ p \notin queuedRuns /\ p # run
      /\ UNCHANGED <<created, owner, queuedRuns, run, pc, cur>>
  BY DEF IInv, TypeOK, DeleteRepository, runTables
<1>2. TypeOK'
  <2>1. status' \in [Builds -> Active \cup Finished \cup {"absent"}]
    BY DEF IInv, TypeOK, DeleteRepository
  <2>2. slices' \in [Repos -> 0..created]
    BY SliceBuildsAssumption DEF IInv, TypeOK, DeleteRepository
  <2> QED
    BY <1>1, <2>1, <2>2 DEF IInv, TypeOK
<1>3. Rows'
  BY <1>1 DEF IInv, Rows, Live
<1>4. ActiveIsNewest'
  BY <1>1 DEF IInv, ActiveIsNewest, Active
<1>5. SlicesAreOwned'
  BY <1>1 DEF IInv, SlicesAreOwned
<1>6. PassedBuildIsStored'
  <2> SUFFICES ASSUME NEW b \in Builds, status'[b] = "passed"
               PROVE  slices'[owner[b]] >= b
    BY <1>1 DEF PassedBuildIsStored
  <2>1. status[b] = "passed" /\ owner[b] # p
    BY <1>1
  <2>2. owner[b] \in Repos
    BY <2>1 DEF IInv, TypeOK, Rows, Live
  <2> QED
    BY <1>1, <2>1, <2>2 DEF IInv, PassedBuildIsStored
<1>7. Held'
  <2>1. pc \in Building => cur \in Builds
    BY SliceBuildsAssumption DEF IInv, TypeOK, Builds
  <2> QED
    BY <1>1, <2>1 DEF IInv, TypeOK, Held, RunningBuildIsHeld, Building
<1> QED
  BY <1>2, <1>3, <1>4, <1>5, <1>6, <1>7 DEF IInv

\* Steps that leave the builds and the worker alone.
LEMMA OtherServerKeeps ==
  ASSUME IInv, NEW p \in Repos, SetSliceConfig(p) \/ QueueRun(p) \/ StopQueuedRun(p)
  PROVE  IInv'
<1>1. /\ UNCHANGED <<repos, created, owner, status, slices, run, pc, cur>>
      /\ TypeOK'
  BY DEF IInv, TypeOK, SetSliceConfig, QueueRun, StopQueuedRun, buildTables, runTables
<1>2. (Rows /\ ActiveIsNewest /\ SlicesAreOwned /\ PassedBuildIsStored /\ Held)'
  BY <1>1 DEF IInv, Rows, Live, ActiveIsNewest, SlicesAreOwned,
              PassedBuildIsStored, Held, RunningBuildIsHeld
<1> QED
  BY <1>1, <1>2 DEF IInv

-----------------------------------------------------------------------------
(* The worker's steps.                                                     *)

\* Steps that change no build and no slices; they may move the worker.
LEMMA ControlKeeps ==
  ASSUME IInv,
         Boot \/ RecoverRun \/ Recovered \/ ClaimNextRun \/ EndRun
           \/ NoRunQueued \/ NothingQueued \/ FindRepository \/ SourceReady
           \/ Analyzed \/ Throws \/ Crash
  PROVE  IInv'
<1>1. UNCHANGED <<repos, configured, created, owner, status, slices>>
  BY DEF Boot, RecoverRun, Recovered, ClaimNextRun, EndRun, NoRunQueued,
         NothingQueued, FindRepository, SourceReady, Analyzed, Throws, Crash,
         tables, buildTables
<1>2. (Rows /\ ActiveIsNewest /\ SlicesAreOwned /\ PassedBuildIsStored)'
  BY <1>1 DEF IInv, Rows, Live, ActiveIsNewest, SlicesAreOwned, PassedBuildIsStored
<1>3. TypeOK'
  <2>1. pc' \in PC /\ cur' \in 0..created /\ (pc' \in Building \cup {"prune"} => cur' # 0)
    BY DEF IInv, TypeOK, PC, Building,
           Boot, RecoverRun, Recovered, ClaimNextRun, EndRun, NoRunQueued,
           NothingQueued, FindRepository, SourceReady, Analyzed, Throws, Crash
  <2>2. queuedRuns' \subseteq repos /\ run' \in repos \cup {NoRepo}
    BY DEF IInv, TypeOK,
           Boot, RecoverRun, Recovered, ClaimNextRun, EndRun, NoRunQueued,
           NothingQueued, FindRepository, SourceReady, Analyzed, Throws, Crash,
           tables, runTables
  <2> QED
    BY <1>1, <2>1, <2>2 DEF IInv, TypeOK
<1>4. RunningBuildIsHeld'
  BY <1>1 DEF IInv, Held, RunningBuildIsHeld, Building,
         Boot, RecoverRun, Recovered, ClaimNextRun, EndRun, NoRunQueued,
         NothingQueued, FindRepository, SourceReady, Analyzed, Throws, Crash
<1>5. /\ pc' \in Building /\ owner'[cur'] \in repos' => status'[cur'] = "running"
      /\ pc' = "pass" /\ owner'[cur'] \in repos' => slices'[owner'[cur']] = cur'
  BY <1>1 DEF IInv, Held, Building,
         Boot, RecoverRun, Recovered, ClaimNextRun, EndRun, NoRunQueued,
         NothingQueued, FindRepository, SourceReady, Analyzed, Throws, Crash
<1> QED
  BY <1>2, <1>3, <1>4, <1>5 DEF IInv, Held

LEMMA ClaimKeeps ==
  ASSUME IInv, ClaimNextSliceBuild
  PROVE  IInv'
<1>1. PICK b \in Builds : /\ status[b] = "queued"
                          /\ status' = [status EXCEPT ![b] = "running"]
                          /\ cur' = b
  BY DEF ClaimNextSliceBuild, Oldest
<1>2. /\ pc = "look" /\ pc' = "check"
      /\ UNCHANGED <<repos, configured, created, owner, slices, queuedRuns, run>>
  BY DEF ClaimNextSliceBuild, runTables
<1>3. /\ \A c \in Builds : c # b => status'[c] = status[c]
      /\ status'[b] = "running"
      /\ status' \in [Builds -> Active \cup Finished \cup {"absent"}]
  BY <1>1 DEF IInv, TypeOK, Active
<1>4. b \in 1..created
  BY <1>1, SliceBuildsAssumption DEF IInv, TypeOK, Rows, Live, Builds
<1>5. TypeOK'
  BY <1>1, <1>2, <1>3, <1>4 DEF IInv, TypeOK, PC, Building
<1>6. (Rows /\ ActiveIsNewest /\ SlicesAreOwned /\ PassedBuildIsStored)'
  BY <1>1, <1>2, <1>3
     DEF IInv, Rows, Live, ActiveIsNewest, SlicesAreOwned, PassedBuildIsStored, Active
<1>7. Held'
  BY <1>1, <1>2, <1>3 DEF IInv, Held, RunningBuildIsHeld, Building
<1> QED
  BY <1>5, <1>6, <1>7 DEF IInv

\* The newest slices win: the build the worker holds is its repository's
\* newest, so no slices of a newer one can be there.
LEMMA HeldIsNewest ==
  ASSUME IInv, pc \in Building, owner[cur] \in repos
  PROVE  /\ cur \in Builds
         /\ status[cur] = "running"
         /\ \A c \in Builds : owner[c] = owner[cur] => c <= cur
         /\ slices[owner[cur]] <= cur
<1>1. cur \in Builds /\ status[cur] = "running" /\ owner[cur] \in Repos
  BY SliceBuildsAssumption DEF IInv, TypeOK, Held, Builds
<1>2. \A c \in Builds : owner[c] = owner[cur] => c <= cur
  BY <1>1 DEF IInv, ActiveIsNewest, Active
<1>3. slices[owner[cur]] \in 0..created /\ created \in 0..MaxBuilds
  BY <1>1 DEF IInv, TypeOK
<1>4. slices[owner[cur]] # 0 => slices[owner[cur]] <= cur
  BY <1>1, <1>2, <1>3, SliceBuildsAssumption DEF IInv, SlicesAreOwned, Builds
<1> QED
  BY <1>1, <1>2, <1>3, <1>4, SliceBuildsAssumption DEF Builds

LEMMA ReplaceKeeps ==
  ASSUME IInv, ReplaceSlices
  PROVE  IInv'
<1>1. /\ pc = "replace" /\ pc' = "pass" /\ owner[cur] \in repos
      /\ slices' = [slices EXCEPT ![owner[cur]] = cur]
      /\ UNCHANGED <<repos, configured, created, owner, status, queuedRuns, run, cur>>
  BY DEF ReplaceSlices, Repo, buildTables, runTables
<1>2. /\ cur \in Builds /\ status[cur] = "running" /\ cur \in 0..created
      /\ slices[owner[cur]] <= cur /\ owner[cur] \in Repos
  BY <1>1, HeldIsNewest DEF Building, IInv, TypeOK
<1>3. /\ slices' \in [Repos -> 0..created]
      /\ slices'[owner[cur]] = cur
      /\ \A q \in Repos : q # owner[cur] => slices'[q] = slices[q]
  BY <1>1, <1>2 DEF IInv, TypeOK
<1>4. TypeOK'
  BY <1>1, <1>3 DEF IInv, TypeOK, PC, Building
<1>5. Rows' /\ ActiveIsNewest'
  BY <1>1 DEF IInv, Rows, Live, ActiveIsNewest
<1>6. SlicesAreOwned'
  BY <1>1, <1>2, <1>3 DEF IInv, SlicesAreOwned
<1>7. PassedBuildIsStored'
  <2> SUFFICES ASSUME NEW b \in Builds, status[b] = "passed"
               PROVE  slices'[owner[b]] >= b
    BY <1>1 DEF PassedBuildIsStored
  <2>1. slices[owner[b]] >= b /\ owner[b] \in Repos
    BY DEF IInv, TypeOK, PassedBuildIsStored, Rows, Live
  <2>2. CASE owner[b] = owner[cur]
    BY <1>2, <1>3, <2>1, <2>2, SliceBuildsAssumption DEF IInv, TypeOK, Builds
  <2>3. CASE owner[b] # owner[cur]
    BY <1>3, <2>1, <2>3
  <2> QED
    BY <2>2, <2>3
<1>8. Held'
  BY <1>1, <1>2, <1>3 DEF IInv, Held, RunningBuildIsHeld, Building
<1> QED
  BY <1>4, <1>5, <1>6, <1>7, <1>8 DEF IInv

\* The three steps that end builds: recovery, Pass and Fail.
LEMMA EndKeeps ==
  ASSUME IInv, NEW b \in Builds, NEW s \in Finished,
         status[b] = "running",
         status' = [status EXCEPT ![b] = s],
         s = "passed" => slices[owner[b]] >= b,
         UNCHANGED <<repos, configured, created, owner, slices, queuedRuns, run>>,
         \/ pc = "boot" /\ UNCHANGED <<pc, cur>>
         \/ pc \in Building /\ b = cur /\ pc' = "prune" /\ cur' = cur
  PROVE  IInv'
<1>1. /\ \A c \in Builds : c # b => status'[c] = status[c]
      /\ status'[b] = s
      /\ status' \in [Builds -> Active \cup Finished \cup {"absent"}]
  BY DEF IInv, TypeOK
<1>2. s \notin Active /\ s # "absent" /\ s # "running"
  BY DEF Active, Finished
<1>3. TypeOK'
  BY <1>1 DEF IInv, TypeOK, PC, Building
<1>4. (Rows /\ ActiveIsNewest /\ SlicesAreOwned)'
  BY <1>1, <1>2 DEF IInv, Rows, Live, ActiveIsNewest, SlicesAreOwned
<1>5. PassedBuildIsStored'
  BY <1>1 DEF IInv, PassedBuildIsStored
<1>6. Held'
  BY <1>1, <1>2 DEF IInv, Held, RunningBuildIsHeld, Building
<1> QED
  BY <1>3, <1>4, <1>5, <1>6 DEF IInv

LEMMA FinishKeeps ==
  ASSUME IInv, FailRunningBuild \/ Pass \/ Fail
  PROVE  IInv'
<1>1. CASE FailRunningBuild
  <2>1. PICK b \in Builds : /\ status[b] = "running"
                            /\ status' = [status EXCEPT ![b] = "failed"]
    BY <1>1 DEF FailRunningBuild
  <2>2. /\ pc = "boot"
        /\ UNCHANGED <<repos, configured, created, owner, slices, queuedRuns, run, pc, cur>>
    BY <1>1 DEF FailRunningBuild, runTables
  <2> QED
    BY <2>1, <2>2, EndKeeps DEF Finished
<1>2. CASE Pass \/ Fail
  <2>1. /\ pc \in {"pass", "fail"} /\ pc' = "prune"
        /\ status' = IF Live(cur)
                     THEN [status EXCEPT ![cur] = IF pc = "pass" THEN "passed" ELSE "failed"]
                     ELSE status
        /\ UNCHANGED <<repos, configured, created, owner, slices, queuedRuns, run, cur>>
    BY <1>2 DEF Pass, Fail, FinishSliceBuild, runTables
  <2>2. cur \in Builds
    BY <2>1, SliceBuildsAssumption DEF IInv, TypeOK, Building, Builds
  <2>3. CASE Live(cur)
    <3>1. owner[cur] \in repos /\ status[cur] = "running"
      BY <2>1, <2>2, <2>3 DEF IInv, Rows, Held, Building
    <3>2. pc = "pass" => slices[owner[cur]] >= cur
      BY <2>1, <2>2, <3>1 DEF IInv, Held, Builds
    <3> DEFINE s == IF pc = "pass" THEN "passed" ELSE "failed"
    <3>3. s \in Finished /\ (s = "passed" => pc = "pass")
      BY DEF Finished
    <3>4. status' = [status EXCEPT ![cur] = s]
      BY <2>1, <2>3
    <3>5. pc \in Building /\ cur' = cur
      BY <2>1 DEF Building
    <3> HIDE DEF s
    <3> QED
      BY <2>1, <2>2, <3>1, <3>2, <3>3, <3>4, <3>5, EndKeeps
  <2>4. CASE ~Live(cur)
    <3>1. status' = status
      BY <2>1, <2>4
    <3>2. TypeOK'
      BY <2>1, <3>1 DEF IInv, TypeOK, PC, Building
    <3>3. (Rows /\ ActiveIsNewest /\ SlicesAreOwned /\ PassedBuildIsStored)'
      BY <2>1, <3>1 DEF IInv, Rows, Live, ActiveIsNewest, SlicesAreOwned, PassedBuildIsStored
    <3>4. Held'
      BY <2>1, <2>2, <2>4, <3>1 DEF IInv, Held, RunningBuildIsHeld, Building, Live
    <3> QED
      BY <3>2, <3>3, <3>4 DEF IInv
  <2> QED
    BY <2>3, <2>4
<1> QED
  BY <1>1, <1>2

\* Pruning, at the end of a build or on the way out after an error.
LEMMA PruneKeeps ==
  ASSUME IInv, Prune \/ FailThrows
  PROVE  IInv'
<1>1. /\ \/ pc = "prune" /\ pc' = "idle"
         \/ pc = "fail" /\ pc' = "down"
      /\ cur' = 0
      /\ UNCHANGED <<repos, configured, created, owner, slices, queuedRuns, run>>
      /\ status' = [b \in Builds |-> IF b \in Prunable(Repo) THEN "absent" ELSE status[b]]
  BY DEF Prune, FailThrows, runTables
<1>2. Repo \in Repos \cup {NoRepo}
  BY <1>1, SliceBuildsAssumption DEF IInv, TypeOK, Building, Repo, Builds
<1>3. \A b \in Builds : \/ status'[b] = status[b]
                        \/ status'[b] = "absent" /\ status[b] \notin Active
  BY <1>1, <1>2, PrunableIsFinished
<1>4. TypeOK'
  <2>1. status' \in [Builds -> Active \cup Finished \cup {"absent"}]
    BY <1>1 DEF IInv, TypeOK
  <2> QED
    BY <1>1, <2>1 DEF IInv, TypeOK, PC, Building
<1>5. (Rows /\ ActiveIsNewest /\ SlicesAreOwned /\ PassedBuildIsStored)'
  BY <1>1, <1>3
     DEF IInv, Rows, Live, ActiveIsNewest, SlicesAreOwned, PassedBuildIsStored, Active
<1>6. Held'
  BY <1>1, <1>3 DEF IInv, Held, RunningBuildIsHeld, Building, Active
<1> QED
  BY <1>4, <1>5, <1>6 DEF IInv

-----------------------------------------------------------------------------
\* Every step, and stuttering, keeps the invariant.
LEMMA NextKeeps == IInv /\ [Next]_vars => IInv'
<1> SUFFICES ASSUME IInv, [Next]_vars PROVE IInv'
  OBVIOUS
<1>1. CASE Server
  BY <1>1, CreateKeeps, DeleteKeeps, OtherServerKeeps DEF Server
<1>2. CASE Work
  BY <1>2, ControlKeeps, ClaimKeeps, ReplaceKeeps, FinishKeeps, PruneKeeps DEF Work
<1>3. CASE Crash
  BY <1>3, ControlKeeps
<1>4. CASE UNCHANGED vars
  BY <1>4 DEF vars, tables, buildTables, runTables, IInv, TypeOK, Rows, Live,
              ActiveIsNewest, SlicesAreOwned, PassedBuildIsStored, Held,
              RunningBuildIsHeld
<1> QED
  BY <1>1, <1>2, <1>3, <1>4 DEF Next

\* IInv holds in every reachable state.
THEOREM Invariance == Spec => []IInv
BY InitHolds, NextKeeps, PTL DEF Spec

\* The tables and the worker are well typed.
THEOREM TypeCorrect == Spec => []TypeOK
<1>1. IInv => TypeOK
  BY DEF IInv
<1> QED
  BY <1>1, Invariance, PTL

\* A repository never has two builds queued or running.
THEOREM OneActive == Spec => []OneActiveBuild
<1>1. IInv => OneActiveBuild
  BY DEF IInv, ActiveIsNewest, OneActiveBuild, Builds
<1> QED
  BY <1>1, Invariance, PTL

\* A running build is the worker's, or recovery will come to it.
THEOREM NoOrphanBuild == Spec => []RunningBuildIsHeld
<1>1. IInv => RunningBuildIsHeld
  BY DEF IInv, Held
<1> QED
  BY <1>1, Invariance, PTL

\* A passed build's slices, or a newer build's, are stored.
THEOREM PassIsStored == Spec => []PassedBuildIsStored
<1>1. IInv => PassedBuildIsStored
  BY DEF IInv
<1> QED
  BY <1>1, Invariance, PTL

\* No slices and no builds of a deleted repository.
THEOREM DeletionIsClean == Spec => []DeletedLeavesNothing
<1>1. IInv => DeletedLeavesNothing
  BY DEF IInv, Rows, Live, SlicesAreOwned, DeletedLeavesNothing, BuildsOf
<1> QED
  BY <1>1, Invariance, PTL

\* The slices of a repository only ever move to a newer build.
THEOREM SlicesMoveForward == Spec => NewestSlicesWin
<1>1. IInv /\ [Next]_vars => [\A p \in Repos : p \in repos' => slices'[p] >= slices[p]]_vars
  <2> SUFFICES ASSUME IInv, [Next]_vars, NEW p \in Repos, p \in repos'
               PROVE  slices'[p] >= slices[p]
    OBVIOUS
  <2>1. slices[p] \in Int
    BY SliceBuildsAssumption DEF IInv, TypeOK
  <2>2. CASE ReplaceSlices
    <3>1. /\ slices' = [slices EXCEPT ![owner[cur]] = cur]
          /\ slices[owner[cur]] <= cur
      BY <2>2, HeldIsNewest DEF ReplaceSlices, Repo, Building
    <3> QED
      BY <2>1, <3>1 DEF IInv, TypeOK
  <2>3. CASE \E q \in Repos : DeleteRepository(q)
    BY <2>1, <2>3 DEF DeleteRepository, IInv, TypeOK
  <2>4. CASE /\ ~ReplaceSlices
             /\ ~\E q \in Repos : DeleteRepository(q)
    <3>1. slices' = slices
      BY <2>4 DEF Next, Server, Work, vars, tables, SetSliceConfig, CreateSliceBuild,
        QueueRun, StopQueuedRun, Boot, RecoverRun, FailRunningBuild, Recovered,
        ClaimNextRun, EndRun, NoRunQueued, ClaimNextSliceBuild, NothingQueued,
        FindRepository, SourceReady, Analyzed, Throws, Pass, Fail, FailThrows, Prune, Crash
    <3> QED
      BY <2>1, <3>1
  <2> QED
    BY <2>2, <2>3, <2>4
<1> QED
  BY <1>1, Invariance, PTL DEF Spec, NewestSlicesWin

-----------------------------------------------------------------------------
(* The analysis.  T holds some files and, with a file, what it loads; S is *)
(* the least such set.  The same for what a file of a backend needs.       *)

LoadsClosed(T, files) == files \subseteq T /\ \A f \in T : Loads(f) \subseteq T
LoadsAll(S, files) == LoadsClosed(S, files) /\ \A T \in SUBSET S : LoadsClosed(T, files) => T = S
NeedsClosed(b, T, files) == files \subseteq T /\ \A f \in T : Needs(b, f) \subseteq T
NeedsAll(b, S, files) == NeedsClosed(b, S, files) /\ \A T \in SUBSET S : NeedsClosed(b, T, files) => T = S

Sliced == {"frontend", "match", "generated", "next", "backend"}
Untraced == {"frontend", "match", "generated"}

\* The workspace being sliced is the one its directory names.
TargetIsNamed == phase \in Sliced => target = Workspace(target.dir)

\* Routes and published endpoints of a backend are of files that belong to it.
PreparedBelong ==
  phase \notin {"prepare", "failed"} =>
    \A b \in Backends : \A e \in prepared[b].routes \cup DOMAIN prepared[b].ids : Belongs(b, e.file)
MatchedBelong ==
  phase \in Sliced =>
    \A e \in DOMAIN matched : \A b \in Backends : e[1] = b => Belongs(b, e[2].file)

\* While a frontend is traced, what is left to do leads to the files still
\* missing and to no others.
FrontendTracing ==
  phase = "frontend" =>
    /\ Entries(target) \subseteq frontend \cup queue
    /\ \A f \in frontend : Loads(f) \subseteq frontend \cup queue
    /\ \A T : LoadsClosed(T, Entries(target)) => \A f \in frontend \cup queue : f \in frontend \/ IsApplicationSource(f) => f \in T
FrontendIsClosed == phase \in Sliced \ {"frontend"} => LoadsAll(frontend, Entries(target))

\* The same for a backend.
BackendTracing ==
  phase = "backend" =>
    \A b \in Backends : Turn(b) =>
      /\ Handlers(matched, b) \subseteq traced[b] \cup queue
      /\ \A f \in traced[b] : Needs(b, f) \subseteq traced[b] \cup queue
      /\ \A T : NeedsClosed(b, T, Handlers(matched, b)) => \A f \in traced[b] \cup queue : f \in traced[b] \/ Belongs(b, f) => f \in T
Tables ==
  phase \in Sliced =>
    /\ left \subseteq Backends
    /\ traced = [b \in Backends |-> traced[b]]
    /\ \A b \in Backends : (phase \in Untraced \/ (b \in left /\ ~(phase = "backend" /\ Turn(b)))) => traced[b] = {}
BackendsAreClosed ==
  phase \in {"next", "backend"} => \A b \in Backends \ left : NeedsAll(b, traced[b], Handlers(matched, b))

ResultsAreClosed ==
  \A dir \in DOMAIN results :
    /\ LoadsAll(results[dir].frontend, Entries(Workspace(dir)))
    /\ \A b \in Backends : NeedsAll(b, results[dir].files[b], Handlers(results[dir].endpoints, b))

AnalysisInv ==
  /\ TargetIsNamed /\ PreparedBelong /\ MatchedBelong
  /\ FrontendTracing /\ FrontendIsClosed
  /\ BackendTracing /\ Tables /\ BackendsAreClosed
  /\ ResultsAreClosed

-----------------------------------------------------------------------------
\* What the checkout says does not change.
LEMMA CheckoutStays ==
  ASSUME repo' = repo
  PROVE  /\ \A f : Loads(f)' = Loads(f)
         /\ \A b, f : Needs(b, f)' = Needs(b, f)
         /\ \A dir : Workspace(dir)' = Workspace(dir)
         /\ \A w : Entries(w)' = Entries(w)
         /\ \A S, files : LoadsAll(S, files)' = LoadsAll(S, files)
         /\ \A S, files : LoadsClosed(S, files)' = LoadsClosed(S, files)
         /\ \A b, S, files : NeedsAll(b, S, files)' = NeedsAll(b, S, files)
         /\ \A b, S, files : NeedsClosed(b, S, files)' = NeedsClosed(b, S, files)
<1>1. \A f : Loads(f)' = Loads(f)
  BY DEF Loads, Find, Imports, By
<1>2. \A b, f : Needs(b, f)' = Needs(b, f)
  BY DEF Needs, Find, Imports, By
<1>3. \A dir : Workspace(dir)' = Workspace(dir)
  BY DEF Workspace
<1>4. \A w : Entries(w)' = Entries(w)
  BY DEF Entries, FindEntryFiles, ConventionLoaded
<1>5. \A S, files : LoadsClosed(S, files)' = LoadsClosed(S, files)
  BY <1>1 DEF LoadsClosed
<1>6. \A S, files : LoadsAll(S, files)' = LoadsAll(S, files)
  BY <1>5 DEF LoadsAll
<1>7. \A b, S, files : NeedsClosed(b, S, files)' = NeedsClosed(b, S, files)
  BY <1>2 DEF NeedsClosed
<1>8. \A b, S, files : NeedsAll(b, S, files)' = NeedsAll(b, S, files)
  <2> SUFFICES ASSUME NEW b, NEW S, NEW files PROVE NeedsAll(b, S, files)' = NeedsAll(b, S, files)
    OBVIOUS
  <2>1. \A T : NeedsClosed(b, T, files)' = NeedsClosed(b, T, files)
    BY <1>7
  <2> QED BY <2>1 DEF NeedsAll
<1> QED BY <1>1, <1>2, <1>3, <1>4, <1>5, <1>6, <1>7, <1>8

\* What matching adds: ways to endpoints of the backend matched.
LEMMA AddedAreOfBackend ==
  ASSUME NEW m, NEW b, NEW found
  PROVE  \A e \in DOMAIN Add(m, b, found) : e \in DOMAIN m \/ \E x \in found : e = <<b, x.endpoint>>
BY DEF Add

LEMMA MatchedAreRoutes == ASSUME NEW call, NEW routes PROVE MatchCall(call, routes) \subseteq routes
BY DEF MatchCall, Scores

LEMMA ReachedAreRoutes ==
  ASSUME NEW b, NEW requests, NEW x \in Reach(Answers(b, requests))
  PROVE  x.endpoint \in prepared[b].routes
BY MatchedAreRoutes DEF Reach, Answers

LEMMA NamedArePublished ==
  ASSUME NEW b, NEW exports, NEW x \in NamedEndpoints(b, exports)
  PROVE  x.endpoint \in DOMAIN prepared[b].ids
<1> PICK y \in exports : x \in {[endpoint |-> e, name |-> <<"export", y>>, ambiguous |-> Cardinality(ClientNameIndex(prepared[b].ids, y)) > 1] :
                                    e \in ClientNameIndex(prepared[b].ids, y)}
  BY DEF NamedEndpoints
<1> PICK e \in ClientNameIndex(prepared[b].ids, y) : x.endpoint = e
  OBVIOUS
<1> QED BY DEF ClientNameIndex

\* The routes read from a backend's files.
LEMMA NestRoutesBelong == \A b \in Backends : \A e \in NestRoutes(b) : Belongs(b, e.file)
<1> SUFFICES ASSUME NEW b \in Backends, NEW f \in NestFiles(b), NEW e \in Range(ParseControllerEndpoints(f, repo.classes[f]))
             PROVE  Belongs(b, e.file)
  BY DEF NestRoutes
<1>1. e.file = f
  BY DEF Range, ParseControllerEndpoints
<1> QED BY <1>1 DEF NestFiles

LEMMA RoutesAreOfParsed ==
  ASSUME NEW parsed, NEW entry, NEW specs, NEW beside, NEW e \in FindExpressEndpoints(parsed, entry, specs, beside)
  PROVE  e.file \in DOMAIN parsed
<1> DEFINE Served(f, at) ==
             {[file |-> f, controller |-> f, methodKey |-> <<>>, httpMethod |-> x.method,
               path |-> at.prefix \o x.path, explicitOperationId |-> Null] :
                x \in {y \in parsed[f].endpoints : y.router = at.router}}
           Reached(f) == {x \in ReachedRouters(parsed, entry, specs, beside) : x.file = f}
           Routes(f) == UNION {Served(f, at) : at \in Reached(f)}
<1>1. FindExpressEndpoints(parsed, entry, specs, beside) = UNION {Routes(f) : f \in DOMAIN parsed}
  BY DEF FindExpressEndpoints
<1>2. \A f, at : \A x \in Served(f, at) : x.file = f
  <2> SUFFICES ASSUME NEW f, NEW at, NEW x \in Served(f, at)
               PROVE  x.file = f
    OBVIOUS
  <2> PICK y \in {z \in parsed[f].endpoints : z.router = at.router} :
        x = [file |-> f, controller |-> f, methodKey |-> <<>>, httpMethod |-> y.method,
             path |-> at.prefix \o y.path, explicitOperationId |-> Null]
    OBVIOUS
  <2> QED OBVIOUS
<1> HIDE DEF Served, Reached
<1>3. \A f : \A x \in Routes(f) : x.file = f
  BY <1>2
<1> HIDE DEF Routes
<1> QED BY <1>1, <1>3

LEMMA ExpressRoutesBelong == \A b \in Backends : \A e \in ExpressRoutes(b) : Belongs(b, e.file)
<1> SUFFICES ASSUME NEW b \in Backends, NEW e \in ExpressRoutes(b)
             PROVE  Belongs(b, e.file)
  OBVIOUS
<1>1. e.file \in {f \in DOMAIN repo.express : Belongs(b, f)}
  BY RoutesAreOfParsed DEF ExpressRoutes
<1> QED BY <1>1

LEMMA PreparedIsOfBackend ==
  ASSUME NEW b \in Backends, Prepared(b) # Null
  PROVE  \A e \in Prepared(b).routes \cup DOMAIN Prepared(b).ids : Belongs(b, e.file)
BY NestRoutesBelong, ExpressRoutesBelong DEF Prepared, Restrict

-----------------------------------------------------------------------------
LEMMA AnalysisStarts == AnalysisInit => AnalysisInv
BY DEF AnalysisInit, AnalysisInv, TargetIsNamed, PreparedBelong, MatchedBelong, FrontendTracing, FrontendIsClosed,
       BackendTracing, Tables, BackendsAreClosed, ResultsAreClosed, Sliced

\* What was found stays closed while the results stay.
LEMMA ResultsStay ==
  ASSUME ResultsAreClosed, UNCHANGED <<repo, results>>
  PROVE  ResultsAreClosed'
<1>1. \A S, m, b : Handlers(m, b)' = Handlers(m, b)
  BY DEF Handlers
<1> QED BY CheckoutStays, <1>1 DEF ResultsAreClosed

LEMMA PrepareKeeps ==
  ASSUME AnalysisInv, Prepare
  PROVE  AnalysisInv'
<1>1. phase' \notin Sliced /\ phase' \notin {"next", "backend"}
  BY DEF Prepare, Sliced
<1>2. PreparedBelong'
  <2> SUFFICES ASSUME phase' \notin {"prepare", "failed"}, NEW b \in Backends,
                      NEW e \in (prepared[b].routes \cup DOMAIN prepared[b].ids)'
               PROVE  Belongs(b, e.file)'
    BY DEF PreparedBelong
  <2>1. prepared'[b] = Prepared(b) /\ prepared'[b] # Null
    BY DEF Prepare
  <2>2. e \in Prepared(b).routes \cup DOMAIN Prepared(b).ids
    BY <2>1
  <2> QED BY <2>1, <2>2, PreparedIsOfBackend DEF Belongs
<1>3. ResultsAreClosed'
  BY ResultsStay DEF AnalysisInv, Prepare
<1> QED BY <1>1, <1>2, <1>3
        DEF AnalysisInv, TargetIsNamed, MatchedBelong, FrontendTracing, FrontendIsClosed,
            BackendTracing, Tables, BackendsAreClosed, Sliced

LEMMA StartKeeps ==
  ASSUME AnalysisInv, Start
  PROVE  AnalysisInv'
<1> DEFINE w == Workspace(Head(todo))
           entries == IF w = Null THEN {} ELSE FindEntryFiles(w)
<1>1. ResultsAreClosed'
  BY ResultsStay DEF AnalysisInv, Start
<1>2. PreparedBelong'
  BY DEF AnalysisInv, Start, PreparedBelong, Belongs
<1>3. CASE entries = {}
  <2>1. phase' \notin Sliced
    BY <1>3 DEF Start, Sliced
  <2> QED BY <2>1, <1>1, <1>2
          DEF AnalysisInv, TargetIsNamed, MatchedBelong, FrontendTracing, FrontendIsClosed,
              BackendTracing, Tables, BackendsAreClosed, Sliced
<1>4. CASE entries # {}
  <2>1. /\ repo' = repo /\ target' = w /\ phase' = "frontend" /\ queue' = entries \cup ConventionLoaded(w)
        /\ frontend' = {} /\ matched' = <<>> /\ left' = Backends /\ traced' = [b \in Backends |-> {}]
    BY <1>4 DEF Start
  <2>2. w # Null /\ entries = FindEntryFiles(w)
    BY <1>4
  <2>3. w = Workspace(w.dir)
    BY <2>2 DEF Workspace
  <2> HIDE DEF w, entries
  <2>4. TargetIsNamed'
    BY <2>1, <2>3, CheckoutStays DEF TargetIsNamed
  <2>5. Entries(w) = {f \in entries \cup ConventionLoaded(w) : IsApplicationSource(f)}
    BY <2>2 DEF Entries
  <2>6. Entries(target)' = Entries(w)
    BY <2>1, CheckoutStays
  <2>7. FrontendTracing'
    BY <2>1, <2>5, <2>6 DEF FrontendTracing, LoadsClosed
  <2>8. MatchedBelong'
    BY <2>1 DEF MatchedBelong
  <2>9. Tables'
    BY <2>1 DEF Tables
  <2> QED BY <2>1, <2>4, <2>7, <2>8, <2>9, <1>1, <1>2
          DEF AnalysisInv, FrontendIsClosed, BackendTracing, BackendsAreClosed, Sliced
<1> QED BY <1>3, <1>4

LEMMA TraceFrontendKeeps ==
  ASSUME AnalysisInv, TraceFrontend
  PROVE  AnalysisInv'
<1>1. /\ UNCHANGED <<repo, phase, prepared, target, matched, left, traced, results>> /\ phase = "frontend"
  BY DEF TraceFrontend
<1> PICK f \in queue :
      LET found == {Find(f, s) : s \in {x \in DOMAIN Imports(f) : Client(x) = {}}} \ {Null}
      IN IF f \in frontend \/ ~IsApplicationSource(f)
         THEN queue' = queue \ {f} /\ frontend' = frontend
         ELSE frontend' = frontend \cup {f} /\ queue' = (queue \ {f}) \cup (found \ frontend')
  BY DEF TraceFrontend
<1> DEFINE found == {Find(f, s) : s \in {x \in DOMAIN Imports(f) : Client(x) = {}}} \ {Null}
<1>2. Loads(f) = {g \in found : IsApplicationSource(g)}
  BY DEF Loads
<1>3. \A files : Entries(files)' = Entries(files)
  BY <1>1, CheckoutStays
<1>4. FrontendTracing
  BY DEF AnalysisInv
<1>5. /\ frontend \subseteq frontend'
      /\ frontend \cup queue \subseteq frontend' \cup queue' \cup {f}
      /\ f \in frontend' \/ ~IsApplicationSource(f)
      /\ frontend' \ frontend \subseteq {f}
      /\ f \in frontend' \ frontend => found \subseteq frontend' \cup queue' /\ IsApplicationSource(f)
      /\ queue' \subseteq queue \cup found
      /\ ~(f \in frontend' \ frontend) => queue' \subseteq queue
  OBVIOUS
<1> HIDE DEF found
<1>6. Entries(target) \subseteq frontend' \cup queue'
  BY <1>1, <1>4, <1>5 DEF FrontendTracing, Entries
<1>7. \A g \in frontend' : Loads(g) \subseteq frontend' \cup queue'
  <2> SUFFICES ASSUME NEW g \in frontend', NEW h \in Loads(g)
               PROVE  h \in frontend' \cup queue'
    OBVIOUS
  <2>1. IsApplicationSource(h)
    BY DEF Loads
  <2>2. CASE g \in frontend
    BY <2>1, <2>2, <1>1, <1>4, <1>5 DEF FrontendTracing
  <2>3. CASE g \notin frontend
    BY <2>3, <1>2, <1>5
  <2> QED BY <2>2, <2>3
<1>8. \A T : LoadsClosed(T, Entries(target)) => \A g \in frontend' \cup queue' : g \in frontend' \/ IsApplicationSource(g) => g \in T
  <2> SUFFICES ASSUME NEW T, LoadsClosed(T, Entries(target)), NEW g \in frontend' \cup queue', g \in frontend' \/ IsApplicationSource(g)
               PROVE  g \in T
    OBVIOUS
  <2>1. \A h \in frontend \cup queue : h \in frontend \/ IsApplicationSource(h) => h \in T
    BY <1>1, <1>4 DEF FrontendTracing
  <2>2. CASE g \in frontend \cup queue
    BY <2>1, <2>2, <1>5
  <2>3. CASE g \notin frontend \cup queue
    <3>1. f \in frontend' \ frontend /\ g \in found /\ g \notin frontend'
      BY <2>3, <1>5
    <3>2. f \in T /\ g \in Loads(f)
      BY <3>1, <2>1, <1>2, <1>5
    <3> QED BY <3>2 DEF LoadsClosed
  <2> QED BY <2>2, <2>3
<1>9. FrontendTracing'
  <2>1. /\ \A g : Loads(g)' = Loads(g)
        /\ \A T, files : LoadsClosed(T, files)' = LoadsClosed(T, files)
        /\ Entries(target)' = Entries(target)
    BY <1>1, CheckoutStays
  <2> QED BY <2>1, <1>6, <1>7, <1>8 DEF FrontendTracing
<1>10. ResultsAreClosed'
  BY <1>1, ResultsStay DEF AnalysisInv
<1>11. TargetIsNamed'
  BY <1>1, CheckoutStays DEF AnalysisInv, TargetIsNamed
<1>12. PreparedBelong' /\ MatchedBelong' /\ Tables'
  BY <1>1 DEF AnalysisInv, PreparedBelong, MatchedBelong, Tables, Belongs, Turn
<1> QED BY <1>1, <1>9, <1>10, <1>11, <1>12
        DEF AnalysisInv, FrontendIsClosed, BackendTracing, BackendsAreClosed, Sliced

LEMMA FrontendTracedKeeps ==
  ASSUME AnalysisInv, FrontendTraced
  PROVE  AnalysisInv'
<1>1. /\ UNCHANGED <<repo, prepared, target, queue, frontend, matched, left, traced, results>>
      /\ phase = "frontend" /\ phase' = "match" /\ queue = {}
  BY DEF FrontendTraced, slice
<1>2. ResultsAreClosed'
  BY <1>1, ResultsStay DEF AnalysisInv
<1>3. TargetIsNamed'
  BY <1>1, CheckoutStays DEF AnalysisInv, TargetIsNamed, Sliced
<1>4. PreparedBelong' /\ MatchedBelong' /\ Tables'
  BY <1>1 DEF AnalysisInv, PreparedBelong, MatchedBelong, Tables, Belongs, Turn, Sliced, Untraced
<1>5. LoadsAll(frontend, Entries(target))
  BY <1>1 DEF AnalysisInv, FrontendTracing, LoadsAll, LoadsClosed
<1>6. FrontendIsClosed'
  BY <1>1, <1>5, CheckoutStays DEF FrontendIsClosed
<1> QED BY <1>1, <1>2, <1>3, <1>4, <1>6
        DEF AnalysisInv, FrontendTracing, BackendTracing, BackendsAreClosed, Sliced

\* What matching leaves alone.
LEMMA MatchingKeeps ==
  ASSUME AnalysisInv, UNCHANGED <<repo, phase, prepared, target, queue, frontend, traced, results>>,
         phase \in {"match", "generated"}, left' \subseteq left, MatchedBelong'
  PROVE  AnalysisInv'
<1>1. ResultsAreClosed'
  BY ResultsStay DEF AnalysisInv
<1>2. TargetIsNamed' /\ FrontendIsClosed'
  BY CheckoutStays DEF AnalysisInv, TargetIsNamed, FrontendIsClosed, Sliced
<1>3. PreparedBelong'
  BY DEF AnalysisInv, PreparedBelong, Belongs
<1>4. Tables'
  BY DEF AnalysisInv, Tables, Sliced, Untraced
<1> QED BY <1>1, <1>2, <1>3, <1>4
        DEF AnalysisInv, FrontendTracing, BackendTracing, BackendsAreClosed, Sliced

\* Endpoints of the backend matched belong to it.
LEMMA AddingKeeps ==
  ASSUME AnalysisInv, phase \in Sliced, UNCHANGED <<repo, phase, prepared>>, NEW b \in Backends, NEW found,
         matched' = Add(matched, b, found),
         \A x \in found : x.endpoint \in prepared[b].routes \cup DOMAIN prepared[b].ids
  PROVE  MatchedBelong'
<1> SUFFICES ASSUME NEW e \in DOMAIN Add(matched, b, found), NEW c \in Backends, e[1] = c
             PROVE  Belongs(c, e[2].file)
  BY DEF MatchedBelong, Belongs
<1>1. CASE e \in DOMAIN matched
  BY <1>1 DEF AnalysisInv, MatchedBelong
<1>2. CASE e \notin DOMAIN matched
  <2> PICK x \in found : e = <<b, x.endpoint>>
    BY <1>2, AddedAreOfBackend
  <2>1. c = b /\ e[2] = x.endpoint
    OBVIOUS
  <2> QED BY <2>1 DEF AnalysisInv, PreparedBelong, Sliced
<1> QED BY <1>1, <1>2

LEMMA MatchBackendKeeps ==
  ASSUME AnalysisInv, NEW b \in Backends, MatchBackend(b)
  PROVE  AnalysisInv'
<1>1. /\ UNCHANGED <<repo, phase, prepared, target, queue, frontend, traced, results>>
      /\ phase = "match" /\ left' \subseteq left
  BY DEF MatchBackend
<1> PICK exports, requests : matched' = Add(matched, b, NamedEndpoints(b, exports) \cup Reach(Answers(b, requests)))
  BY DEF MatchBackend
<1>2. MatchedBelong'
  BY <1>1, AddingKeeps, NamedArePublished, ReachedAreRoutes DEF Sliced
<1> QED BY <1>1, <1>2, MatchingKeeps

LEMMA MatchGeneratedKeeps ==
  ASSUME AnalysisInv, NEW b \in Backends, MatchGenerated(b)
  PROVE  AnalysisInv'
<1>1. /\ UNCHANGED <<repo, phase, prepared, target, queue, frontend, traced, results>>
      /\ phase = "generated" /\ left' \subseteq left
  BY DEF MatchGenerated
<1>2. matched' = Add(matched, b, Reach(Answers(b, GeneratedRequests(b))))
  BY DEF MatchGenerated
<1>3. MatchedBelong'
  BY <1>1, <1>2, AddingKeeps, ReachedAreRoutes DEF Sliced
<1> QED BY <1>1, <1>3, MatchingKeeps

LEMMA NextPassKeeps ==
  ASSUME AnalysisInv, NextPass
  PROVE  AnalysisInv'
<1>1. /\ UNCHANGED <<repo, prepared, target, queue, frontend, matched, traced, results>>
      /\ left' = Backends /\ phase \in {"match", "generated"} /\ phase' \in {"generated", "next"}
  BY DEF NextPass
<1>2. ResultsAreClosed'
  BY <1>1, ResultsStay DEF AnalysisInv
<1>3. TargetIsNamed' /\ FrontendIsClosed'
  BY <1>1, CheckoutStays DEF AnalysisInv, TargetIsNamed, FrontendIsClosed, Sliced
<1>4. PreparedBelong' /\ MatchedBelong'
  BY <1>1 DEF AnalysisInv, PreparedBelong, MatchedBelong, Belongs, Sliced
<1>5. Tables'
  BY <1>1 DEF AnalysisInv, Tables, Sliced, Untraced
<1>6. BackendsAreClosed'
  BY <1>1 DEF BackendsAreClosed
<1> QED BY <1>1, <1>2, <1>3, <1>4, <1>5, <1>6
        DEF AnalysisInv, FrontendTracing, BackendTracing, Sliced

\* Turns are taken one at a time.
LEMMA OneTurn == \A b, c \in Backends : Turn(b) /\ Turn(c) => b = c
<1>1. Backends \subseteq Nat
  BY RecipeIsAList DEF Backends
<1> QED BY <1>1 DEF Turn

\* What tracing backends leaves alone.
LEMMA TracingKeeps ==
  ASSUME AnalysisInv, UNCHANGED <<repo, prepared, target, frontend, matched, results>>,
         phase \in {"next", "backend"}, phase' \in {"next", "backend"},
         Tables', BackendTracing', BackendsAreClosed'
  PROVE  AnalysisInv'
<1>1. ResultsAreClosed'
  BY ResultsStay DEF AnalysisInv
<1>2. TargetIsNamed' /\ FrontendIsClosed'
  BY CheckoutStays DEF AnalysisInv, TargetIsNamed, FrontendIsClosed, Sliced
<1>3. PreparedBelong' /\ MatchedBelong'
  BY DEF AnalysisInv, PreparedBelong, MatchedBelong, Belongs, Sliced
<1> QED BY <1>1, <1>2, <1>3
        DEF AnalysisInv, FrontendTracing, Sliced

LEMMA StartBackendKeeps ==
  ASSUME AnalysisInv, NEW b \in Backends, StartBackend(b)
  PROVE  AnalysisInv'
<1>1. /\ UNCHANGED <<repo, prepared, target, frontend, matched, left, traced, results>> /\ Turn(b)
      /\ phase = "next" /\ phase' = "backend" /\ queue' = Handlers(matched, b)
  BY DEF StartBackend, slice
<1>2. traced[b] = {}
  BY <1>1 DEF AnalysisInv, Tables, Sliced, Turn
<1>3. \A c : Turn(c)' = Turn(c)
  BY <1>1 DEF Turn
<1>4. Tables'
  BY <1>1, <1>3 DEF AnalysisInv, Tables, Sliced, Untraced
<1>5. \A c : Handlers(matched, c)' = Handlers(matched, c)
  BY <1>1 DEF Handlers
<1>6. BackendTracing'
  <2> SUFFICES ASSUME NEW c \in Backends, Turn(c)
               PROVE  /\ Handlers(matched, c) \subseteq traced[c] \cup queue'
                      /\ \A f \in traced[c] : Needs(c, f) \subseteq traced[c] \cup queue'
                      /\ \A T : NeedsClosed(c, T, Handlers(matched, c)) =>
                             \A f \in traced[c] \cup queue' : f \in traced[c] \/ Belongs(c, f) => f \in T
    BY <1>1, <1>3, <1>5, CheckoutStays DEF BackendTracing, Belongs
  <2>1. c = b
    BY <1>1, OneTurn
  <2> QED BY <2>1, <1>1, <1>2 DEF NeedsClosed
<1>7. BackendsAreClosed'
  BY <1>1, <1>5, CheckoutStays DEF AnalysisInv, BackendsAreClosed
<1> QED BY <1>1, <1>4, <1>6, <1>7, TracingKeeps

LEMMA TraceBackendKeeps ==
  ASSUME AnalysisInv, NEW b \in Backends, TraceBackend(b)
  PROVE  AnalysisInv'
<1>1. /\ UNCHANGED <<repo, phase, prepared, target, frontend, matched, left, results>>
      /\ phase = "backend" /\ Turn(b)
  BY DEF TraceBackend
<1> DEFINE siblings(f) == IF f \in repo.loads THEN SiblingModules(repo.files, f) ELSE {}
           found(f) == ({Find(f, s) : s \in DOMAIN Imports(f)} \ {Null}) \cup siblings(f)
           Step(f) == IF f \in traced[b] \/ ~Belongs(b, f)
                      THEN queue' = queue \ {f} /\ traced' = traced
                      ELSE /\ traced' = [traced EXCEPT ![b] = @ \cup {f}]
                           /\ queue' = (queue \ {f}) \cup (found(f) \ traced'[b])
<1>2. PICK f \in queue : Step(f)
  BY DEF TraceBackend
<1>3. Needs(b, f) = {g \in found(f) : Belongs(b, g)}
  BY DEF Needs
<1>4. traced = [c \in Backends |-> traced[c]]
  BY <1>1 DEF AnalysisInv, Tables, Sliced
<1>5. /\ traced' = [c \in Backends |-> traced'[c]]
      /\ \A c \in Backends \ {b} : traced'[c] = traced[c]
  BY <1>2, <1>4
<1>6. /\ traced[b] \subseteq traced'[b]
      /\ traced[b] \cup queue \subseteq traced'[b] \cup queue' \cup {f}
      /\ f \in traced'[b] \/ ~Belongs(b, f)
      /\ traced'[b] \ traced[b] \subseteq {f}
      /\ f \in traced'[b] \ traced[b] => found(f) \subseteq traced'[b] \cup queue' /\ Belongs(b, f)
      /\ queue' \subseteq queue \cup found(f)
      /\ ~(f \in traced'[b] \ traced[b]) => queue' \subseteq queue
  <2> HIDE DEF found
  <2>1. CASE f \in traced[b] \/ ~Belongs(b, f)
    BY <1>2, <2>1
  <2>2. CASE ~(f \in traced[b] \/ ~Belongs(b, f))
    <3>1. traced'[b] = traced[b] \cup {f} /\ queue' = (queue \ {f}) \cup (found(f) \ traced'[b])
      BY <1>2, <1>4, <2>2
    <3> QED BY <3>1, <2>2
  <2> QED BY <2>1, <2>2
<1> HIDE DEF found, Step
<1> DEFINE start == Handlers(matched, b)
<1>7. /\ start \subseteq traced[b] \cup queue
      /\ \A g \in traced[b] : Needs(b, g) \subseteq traced[b] \cup queue
      /\ \A T : NeedsClosed(b, T, start) => \A g \in traced[b] \cup queue : g \in traced[b] \/ Belongs(b, g) => g \in T
  BY <1>1 DEF AnalysisInv, BackendTracing
<1>8. \A h \in start : Belongs(b, h)
  BY <1>1 DEF AnalysisInv, MatchedBelong, Handlers, Sliced
<1> HIDE DEF start
<1>9. start \subseteq traced'[b] \cup queue'
  BY <1>6, <1>7, <1>8
<1>10. \A g \in traced'[b] : Needs(b, g) \subseteq traced'[b] \cup queue'
  <2> SUFFICES ASSUME NEW g \in traced'[b], NEW h \in Needs(b, g)
               PROVE  h \in traced'[b] \cup queue'
    OBVIOUS
  <2>1. Belongs(b, h)
    BY DEF Needs
  <2>2. CASE g \in traced[b]
    BY <2>1, <2>2, <1>6, <1>7
  <2>3. CASE g \notin traced[b]
    BY <2>3, <1>3, <1>6
  <2> QED BY <2>2, <2>3
<1>11. \A T : NeedsClosed(b, T, start) => \A g \in traced'[b] \cup queue' : g \in traced'[b] \/ Belongs(b, g) => g \in T
  <2> SUFFICES ASSUME NEW T, NeedsClosed(b, T, start), NEW g \in traced'[b] \cup queue', g \in traced'[b] \/ Belongs(b, g)
               PROVE  g \in T
    OBVIOUS
  <2>1. \A h \in traced[b] \cup queue : h \in traced[b] \/ Belongs(b, h) => h \in T
    BY <1>7
  <2>2. CASE g \in traced[b] \cup queue
    BY <2>1, <2>2, <1>6
  <2>3. CASE g \notin traced[b] \cup queue
    <3>1. f \in traced'[b] \ traced[b] /\ g \in found(f) /\ g \notin traced'[b]
      BY <2>3, <1>2, <1>6
    <3>2. f \in T /\ g \in Needs(b, f)
      BY <3>1, <2>1, <1>2, <1>3, <1>6
    <3> QED BY <3>2 DEF NeedsClosed
  <2> QED BY <2>2, <2>3
<1>12. \A c : Turn(c)' = Turn(c)
  BY <1>1 DEF Turn
<1>13. \A c : Handlers(matched, c)' = Handlers(matched, c)
  BY <1>1 DEF Handlers
<1>14. BackendTracing'
  <2> SUFFICES ASSUME NEW c \in Backends, Turn(c)
               PROVE  /\ Handlers(matched, c) \subseteq traced'[c] \cup queue'
                      /\ \A g \in traced'[c] : Needs(c, g) \subseteq traced'[c] \cup queue'
                      /\ \A T : NeedsClosed(c, T, Handlers(matched, c)) =>
                             \A g \in traced'[c] \cup queue' : g \in traced'[c] \/ Belongs(c, g) => g \in T
    BY <1>1, <1>12, <1>13, CheckoutStays DEF BackendTracing, Belongs
  <2>1. c = b
    BY <1>1, OneTurn
  <2> QED BY <2>1, <1>9, <1>10, <1>11 DEF start
<1>15. Tables'
  BY <1>1, <1>5, <1>12 DEF AnalysisInv, Tables, Sliced, Untraced
<1>16. BackendsAreClosed'
  <2>1. \A c \in Backends \ left : c # b /\ NeedsAll(c, traced[c], Handlers(matched, c))
    BY <1>1 DEF AnalysisInv, BackendsAreClosed, Turn
  <2> QED BY <2>1, <1>1, <1>5, <1>13, CheckoutStays DEF BackendsAreClosed
<1> QED BY <1>1, <1>14, <1>15, <1>16, TracingKeeps

LEMMA BackendTracedKeeps ==
  ASSUME AnalysisInv, NEW b \in Backends, BackendTraced(b)
  PROVE  AnalysisInv'
<1>1. /\ UNCHANGED <<repo, prepared, target, queue, frontend, matched, traced, results>>
      /\ phase = "backend" /\ phase' = "next" /\ queue = {} /\ Turn(b) /\ left' = left \ {b}
  BY DEF BackendTraced
<1>2. NeedsAll(b, traced[b], Handlers(matched, b))
  BY <1>1 DEF AnalysisInv, BackendTracing, NeedsAll, NeedsClosed
<1>3. \A c : Handlers(matched, c)' = Handlers(matched, c)
  BY <1>1 DEF Handlers
<1>4. BackendsAreClosed'
  BY <1>1, <1>2, <1>3, CheckoutStays DEF AnalysisInv, BackendsAreClosed
<1>5. Tables'
  <2>1. \A c \in left' : c # b /\ (c \in Backends => ~Turn(c))
    BY <1>1, OneTurn
  <2> QED BY <2>1, <1>1 DEF AnalysisInv, Tables, Sliced, Untraced
<1>6. BackendTracing'
  BY <1>1 DEF BackendTracing
<1> QED BY <1>1, <1>4, <1>5, <1>6, TracingKeeps

LEMMA SliceFinishKeeps ==
  ASSUME AnalysisInv, Finish
  PROVE  AnalysisInv'
<1>1. /\ repo' = repo /\ prepared' = prepared /\ phase = "next" /\ phase' = "target" /\ left = {}
  BY DEF Finish
<1> DEFINE found == [frontend |-> frontend, names |-> names, endpoints |-> matched, files |-> traced, unmatched |-> unmatched]
<1>2. results' = [d \in DOMAIN results \cup {target.dir} |-> IF d = target.dir THEN found ELSE results[d]]
  BY DEF Finish
<1>3. /\ LoadsAll(found.frontend, Entries(Workspace(target.dir)))
      /\ \A b \in Backends : NeedsAll(b, found.files[b], Handlers(found.endpoints, b))
  BY <1>1 DEF AnalysisInv, TargetIsNamed, FrontendIsClosed, BackendsAreClosed, Sliced
<1> HIDE DEF found
<1>4. \A dir \in DOMAIN results' :
        /\ LoadsAll(results'[dir].frontend, Entries(Workspace(dir)))
        /\ \A b \in Backends : NeedsAll(b, results'[dir].files[b], Handlers(results'[dir].endpoints, b))
  BY <1>2, <1>3 DEF AnalysisInv, ResultsAreClosed
<1>5. \A m, b : Handlers(m, b)' = Handlers(m, b)
  BY DEF Handlers
<1>6. ResultsAreClosed'
  BY <1>1, <1>4, <1>5, CheckoutStays DEF ResultsAreClosed
<1>7. PreparedBelong'
  BY <1>1 DEF AnalysisInv, PreparedBelong, Belongs
<1> QED BY <1>1, <1>6, <1>7
        DEF AnalysisInv, TargetIsNamed, MatchedBelong, FrontendTracing, FrontendIsClosed,
            BackendTracing, Tables, BackendsAreClosed, Sliced

LEMMA AnalysisStutters ==
  ASSUME AnalysisInv, UNCHANGED analysisVars
  PROVE  AnalysisInv'
<1>1. UNCHANGED <<repo, phase, prepared, target, queue, frontend, matched, left, traced, results>>
  BY DEF analysisVars
<1>2. /\ \A c : Turn(c)' = Turn(c)
      /\ \A m, c : Handlers(m, c)' = Handlers(m, c)
  BY <1>1 DEF Turn, Handlers
<1>3. BackendTracing'
  BY <1>1, <1>2, CheckoutStays DEF AnalysisInv, BackendTracing, Belongs
<1>4. Tables' /\ BackendsAreClosed'
  BY <1>1, <1>2, CheckoutStays DEF AnalysisInv, Tables, BackendsAreClosed, Sliced, Untraced
<1>5. FrontendTracing' /\ FrontendIsClosed' /\ TargetIsNamed'
  BY <1>1, CheckoutStays DEF AnalysisInv, FrontendTracing, FrontendIsClosed, TargetIsNamed
<1>6. PreparedBelong' /\ MatchedBelong'
  BY <1>1 DEF AnalysisInv, PreparedBelong, MatchedBelong, Belongs
<1>7. ResultsAreClosed'
  BY <1>1, ResultsStay DEF AnalysisInv
<1> QED BY <1>3, <1>4, <1>5, <1>6, <1>7 DEF AnalysisInv

LEMMA AnalysisNextKeeps == AnalysisInv /\ [AnalysisNext]_analysisVars => AnalysisInv'
<1> SUFFICES ASSUME AnalysisInv, [AnalysisNext]_analysisVars
             PROVE  AnalysisInv'
  OBVIOUS
<1>1. CASE UNCHANGED analysisVars
  BY <1>1, AnalysisStutters
<1>2. CASE AnalysisNext
  <2>1. CASE Prepare
    BY <2>1, PrepareKeeps
  <2>2. CASE Start
    BY <2>2, StartKeeps
  <2>3. CASE TraceFrontend
    BY <2>3, TraceFrontendKeeps
  <2>4. CASE FrontendTraced
    BY <2>4, FrontendTracedKeeps
  <2>5. CASE NextPass
    BY <2>5, NextPassKeeps
  <2>6. CASE Finish
    BY <2>6, SliceFinishKeeps
  <2>7. CASE \E b \in Backends : MatchBackend(b) \/ MatchGenerated(b) \/ StartBackend(b) \/ TraceBackend(b) \/ BackendTraced(b)
    BY <2>7, MatchBackendKeeps, MatchGeneratedKeeps, StartBackendKeeps, TraceBackendKeeps, BackendTracedKeeps
  <2> QED BY <1>2, <2>1, <2>2, <2>3, <2>4, <2>5, <2>6, <2>7 DEF AnalysisNext
<1> QED BY <1>1, <1>2

\* For every recipe and every checkout: what is left to trace leads to the
\* files still missing and to no others (traceFrontend, traceBackend), and the
\* endpoints a backend is traced from are of its own files.
THEOREM AnalysisInvariance == AnalysisSpec => []AnalysisInv
BY AnalysisStarts, AnalysisNextKeeps, PTL DEF AnalysisSpec

\* The files of a slice and of each backend in it are the least set closed
\* under loading, in every order of the queue and however imports form cycles.
THEOREM SlicesAreClosed == AnalysisSpec => []SliceIsClosed
<1>1. AnalysisInv => SliceIsClosed
  <2> SUFFICES ASSUME AnalysisInv, NEW dir \in DOMAIN results
               PROVE  /\ IsClosure(results[dir].frontend, Entries(Workspace(dir)), Loads)
                      /\ \A b \in Backends : IsClosure(results[dir].files[b], Handlers(results[dir].endpoints, b), LAMBDA f : Needs(b, f))
    BY DEF SliceIsClosed
  <2>1. /\ LoadsAll(results[dir].frontend, Entries(Workspace(dir)))
        /\ \A b \in Backends : NeedsAll(b, results[dir].files[b], Handlers(results[dir].endpoints, b))
    BY DEF AnalysisInv, ResultsAreClosed
  <2>2. IsClosure(results[dir].frontend, Entries(Workspace(dir)), Loads)
    BY <2>1 DEF IsClosure, LoadsAll, LoadsClosed
  <2>3. ASSUME NEW b \in Backends
        PROVE  IsClosure(results[dir].files[b], Handlers(results[dir].endpoints, b), LAMBDA f : Needs(b, f))
    BY <2>1 DEF IsClosure, NeedsAll, NeedsClosed
  <2> QED BY <2>2, <2>3
<1> QED BY <1>1, AnalysisInvariance, PTL

-----------------------------------------------------------------------------
(* The items of a file and the calls they make (UrlCalls)                  *)

\* A set with 0 and the successor of each of its numbers has them all.
LEMMA NatInduct ==
  ASSUME NEW T, 0 \in T, \A n \in Nat : n \in T => n + 1 \in T
  PROVE  Nat \subseteq T
<1> DEFINE Less == OpToRel(<, Nat)
           Bad == {n \in Nat : n \notin T}
<1>1. IsWellFoundedOn(Less, Nat)
  BY NatLessThanWellFounded
<1>2. \A x, y \in Nat : x < y => <<x, y>> \in Less
  BY DEF OpToRel
<1>3. SUFFICES ASSUME Bad # {} PROVE FALSE
  OBVIOUS
<1> HIDE DEF Less
<1>4. PICK n \in Bad : \A m \in Bad : ~(<<m, n>> \in Less)
  <2>1. Bad \subseteq Nat
    OBVIOUS
  <2> HIDE DEF Bad
  <2> QED BY <1>1, <1>3, <2>1, WFMin
<1>5. n - 1 \in Nat /\ n - 1 \notin Bad
  <2>1. n \in Nat /\ n # 0
    OBVIOUS
  <2>2. n - 1 \in Nat /\ n - 1 < n
    BY <2>1
  <2> QED BY <1>2, <1>4, <2>1, <2>2
<1>6. n \in T
  BY <1>5
<1> QED BY <1>6

-----------------------------------------------------------------------------
(* What a simple expression is: a base, a name, a text, or a base joined   *)
(* with segments.                                                          *)
Simple(x) == x.e # "either" /\ (x.e = "join" => x.of.e = "base")

\* The parts of an expression that is no choice of two.
LEMMA PartsOfSimple ==
  ASSUME NEW x, Simple(x)
  PROVE  Parts(x) = IF x.e = "join" THEN {x, x.of} ELSE {x}
<1> DEFINE S == IF x.e = "join" THEN {x, x.of} ELSE {x}
           inside(y) == CASE y.e = "join" -> {y.of} [] y.e = "either" -> {y.of, y.url} [] OTHER -> {}
           Grown(n, before) == IF n = 0 THEN {x} ELSE before \cup UNION {inside(y) : y \in before}
           parts == CHOOSE f : f = [n \in 0 .. MaxNesting |-> Grown(n, f[n - 1])]
           w == [n \in 0 .. MaxNesting |-> IF n = 0 THEN {x} ELSE S]
<1>1. Parts(x) = parts[MaxNesting]
  BY DEF Parts
<1>2. /\ inside(x) = IF x.e = "join" THEN {x.of} ELSE {}
      /\ x.e = "join" => inside(x.of) = {}
  BY DEF Simple
<1>3. \A n \in Nat \ {0} : Grown(n, {x}) = S /\ Grown(n, S) = S
  <2> HIDE DEF inside
  <2> QED BY <1>2
<1>4. Grown(0, w[0-1]) = {x}
  OBVIOUS
<1> HIDE DEF Grown
<1>5. w = [n \in 0 .. MaxNesting |-> Grown(n, w[n - 1])]
  <2>1. ASSUME NEW n \in 0 .. MaxNesting PROVE w[n] = Grown(n, w[n - 1])
    <3>1. CASE n = 0
      BY <1>4, <3>1
    <3>2. CASE n = 1
      BY <1>3, <3>2, NestingAssumption
    <3>3. CASE n > 1
      <4>1. w[n - 1] = S /\ w[n] = S /\ n \in Nat \ {0}
        BY <3>3, NestingAssumption
      <4> QED BY <1>3, <4>1
    <3> QED BY <3>1, <3>2, <3>3, NestingAssumption
  <2> HIDE DEF S
  <2> QED BY <2>1
<1>6. parts = [n \in 0 .. MaxNesting |-> Grown(n, parts[n - 1])]
  BY <1>5
<1> HIDE DEF parts
<1>a. \A n \in 0 .. MaxNesting : parts[n] = Grown(n, parts[n - 1])
  BY <1>6
<1> DEFINE T == {n \in Nat : n <= MaxNesting => parts[n] = IF n = 0 THEN {x} ELSE S}
<1>7. 0 \in T
  <2>1. parts[0] = Grown(0, parts[0 - 1])
    BY <1>6, NestingAssumption
  <2> QED BY <2>1 DEF Grown
<1>8. ASSUME NEW n \in Nat, n \in T PROVE n + 1 \in T
  <2> SUFFICES ASSUME n + 1 <= MaxNesting PROVE parts[n + 1] = S
    OBVIOUS
  <2>1. parts[n + 1] = Grown(n + 1, parts[n])
    <3>1. n + 1 \in 0 .. MaxNesting /\ n + 1 - 1 = n
      BY NestingAssumption
    <3>2. parts[n + 1] = Grown(n + 1, parts[n + 1 - 1])
      <4> HIDE DEF T, S
      <4> QED BY <1>a, <3>1
    <3> QED BY <3>1, <3>2
  <2>2. parts[n] = IF n = 0 THEN {x} ELSE S
    BY <1>8, NestingAssumption
  <2>3. n + 1 \in Nat \ {0}
    OBVIOUS
  <2> HIDE DEF S
  <2> QED BY <1>3, <2>1, <2>2, <2>3
<1>9. MaxNesting \in T
  <2> HIDE DEF T
  <2> QED BY <1>7, <1>8, NatInduct, NestingAssumption
<1> QED BY <1>1, <1>9, NestingAssumption

\* When such an expression stands for the base of the URLs.
LEMMA BaseOfSimple ==
  ASSUME NEW x, Simple(x), NEW nm, NEW declared, NEW n
  PROVE  /\ x.e = "base" => (MentionsBase(nm, declared, n, x) <=> x.name \in nm)
         /\ x.e = "text" => ~MentionsBase(nm, declared, n, x)
         /\ x.e = "join" => (MentionsBase(nm, declared, n, x) <=> x.url = <<>> /\ x.of.name \in nm)
         /\ x.e = "name" => (MentionsBase(nm, declared, n, x) <=>
               \/ x.name \in nm
               \/ Lookup(declared, x.name, n) # Null /\ Lookup(declared, x.name, n).kind = "alias")
<1> DEFINE S == IF x.e = "join" THEN {x, x.of} ELSE {x}
           alias(y) == Lookup(declared, y.name, n) # Null /\ Lookup(declared, y.name, n).kind = "alias"
           Says(f, y) ==
             \/ y.e \in {"base", "name"} /\ y.name \in nm
             \/ y.e = "name" /\ alias(y)
             \/ y.e = "either" /\ (f[y.of] \/ f[y.url])
             \/ y.e = "join" /\ y.url = <<>> /\ f[y.of]
           says == CHOOSE f : f = [y \in Parts(x) |-> Says(f, y)]
           of == [y \in S |-> Says(x, y)]
           w == [y \in S |-> Says(of, y)]
<1>1. MentionsBase(nm, declared, n, x) = says[x]
  BY Zenon DEF MentionsBase
<1>2. Parts(x) = S
  BY PartsOfSimple
<1>3. \A y \in S : y.e # "join" => \A f, g : Says(f, y) = Says(g, y)
  BY DEF Simple
<1>4. /\ x.e = "join" => \A f : Says(f, x) <=> x.url = <<>> /\ f[x.of]
      /\ \A f : x.e = "base" => (Says(f, x) <=> x.name \in nm)
      /\ \A f : x.e = "text" => ~Says(f, x)
  OBVIOUS
<1>c. \A f : x.e = "name" => (Says(f, x) <=> x.name \in nm \/ alias(x))
  <2> HIDE DEF alias
  <2> QED OBVIOUS
<1>d. x.e = "join" => \A f : Says(f, x.of) <=> (x.of.name \in nm)
  <2> SUFFICES ASSUME x.e = "join", NEW f PROVE Says(f, x.of) <=> x.of.name \in nm
    OBVIOUS
  <2>1. x.of.e = "base"
    BY DEF Simple
  <2> HIDE DEF alias
  <2> QED BY <2>1
<1>b. x.e = "join" => \A f, g : f[x.of] = g[x.of] => Says(f, x) = Says(g, x)
  BY DEF Simple
<1>5. /\ \A y \in S : y.e = "join" => y = x
      /\ x \in S /\ (x.e = "join" => x.of \in S)
  BY DEF Simple
<1>e. x.e = "join" => x.of.e # "join"
  BY DEF Simple
<1> HIDE DEF Says, S
<1>6. w = [y \in S |-> Says(w, y)]
  <2>1. ASSUME NEW y \in S PROVE Says(of, y) = Says(w, y)
    <3>1. CASE y.e # "join"
      BY <1>3, <3>1
    <3>2. CASE y.e = "join"
      <4>1. y = x /\ x.of \in S /\ x.e = "join"
        BY <1>5, <3>2
      <4>2. of[x.of] = w[x.of]
        BY <1>3, <1>e, <4>1
      <4> HIDE DEF of, w
      <4> QED BY <1>b, <4>1, <4>2
    <3> QED BY <3>1, <3>2
  <2> HIDE DEF of
  <2> QED BY <2>1
<1>7. says = [y \in S |-> Says(says, y)]
  <2> HIDE DEF w
  <2> QED BY <1>2, <1>6
<1> HIDE DEF says
<1>8. \A y \in S : says[y] = Says(says, y)
  BY <1>7
<1>9. x.e = "join" => (says[x.of] <=> x.of.name \in nm)
  BY <1>d, <1>5, <1>8
<1>10. says[x] = Says(says, x)
  BY <1>5, <1>8
<1> QED BY <1>1, <1>4, <1>c, <1>9, <1>10

\* The URL such an expression stands for.
LEMMA UrlOfSimple ==
  ASSUME NEW x, Simple(x), NEW nm, NEW declared, NEW n, NEW relative \in BOOLEAN
  PROVE  LET url == UrlTokens(nm, declared, n, x, relative)
             d   == Lookup(declared, x.name, n)
         IN /\ x.e = "text" => url = IF relative /\ x.name = "/" THEN x.url ELSE Null
            /\ x.e = "join" => url = IF x.of.name \in nm THEN <<>> \o x.url ELSE Null
            /\ x.e = "name" => url = IF d # Null /\ d.kind = "url" THEN d.url ELSE Null
<1> DEFINE S == IF x.e = "join" THEN {x, x.of} ELSE {x}
           Based(y) == MentionsBase(nm, declared, n, y)
           Found(y) == IF y.e = "name" THEN Lookup(declared, y.name, n) ELSE Null
           Row(y, d, before) ==
             [rel \in BOOLEAN |->
                CASE y.e = "name" /\ d # Null -> IF d.kind = "url" THEN d.url ELSE Null
                  [] y.e = "join" -> IF before = Null THEN Null ELSE before \o y.url
                  [] y.e = "text" -> IF rel /\ y.name = "/" THEN y.url ELSE Null
                  [] OTHER -> Null]
           Tokens(f, y) == Row(y, Found(y), IF Based(y.of) THEN <<>> ELSE f[y.of][FALSE])
           tokens == CHOOSE f : f = [y \in Parts(x) |-> Tokens(f, y)]
           w == [y \in S |-> Row(y, Found(y), IF Based(y.of) THEN <<>> ELSE Null)]
<1>1. UrlTokens(nm, declared, n, x, relative) = tokens[x][relative]
  BY DEF UrlTokens
<1>2. Parts(x) = S
  BY PartsOfSimple
<1>3. ASSUME x.e = "join" PROVE Based(x.of) <=> x.of.name \in nm
  <2>1. Simple(x.of) /\ x.of.e = "base"
    BY <1>3 DEF Simple
  <2> QED BY <2>1, BaseOfSimple
<1> HIDE DEF Based
<1>4. \A y \in S : y.e # "join" => \A b : Row(y, Found(y), b) = Row(y, Found(y), Null)
  OBVIOUS
<1>5. \A y \in S : y.e = "join" => y = x
  BY DEF Simple
<1>6. x.e = "join" => \A b : Row(x.of, Found(x.of), b)[FALSE] = Null
  BY DEF Simple
<1> HIDE DEF Row, Found
<1>7. w = [y \in S |-> Tokens(w, y)]
  <2>1. ASSUME NEW y \in S PROVE w[y] = Tokens(w, y)
    <3>1. CASE y.e # "join"
      <4>1. w[y] = Row(y, Found(y), Null)
        <5> HIDE DEF S
        <5> QED BY <1>4, <3>1
      <4>2. Tokens(w, y) = Row(y, Found(y), Null)
        <5> HIDE DEF S, w
        <5> QED BY <1>4, <3>1
      <4> QED BY <4>1, <4>2
    <3>2. CASE y.e = "join"
      <4>1. y = x /\ x.of \in S
        BY <1>5, <3>2
      <4>2. w[x.of][FALSE] = Null
        <5> HIDE DEF S
        <5> QED BY <1>6, <3>2, <4>1
      <4> QED BY <4>1, <4>2
    <3> QED BY <3>1, <3>2
  <2> HIDE DEF S, Tokens
  <2> QED BY <2>1
<1>8. tokens = [y \in S |-> Tokens(tokens, y)]
  <2> HIDE DEF w, Tokens, S
  <2> QED BY <1>2, <1>7
<1> HIDE DEF tokens
<1>9. \A y \in S : tokens[y] = Tokens(tokens, y)
  <2> HIDE DEF Tokens, S
  <2> QED BY <1>8
<1>10. x \in S /\ (x.e = "join" => x.of \in S)
  OBVIOUS
<1> HIDE DEF S
<1>11. x.e = "join" => tokens[x.of][FALSE] = Null
  BY <1>6, <1>9, <1>10
<1>12. tokens[x] = Row(x, Found(x), IF Based(x.of) THEN <<>> ELSE tokens[x.of][FALSE])
  BY <1>9, <1>10
<1>13. CASE x.e = "text"
  BY <1>1, <1>12, <1>13 DEF Row
<1>14. CASE x.e = "name"
  BY <1>1, <1>12, <1>14 DEF Row, Found
<1>15. CASE x.e = "join"
  <2>1. \A b : Row(x, Found(x), b)[relative] = IF b = Null THEN Null ELSE b \o x.url
    BY <1>15 DEF Row
  <2>2. tokens[x][relative] = IF Based(x.of) THEN (IF <<>> = Null THEN Null ELSE <<>> \o x.url) ELSE Null
    BY <1>11, <1>12, <1>15, <2>1
  <2>3. tokens[x][relative] = IF x.of.name \in nm THEN <<>> \o x.url ELSE Null
    BY <1>3, <1>15, <2>2, ItemsAreLists
  <2> QED BY <1>1, <1>15, <2>3
<1> QED BY <1>13, <1>14, <1>15

-----------------------------------------------------------------------------
\* The declarations of a module, item after item.
InOrder(upTo, items, nm, N) ==
  /\ upTo[0] = {}
  /\ \A n \in 1 .. N : upTo[n] = upTo[n - 1] \cup Declare(items, nm, upTo[n - 1], n)

\* The variables of a file are declared from its first item to its last.
LEMMA DeclaredInOrder ==
  ASSUME NEW items, Len(items) \in Nat, NEW nm
  PROVE  \E upTo : Declared(items, nm) = upTo[Len(items)] /\ InOrder(upTo, items, nm, Len(items))
<1> DEFINE N == Len(items)
           Next1(f, n) == f[n - 1] \cup Declare(items, nm, f[n - 1], n)
           Step(f, n) == IF n = 0 THEN {} ELSE Next1(f, n)
           upTo == CHOOSE f : f = [n \in 0 .. N |-> Step(f, n)]
           T == {k \in Nat : \E f : DOMAIN f = 0 .. k /\ f[0] = {} /\ \A n \in 1 .. k : f[n] = Next1(f, n)}
<1>1. Declared(items, nm) = upTo[N]
  BY DEF Declared
<1>2. 0 \in T
  <2> DEFINE f == [n \in 0 .. 0 |-> {}]
  <2>1. DOMAIN f = 0 .. 0 /\ f[0] = {} /\ \A n \in 1 .. 0 : f[n] = Next1(f, n)
    OBVIOUS
  <2> HIDE DEF f, Next1
  <2> QED BY <2>1
<1>3. ASSUME NEW k \in Nat, k \in T PROVE k + 1 \in T
  <2>1. PICK f : DOMAIN f = 0 .. k /\ f[0] = {} /\ \A n \in 1 .. k : f[n] = Next1(f, n)
    BY <1>3
  <2> DEFINE g == [n \in 0 .. k + 1 |-> IF n <= k THEN f[n] ELSE Next1(f, n)]
  <2>2. ASSUME NEW n \in 1 .. k + 1 PROVE g[n] = Next1(g, n)
    <3>1. g[n - 1] = f[n - 1]
      OBVIOUS
    <3>2. Next1(g, n) = Next1(f, n)
      BY <3>1
    <3>3. n <= k => f[n] = Next1(f, n)
      BY <2>1
    <3>4. g[n] = IF n <= k THEN f[n] ELSE Next1(f, n)
      <4> HIDE DEF Next1
      <4> QED OBVIOUS
    <3> HIDE DEF g, Next1
    <3> QED BY <3>2, <3>3, <3>4
  <2>3. DOMAIN g = 0 .. k + 1 /\ g[0] = {}
    <3> HIDE DEF Next1
    <3> QED BY <2>1
  <2> HIDE DEF g, Next1
  <2> QED BY <2>2, <2>3
<1>4. N \in T
  <2> HIDE DEF T
  <2> QED BY <1>2, <1>3, NatInduct
<1>5. PICK f : DOMAIN f = 0 .. N /\ f[0] = {} /\ \A n \in 1 .. N : f[n] = Next1(f, n)
  BY <1>4
<1> DEFINE g == [n \in 0 .. N |-> f[n]]
<1>7. g = [n \in 0 .. N |-> Step(g, n)]
  <2>1. ASSUME NEW n \in 0 .. N PROVE f[n] = Step(g, n)
    <3>1. CASE n = 0
      BY <1>5, <3>1
    <3>2. CASE n # 0
      <4>1. n \in 1 .. N /\ g[n - 1] = f[n - 1]
        BY <3>2
      <4>2. Step(g, n) = Next1(f, n)
        BY <3>2, <4>1
      <4> HIDE DEF Step, Next1, g
      <4> QED BY <1>5, <4>1, <4>2
    <3> QED BY <3>1, <3>2
  <2> HIDE DEF Step, Next1
  <2> QED BY <2>1
<1>8. upTo = [n \in 0 .. N |-> Step(upTo, n)]
  <2> HIDE DEF Step, g, N
  <2> QED BY <1>7
<1> HIDE DEF upTo
<1>9. \A n \in 0 .. N : upTo[n] = Step(upTo, n)
  <2> HIDE DEF Step, N
  <2> QED BY <1>8
<1>10. upTo[0] = {}
  <2>1. upTo[0] = Step(upTo, 0)
    <3>1. 0 \in 0 .. N
      OBVIOUS
    <3> HIDE DEF Step, N
    <3> QED BY <1>9, <3>1
  <2> QED BY <2>1
<1>11. ASSUME NEW n \in 1 .. N PROVE upTo[n] = Next1(upTo, n)
  <2>1. n \in 0 .. N /\ n # 0
    OBVIOUS
  <2>2. upTo[n] = Step(upTo, n)
    <3> HIDE DEF Step, N
    <3> QED BY <1>9, <2>1
  <2> QED BY <2>1, <2>2
<1>12. InOrder(upTo, items, nm, N)
  BY <1>10, <1>11 DEF InOrder
<1> QED BY <1>1, <1>12

-----------------------------------------------------------------------------
\* The scores of a call against the rest of a route, from its end on.
RowByRow(score, call, route) ==
  \A r \in 1 .. Len(route) + 1 : score[r] = ScoreRow(call, route, r, score[r + 1])

\* The score of a route is that of its table's first cell, and the rows of
\* the table follow one from the next.
LEMMA ScoresInOrder ==
  ASSUME NEW call, NEW route, Len(route) \in Nat
  PROVE  \E score : MatchScore(call, route) = score[1][1] /\ RowByRow(score, call, route)
<1> DEFINE L == Len(route)
           Row(f, r) == ScoreRow(call, route, r, f[r + 1])
           score == CHOOSE f : f = [r \in 1 .. L + 1 |-> Row(f, r)]
           T == {k \in Nat : k <= L => \E f : DOMAIN f = L + 1 - k .. L + 1 /\ \A r \in L + 1 - k .. L + 1 : f[r] = Row(f, r)}
<1>1. MatchScore(call, route) = score[1][1]
  BY DEF MatchScore
<1>2. \A f, g : Row(f, L + 1) = Row(g, L + 1)
  <2>1. \A a, b : ScoreRow(call, route, L + 1, a) = ScoreRow(call, route, L + 1, b)
    BY DEF ScoreRow
  <2> QED BY <2>1
<1>3. 0 \in T
  <2> DEFINE f == [r \in L + 1 .. L + 1 |-> Row(<<>>, r)]
  <2>1. DOMAIN f = L + 1 - 0 .. L + 1
    OBVIOUS
  <2>2. f[L + 1] = Row(<<>>, L + 1)
    <3> HIDE DEF Row
    <3> QED OBVIOUS
  <2>3. \A r \in L + 1 - 0 .. L + 1 : f[r] = Row(f, r)
    <3>1. \A r \in L + 1 - 0 .. L + 1 : r = L + 1
      OBVIOUS
    <3> HIDE DEF Row, f
    <3> QED BY <1>2, <2>2, <3>1
  <2> HIDE DEF f, Row
  <2> QED BY <2>1, <2>3
<1>4. ASSUME NEW k \in Nat, k \in T PROVE k + 1 \in T
  <2> SUFFICES ASSUME k + 1 <= L
               PROVE  \E f : DOMAIN f = L + 1 - (k + 1) .. L + 1 /\ \A r \in L + 1 - (k + 1) .. L + 1 : f[r] = Row(f, r)
    OBVIOUS
  <2>1. PICK f : DOMAIN f = L + 1 - k .. L + 1 /\ \A r \in L + 1 - k .. L + 1 : f[r] = Row(f, r)
    BY <1>4
  <2> DEFINE g == [r \in L - k .. L + 1 |-> IF r = L - k THEN Row(f, r) ELSE f[r]]
  <2>2. ASSUME NEW r \in L - k .. L + 1 PROVE g[r] = Row(g, r)
    <3>1. g[r] = IF r = L - k THEN Row(f, r) ELSE f[r]
      <4> HIDE DEF Row
      <4> QED OBVIOUS
    <3>2. CASE r = L + 1
      <4>1. r # L - k /\ r \in L + 1 - k .. L + 1
        BY <3>2
      <4> HIDE DEF Row, g
      <4> QED BY <1>2, <2>1, <3>1, <3>2, <4>1
    <3>3. CASE r # L + 1
      <4>1. g[r + 1] = f[r + 1]
        <5>1. r + 1 \in L - k .. L + 1 /\ r + 1 # L - k
          BY <3>3
        <5> HIDE DEF Row, L
        <5> QED BY <5>1
      <4>2. Row(g, r) = Row(f, r)
        BY <4>1
      <4>3. r # L - k => r \in L + 1 - k .. L + 1
        OBVIOUS
      <4> HIDE DEF Row, g
      <4> QED BY <2>1, <3>1, <4>2, <4>3
    <3> QED BY <3>2, <3>3
  <2>3. DOMAIN g = L - k .. L + 1 /\ L + 1 - (k + 1) = L - k
    OBVIOUS
  <2> HIDE DEF g, Row
  <2> QED BY <2>2, <2>3
<1>5. L \in T
  <2> HIDE DEF T
  <2> QED BY <1>3, <1>4, NatInduct
<1>6. PICK f : DOMAIN f = 1 .. L + 1 /\ \A r \in 1 .. L + 1 : f[r] = Row(f, r)
  <2>1. L + 1 - L = 1
    OBVIOUS
  <2> HIDE DEF Row
  <2> QED BY <1>5, <2>1
<1> DEFINE g == [r \in 1 .. L + 1 |-> f[r]]
<1>8. g = [r \in 1 .. L + 1 |-> Row(g, r)]
  <2>1. ASSUME NEW r \in 1 .. L + 1 PROVE f[r] = Row(g, r)
    <3>1. CASE r = L + 1
      <4> HIDE DEF Row, g
      <4> QED BY <1>2, <1>6, <3>1
    <3>2. CASE r # L + 1
      <4>1. g[r + 1] = f[r + 1]
        BY <3>2
      <4>2. Row(g, r) = Row(f, r)
        BY <4>1
      <4> HIDE DEF Row, g
      <4> QED BY <1>6, <4>2
    <3> QED BY <3>1, <3>2
  <2> HIDE DEF Row
  <2> QED BY <2>1
<1>9. score = [r \in 1 .. L + 1 |-> Row(score, r)]
  <2> HIDE DEF Row, g, L
  <2> QED BY <1>8
<1> HIDE DEF score
<1>10. \A r \in 1 .. L + 1 : score[r] = Row(score, r)
  <2> HIDE DEF Row, L
  <2> QED BY <1>9
<1>11. RowByRow(score, call, route)
  BY <1>10 DEF RowByRow
<1> QED BY <1>1, <1>11

\* A route that spells out what another takes as a parameter scores more, for
\* a call that the other fits.
LEMMA SpecificScoresMore ==
  ASSUME NEW call, NEW e, NEW q, Len(call) \in Nat, Len(e) = Len(call), Len(q) = Len(call),
         \A n \in 1 .. Len(e) : ~e[n].optional /\ (e[n].kind = "rest" => n = Len(e)),
         \A n \in 1 .. Len(call) : q[n] = e[n] \/ (e[n].kind = "param" /\ q[n] = call[n] /\ call[n].kind = "static"),
         \E n \in 1 .. Len(call) : q[n] # e[n]
  PROVE  /\ MatchScore(call, e) \in Int /\ MatchScore(call, q) \in Int
         /\ MatchScore(call, e) >= 0 => MatchScore(call, e) < MatchScore(call, q)
<1> DEFINE L == Len(call)
<1>1. PICK a : MatchScore(call, e) = a[1][1] /\ RowByRow(a, call, e)
  BY ScoresInOrder
<1>2. PICK b : MatchScore(call, q) = b[1][1] /\ RowByRow(b, call, q)
  BY ScoresInOrder
<1>0. \A k \in 1 .. L + 1 : a[k] = ScoreRow(call, e, k, a[k + 1]) /\ b[k] = ScoreRow(call, q, k, b[k + 1])
  BY <1>1, <1>2 DEF RowByRow
<1> DEFINE Here(route, k, rest) ==
             CASE route[k].kind = "rest" -> 0
               [] route[k].kind = "static" -> IF call[k].kind = "static" /\ call[k].value = route[k].value /\ rest >= 0 THEN rest + 1 ELSE -1
               [] OTHER -> rest
<1>3. ASSUME NEW route, Len(route) = L, NEW k \in 1 .. L, route[k].kind = "param" => ~route[k].optional, NEW after
      PROVE  ScoreRow(call, route, k, after)[k] = Here(route, k, after[k + 1])
  BY <1>3 DEF ScoreRow
<1>4. ASSUME NEW route, Len(route) = L, NEW after
      PROVE  ScoreRow(call, route, L + 1, after)[L + 1] = 0
  BY <1>4 DEF ScoreRow
<1>5. a[L + 1][L + 1] = 0 /\ b[L + 1][L + 1] = 0
  <2>1. L + 1 \in 1 .. L + 1
    OBVIOUS
  <2>2. a[L + 1] = ScoreRow(call, e, L + 1, a[L + 1 + 1]) /\ b[L + 1] = ScoreRow(call, q, L + 1, b[L + 1 + 1])
    <3> HIDE DEF L
    <3> QED BY <1>0, <2>1
  <2> QED BY <1>4, <2>2
<1>6. ASSUME NEW k \in 1 .. L
      PROVE  a[k][k] = Here(e, k, a[k + 1][k + 1]) /\ b[k][k] = Here(q, k, b[k + 1][k + 1])
  <2>1. k \in 1 .. L + 1 /\ (e[k].kind = "param" => ~e[k].optional)
    OBVIOUS
  <2>2. q[k].kind = "param" => ~q[k].optional
    BY <2>1
  <2> HIDE DEF L, Here
  <2>3. a[k][k] = Here(e, k, a[k + 1][k + 1])
    BY <1>0, <1>3, <2>1 DEF L
  <2>4. b[k][k] = Here(q, k, b[k + 1][k + 1])
    BY <1>0, <1>3, <2>1, <2>2 DEF L
  <2> QED BY <2>3, <2>4
<1> DEFINE Differ(k) == \E n \in k .. L : q[n] # e[n]
           P(k) == /\ a[k][k] \in Int /\ b[k][k] \in Int
                   /\ a[k][k] >= 0 => a[k][k] <= b[k][k] /\ (Differ(k) => a[k][k] < b[k][k])
           T == {j \in Nat : j <= L => P(L + 1 - j)}
<1>7. P(L + 1)
  BY <1>5
<1>8. ASSUME NEW k \in 1 .. L, P(k + 1) PROVE P(k)
  <2>1. Differ(k) => Differ(k + 1) \/ q[k] # e[k]
    <3> SUFFICES ASSUME NEW n \in k .. L, q[n] # e[n], q[k] = e[k] PROVE Differ(k + 1)
      OBVIOUS
    <3>1. n \in k + 1 .. L
      OBVIOUS
    <3> QED BY <3>1
  <2>2. q[k] = e[k] \/ (e[k].kind = "param" /\ q[k] = call[k] /\ call[k].kind = "static")
    OBVIOUS
  <2>3. e[k].kind = "rest" => ~Differ(k + 1)
    <3> SUFFICES ASSUME e[k].kind = "rest" PROVE k + 1 .. L = {}
      OBVIOUS
    <3>1. k = L
      OBVIOUS
    <3> QED BY <3>1
  <2> DEFINE c == a[k + 1][k + 1]
             d == b[k + 1][k + 1]
  <2>4. /\ c \in Int /\ d \in Int
        /\ c >= 0 => c <= d /\ (Differ(k + 1) => c < d)
    BY <1>8
  <2>5. a[k][k] = Here(e, k, c) /\ b[k][k] = Here(q, k, d)
    BY <1>6
  <2> HIDE DEF c, d, Differ, L
  <2>6. CASE q[k] = e[k]
    BY <2>1, <2>3, <2>4, <2>5, <2>6
  <2>7. CASE q[k] # e[k]
    <3>1. a[k][k] = c
      BY <2>2, <2>5, <2>7
    <3>2. b[k][k] = IF d >= 0 THEN d + 1 ELSE -1
      BY <2>2, <2>5, <2>7
    <3> QED BY <2>4, <3>1, <3>2
  <2> QED BY <2>6, <2>7
<1>9. L \in T
  <2>1. 0 \in T
    BY <1>7
  <2>2. ASSUME NEW j \in Nat, j \in T PROVE j + 1 \in T
    <3> SUFFICES ASSUME j + 1 <= L PROVE P(L + 1 - (j + 1))
      OBVIOUS
    <3>1. P(L + 1 - j)
      <4> HIDE DEF P
      <4> QED BY <2>2
    <3>2. L - j \in 1 .. L /\ L - j + 1 = L + 1 - j /\ L + 1 - (j + 1) = L - j
      OBVIOUS
    <3> HIDE DEF P, L
    <3> QED BY <1>8, <3>1, <3>2
  <2> HIDE DEF T
  <2> QED BY <2>1, <2>2, NatInduct
<1>10. P(1)
  <2>1. L + 1 - L = 1
    OBVIOUS
  <2> HIDE DEF P
  <2> QED BY <1>9, <2>1
<1> QED BY <1>1, <1>2, <1>10
-----------------------------------------------------------------------------
(* What scanning a module gives.                                           *)

\* A list of items, as the checkouts have them.
Listing(items) ==
  /\ Len(items) \in Nat /\ DOMAIN items = 1 .. Len(items) /\ <<>> # Null
  /\ \A n \in DOMAIN items : items[n].arg.e \in {"text", "join"} =>
       /\ items[n].arg.url # Null /\ <<>> \o items[n].arg.url = items[n].arg.url
       /\ \A m \in {l \in DOMAIN items : items[l].k = "call"} :
            Null \notin [method : Verbs \cup {items[m].method}, segments : {items[n].arg.url}]

UrlAt(items, nm, n, relative) ==
  IF MentionsBase(nm, Declared(items, nm), n, items[n].arg) THEN <<>>
  ELSE UrlTokens(nm, Declared(items, nm), n, items[n].arg, relative)
UrlsOf(items, nm) == [n \in DOMAIN items |-> [relative \in BOOLEAN |-> UrlAt(items, nm, n, relative)]]
AskedOf(items, nm, context, creates) ==
  [n \in {m \in DOMAIN items : items[m].k = "call"} |-> Request(items[n], UrlsOf(items, nm)[n], context, creates)]
MadeOf(asked) == {n \in DOMAIN asked : asked[n].segments # Null}
UsedBy(items, declared, made) == made \cup {d.at : d \in Consumed(items, declared, made)}
LeftOf(items, declared, urls, made) ==
  {n \in DOMAIN items \ UsedBy(items, declared, made) : items[n].arg.e = "join" /\ urls[n][FALSE] # Null}
CallOf(asked, urls, made, n) ==
  IF n \in made THEN BuildUrlCall(asked[n].method, asked[n].segments, TRUE)
  ELSE BuildUrlCall(Null, urls[n][FALSE], FALSE)

\* The calls gathered of a file: those made, and the URLs left over.
LEMMA GatheredAre ==
  ASSUME NEW items, NEW declared, NEW urls, NEW asked, NEW made, made = MadeOf(asked),
         NEW all, all = Gathered(items, declared, urls, asked)
  PROVE  /\ \A n : n \in DOMAIN all <=> n \in made \cup LeftOf(items, declared, urls, made) /\ CallOf(asked, urls, made, n) # Null
         /\ \A n \in DOMAIN all : all[n] = CallOf(asked, urls, made, n)
<1> DEFINE S == made \cup LeftOf(items, declared, urls, made)
           f == [n \in S |-> CallOf(asked, urls, made, n)]
<1>1. all = [n \in {m \in DOMAIN f : f[m] # Null} |-> f[n]]
  BY DEF Gathered, MadeOf, LeftOf, UsedBy, CallOf
<1> HIDE DEF S
<1>2. \A n : n \in DOMAIN all <=> n \in S /\ CallOf(asked, urls, made, n) # Null
  BY <1>1
<1> QED BY <1>1, <1>2 DEF S

\* A scan gathers the calls of the items as they are asked for.
LEMMA ScanIs ==
  ASSUME NEW items, NEW nm, NEW context, NEW creates
  PROVE  Scan(items, nm, context, creates) =
           Gathered(items, Declared(items, nm), UrlsOf(items, nm), AskedOf(items, nm, context, creates))
BY DEF Scan, UrlsOf, UrlAt, AskedOf

\* What a call asks for is the URL of its argument, or the text it has.
Asks(a, c, url, relative, context, creates) ==
  /\ \/ a.segments \in {url, relative}
     \/ c.arg.e = "text" /\ a.segments = c.arg.url
  /\ a.method \in Verbs \cup {c.method}
  /\ c.on # Null /\ c.on \notin DOMAIN context.receivers /\ url = Null => context.importsClient \/ creates

\* What a call asks for.
LEMMA RequestOf ==
  ASSUME NEW c, NEW url, NEW context, NEW creates, NEW a, a = Request(c, url, context, creates)
  PROVE  a.segments = Null \/ Asks(a, c, url[FALSE], url[TRUE], context, creates)
<1> SUFFICES ASSUME a.segments # Null
             PROVE  /\ \/ a.segments \in {url[FALSE], url[TRUE]}
                       \/ c.arg.e = "text" /\ a.segments = c.arg.url
                    /\ a.method \in Verbs \cup {c.method}
                    /\ c.on # Null /\ c.on \notin DOMAIN context.receivers /\ url[FALSE] = Null
                         => context.importsClient \/ creates
  BY DEF Asks
<1> DEFINE helper == IF c.on = Null THEN c.name \in context.functions
                     ELSE c.on \in DOMAIN context.receivers /\ c.name \in context.receivers[c.on]
           verb   == c.on # Null /\ c.name \in Verbs
           relative == c.on # "axios" /\ (context.importsClient \/ creates)
<1>1. CASE helper
  <2>1. /\ a.method = IF c.name \in Verbs THEN c.name ELSE c.method
        /\ a.segments = IF url[FALSE] = Null /\ c.arg.e = "text" THEN c.arg.url ELSE url[FALSE]
    BY <1>1 DEF Request
  <2>2. c.on # Null => c.on \in DOMAIN context.receivers
    BY <1>1
  <2> HIDE DEF helper
  <2> QED BY <2>1, <2>2
<1>2. CASE ~helper /\ c.on = Null /\ c.name = "fetch"
  <2>1. a.method = (IF c.method = Null THEN "get" ELSE c.method) /\ a.segments = url[FALSE]
    BY <1>2 DEF Request
  <2> HIDE DEF helper
  <2> QED BY <1>2, <2>1 DEF Verbs
<1>3. CASE ~helper /\ ~(c.on = Null /\ c.name = "fetch") /\ verb
  <2>1. a.method = c.name /\ a.segments = url[relative] /\ c.name \in Verbs
    BY <1>3 DEF Request
  <2>2. CASE relative
    <3>1. url[relative] = url[TRUE] /\ (context.importsClient \/ creates)
      <4>1. relative = TRUE
        BY <2>2
      <4> QED BY <2>2, <4>1
    <3> HIDE DEF helper, verb, relative
    <3> QED BY <2>1, <3>1
  <2>3. CASE ~relative
    <3>1. url[relative] = url[FALSE]
      <4>1. relative = FALSE
        BY <2>3
      <4> QED BY <4>1
    <3> HIDE DEF helper, verb, relative
    <3> QED BY <2>1, <3>1
  <2> QED BY <2>2, <2>3
<1>4. CASE ~helper /\ ~(c.on = Null /\ c.name = "fetch") /\ ~verb
  <2>1. a.method = c.method /\ a.segments = IF c.method = Null THEN Null ELSE url[FALSE]
    BY <1>4 DEF Request
  <2> HIDE DEF helper, verb
  <2> QED BY <2>1
<1> QED BY <1>1, <1>2, <1>3, <1>4

\* The calls that a request and a URL no request uses make, and the URL of an
\* expression or of an item.
UsedCall(method, segments) == BuildUrlCall(method, segments, TRUE)
LoneCall(segments) == BuildUrlCall(Null, segments, FALSE)
BaseTokens(nm, declared, n, x) == UrlTokens(nm, declared, n, x, FALSE)
BaseUrl(items, nm, n) == UrlAt(items, nm, n, FALSE)
AnyUrl(items, nm, n) == UrlAt(items, nm, n, TRUE)

\* A call built has the method and the segments it was built of.
LEMMA CallBuilt ==
  ASSUME NEW m, NEW s
  PROVE  /\ UsedCall(m, s) # Null => UsedCall(m, s) = [method |-> m, segments |-> s]
         /\ LoneCall(s) # Null => LoneCall(s) = [method |-> Null, segments |-> s] /\ UsedCall(m, s) = [method |-> m, segments |-> s]
BY DEF BuildUrlCall, UsedCall, LoneCall

\* The URL at an item, by the kind of its argument.
LEMMA UrlAtOf ==
  ASSUME NEW items, Listing(items), NEW nm, NEW n \in DOMAIN items, NEW relative \in BOOLEAN
  PROVE  LET x == items[n].arg
             url == UrlAt(items, nm, n, relative)
         IN /\ x.e = "text" => url \in {Null, x.url} /\ (~relative => url = Null)
            /\ x.e = "join" /\ x.of.e = "base" => url = IF x.of.name \in nm THEN x.url ELSE Null
<1> DEFINE x == items[n].arg
           D == Declared(items, nm)
           url == UrlAt(items, nm, n, relative)
<1>1. ASSUME x.e = "text" PROVE url \in {Null, x.url} /\ (~relative => url = Null)
  <2>1. Simple(x)
    BY <1>1 DEF Simple
  <2>2. ~MentionsBase(nm, D, n, x)
    BY <1>1, <2>1, BaseOfSimple
  <2>3. UrlTokens(nm, D, n, x, relative) = IF relative /\ x.name = "/" THEN x.url ELSE Null
    BY <1>1, <2>1, UrlOfSimple
  <2> QED BY <2>2, <2>3 DEF UrlAt
<1>2. ASSUME x.e = "join", x.of.e = "base" PROVE url = IF x.of.name \in nm THEN x.url ELSE Null
  <2>1. Simple(x)
    BY <1>2 DEF Simple
  <2>2. MentionsBase(nm, D, n, x) <=> x.url = <<>> /\ x.of.name \in nm
    BY <1>2, <2>1, BaseOfSimple
  <2>3. UrlTokens(nm, D, n, x, relative) = IF x.of.name \in nm THEN <<>> \o x.url ELSE Null
    BY <1>2, <2>1, UrlOfSimple
  <2>4. <<>> \o x.url = x.url
    BY <1>2 DEF Listing
  <2> QED BY <2>2, <2>3, <2>4 DEF UrlAt
<1> QED BY <1>1, <1>2

\* The requests of a module, and what each item makes.
MadeIn(items, nm, context, creates) == MadeOf(AskedOf(items, nm, context, creates))
CallAt(items, nm, context, creates, n) ==
  CallOf(AskedOf(items, nm, context, creates), UrlsOf(items, nm), MadeIn(items, nm, context, creates), n)

\* The items a scan has a call of.
LEMMA ScanParts ==
  ASSUME NEW items, NEW nm, NEW context, NEW creates, NEW all, all = Scan(items, nm, context, creates),
         NEW made, made = MadeIn(items, nm, context, creates),
         NEW rest, rest = LeftOf(items, Declared(items, nm), UrlsOf(items, nm), made)
  PROVE  /\ \A n : n \in DOMAIN all <=> n \in made \cup rest /\ CallAt(items, nm, context, creates, n) # Null
         /\ \A n \in DOMAIN all : all[n] = CallAt(items, nm, context, creates, n)
<1> DEFINE asked == AskedOf(items, nm, context, creates)
           urls == UrlsOf(items, nm)
           D == Declared(items, nm)
<1>1. made = MadeOf(asked) /\ all = Gathered(items, D, urls, asked)
  BY ScanIs DEF MadeIn
<1>2. \A n : CallAt(items, nm, context, creates, n) = CallOf(asked, urls, made, n)
  BY <1>1 DEF CallAt, MadeIn
<1>3. rest = LeftOf(items, D, urls, made)
  OBVIOUS
<1> HIDE DEF asked, urls, D
<1> QED BY <1>1, <1>2, <1>3, GatheredAre

\* A call made: what its item asks for.
LEMMA MadeAre ==
  ASSUME NEW items, Listing(items), NEW nm, NEW context, NEW creates, NEW n \in MadeIn(items, nm, context, creates)
  PROVE  /\ n \in DOMAIN items /\ items[n].k = "call"
         /\ \E a : /\ a.segments # Null
                   /\ CallAt(items, nm, context, creates, n) = UsedCall(a.method, a.segments)
                   /\ Asks(a, items[n], BaseUrl(items, nm, n), AnyUrl(items, nm, n), context, creates)
<1> DEFINE asked == AskedOf(items, nm, context, creates)
           u == UrlsOf(items, nm)[n]
<1>1. n \in DOMAIN items /\ items[n].k = "call" /\ asked[n].segments # Null
  BY DEF MadeIn, MadeOf, AskedOf
<1>2. asked[n] = Request(items[n], u, context, creates)
  BY <1>1 DEF AskedOf
<1>3. u[FALSE] = BaseUrl(items, nm, n) /\ u[TRUE] = AnyUrl(items, nm, n)
  BY <1>1 DEF UrlsOf, BaseUrl, AnyUrl
<1>4. CallAt(items, nm, context, creates, n) = UsedCall(asked[n].method, asked[n].segments)
  BY DEF CallAt, CallOf, UsedCall
<1> DEFINE a == asked[n]
<1>5. a.segments # Null /\ a = Request(items[n], u, context, creates)
      /\ CallAt(items, nm, context, creates, n) = UsedCall(a.method, a.segments)
  BY <1>1, <1>2, <1>4
<1> HIDE DEF a, u
<1>6. Asks(a, items[n], u[FALSE], u[TRUE], context, creates)
  BY <1>5, RequestOf
<1> HIDE DEF asked
<1> QED BY <1>1, <1>3, <1>5, <1>6

\* A URL left over: it begins with the base, and no call was made of it.
LEMMA RestAre ==
  ASSUME NEW items, NEW nm, NEW context, NEW creates, NEW n \in DOMAIN items, NEW made, n \notin made,
         made = MadeIn(items, nm, context, creates)
  PROVE  /\ CallAt(items, nm, context, creates, n) = LoneCall(BaseUrl(items, nm, n))
         /\ n \in LeftOf(items, Declared(items, nm), UrlsOf(items, nm), made) <=>
              /\ n \notin UsedBy(items, Declared(items, nm), made)
              /\ items[n].arg.e = "join" /\ BaseUrl(items, nm, n) # Null
<1>1. UrlsOf(items, nm)[n][FALSE] = BaseUrl(items, nm, n)
  BY DEF UrlsOf, BaseUrl
<1> QED BY <1>1 DEF CallAt, CallOf, LeftOf, LoneCall

\* What a scan says of an item that writes a URL out.
LEMMA ScanFits ==
  ASSUME NEW items, Listing(items), NEW nm, NEW context, NEW creates,
         NEW all, all = Scan(items, nm, context, creates), NEW n \in DOMAIN all
  PROVE  /\ n \in DOMAIN items
         /\ items[n].arg.e = "text" \/ (items[n].arg.e = "join" /\ items[n].arg.of.e = "base")
              => all[n].segments = items[n].arg.url
         /\ items[n].k = "call" /\ items[n].arg.e = "text" /\ items[n].on # Null /\ items[n].on \notin DOMAIN context.receivers
              => context.importsClient \/ creates
<1> DEFINE made == MadeIn(items, nm, context, creates)
           rest == LeftOf(items, Declared(items, nm), UrlsOf(items, nm), made)
           call == CallAt(items, nm, context, creates, n)
           x == items[n].arg
<1>1. n \in made \cup rest /\ call # Null /\ all[n] = call
  BY ScanParts
<1>2. n \in DOMAIN items
  BY <1>1, MadeAre DEF LeftOf
<1> DEFINE f == BaseUrl(items, nm, n)
           g == AnyUrl(items, nm, n)
<1>3. /\ x.e = "text" => f = Null /\ g \in {Null, x.url}
      /\ x.e = "join" /\ x.of.e = "base" => f \in {Null, x.url} /\ g \in {Null, x.url}
  BY <1>2, UrlAtOf DEF BaseUrl, AnyUrl
<1>4. CASE n \in made
  <2>1. PICK a : /\ a.segments # Null /\ call = UsedCall(a.method, a.segments)
                 /\ Asks(a, items[n], f, g, context, creates)
    BY <1>4, MadeAre
  <2>2. call = [method |-> a.method, segments |-> a.segments]
    <3> HIDE DEF call
    <3> QED BY <1>1, <2>1, CallBuilt
  <2>3. all[n].segments = a.segments
    BY <1>1, <2>2
  <2> HIDE DEF call, f, g, made
  <2> QED BY <1>2, <1>3, <2>1, <2>3 DEF Asks
<1>5. CASE n \notin made
  <2>1. x.e = "join" /\ f # Null /\ call = LoneCall(f)
    <3>1. n \in rest
      BY <1>1, <1>5
    <3> QED BY <1>2, <1>5, <3>1, RestAre
  <2>2. call = [method |-> Null, segments |-> f]
    <3> HIDE DEF call, f
    <3> QED BY <1>1, <2>1, CallBuilt
  <2>3. all[n].segments = f
    BY <1>1, <2>2
  <2> HIDE DEF call, f, g, made
  <2> QED BY <1>2, <1>3, <2>1, <2>3
<1> QED BY <1>4, <1>5

-----------------------------------------------------------------------------
(* The variables declared in a file (declare, lookup)                      *)

\* Numbers in a range have a greatest one.
LEMMA Greatest ==
  ASSUME NEW N \in Nat, NEW S, S \subseteq 0 .. N, S # {}
  PROVE  \E s \in S : \A t \in S : t <= s
<1> SUFFICES ASSUME \A s \in S : \E t \in S : ~(t <= s) PROVE FALSE
  OBVIOUS
<1> DEFINE T == {k \in Nat : \E s \in S : k <= s}
<1>1. 0 \in T
  <2>1. PICK s \in S : TRUE
    OBVIOUS
  <2>2. 0 <= s
    BY <2>1
  <2> QED BY <2>1, <2>2
<1>2. ASSUME NEW n \in Nat, n \in T PROVE n + 1 \in T
  <2>1. PICK s \in S : n <= s
    BY <1>2
  <2>2. PICK t \in S : ~(t <= s)
    OBVIOUS
  <2>3. n + 1 <= t
    BY <2>1, <2>2
  <2> QED BY <2>3
<1> HIDE DEF T
<1>3. N + 1 \in T
  BY <1>1, <1>2, NatInduct
<1> QED BY <1>3 DEF T

\* The variable a name stands for: of those visible, the last declared.
Visible(d, name, n) == d.name = name /\ d.at < n /\ n <= d.until

\* A lookup finds a visible variable, and none declared later is visible.
LEMMA LookedUp ==
  ASSUME NEW N \in Nat, NEW declared, \A d \in declared : d.at \in 0 .. N,
         NEW name, NEW n, NEW d, d = Lookup(declared, name, n), d # Null
  PROVE  /\ d \in declared /\ Visible(d, name, n)
         /\ \A o \in declared : Visible(o, name, n) => o.at <= d.at
<1> DEFINE V == {o \in declared : o.name = name /\ o.at < n /\ n <= o.until}
           S == {o.at : o \in V}
<1>1. V # {} /\ d = CHOOSE x \in V : \A o \in V : o.at <= x.at
  BY DEF Lookup
<1>2. S # {} /\ S \subseteq 0 .. N
  BY <1>1
<1>3. \E s \in S : \A t \in S : t <= s
  <2> HIDE DEF S
  <2> QED BY <1>2, Greatest
<1>4. \E x \in V : \A o \in V : o.at <= x.at
  BY <1>3
<1> HIDE DEF V
<1>5. d \in V /\ \A o \in V : o.at <= d.at
  BY <1>1, <1>4
<1> QED BY <1>5 DEF V, Visible

\* What is declared at an item, and by it.
LEMMA DeclareCases ==
  ASSUME NEW items, NEW nm, NEW known, NEW n,
         NEW url, url = BaseTokens(nm, known, n, items[n].arg)
  PROVE  \E one, other :
           /\ one = [name |-> items[n].name, at |-> n, until |-> items[n].until, kind |-> "alias", url |-> <<>>]
           /\ other = [name |-> items[n].name, at |-> n, until |-> items[n].until, kind |-> "url", url |-> url]
           /\ Declare(items, nm, known, n) =
                IF items[n].k # "let" THEN {}
                ELSE IF MentionsBase(nm, known, n, items[n].arg) THEN {one} ELSE IF url # Null THEN {other} ELSE {}
BY DEF Declare, BaseTokens

\* A declaration is of the item it stands at.
LEMMA DeclareIs ==
  ASSUME NEW items, NEW nm, NEW known, NEW n, NEW d, d \in Declare(items, nm, known, n)
  PROVE  /\ d.at = n /\ items[n].k = "let" /\ d.name = items[n].name /\ d.until = items[n].until
         /\ d.kind = "url" => d.url = BaseTokens(nm, known, n, items[n].arg)
<1> DEFINE url == BaseTokens(nm, known, n, items[n].arg)
<1>1. PICK one, other :
           /\ one = [name |-> items[n].name, at |-> n, until |-> items[n].until, kind |-> "alias", url |-> <<>>]
           /\ other = [name |-> items[n].name, at |-> n, until |-> items[n].until, kind |-> "url", url |-> url]
           /\ Declare(items, nm, known, n) =
                IF items[n].k # "let" THEN {}
                ELSE IF MentionsBase(nm, known, n, items[n].arg) THEN {one} ELSE IF url # Null THEN {other} ELSE {}
  BY DeclareCases
<1> HIDE DEF url
<1>2. items[n].k = "let" /\ (d = one \/ d = other)
  BY <1>1
<1>3. /\ one.at = n /\ one.name = items[n].name /\ one.until = items[n].until /\ one.kind # "url"
      /\ other.at = n /\ other.name = items[n].name /\ other.until = items[n].until /\ other.url = url
  BY <1>1
<1>4. CASE d = one
  BY <1>2, <1>3, <1>4
<1>5. CASE d = other
  BY <1>2, <1>3, <1>5 DEF url
<1> QED BY <1>2, <1>4, <1>5

\* An item that writes a URL to a variable declares it.
LEMMA DeclareDoes ==
  ASSUME NEW items, NEW nm, NEW known, NEW n,
         items[n].k = "let", BaseTokens(nm, known, n, items[n].arg) # Null
  PROVE  \E d \in Declare(items, nm, known, n) : d.at = n /\ d.name = items[n].name /\ d.until = items[n].until
<1> DEFINE url == BaseTokens(nm, known, n, items[n].arg)
<1>1. PICK one, other :
           /\ one = [name |-> items[n].name, at |-> n, until |-> items[n].until, kind |-> "alias", url |-> <<>>]
           /\ other = [name |-> items[n].name, at |-> n, until |-> items[n].until, kind |-> "url", url |-> url]
           /\ Declare(items, nm, known, n) =
                IF items[n].k # "let" THEN {}
                ELSE IF MentionsBase(nm, known, n, items[n].arg) THEN {one} ELSE IF url # Null THEN {other} ELSE {}
  BY DeclareCases
<1>2. url # Null
  OBVIOUS
<1> HIDE DEF url
<1>3. one \in Declare(items, nm, known, n) \/ other \in Declare(items, nm, known, n)
  BY <1>1, <1>2
<1>4. /\ one.at = n /\ one.name = items[n].name /\ one.until = items[n].until
      /\ other.at = n /\ other.name = items[n].name /\ other.until = items[n].until
  BY <1>1
<1> QED BY <1>3, <1>4

\* Every declaration is one some item makes, and each item makes its own.
LEMMA DeclaredAre ==
  ASSUME NEW items, NEW N \in Nat, N = Len(items), NEW nm
  PROVE  /\ \A d \in Declared(items, nm) : \E n \in 1 .. N : \E known : d \in Declare(items, nm, known, n)
         /\ \A n \in 1 .. N : \E known : Declare(items, nm, known, n) \subseteq Declared(items, nm)
<1>1. PICK upTo : Declared(items, nm) = upTo[N] /\ InOrder(upTo, items, nm, N)
  BY DeclaredInOrder
<1>2. /\ upTo[0] = {}
      /\ \A n \in 1 .. N : upTo[n] = upTo[n - 1] \cup Declare(items, nm, upTo[n - 1], n)
  BY <1>1 DEF InOrder
<1> DEFINE From(d) == \E n \in 1 .. N : \E known : d \in Declare(items, nm, known, n)
           T == {k \in Nat : k <= N => /\ \A d \in upTo[k] : From(d)
                                       /\ \A n \in 1 .. k : \E known : Declare(items, nm, known, n) \subseteq upTo[k]}
<1>3. 0 \in T
  <2>1. 1 .. 0 = {}
    OBVIOUS
  <2> QED BY <1>2, <2>1
<1>4. ASSUME NEW k \in Nat, k \in T PROVE k + 1 \in T
  <2> SUFFICES ASSUME k + 1 <= N
               PROVE  /\ \A d \in upTo[k + 1] : From(d)
                      /\ \A n \in 1 .. k + 1 : \E known : Declare(items, nm, known, n) \subseteq upTo[k + 1]
    OBVIOUS
  <2>1. k + 1 \in 1 .. N /\ k + 1 - 1 = k /\ k <= N
    OBVIOUS
  <2>2. upTo[k + 1] = upTo[k] \cup Declare(items, nm, upTo[k], k + 1)
    BY <1>2, <2>1
  <2>3. /\ \A d \in upTo[k] : From(d)
        /\ \A n \in 1 .. k : \E known : Declare(items, nm, known, n) \subseteq upTo[k]
    BY <1>4, <2>1
  <2>4. \A d \in Declare(items, nm, upTo[k], k + 1) : From(d)
    BY <2>1
  <2>5. \A d \in upTo[k + 1] : From(d)
    <3> HIDE DEF From
    <3> QED BY <2>2, <2>3, <2>4
  <2>6. ASSUME NEW n \in 1 .. k + 1 PROVE \E known : Declare(items, nm, known, n) \subseteq upTo[k + 1]
    <3>1. CASE n = k + 1
      BY <2>2, <3>1
    <3>2. CASE n # k + 1
      <4>1. n \in 1 .. k
        BY <3>2
      <4> QED BY <2>2, <2>3, <4>1
    <3> QED BY <3>1, <3>2
  <2> QED BY <2>5, <2>6
<1>5. N \in T
  <2> HIDE DEF T
  <2> QED BY <1>3, <1>4, NatInduct
<1> QED BY <1>1, <1>5

-----------------------------------------------------------------------------
(* What a scan finds (scan)                                                *)

\* A URL an item writes is what it stands for, and a request made of it has a
\* route.
LEMMA WrittenIs ==
  ASSUME NEW items, Listing(items), NEW b, NEW n \in DOMAIN items, Writes(b, items[n])
  PROVE  /\ items[n].arg.url # Null /\ LoneCall(items[n].arg.url) # Null
         /\ <<>> \o items[n].arg.url = items[n].arg.url
         /\ items[n].arg.e = "join" /\ items[n].arg.of.e = "base" /\ items[n].arg.of.name \in Recipe[b].baseNames
BY DEF Writes, Listing, LoneCall

\* What a base joined with a path, and a name, stand for.
LEMMA TokensOfJoin ==
  ASSUME NEW x, Simple(x), x.e = "join", NEW nm, NEW declared, NEW n, NEW relative \in BOOLEAN
  PROVE  UrlTokens(nm, declared, n, x, relative) = IF x.of.name \in nm THEN <<>> \o x.url ELSE Null
BY UrlOfSimple

LEMMA TokensOfName ==
  ASSUME NEW x, Simple(x), x.e = "name", NEW nm, NEW declared, NEW n, NEW relative \in BOOLEAN,
         NEW d, d = Lookup(declared, x.name, n), d # Null, d.kind = "url"
  PROVE  UrlTokens(nm, declared, n, x, relative) = d.url
BY UrlOfSimple

\* So is the URL at that item,
LEMMA WrittenAt ==
  ASSUME NEW items, Listing(items), NEW b, NEW nm, nm = Recipe[b].baseNames, NEW n \in DOMAIN items, Writes(b, items[n])
  PROVE  BaseUrl(items, nm, n) = items[n].arg.url /\ AnyUrl(items, nm, n) = items[n].arg.url
<1> DEFINE x == items[n].arg
<1>1. x.e = "join" /\ x.of.e = "base" /\ x.of.name \in nm
  BY WrittenIs
<1>2. ASSUME NEW relative \in BOOLEAN PROVE UrlAt(items, nm, n, relative) = x.url
  <2> DEFINE url == UrlAt(items, nm, n, relative)
  <2>1. x.e = "join" /\ x.of.e = "base" => url = IF x.of.name \in nm THEN x.url ELSE Null
    BY UrlAtOf
  <2> HIDE DEF url
  <2>2. url = x.url
    BY <1>1, <2>1
  <2> QED BY <2>2 DEF url
<1> QED BY <1>2 DEF BaseUrl, AnyUrl

\* and the one its variable stands for,
LEMMA WrittenTokens ==
  ASSUME NEW items, Listing(items), NEW b, NEW nm, nm = Recipe[b].baseNames, NEW n \in DOMAIN items, Writes(b, items[n]), NEW known
  PROVE  BaseTokens(nm, known, n, items[n].arg) = items[n].arg.url
<1> DEFINE x == items[n].arg
<1>1. x.e = "join" /\ x.of.e = "base" /\ x.of.name \in nm
  BY WrittenIs
<1>2. Simple(x)
  BY <1>1 DEF Simple
<1>3. UrlTokens(nm, known, n, x, FALSE) = IF x.of.name \in nm THEN <<>> \o x.url ELSE Null
  <2> HIDE DEF x
  <2> QED BY <1>1, <1>2, TokensOfJoin
<1>4. <<>> \o x.url = x.url
  BY WrittenIs
<1> QED BY <1>1, <1>3, <1>4 DEF BaseTokens

\* and a call that uses it is a request.
LEMMA WrittenCall ==
  ASSUME NEW items, Listing(items), NEW b, NEW n \in DOMAIN items, Writes(b, items[n]),
         NEW m \in DOMAIN items, items[m].k = "call", NEW verb \in Verbs \cup {items[m].method}
  PROVE  UsedCall(verb, items[n].arg.url) # Null
<1> DEFINE url == items[n].arg.url
<1>1. UsedCall(verb, url) = [method |-> verb, segments |-> url]
  BY WrittenIs, CallBuilt
<1>2. [method |-> verb, segments |-> url] \in [method : Verbs \cup {items[m].method}, segments : {url}]
  OBVIOUS
<1>3. Null \notin [method : Verbs \cup {items[m].method}, segments : {url}]
  <2>1. items[n].arg.e \in {"text", "join"} /\ m \in {l \in DOMAIN items : items[l].k = "call"}
    BY WrittenIs
  <2> QED BY <2>1 DEF Listing
<1> QED BY <1>1, <1>2, <1>3

\* A call made whose argument stands for such a URL is a request.
LEMMA MadeIsFound ==
  ASSUME NEW items, Listing(items), NEW b, NEW nm, nm = Recipe[b].baseNames, NEW context, NEW creates,
         NEW all, all = Scan(items, nm, context, creates),
         NEW n \in DOMAIN items, Writes(b, items[n]), NEW m, m \in MadeIn(items, nm, context, creates),
         items[m].arg.e # "text", BaseUrl(items, nm, m) = items[n].arg.url, AnyUrl(items, nm, m) = items[n].arg.url
  PROVE  m \in DOMAIN all
<1> DEFINE made == MadeIn(items, nm, context, creates)
           rest == LeftOf(items, Declared(items, nm), UrlsOf(items, nm), made)
           call == CallAt(items, nm, context, creates, m)
           f == BaseUrl(items, nm, m)
           g == AnyUrl(items, nm, m)
<1>1. m \in DOMAIN items /\ items[m].k = "call"
  BY MadeAre
<1>2. PICK a : /\ a.segments # Null /\ call = UsedCall(a.method, a.segments)
               /\ Asks(a, items[m], f, g, context, creates)
  BY MadeAre
<1>3. f = items[n].arg.url /\ g = items[n].arg.url
  OBVIOUS
<1> HIDE DEF call, f, g
<1>4. a.segments = items[n].arg.url /\ a.method \in Verbs \cup {items[m].method}
  BY <1>2, <1>3 DEF Asks
<1>5. call # Null
  BY <1>1, <1>2, <1>4, WrittenCall
<1>6. m \in made \cup rest
  OBVIOUS
<1> HIDE DEF made, rest
<1> QED BY <1>5, <1>6, ScanParts DEF call, made, rest

\* A request whose argument is the variable with what an earlier item wrote.
NamesUrl(items, nm, n, m, d) ==
  /\ items[m].arg.e = "name" /\ d = Lookup(Declared(items, nm), items[m].arg.name, m) /\ d # Null
  /\ d.kind = "url" /\ d.at = n /\ d.url = items[n].arg.url
  /\ items[n].k = "let" /\ items[m].arg.name = items[n].name /\ n < m /\ m <= items[n].until
  /\ \A o \in Declared(items, nm) : Visible(o, items[n].name, m) => o.at <= n

\* The request that used a URL names the variable that holds it.
LEMMA UserIs ==
  ASSUME NEW items, Listing(items), NEW b, NEW nm, nm = Recipe[b].baseNames, NEW made,
         NEW n \in DOMAIN items, Writes(b, items[n]), n \notin made, n \in UsedBy(items, Declared(items, nm), made)
  PROVE  \E m \in made : \E d : NamesUrl(items, nm, n, m, d)
<1> DEFINE D == Declared(items, nm)
<1>1. PICK d \in Consumed(items, D, made) : d.at = n
  BY DEF UsedBy
<1>2. PICK m \in made : items[m].arg.e = "name" /\ d = Lookup(D, items[m].arg.name, m)
  BY DEF Consumed
<1>3. d # Null /\ d.kind = "url"
  BY DEF Consumed
<1>4. Len(items) \in Nat
  BY DEF Listing
<1>5. \A o \in D : o.at \in 0 .. Len(items)
  <2> SUFFICES ASSUME NEW o \in D PROVE o.at \in 0 .. Len(items)
    OBVIOUS
  <2>1. PICK l \in 1 .. Len(items) : \E known : o \in Declare(items, nm, known, l)
    BY <1>4, DeclaredAre
  <2>2. o.at = l
    BY <2>1, DeclareIs
  <2> QED BY <1>4, <2>2
<1>6. /\ d \in D /\ Visible(d, items[m].arg.name, m)
      /\ \A o \in D : Visible(o, items[m].arg.name, m) => o.at <= d.at
  <2> HIDE DEF D
  <2> QED BY <1>2, <1>3, <1>4, <1>5, LookedUp
<1>7. PICK l \in 1 .. Len(items) : \E known : d \in Declare(items, nm, known, l)
  BY <1>4, <1>6, DeclaredAre
<1>8. PICK known : d \in Declare(items, nm, known, l)
  BY <1>7
<1>9. /\ d.at = l /\ items[l].k = "let" /\ d.name = items[l].name /\ d.until = items[l].until
      /\ d.url = BaseTokens(nm, known, l, items[l].arg)
  BY <1>3, <1>8, DeclareIs
<1>10. d.url = items[n].arg.url
  BY <1>1, <1>9, WrittenTokens
<1>11. d.name = items[m].arg.name /\ n < m /\ m <= d.until
  BY <1>1, <1>6 DEF Visible
<1>12. l = n
  BY <1>1, <1>9
<1>13. items[n].k = "let" /\ items[m].arg.name = items[n].name /\ m <= items[n].until
  BY <1>9, <1>11, <1>12
<1>14. \A o \in D : Visible(o, items[n].name, m) => o.at <= n
  BY <1>1, <1>6, <1>13
<1>15. NamesUrl(items, nm, n, m, d)
  BY <1>1, <1>2, <1>3, <1>10, <1>11, <1>13, <1>14 DEF NamesUrl
<1> QED BY <1>15

\* Every URL an item writes is found: where it is written, or at a request
\* that uses its variable (scan).
LEMMA ScanFinds ==
  ASSUME NEW items, Listing(items), NEW b, NEW nm, nm = Recipe[b].baseNames, NEW context, NEW creates,
         NEW all, all = Scan(items, nm, context, creates), NEW n \in DOMAIN items, Writes(b, items[n])
  PROVE  n \in DOMAIN all \/ \E m \in DOMAIN items : UsedAt(b, items, n, m) /\ m \in DOMAIN all
<1> DEFINE made == MadeIn(items, nm, context, creates)
           D == Declared(items, nm)
           rest == LeftOf(items, D, UrlsOf(items, nm), made)
           x == items[n].arg
<1>1. x.e = "join"
  BY DEF Writes
<1>2. CASE n \in made
  <2>1. BaseUrl(items, nm, n) = x.url /\ AnyUrl(items, nm, n) = x.url
    BY WrittenAt
  <2>2. items[n].arg.e # "text"
    BY <1>1
  <2>3. n \in DOMAIN all
    BY <1>2, <2>1, <2>2, MadeIsFound
  <2> QED BY <2>3
<1>3. CASE n \notin made /\ n \notin UsedBy(items, D, made)
  <2>1. BaseUrl(items, nm, n) = x.url /\ x.url # Null
    BY WrittenIs, WrittenAt
  <2>2. CallAt(items, nm, context, creates, n) = LoneCall(x.url) /\ n \in rest
    BY <1>1, <1>3, <2>1, RestAre
  <2>3. CallAt(items, nm, context, creates, n) # Null
    BY <2>2, WrittenIs
  <2> QED BY <2>2, <2>3, ScanParts
<1>4. CASE n \notin made /\ n \in UsedBy(items, D, made)
  <2>1. \E m \in made : \E d : NamesUrl(items, nm, n, m, d)
    <3> HIDE DEF made
    <3> QED BY <1>4, UserIs
  <2> HIDE DEF made
  <2>m. PICK m \in made : \E d : NamesUrl(items, nm, n, m, d)
    BY <2>1
  <2>d. PICK d : NamesUrl(items, nm, n, m, d)
    BY <2>m
  <2>2. /\ items[m].arg.e = "name" /\ d = Lookup(D, items[m].arg.name, m) /\ d # Null
        /\ d.kind = "url" /\ d.at = n /\ d.url = x.url
        /\ items[n].k = "let" /\ items[m].arg.name = items[n].name /\ n < m /\ m <= items[n].until
        /\ \A o \in D : Visible(o, items[n].name, m) => o.at <= n
    BY <2>d DEF NamesUrl
  <2> USE DEF made
  <2>3. m \in DOMAIN items /\ items[m].k = "call"
    BY MadeAre
  <2>4. items[n].name \notin nm
    BY <2>2 DEF Writes
  <2>5. BaseUrl(items, nm, m) = x.url /\ AnyUrl(items, nm, m) = x.url
    <3> SUFFICES ASSUME NEW relative \in BOOLEAN PROVE UrlAt(items, nm, m, relative) = x.url
      BY DEF BaseUrl, AnyUrl
    <3>1. Simple(items[m].arg)
      BY <2>2 DEF Simple
    <3>2. ~MentionsBase(nm, D, m, items[m].arg)
      BY <2>2, <2>4, <3>1, BaseOfSimple
    <3>3. UrlTokens(nm, D, m, items[m].arg, relative) = d.url
      <4> DEFINE y == items[m].arg
      <4>1. Simple(y) /\ y.e = "name" /\ d = Lookup(D, y.name, m) /\ d # Null /\ d.kind = "url"
        BY <2>2, <3>1
      <4> HIDE DEF y, D
      <4>2. UrlTokens(nm, D, m, y, relative) = d.url
        BY <4>1, TokensOfName
      <4> QED BY <4>2 DEF y
    <3> QED BY <2>2, <3>2, <3>3 DEF UrlAt
  <2>6. m \in DOMAIN all
    <3>1. m \in MadeIn(items, nm, context, creates) /\ items[m].arg.e # "text"
      BY <2>2
    <3> HIDE DEF made, D, rest
    <3> QED BY <2>5, <3>1, MadeIsFound
  <2>7. ASSUME NEW l \in n + 1 .. m - 1, items[l].k = "let", items[l].name = items[n].name, m <= items[l].until, Writes(b, items[l])
        PROVE  FALSE
    <3>1. Len(items) \in Nat /\ DOMAIN items = 1 .. Len(items)
      BY DEF Listing
    <3>2. n \in 1 .. Len(items) /\ m \in 1 .. Len(items)
      BY <2>3, <3>1
    <3>3. l \in 1 .. Len(items) /\ n < l /\ l < m /\ ~(l <= n)
      BY <3>1, <3>2
    <3>4. PICK known : Declare(items, nm, known, l) \subseteq D
      BY <3>1, <3>3, DeclaredAre
    <3>5. BaseTokens(nm, known, l, items[l].arg) # Null
      <4>1. l \in DOMAIN items
        BY <3>1, <3>3
      <4>2. items[l].arg.url # Null
        BY <2>7, <4>1, WrittenIs
      <4>3. BaseTokens(nm, known, l, items[l].arg) = items[l].arg.url
        BY <2>7, <4>1, WrittenTokens
      <4> QED BY <4>2, <4>3
    <3>6. PICK o \in Declare(items, nm, known, l) : o.at = l /\ o.name = items[l].name /\ o.until = items[l].until
      BY <2>7, <3>5, DeclareDoes
    <3>7. o \in D /\ Visible(o, items[n].name, m)
      BY <2>7, <3>3, <3>4, <3>6 DEF Visible
    <3> QED BY <2>2, <3>3, <3>6, <3>7
  <2>8. UsedAt(b, items, n, m)
    BY <2>2, <2>3, <2>7 DEF UsedAt
  <2> QED BY <2>3, <2>6, <2>8
<1> QED BY <1>2, <1>3, <1>4

-----------------------------------------------------------------------------
(* What is reported of a slice s.                                          *)

Line(f, n) == <<"line", f, n>>
Written(x) == x.arg.e = "text" \/ (x.arg.e = "join" /\ x.arg.of.e = "base")

\* A file points its shared clients to a backend: it creates one for it, or
\* imports one that goes there.
Points(b, f) ==
  \/ f \in repo.creates /\ Mentions(b, f)
  \/ \E y \in DOMAIN Imports(f) : Find(f, y) \in repo.creates /\ Directs(b, f, Find(f, y))

\* A call found for a backend at an item has the URL written there, and goes
\* through a client only if the file points its own there.
Fits(b, f, n, call) ==
  f \in DOMAIN repo.items /\ n \in DOMAIN repo.items[f] =>
    /\ Written(repo.items[f][n]) => call.segments = repo.items[f][n].arg.url
    /\ /\ repo.items[f][n].k = "call" /\ repo.items[f][n].arg.e = "text"
       /\ repo.items[f][n].on # Null /\ repo.items[f][n].on \notin DOMAIN By(repo.services, f, <<>>)
       => Points(b, f)

\* Every request reported fits its item, and reaches what it is said to.
WaysFit(endpoints) ==
  \A e \in DOMAIN endpoints : \A f, n : Line(f, n) \in endpoints[e].names =>
    \E call : Fits(e[1], f, n, call) /\ e[2] \in MatchCall(call, prepared[e[1]].routes)
MissesFit(calls) == \A c \in calls : \A f, n : c.site = Line(f, n) => Fits(c.backend, f, n, c.call)
Sound(s) == WaysFit(s.endpoints) /\ MissesFit(s.unmatched.calls)

\* All of a backend that is to be reported is (NothingIsLost).
ToldNames(b, s) == \A x \in Taken(s, b) : ReportsName(s, b, x)
ToldUrls(b, s) ==
  \A i \in Items(s) : Writes(b, repo.items[i[1]][i[2]]) =>
    \E m \in DOMAIN repo.items[i[1]] : (m = i[2] \/ UsedAt(b, repo.items[i[1]], i[2], m)) /\ Reports(s, b, i[1], m)
Told(b, s) == ToldNames(b, s) /\ ToldUrls(b, s)

Current == [frontend |-> frontend, endpoints |-> matched, unmatched |-> unmatched]

ReportsInv ==
  /\ repo \in Checkouts /\ unmatched = [names |-> unmatched.names, calls |-> unmatched.calls]
  /\ phase = "prepare" => results = <<>>
  /\ phase \in Sliced => Sound(Current) /\ \A b \in Packages : names[b] = Taken(Current, b)
  /\ phase = "frontend" => left = Backends
  /\ phase = "match" => \A b \in Backends \ left : Told(b, Current)
  /\ phase \in {"generated", "next", "backend"} => \A b \in Backends : Told(b, Current)
  /\ \A dir \in DOMAIN results : Sound(results[dir]) /\ \A b \in Backends : Told(b, results[dir])

-----------------------------------------------------------------------------
\* The items of a file are a list.
LEMMA ListingOf ==
  ASSUME repo \in Checkouts, NEW f \in DOMAIN repo.items
  PROVE  Listing(repo.items[f])
<1> DEFINE items == repo.items[f]
<1>1. items \in Range(repo.items)
  BY DEF Range
<1>2. /\ <<>> # Null
      /\ items \in Seq(Range(items))
      /\ \A i \in Range(items) : i.arg.e \in {"text", "join"} =>
           /\ i.arg.url \in Seq(Range(i.arg.url)) /\ i.arg.url # Null
           /\ \A o \in {x \in Range(items) : x.k = "call"} : Null \notin [method : Verbs \cup {o.method}, segments : {i.arg.url}]
  <2> HIDE DEF items
  <2> QED BY <1>1, ItemsAreLists
<1> HIDE DEF items
<1>3. Len(items) \in Nat /\ DOMAIN items = 1 .. Len(items)
  BY <1>2
<1>4. ASSUME NEW n \in DOMAIN items, items[n].arg.e \in {"text", "join"}
      PROVE  /\ items[n].arg.url # Null /\ <<>> \o items[n].arg.url = items[n].arg.url
             /\ \A m \in {l \in DOMAIN items : items[l].k = "call"} :
                  Null \notin [method : Verbs \cup {items[m].method}, segments : {items[n].arg.url}]
  <2>1. items[n] \in Range(items)
    BY DEF Range
  <2> DEFINE url == items[n].arg.url
  <2>2. url \in Seq(Range(url)) /\ url # Null
    BY <1>2, <1>4, <2>1
  <2>3. <<>> \o url = url
    <3> HIDE DEF url
    <3> QED BY <2>2
  <2>4. ASSUME NEW m \in DOMAIN items, items[m].k = "call"
        PROVE  Null \notin [method : Verbs \cup {items[m].method}, segments : {url}]
    <3>1. items[m] \in {x \in Range(items) : x.k = "call"}
      BY <2>4 DEF Range
    <3>2. \A o \in {x \in Range(items) : x.k = "call"} : Null \notin [method : Verbs \cup {o.method}, segments : {url}]
      BY <1>2, <1>4, <2>1
    <3> QED BY <3>1, <3>2
  <2> QED BY <2>2, <2>3, <2>4
<1> QED BY <1>2, <1>3, <1>4 DEF Listing, items

-----------------------------------------------------------------------------
(* What is added to the endpoints.                                         *)
\* Adding keeps what is there, adds every way found, and nothing else.
LEMMA AddIs ==
  ASSUME NEW m, NEW b, NEW found, NEW sum, sum = Add(m, b, found)
  PROVE  /\ \A e \in DOMAIN m : e \in DOMAIN sum /\ m[e].names \subseteq sum[e].names
         /\ \A x \in found : <<b, x.endpoint>> \in DOMAIN sum /\ x.name \in sum[<<b, x.endpoint>>].names
         /\ \A e \in DOMAIN sum : \A y \in sum[e].names :
              \/ e \in DOMAIN m /\ y \in m[e].names
              \/ \E x \in found : e = <<b, x.endpoint>> /\ y = x.name
<1> DEFINE of(e)  == {x \in found : <<b, x.endpoint>> = e}
           old(e) == IF e \in DOMAIN m THEN m[e] ELSE [names |-> {}, ambiguous |-> FALSE]
           all(e) == old(e).names \cup {x.name : x \in of(e)}
           D == DOMAIN m \cup {<<b, x.endpoint>> : x \in found}
<1>1. sum = [e \in D |-> [names |-> all(e), ambiguous |-> old(e).ambiguous \/ \E x \in of(e) : x.ambiguous]]
  BY DEF Add
<1>2. DOMAIN sum = D /\ \A e \in D : sum[e].names = all(e)
  <2> HIDE DEF all, D
  <2> QED BY <1>1
<1> DEFINE new(e) == {x.name : x \in of(e)}
<1>3. /\ \A e \in DOMAIN m : all(e) = m[e].names \cup new(e)
      /\ \A e : e \notin DOMAIN m => all(e) = new(e)
  <2> HIDE DEF new
  <2>1. \A e \in DOMAIN m : old(e).names = m[e].names
    OBVIOUS
  <2>2. \A e : e \notin DOMAIN m => old(e).names = {}
    OBVIOUS
  <2>3. \A e : all(e) = old(e).names \cup new(e)
    BY DEF new
  <2> HIDE DEF old, all
  <2> QED BY <2>1, <2>2, <2>3
<1>4. \A x \in found : x.name \in new(<<b, x.endpoint>>) /\ <<b, x.endpoint>> \in D
  OBVIOUS
<1>5. \A e : \A y \in new(e) : \E x \in found : e = <<b, x.endpoint>> /\ y = x.name
  OBVIOUS
<1> HIDE DEF new, all
<1>6. \A x \in found : x.name \in all(<<b, x.endpoint>>)
  <2> SUFFICES ASSUME NEW x \in found PROVE x.name \in all(<<b, x.endpoint>>)
    OBVIOUS
  <2> DEFINE e == <<b, x.endpoint>>
  <2>1. x.name \in new(e)
    BY <1>4
  <2> HIDE DEF e, D
  <2>2. x.name \in all(e)
    BY <1>3, <2>1
  <2> QED BY <2>2 DEF e
<1>7. \A e \in D : \A y \in all(e) :
              \/ e \in DOMAIN m /\ y \in m[e].names
              \/ \E x \in found : e = <<b, x.endpoint>> /\ y = x.name
  <2> HIDE DEF of, D
  <2> SUFFICES ASSUME NEW e \in D, NEW y \in all(e), e \notin DOMAIN m \/ y \notin m[e].names
               PROVE  y \in new(e)
    BY <1>5
  <2>1. CASE e \in DOMAIN m
    BY <1>3, <2>1
  <2>2. CASE e \notin DOMAIN m
    BY <1>3, <2>2
  <2> QED BY <2>1, <2>2
<1>8. \A e \in DOMAIN m : e \in D /\ m[e].names \subseteq all(e)
  <2>1. \A e \in DOMAIN m : e \in D
    OBVIOUS
  <2> HIDE DEF of, D
  <2> QED BY <1>3, <2>1
<1> HIDE DEF D
<1> QED BY <1>2, <1>4, <1>6, <1>7, <1>8

\* The ways to endpoints that requests make, and the requests that make none.
LEMMA ReachHas ==
  ASSUME NEW b, NEW requests, NEW r \in requests, NEW e, e \in MatchCall(r.call, prepared[b].routes)
  PROVE  \E x \in Reach(Answers(b, requests)) : x.endpoint = e /\ x.name = r.name
<1> DEFINE answers == Answers(b, requests)
           Of(q) == {[endpoint |-> g, name |-> q.name, ambiguous |-> Cardinality(answers[q]) > 1] : g \in answers[q]}
<1>1. DOMAIN answers = requests /\ \A q \in requests : answers[q] = MatchCall(q.call, prepared[b].routes)
  BY DEF Answers
<1> HIDE DEF answers
<1>2. Reach(answers) = UNION {Of(q) : q \in DOMAIN answers}
  BY DEF Reach
<1>3. e \in answers[r] /\ r \in DOMAIN answers
  BY <1>1
<1>4. \E x \in Of(r) : x.endpoint = e /\ x.name = r.name
  <2> DEFINE y == [endpoint |-> e, name |-> r.name, ambiguous |-> Cardinality(answers[r]) > 1]
  <2>1. y \in Of(r)
    BY <1>3
  <2>2. y.endpoint = e /\ y.name = r.name
    OBVIOUS
  <2> QED BY <2>1, <2>2
<1> HIDE DEF Of
<1> QED BY <1>2, <1>3, <1>4 DEF answers

\* and no others,
LEMMA ReachOnly ==
  ASSUME NEW b, NEW requests, NEW x \in Reach(Answers(b, requests))
  PROVE  \E r \in requests : x.name = r.name /\ x.endpoint \in MatchCall(r.call, prepared[b].routes)
<1> DEFINE answers == Answers(b, requests)
           Of(q) == {[endpoint |-> g, name |-> q.name, ambiguous |-> Cardinality(answers[q]) > 1] : g \in answers[q]}
<1>1. DOMAIN answers = requests /\ \A q \in requests : answers[q] = MatchCall(q.call, prepared[b].routes)
  BY DEF Answers
<1> HIDE DEF answers
<1>2. Reach(answers) = UNION {Of(q) : q \in DOMAIN answers}
  BY DEF Reach
<1>3. \A q : \A y \in Of(q) : y.name = q.name /\ y.endpoint \in answers[q]
  OBVIOUS
<1> HIDE DEF Of
<1>4. PICK q \in DOMAIN answers : x \in Of(q)
  BY <1>2 DEF answers
<1> QED BY <1>1, <1>3, <1>4

\* A request that is written out and matches nothing is missed,
LEMMA MissedHas ==
  ASSUME NEW b, NEW requests, NEW r \in requests, ~r.inferred, MatchCall(r.call, prepared[b].routes) = {}
  PROVE  \E c \in Missed(b, Answers(b, requests)) : c.backend = b /\ c.site = r.site
<1> DEFINE c == [backend |-> b, site |-> r.site, call |-> r.call]
<1>1. r \in {x \in DOMAIN Answers(b, requests) : ~x.inferred /\ Answers(b, requests)[x] = {}}
  BY DEF Answers
<1>2. c \in Missed(b, Answers(b, requests))
  BY <1>1 DEF Missed
<1>3. c.backend = b /\ c.site = r.site
  OBVIOUS
<1> HIDE DEF c
<1> QED BY <1>2, <1>3

\* and no others are.
LEMMA MissedOnly ==
  ASSUME NEW b, NEW requests, NEW c \in Missed(b, Answers(b, requests))
  PROVE  c.backend = b /\ \E r \in requests : c.site = r.site /\ c.call = r.call
<1>1. PICK r \in {x \in DOMAIN Answers(b, requests) : ~x.inferred /\ Answers(b, requests)[x] = {}} :
        c = [backend |-> b, site |-> r.site, call |-> r.call]
  BY DEF Missed
<1>2. r \in requests
  BY DEF Answers
<1> QED BY <1>1, <1>2

-----------------------------------------------------------------------------
(* The requests of a backend                                               *)

\* The calls of a file to a backend.
CallsOf(b, f) ==
  Scan(By(repo.items, f, <<>>), Recipe[b].baseNames,
       Context(b, f, Imports(f), [s \in DOMAIN Imports(f) |-> Find(f, s)]), f \in repo.creates /\ Mentions(b, f))
LineRequest(calls, f, n) == [call |-> calls[n], site |-> Line(f, n), inferred |-> FALSE, name |-> Line(f, n)]

\* The requests scanned are those of the calls of the files.
LEMMA ScannedAre ==
  ASSUME NEW b
  PROVE  /\ \A r \in ScanRequests(b) : \E f \in frontend : \E n \in DOMAIN CallsOf(b, f) : r = LineRequest(CallsOf(b, f), f, n)
         /\ \A f \in frontend : \A n \in DOMAIN CallsOf(b, f) : LineRequest(CallsOf(b, f), f, n) \in ScanRequests(b)
<1> DEFINE At(f) == {LineRequest(CallsOf(b, f), f, n) : n \in DOMAIN CallsOf(b, f)}
<1>1. ScanRequests(b) = UNION {At(f) : f \in frontend}
  BY DEF ScanRequests, CallsOf, LineRequest, Line
<1>2. \A f : \A r \in At(f) : \E n \in DOMAIN CallsOf(b, f) : r = LineRequest(CallsOf(b, f), f, n)
  OBVIOUS
<1>3. \A f : \A n \in DOMAIN CallsOf(b, f) : LineRequest(CallsOf(b, f), f, n) \in At(f)
  OBVIOUS
<1> HIDE DEF At
<1> QED BY <1>1, <1>2, <1>3

\* What the request of a line says.
LEMMA LineRequestIs ==
  ASSUME NEW calls, NEW f, NEW n, NEW r, r = LineRequest(calls, f, n)
  PROVE  r.call = calls[n] /\ r.site = Line(f, n) /\ r.name = Line(f, n) /\ ~r.inferred
BY DEF LineRequest

\* Lines are of one file and one item.
LEMMA LinesDiffer ==
  ASSUME NEW f, NEW n, NEW g, NEW m
  PROVE  Line(f, n) = Line(g, m) => f = g /\ n = m
BY DEF Line

\* A call found fits its item.
LEMMA CallsFit ==
  ASSUME repo \in Checkouts, NEW b, NEW f, NEW n \in DOMAIN CallsOf(b, f)
  PROVE  Fits(b, f, n, CallsOf(b, f)[n])
<1> SUFFICES ASSUME f \in DOMAIN repo.items, n \in DOMAIN repo.items[f]
             PROVE  /\ Written(repo.items[f][n]) => CallsOf(b, f)[n].segments = repo.items[f][n].arg.url
                    /\ /\ repo.items[f][n].k = "call" /\ repo.items[f][n].arg.e = "text"
                       /\ repo.items[f][n].on # Null /\ repo.items[f][n].on \notin DOMAIN By(repo.services, f, <<>>)
                       => Points(b, f)
  BY DEF Fits
<1> DEFINE items == repo.items[f]
           found == [s \in DOMAIN Imports(f) |-> Find(f, s)]
           context == Context(b, f, Imports(f), found)
           creates == f \in repo.creates /\ Mentions(b, f)
           nm == Recipe[b].baseNames
<1>1. CallsOf(b, f) = Scan(items, nm, context, creates)
  BY DEF CallsOf, By
<1>2. Listing(items)
  BY ListingOf
<1>3. DOMAIN context.receivers = DOMAIN By(repo.services, f, <<>>)
  BY DEF Context, HelperReceivers
<1>4. context.importsClient => Points(b, f)
  <2>1. context.importsClient = \E m \in Range(found) \cap frontend \cap repo.creates : Directs(b, f, m)
    BY DEF Context
  <2> SUFFICES ASSUME NEW m \in Range(found) \cap frontend \cap repo.creates, Directs(b, f, m) PROVE Points(b, f)
    BY <2>1
  <2>2. PICK y \in DOMAIN Imports(f) : m = Find(f, y)
    BY DEF Range
  <2> QED BY <2>2 DEF Points
<1>5. creates => Points(b, f)
  BY DEF Points
<1> HIDE DEF items, context, creates, nm
<1>6. /\ Written(items[n]) => CallsOf(b, f)[n].segments = items[n].arg.url
      /\ items[n].k = "call" /\ items[n].arg.e = "text" /\ items[n].on # Null /\ items[n].on \notin DOMAIN context.receivers
           => context.importsClient \/ creates
  BY <1>1, <1>2, ScanFits DEF Written
<1> QED BY <1>3, <1>4, <1>5, <1>6 DEF items

\* A URL a file writes with a backend's base is found.
LEMMA CallsHas ==
  ASSUME repo \in Checkouts, NEW b, NEW f \in DOMAIN repo.items, NEW n \in DOMAIN repo.items[f], Writes(b, repo.items[f][n])
  PROVE  \E m \in DOMAIN repo.items[f] : (m = n \/ UsedAt(b, repo.items[f], n, m)) /\ m \in DOMAIN CallsOf(b, f)
<1> DEFINE items == repo.items[f]
           context == Context(b, f, Imports(f), [s \in DOMAIN Imports(f) |-> Find(f, s)])
           creates == f \in repo.creates /\ Mentions(b, f)
           nm == Recipe[b].baseNames
<1>1. CallsOf(b, f) = Scan(items, nm, context, creates)
  BY DEF CallsOf, By
<1>2. Listing(items)
  BY ListingOf
<1>3. nm = Recipe[b].baseNames
  OBVIOUS
<1> HIDE DEF items, context, creates, nm
<1>4. n \in DOMAIN items /\ Writes(b, items[n])
  BY DEF items
<1>5. n \in DOMAIN CallsOf(b, f) \/ \E m \in DOMAIN items : UsedAt(b, items, n, m) /\ m \in DOMAIN CallsOf(b, f)
  BY <1>1, <1>2, <1>3, <1>4, ScanFinds
<1> QED BY <1>4, <1>5 DEF items

\* Requests of Ember Data are not of lines.
LEMMA EmberIsNoLine ==
  ASSUME NEW b, NEW w, NEW r \in EmberRequests(b, w), NEW f, NEW n
  PROVE  r.name # Line(f, n) /\ r.site # Line(f, n)
<1> DEFINE way(q) == [call |-> UsedCall(q.request.method, q.request.url), site |-> <<"store", q.site>>,
                      inferred |-> q.inferred, name |-> <<"store", q.site>>]
<1>1. \E S : EmberRequests(b, w) = {way(q) : q \in S}
  BY DEF EmberRequests, UsedCall
<1>2. \A q : way(q).name = <<"store", q.site>> /\ way(q).site = <<"store", q.site>>
  OBVIOUS
<1> HIDE DEF way
<1>3. PICK q : r = way(q)
  BY <1>1
<1> QED BY <1>2, <1>3 DEF Line

\* Nor are those of generated clients.
LEMMA GeneratedIsNoLine ==
  ASSUME NEW b, NEW r \in GeneratedRequests(b), NEW f, NEW n
  PROVE  r.name # Line(f, n) /\ r.site # Line(f, n)
<1>1. \E s, c, o, g : r.name = <<"operation", c, o>> /\ r.site = <<"call", g, s>>
  BY DEF GeneratedRequests
<1> QED BY <1>1 DEF Line

\* Endpoints named by what is taken from a package.
LEMMA NamedIs ==
  ASSUME NEW b, NEW exports
  PROVE  /\ \A x \in NamedEndpoints(b, exports) : \E y : x.name = <<"export", y>>
         /\ \A y \in exports : \A e \in ClientNameIndex(prepared[b].ids, y) :
              \E x \in NamedEndpoints(b, exports) : x.endpoint = e /\ x.name = <<"export", y>>
<1> DEFINE index(y) == ClientNameIndex(prepared[b].ids, y)
           way(e, y) == [endpoint |-> e, name |-> <<"export", y>>, ambiguous |-> Cardinality(index(y)) > 1]
           Of(y) == {way(e, y) : e \in index(y)}
<1>1. NamedEndpoints(b, exports) = UNION {Of(y) : y \in exports}
  BY DEF NamedEndpoints
<1>2. \A e, y : way(e, y).endpoint = e /\ way(e, y).name = <<"export", y>>
  OBVIOUS
<1> HIDE DEF way, index
<1>3. \A y : \A x \in Of(y) : \E e : x = way(e, y)
  OBVIOUS
<1>4. \A y : \A e \in index(y) : way(e, y) \in Of(y)
  OBVIOUS
<1> HIDE DEF Of
<1> QED BY <1>1, <1>2, <1>3, <1>4 DEF index

-----------------------------------------------------------------------------
(* What stays reported, and what matching adds                             *)

\* Reports depend on the frontend and on what was matched and missed.
LEMMA SameReports ==
  ASSUME NEW s, NEW t, t.frontend = s.frontend, t.endpoints = s.endpoints, t.unmatched = s.unmatched
  PROVE  /\ Sound(s) => Sound(t)
         /\ \A b : Taken(s, b) = Taken(t, b)
         /\ \A b : Told(b, s) => Told(b, t)
<1>1. Sound(s) => Sound(t)
  BY DEF Sound
<1>2. \A b : Taken(s, b) = Taken(t, b)
  BY DEF Taken
<1>3. \A b, x : ReportsName(s, b, x) = ReportsName(t, b, x)
  BY DEF ReportsName
<1>4. \A b, f, n : Reports(s, b, f, n) = Reports(t, b, f, n)
  BY DEF Reports
<1>5. Items(s) = Items(t)
  BY DEF Items
<1>6. \A b : ToldNames(b, s) => ToldNames(b, t)
  BY <1>2, <1>3 DEF ToldNames
<1>7. \A b : ToldUrls(b, s) => ToldUrls(b, t)
  BY <1>4, <1>5 DEF ToldUrls
<1> QED BY <1>1, <1>2, <1>6, <1>7 DEF Told

\* More reports, of the same files.
Grows(s, t) ==
  /\ t.frontend = s.frontend
  /\ \A e \in DOMAIN s.endpoints : e \in DOMAIN t.endpoints /\ s.endpoints[e].names \subseteq t.endpoints[e].names
  /\ s.unmatched.names \subseteq t.unmatched.names /\ s.unmatched.calls \subseteq t.unmatched.calls

\* What is told of stays told of when more is added.
LEMMA ToldGrows ==
  ASSUME NEW s, NEW t, Grows(s, t), NEW b, Told(b, s)
  PROVE  Told(b, t)
<1>1. Taken(s, b) = Taken(t, b) /\ Items(s) = Items(t)
  BY DEF Grows, Taken, Items
<1>2. \A x : ReportsName(s, b, x) => ReportsName(t, b, x)
  BY DEF Grows, ReportsName
<1>3. \A f, n : Reports(s, b, f, n) => Reports(t, b, f, n)
  BY DEF Grows, Reports
<1>4. ToldNames(b, t)
  BY <1>1, <1>2 DEF Told, ToldNames
<1>5. ToldUrls(b, t)
  BY <1>1, <1>3 DEF Told, ToldUrls
<1> QED BY <1>4, <1>5 DEF Told

\* What is reported stays true while the checkout and the routes stay.
LEMMA ReportsStay ==
  ASSUME repo' = repo, prepared' = prepared
  PROVE  /\ \A s : Sound(s)' = Sound(s)
         /\ \A b, s : Told(b, s)' = Told(b, s)
         /\ \A s, b : Taken(s, b)' = Taken(s, b)
<1>1. \A f : Imports(f)' = Imports(f)
  BY DEF Imports, By
<1>2. \A f, y : Find(f, y)' = Find(f, y)
  BY DEF Find
<1>3. \A b, f : Mentions(b, f)' = Mentions(b, f)
  BY DEF Mentions, By
<1>4. \A b, f, m : Directs(b, f, m)' = Directs(b, f, m)
  BY <1>3 DEF Directs
<1>5. \A b, f : Points(b, f)' = Points(b, f)
  BY <1>1, <1>2, <1>3, <1>4 DEF Points
<1>6. \A b, f, n, c : Fits(b, f, n, c)' = Fits(b, f, n, c)
  BY <1>5 DEF Fits, By
<1>7. \A e : WaysFit(e)' = WaysFit(e)
  BY <1>6 DEF WaysFit
<1>8. \A c : MissesFit(c)' = MissesFit(c)
  BY <1>6 DEF MissesFit
<1>9. \A s, b : Taken(s, b)' = Taken(s, b)
  BY <1>1 DEF Taken
<1>10. \A b, s : ToldNames(b, s)' = ToldNames(b, s)
  BY <1>9 DEF ToldNames
<1>11. \A s : Items(s)' = Items(s)
  BY DEF Items
<1>12. \A b, s : ToldUrls(b, s)' = ToldUrls(b, s)
  BY <1>11 DEF ToldUrls
<1> QED BY <1>7, <1>8, <1>9, <1>10, <1>12 DEF Sound, Told

\* A URL that a backend's base begins is found only for a backend with one.
LEMMA ScannedWrites == ASSUME NEW b, NEW i, Writes(b, i) PROVE Scanned(b)
BY DEF Writes, Scanned

\* What matching a backend adds.
LEMMA MatchingTells ==
  ASSUME repo \in Checkouts, NEW b, NEW w, NEW exports, exports = Taken(Current, b),
         NEW requests, requests = (IF Scanned(b) THEN ScanRequests(b) ELSE {}) \cup EmberRequests(b, w),
         NEW t, t.frontend = frontend,
         t.endpoints = Add(matched, b, NamedEndpoints(b, exports) \cup Reach(Answers(b, requests))),
         {x \in exports : ClientNameIndex(prepared[b].ids, x) = {}} \subseteq t.unmatched.names,
         Missed(b, Answers(b, requests)) \subseteq t.unmatched.calls
  PROVE  Told(b, t)
<1> DEFINE found == NamedEndpoints(b, exports) \cup Reach(Answers(b, requests))
<1>a. t.endpoints = Add(matched, b, found)
  OBVIOUS
<1>2. \A e : <<b, e>>[1] = b
  OBVIOUS
<1> HIDE DEF found
<1>1. \A x \in found : <<b, x.endpoint>> \in DOMAIN t.endpoints /\ x.name \in t.endpoints[<<b, x.endpoint>>].names
  BY <1>a, AddIs
<1>3. ToldNames(b, t)
  <2> SUFFICES ASSUME NEW x \in exports PROVE ReportsName(t, b, x)
    <3>1. Taken(t, b) = exports
      BY DEF Taken, Current
    <3> QED BY <3>1 DEF ToldNames
  <2>1. CASE ClientNameIndex(prepared[b].ids, x) = {}
    BY <2>1 DEF ReportsName
  <2>2. CASE ClientNameIndex(prepared[b].ids, x) # {}
    <3>1. PICK e \in ClientNameIndex(prepared[b].ids, x) : TRUE
      BY <2>2
    <3>2. PICK y \in NamedEndpoints(b, exports) : y.endpoint = e /\ y.name = <<"export", x>>
      BY NamedIs
    <3>3. y \in found
      BY DEF found
    <3> QED BY <1>1, <1>2, <3>2, <3>3 DEF ReportsName
  <2> QED BY <2>1, <2>2
<1>4. \A r \in ScanRequests(b) : Scanned(b) => r \in requests
  OBVIOUS
<1>5. ASSUME NEW f \in frontend, NEW m \in DOMAIN CallsOf(b, f), Scanned(b)
      PROVE  Reports(t, b, f, m)
  <2> DEFINE r == LineRequest(CallsOf(b, f), f, m)
  <2>1. r \in ScanRequests(b)
    BY ScannedAre
  <2>2. r.call = CallsOf(b, f)[m] /\ r.site = Line(f, m) /\ r.name = Line(f, m) /\ ~r.inferred
    BY LineRequestIs
  <2>3. r \in requests
    BY <1>4, <1>5, <2>1
  <2> HIDE DEF r
  <2>4. CASE MatchCall(r.call, prepared[b].routes) = {}
    <3>1. PICK c \in Missed(b, Answers(b, requests)) : c.backend = b /\ c.site = r.site
      BY <2>2, <2>3, <2>4, MissedHas
    <3> QED BY <2>2, <3>1 DEF Reports, Line
  <2>5. CASE MatchCall(r.call, prepared[b].routes) # {}
    <3>1. PICK e : e \in MatchCall(r.call, prepared[b].routes)
      BY <2>5
    <3>2. PICK x \in Reach(Answers(b, requests)) : x.endpoint = e /\ x.name = r.name
      BY <2>3, <3>1, ReachHas
    <3>3. x \in found
      BY DEF found
    <3> QED BY <1>1, <1>2, <2>2, <3>2, <3>3 DEF Reports, Line
  <2> QED BY <2>4, <2>5
<1>6. ToldUrls(b, t)
  <2> SUFFICES ASSUME NEW i \in Items(t), Writes(b, repo.items[i[1]][i[2]])
               PROVE  \E m \in DOMAIN repo.items[i[1]] : (m = i[2] \/ UsedAt(b, repo.items[i[1]], i[2], m)) /\ Reports(t, b, i[1], m)
    BY DEF ToldUrls
  <2>1. \E f \in frontend \cap DOMAIN repo.items : \E n \in DOMAIN repo.items[f] : i = <<f, n>>
    BY DEF Items
  <2>a. PICK f \in frontend \cap DOMAIN repo.items : \E n \in DOMAIN repo.items[f] : i = <<f, n>>
    BY <2>1
  <2>b. PICK n \in DOMAIN repo.items[f] : i = <<f, n>>
    BY <2>a
  <2>2. i[1] = f /\ i[2] = n
    BY <2>b
  <2>3. PICK m \in DOMAIN repo.items[f] : (m = n \/ UsedAt(b, repo.items[f], n, m)) /\ m \in DOMAIN CallsOf(b, f)
    BY <2>2, CallsHas
  <2>4. Scanned(b)
    BY ScannedWrites
  <2> QED BY <1>5, <2>2, <2>3, <2>4
<1> QED BY <1>3, <1>6 DEF Told

\* Every name added is of a request that fits.
LEMMA AddingFits ==
  ASSUME NEW b, NEW found, WaysFit(matched),
         \A x \in found : \A f, n : x.name = Line(f, n) =>
           \E call : Fits(b, f, n, call) /\ x.endpoint \in MatchCall(call, prepared[b].routes)
  PROVE  WaysFit(Add(matched, b, found))
<1> DEFINE sum == Add(matched, b, found)
<1> SUFFICES ASSUME NEW e \in DOMAIN sum, NEW f, NEW n, Line(f, n) \in sum[e].names
             PROVE  \E call : Fits(e[1], f, n, call) /\ e[2] \in MatchCall(call, prepared[e[1]].routes)
  BY DEF WaysFit
<1>1. \/ e \in DOMAIN matched /\ Line(f, n) \in matched[e].names
      \/ \E x \in found : e = <<b, x.endpoint>> /\ Line(f, n) = x.name
  BY AddIs
<1>2. CASE e \in DOMAIN matched /\ Line(f, n) \in matched[e].names
  BY <1>2 DEF WaysFit
<1>3. CASE \E x \in found : e = <<b, x.endpoint>> /\ Line(f, n) = x.name
  <2>1. PICK x \in found : e = <<b, x.endpoint>> /\ Line(f, n) = x.name
    BY <1>3
  <2>2. e[1] = b /\ e[2] = x.endpoint
    BY <2>1
  <2>3. PICK call : Fits(b, f, n, call) /\ x.endpoint \in MatchCall(call, prepared[b].routes)
    BY <2>1
  <2> QED BY <2>2, <2>3
<1> QED BY <1>1, <1>2, <1>3

\* Requests that are found fit.
LEMMA RequestsFit ==
  ASSUME repo \in Checkouts, NEW b, NEW w, NEW r, r \in ScanRequests(b) \cup EmberRequests(b, w) \cup GeneratedRequests(b),
         NEW f, NEW n, r.name = Line(f, n) \/ r.site = Line(f, n)
  PROVE  Fits(b, f, n, r.call)
<1>1. r \in ScanRequests(b)
  BY EmberIsNoLine, GeneratedIsNoLine
<1>2. PICK g \in frontend : \E m \in DOMAIN CallsOf(b, g) : r = LineRequest(CallsOf(b, g), g, m)
  BY <1>1, ScannedAre
<1>3. PICK m \in DOMAIN CallsOf(b, g) : r = LineRequest(CallsOf(b, g), g, m)
  BY <1>2
<1>4. r.call = CallsOf(b, g)[m] /\ r.site = Line(g, m) /\ r.name = Line(g, m)
  BY <1>3, LineRequestIs
<1>5. f = g /\ n = m
  BY <1>4, LinesDiffer
<1>6. Fits(b, g, m, CallsOf(b, g)[m])
  BY CallsFit
<1> QED BY <1>4, <1>5, <1>6

-----------------------------------------------------------------------------
(* The steps of an analysis, and what it reports                           *)

\* What is kept by a step that neither traces the frontend nor matches.
LEMMA OtherStepsTell ==
  ASSUME ReportsInv, UNCHANGED <<repo, prepared, frontend, names, matched, unmatched, results>>,
         phase # "prepare", phase' # "prepare", phase' \in Sliced => phase \in Sliced,
         phase' = "frontend" => phase = "frontend" /\ left' = left,
         phase' = "match" => (phase = "frontend" \/ phase = "match") /\ left' = left,
         phase' \in {"generated", "next", "backend"} => phase \in {"generated", "next", "backend"} \/ (phase = "match" /\ left = {})
  PROVE  ReportsInv'
<1>1. Current' = Current
  BY DEF Current
<1>2. \A s : Sound(s)' = Sound(s)
  BY ReportsStay
<1>3. \A b, s : Told(b, s)' = Told(b, s)
  BY ReportsStay
<1>4. \A s, b : Taken(s, b)' = Taken(s, b)
  BY ReportsStay
<1>5. phase' \in Sliced => Sound(Current)' /\ \A b \in Packages : names'[b] = Taken(Current, b)'
  BY <1>1, <1>2, <1>4 DEF ReportsInv
<1>6. phase' = "frontend" => left' = Backends
  BY DEF ReportsInv
<1>7. phase' = "match" => \A b \in Backends \ left' : Told(b, Current)'
  BY <1>1, <1>3 DEF ReportsInv
<1>8. phase' \in {"generated", "next", "backend"} => \A b \in Backends : Told(b, Current)'
  BY <1>1, <1>3 DEF ReportsInv
<1>9. \A dir \in DOMAIN results' : Sound(results[dir])' /\ \A b \in Backends : Told(b, results[dir])'
  BY <1>2, <1>3 DEF ReportsInv
<1> QED BY <1>5, <1>6, <1>7, <1>8, <1>9 DEF ReportsInv

\* Preparing has nothing to report yet.
LEMMA PrepareTells ==
  ASSUME ReportsInv, Prepare
  PROVE  ReportsInv'
<1>1. results' = <<>> /\ repo' \in Checkouts /\ phase' \notin Sliced \cup {"prepare"} /\ unmatched' = unmatched
  BY DEF ReportsInv, Prepare, Sliced, slice
<1> QED BY <1>1 DEF ReportsInv, Sliced

\* A slice starts with nothing matched and every backend left.
LEMMA StartTells ==
  ASSUME ReportsInv, Start
  PROVE  ReportsInv'
<1>1. repo' = repo /\ prepared' = prepared /\ results' = results
  BY DEF Start
<1>2. \A s : Sound(s)' = Sound(s)
  BY <1>1, ReportsStay
<1>3. \A b, s : Told(b, s)' = Told(b, s)
  BY <1>1, ReportsStay
<1>4. repo' \in Checkouts /\ \A dir \in DOMAIN results' : Sound(results[dir])' /\ \A b \in Backends : Told(b, results[dir])'
  BY <1>1, <1>2, <1>3 DEF ReportsInv
<1>5. CASE phase' = "target"
  <2>1. unmatched' = unmatched
    BY <1>5 DEF Start, slice
  <2> QED BY <1>4, <1>5, <2>1 DEF ReportsInv, Sliced
<1>6. CASE phase' # "target"
  <2>1. /\ phase' = "frontend" /\ frontend' = {} /\ names' = [b \in Packages |-> {}] /\ matched' = <<>>
        /\ unmatched' = Nothing /\ left' = Backends
    BY <1>6 DEF Start
  <2>2. /\ DOMAIN matched' = {} /\ unmatched'.calls = {}
        /\ unmatched' = [names |-> unmatched'.names, calls |-> unmatched'.calls]
    BY <2>1 DEF Nothing
  <2>3. Sound(Current)'
    <3>1. WaysFit(matched') /\ MissesFit(unmatched'.calls)
      BY <2>2 DEF WaysFit, MissesFit
    <3>2. Sound(Current')
      BY <3>1 DEF Sound, Current
    <3> QED BY <1>2, <3>2
  <2>4. \A b \in Packages : names'[b] = Taken(Current, b)'
    BY <2>1 DEF Taken, Current
  <2> QED BY <1>4, <2>1, <2>2, <2>3, <2>4 DEF ReportsInv, Sliced
<1> QED BY <1>5, <1>6

\* Tracing the frontend keeps the names taken in step with its files.
LEMMA TraceFrontendTells ==
  ASSUME ReportsInv, TraceFrontend
  PROVE  ReportsInv'
<1>1. phase = "frontend" /\ UNCHANGED <<repo, phase, prepared, matched, unmatched, left, results>>
  BY DEF TraceFrontend
<1>2. \A s : Sound(s)' = Sound(s)
  BY <1>1, ReportsStay
<1>3. \A b, s : Told(b, s)' = Told(b, s)
  BY <1>1, ReportsStay
<1>4. \A s, b : Taken(s, b)' = Taken(s, b)
  BY <1>1, ReportsStay
<1>5. Sound(Current)'
  <2>1. Sound(Current)
    BY <1>1 DEF ReportsInv, Sliced
  <2>2. Sound(Current')
    BY <1>1, <2>1 DEF Sound, Current
  <2> QED BY <1>2, <2>2
<1>6. \A b \in Packages : names'[b] = Taken(Current, b)'
  <2> SUFFICES ASSUME NEW b \in Packages PROVE names'[b] = Taken(Current', b)
    BY <1>4
  <2> DEFINE Of(f) == UNION {Imports(f)[x] : x \in {y \in DOMAIN Imports(f) : b \in ClientsOf(y)}}
  <2>1. names[b] = UNION {Of(f) : f \in frontend}
    <3>1. names[b] = Taken(Current, b)
      BY <1>1 DEF ReportsInv, Sliced
    <3> QED BY <3>1 DEF Taken, Current
  <2>2. Taken(Current', b) = UNION {Of(f) : f \in frontend'}
    BY DEF Taken, Current
  <2>3. \/ frontend' = frontend /\ names' = names
        \/ \E f : frontend' = frontend \cup {f} /\ names'[b] = names[b] \cup Of(f)
    BY DEF TraceFrontend
  <2> HIDE DEF Of
  <2>4. \A f : UNION {Of(g) : g \in frontend \cup {f}} = (UNION {Of(g) : g \in frontend}) \cup Of(f)
    OBVIOUS
  <2> QED BY <2>1, <2>2, <2>3, <2>4
<1>7. \A dir \in DOMAIN results' : Sound(results[dir])' /\ \A b \in Backends : Told(b, results[dir])'
  BY <1>1, <1>2, <1>3 DEF ReportsInv
<1> QED BY <1>1, <1>5, <1>6, <1>7 DEF ReportsInv

\* What is kept when a backend's ways and misses that fit are added.
LEMMA MatchingStepTells ==
  ASSUME ReportsInv, UNCHANGED <<repo, phase, prepared, frontend, names, results>>,
         phase \in {"match", "generated"}, NEW b \in Backends, left' = left \ {b},
         NEW found, matched' = Add(matched, b, found), NEW missed, unmatched'.calls = unmatched.calls \cup missed,
         unmatched.names \subseteq unmatched'.names, unmatched' = [names |-> unmatched'.names, calls |-> unmatched'.calls],
         \A x \in found : \A f, n : x.name = Line(f, n) =>
           \E call : Fits(b, f, n, call) /\ x.endpoint \in MatchCall(call, prepared[b].routes),
         MissesFit(missed),
         phase = "match" => Told(b, Current')
  PROVE  ReportsInv'
<1>1. \A s : Sound(s)' = Sound(s)
  BY ReportsStay
<1>2. \A c, s : Told(c, s)' = Told(c, s)
  BY ReportsStay
<1>3. \A s, c : Taken(s, c)' = Taken(s, c)
  BY ReportsStay
<1>4. Sound(Current)'
  <2>1. WaysFit(matched) /\ MissesFit(unmatched.calls)
    BY DEF ReportsInv, Sliced, Sound, Current
  <2>2. WaysFit(matched')
    BY <2>1, AddingFits
  <2>3. MissesFit(unmatched'.calls)
    BY <2>1 DEF MissesFit
  <2>4. Sound(Current')
    BY <2>2, <2>3 DEF Sound, Current
  <2> QED BY <1>1, <2>4
<1>5. \A c \in Packages : names'[c] = Taken(Current, c)'
  <2> SUFFICES ASSUME NEW c \in Packages PROVE names[c] = Taken(Current', c)
    BY <1>3
  <2>1. names[c] = Taken(Current, c)
    BY DEF ReportsInv, Sliced
  <2> QED BY <2>1 DEF Taken, Current
<1>6. Grows(Current, Current')
  <2>1. \A e \in DOMAIN matched : e \in DOMAIN matched' /\ matched[e].names \subseteq matched'[e].names
    BY AddIs
  <2> QED BY <2>1 DEF Grows, Current
<1>7. \A c : Told(c, Current) => Told(c, Current')
  BY <1>6, ToldGrows
<1>8. phase' = "match" => \A c \in Backends \ left' : Told(c, Current)'
  BY <1>2, <1>7 DEF ReportsInv
<1>9. phase' = "generated" => \A c \in Backends : Told(c, Current)'
  BY <1>2, <1>7 DEF ReportsInv
<1>10. \A dir \in DOMAIN results' : Sound(results[dir])' /\ \A c \in Backends : Told(c, results[dir])'
  BY <1>1, <1>2 DEF ReportsInv
<1> QED BY <1>4, <1>5, <1>8, <1>9, <1>10 DEF ReportsInv

\* Ways and misses of requests that fit do too.
LEMMA WaysOfRequestsFit ==
  ASSUME repo \in Checkouts, NEW b, NEW w, NEW requests, requests \subseteq ScanRequests(b) \cup EmberRequests(b, w) \cup GeneratedRequests(b)
  PROVE  /\ \A x \in Reach(Answers(b, requests)) : \A f, n : x.name = Line(f, n) =>
              \E call : Fits(b, f, n, call) /\ x.endpoint \in MatchCall(call, prepared[b].routes)
         /\ MissesFit(Missed(b, Answers(b, requests)))
<1>1. ASSUME NEW x \in Reach(Answers(b, requests)), NEW f, NEW n, x.name = Line(f, n)
      PROVE  \E call : Fits(b, f, n, call) /\ x.endpoint \in MatchCall(call, prepared[b].routes)
  <2>1. PICK r \in requests : x.name = r.name /\ x.endpoint \in MatchCall(r.call, prepared[b].routes)
    BY ReachOnly
  <2>2. Fits(b, f, n, r.call)
    BY <1>1, <2>1, RequestsFit
  <2> QED BY <2>1, <2>2
<1>2. ASSUME NEW c \in Missed(b, Answers(b, requests)), NEW f, NEW n, c.site = Line(f, n)
      PROVE  Fits(c.backend, f, n, c.call)
  <2>1. c.backend = b /\ \E r \in requests : c.site = r.site /\ c.call = r.call
    BY MissedOnly
  <2>2. PICK r \in requests : c.site = r.site /\ c.call = r.call
    BY <2>1
  <2>3. Fits(b, f, n, r.call)
    BY <1>2, <2>2, RequestsFit
  <2> QED BY <2>1, <2>2, <2>3
<1> QED BY <1>1, <1>2 DEF MissesFit

\* Matching a backend tells of all that is its own.
LEMMA MatchBackendTells ==
  ASSUME ReportsInv, NEW b \in Backends, MatchBackend(b)
  PROVE  ReportsInv'
<1> DEFINE exports == IF b \in Packages THEN names[b] ELSE {}
           requests == (IF Scanned(b) THEN ScanRequests(b) ELSE {}) \cup EmberRequests(b, target)
           missed == Missed(b, Answers(b, requests))
           none == {x \in exports : ClientNameIndex(prepared[b].ids, x) = {}}
           found == NamedEndpoints(b, exports) \cup Reach(Answers(b, requests))
<1>1. /\ UNCHANGED <<repo, phase, prepared, frontend, names, results>> /\ phase = "match" /\ left' = left \ {b}
  BY DEF MatchBackend
<1>2. /\ matched' = Add(matched, b, found)
      /\ unmatched' = [names |-> unmatched.names \cup none, calls |-> unmatched.calls \cup missed]
  BY DEF MatchBackend
<1>3. exports = Taken(Current, b)
  <2>1. CASE b \in Packages
    BY <1>1, <2>1 DEF ReportsInv, Sliced
  <2>2. CASE b \notin Packages
    <3>1. \A y : b \notin ClientsOf(y)
      BY <2>2 DEF ClientsOf
    <3> QED BY <2>2, <3>1 DEF Taken
  <2> QED BY <2>1, <2>2
<1>4. repo \in Checkouts
  BY DEF ReportsInv
<1>5. requests = (IF Scanned(b) THEN ScanRequests(b) ELSE {}) \cup EmberRequests(b, target)
  OBVIOUS
<1> HIDE DEF exports, requests
<1>6. /\ unmatched'.calls = unmatched.calls \cup missed /\ unmatched'.names = unmatched.names \cup none
      /\ unmatched' = [names |-> unmatched'.names, calls |-> unmatched'.calls]
  <2> HIDE DEF missed, none
  <2> QED BY <1>2
<1>7. Told(b, Current')
  <2> DEFINE t == Current'
  <2>1. t.frontend = frontend /\ t.endpoints = matched' /\ t.unmatched = unmatched'
    BY <1>1 DEF Current
  <2> HIDE DEF t
  <2>2. none \subseteq t.unmatched.names /\ missed \subseteq t.unmatched.calls
    BY <1>6, <2>1
  <2>3. Told(b, t)
    BY <1>2, <1>3, <1>4, <1>5, <2>1, <2>2, MatchingTells
  <2> QED BY <2>3 DEF t
<1>8. \A x \in Reach(Answers(b, requests)) : \A f, n : x.name = Line(f, n) =>
        \E call : Fits(b, f, n, call) /\ x.endpoint \in MatchCall(call, prepared[b].routes)
  BY <1>4, <1>5, WaysOfRequestsFit
<1>9. MissesFit(missed)
  BY <1>4, <1>5, WaysOfRequestsFit
<1>10. \A x \in NamedEndpoints(b, exports) : \A f, n : x.name # Line(f, n)
  BY NamedIs DEF Line
<1>11. \A x \in found : \A f, n : x.name = Line(f, n) =>
        \E call : Fits(b, f, n, call) /\ x.endpoint \in MatchCall(call, prepared[b].routes)
  BY <1>8, <1>10
<1> HIDE DEF found, missed, none
<1> QED BY <1>1, <1>2, <1>6, <1>7, <1>9, <1>11, MatchingStepTells

\* Matching generated clients adds to what is told.
LEMMA MatchGeneratedTells ==
  ASSUME ReportsInv, NEW b \in Backends, MatchGenerated(b)
  PROVE  ReportsInv'
<1> DEFINE requests == GeneratedRequests(b)
           missed == Missed(b, Answers(b, requests))
           found == Reach(Answers(b, requests))
<1>1. /\ UNCHANGED <<repo, phase, prepared, frontend, names, results>> /\ phase = "generated" /\ left' = left \ {b}
  BY DEF MatchGenerated
<1>2. /\ matched' = Add(matched, b, found)
      /\ unmatched' = [unmatched EXCEPT !.calls = @ \cup missed]
  BY DEF MatchGenerated
<1>3. repo \in Checkouts /\ unmatched = [names |-> unmatched.names, calls |-> unmatched.calls]
  BY DEF ReportsInv
<1>4. /\ unmatched'.calls = unmatched.calls \cup missed /\ unmatched'.names = unmatched.names
      /\ unmatched' = [names |-> unmatched'.names, calls |-> unmatched'.calls]
  <2> HIDE DEF missed
  <2> QED BY <1>2, <1>3
<1>5. requests \subseteq ScanRequests(b) \cup EmberRequests(b, target) \cup GeneratedRequests(b)
  OBVIOUS
<1> HIDE DEF requests
<1>6. \A x \in found : \A f, n : x.name = Line(f, n) =>
        \E call : Fits(b, f, n, call) /\ x.endpoint \in MatchCall(call, prepared[b].routes)
  BY <1>3, <1>5, WaysOfRequestsFit
<1>7. MissesFit(missed)
  BY <1>3, <1>5, WaysOfRequestsFit
<1> HIDE DEF found, missed
<1> QED BY <1>1, <1>2, <1>4, <1>6, <1>7, MatchingStepTells

\* A slice that ends is kept with what it reports.
LEMMA FinishTells ==
  ASSUME ReportsInv, Finish
  PROVE  ReportsInv'
<1> DEFINE found == [frontend |-> frontend, names |-> names, endpoints |-> matched, files |-> traced, unmatched |-> unmatched]
<1>1. /\ UNCHANGED <<repo, prepared, unmatched>> /\ phase = "next" /\ phase' = "target"
      /\ results' = [d \in DOMAIN results \cup {target.dir} |-> IF d = target.dir THEN found ELSE results[d]]
  BY DEF Finish, slice
<1>2. found.frontend = Current.frontend /\ found.endpoints = Current.endpoints /\ found.unmatched = Current.unmatched
  BY DEF Current
<1> HIDE DEF found
<1>3. Sound(Current) /\ \A b \in Backends : Told(b, Current)
  BY <1>1 DEF ReportsInv, Sliced
<1>4. Sound(found) /\ \A b \in Backends : Told(b, found)
  BY <1>2, <1>3, SameReports
<1>5. \A dir \in DOMAIN results' : Sound(results'[dir]) /\ \A b \in Backends : Told(b, results'[dir])
  BY <1>1, <1>4 DEF ReportsInv
<1>6. \A s : Sound(s)' = Sound(s)
  BY <1>1, ReportsStay
<1>7. \A b, s : Told(b, s)' = Told(b, s)
  BY <1>1, ReportsStay
<1>8. \A dir \in DOMAIN results' : Sound(results[dir])' /\ \A b \in Backends : Told(b, results[dir])'
  BY <1>5, <1>6, <1>7
<1> QED BY <1>1, <1>8 DEF ReportsInv, Sliced

\* Before any slice there is nothing to report.
LEMMA ReportsStart == AnalysisInit => ReportsInv
BY DEF AnalysisInit, ReportsInv, Sliced, Nothing

\* Every step of the analysis keeps what is reported.
LEMMA ReportsNextKeeps == ReportsInv /\ [AnalysisNext]_analysisVars => ReportsInv'
<1> SUFFICES ASSUME ReportsInv, [AnalysisNext]_analysisVars
             PROVE  ReportsInv'
  OBVIOUS
<1>1. CASE UNCHANGED analysisVars
  <2>1. UNCHANGED <<repo, phase, prepared, frontend, names, matched, unmatched, left, results>>
    BY <1>1 DEF analysisVars
  <2>2. CASE phase = "prepare"
    BY <2>1, <2>2 DEF ReportsInv, Sliced
  <2>3. CASE phase # "prepare"
    BY <2>1, <2>3, OtherStepsTell
  <2> QED BY <2>2, <2>3
<1>2. CASE AnalysisNext
  <2>1. CASE Prepare
    BY <2>1, PrepareTells
  <2>2. CASE Start
    BY <2>2, StartTells
  <2>3. CASE TraceFrontend
    BY <2>3, TraceFrontendTells
  <2>4. CASE FrontendTraced
    <3>1. /\ UNCHANGED <<repo, prepared, frontend, names, matched, unmatched, left, results>>
          /\ phase = "frontend" /\ phase' = "match"
      BY <2>4 DEF FrontendTraced, slice
    <3> QED BY <3>1, OtherStepsTell DEF Sliced
  <2>5. CASE NextPass
    <3>1. /\ UNCHANGED <<repo, prepared, frontend, names, matched, unmatched, results>>
          /\ left = {} /\ ((phase = "match" /\ phase' = "generated") \/ (phase = "generated" /\ phase' = "next"))
      BY <2>5 DEF NextPass
    <3> QED BY <3>1, OtherStepsTell DEF Sliced
  <2>6. CASE Finish
    BY <2>6, FinishTells
  <2>7. ASSUME NEW b \in Backends, MatchBackend(b) \/ MatchGenerated(b) \/ StartBackend(b) \/ TraceBackend(b) \/ BackendTraced(b)
        PROVE  ReportsInv'
    <3>1. CASE MatchBackend(b)
      BY <3>1, MatchBackendTells
    <3>2. CASE MatchGenerated(b)
      BY <3>2, MatchGeneratedTells
    <3>3. CASE StartBackend(b) \/ TraceBackend(b) \/ BackendTraced(b)
      <4>1. /\ UNCHANGED <<repo, prepared, frontend, names, matched, unmatched, results>>
            /\ phase \in {"next", "backend"} /\ phase' \in {"next", "backend"}
        BY <3>3 DEF StartBackend, TraceBackend, BackendTraced, slice
      <4> QED BY <4>1, OtherStepsTell DEF Sliced
    <3> QED BY <2>7, <3>1, <3>2, <3>3
  <2> QED BY <1>2, <2>1, <2>2, <2>3, <2>4, <2>5, <2>6, <2>7 DEF AnalysisNext
<1> QED BY <1>1, <1>2

\* For every recipe and every checkout: a request told of is one that an item
\* makes, and all that a matched backend is asked for is told of (scan,
\* matchCall, buildEndpoints).
THEOREM ReportsInvariance == AnalysisSpec => []ReportsInv
BY ReportsStart, ReportsNextKeeps, PTL DEF AnalysisSpec

-----------------------------------------------------------------------------
(* What a slice reports                                                    *)

\* Every name taken from a backend's package and every URL written with its
\* base is in a slice's report, as a way to an endpoint or as one that matched
\* none, at its own line or at the request that uses it.
THEOREM NothingGetsLost == AnalysisSpec => []NothingIsLost
<1>1. ReportsInv => NothingIsLost
  <2> SUFFICES ASSUME ReportsInv, NEW dir \in DOMAIN results, NEW b \in Backends, NEW s, s = results[dir]
               PROVE  /\ \A x \in Taken(s, b) : ReportsName(s, b, x)
                      /\ \A i \in Items(s) : Writes(b, repo.items[i[1]][i[2]]) =>
                           \/ Reports(s, b, i[1], i[2])
                           \/ \E m \in DOMAIN repo.items[i[1]] : UsedAt(b, repo.items[i[1]], i[2], m) /\ Reports(s, b, i[1], m)
    BY DEF NothingIsLost
  <2>1. ToldNames(b, s) /\ ToldUrls(b, s)
    BY DEF ReportsInv, Told
  <2> QED BY <2>1 DEF ToldNames, ToldUrls
<1> QED BY <1>1, ReportsInvariance, PTL

\* No route of the same verb scores more than one that matches.
LEMMA BestScores ==
  ASSUME NEW call, NEW routes, NEW e, e \in MatchCall(call, routes), NEW r \in routes, r.httpMethod = e.httpMethod,
         MatchScore(call.segments, e.path) \in Int, MatchScore(call.segments, r.path) \in Int
  PROVE  MatchScore(call.segments, e.path) >= 0 /\ MatchScore(call.segments, r.path) <= MatchScore(call.segments, e.path)
<1> DEFINE Fitting == {x \in routes : call.method = Null \/ x.httpMethod \in {call.method, "all"}}
           score == [x \in Fitting |-> MatchScore(call.segments, x.path)]
           S == Scores(call, routes)
<1>1. S = [x \in {y \in Fitting : score[y] >= 0} |-> score[x]]
  BY DEF Scores
<1>2. e \in DOMAIN S /\ \A x \in DOMAIN S : S[x] <= S[e]
  BY DEF MatchCall
<1>3. \A x : x \in DOMAIN S <=> x \in Fitting /\ MatchScore(call.segments, x.path) >= 0
  BY <1>1
<1>4. \A x \in DOMAIN S : S[x] = MatchScore(call.segments, x.path)
  BY <1>1, <1>3
<1>5. e \in Fitting => r \in Fitting
  OBVIOUS
<1> HIDE DEF S, Fitting, score
<1>6. MatchScore(call.segments, e.path) >= 0 /\ r \in Fitting
  BY <1>2, <1>3, <1>5
<1>7. CASE r \in DOMAIN S
  BY <1>2, <1>4, <1>6, <1>7
<1>8. CASE r \notin DOMAIN S
  BY <1>3, <1>6, <1>8
<1> QED BY <1>6, <1>7, <1>8

\* A path without optional or inner rest segments, and one that beats it on a
\* URL as long: where they differ, it spells out what the other takes.
Plain(path) == \A n \in 1 .. Len(path) : ~path[n].optional /\ (path[n].kind = "rest" => n = Len(path))
Beaten(url, e, r) ==
  /\ r.httpMethod = e.httpMethod /\ Len(r.path) = Len(e.path) /\ Len(url) = Len(e.path)
  /\ \E n \in DOMAIN url : r.path[n] # e.path[n]
  /\ \A n \in DOMAIN url :
       r.path[n] = e.path[n] \/ (e.path[n].kind = "param" /\ r.path[n] = url[n] /\ url[n].kind = "static")

\* The URL of an item is a sequence.
LEMMA WrittenUrlIsList ==
  ASSUME repo \in Checkouts, NEW f \in DOMAIN repo.items, NEW n \in DOMAIN repo.items[f], Written(repo.items[f][n])
  PROVE  LET url == repo.items[f][n].arg.url IN Len(url) \in Nat /\ DOMAIN url = 1 .. Len(url)
<1> DEFINE items == repo.items[f]
           x == items[n]
           url == x.arg.url
<1>1. items \in Range(repo.items) /\ x \in Range(items)
  BY DEF Range
<1>2. x.arg.e \in {"text", "join"}
  BY DEF Written
<1> HIDE DEF items, x
<1>3. url \in Seq(Range(url))
  BY <1>1, <1>2, ItemsAreLists
<1> HIDE DEF url
<1>4. Len(url) \in Nat /\ DOMAIN url = 1 .. Len(url)
  BY <1>3
<1> QED BY <1>4 DEF url, x, items

\* A route that beats another on a URL scores more on it.
LEMMA BeatenScoresLess ==
  ASSUME NEW url, Len(url) \in Nat, DOMAIN url = 1 .. Len(url), NEW e, NEW r, Plain(e.path), Beaten(url, e, r)
  PROVE  /\ r.httpMethod = e.httpMethod
         /\ MatchScore(url, e.path) \in Int /\ MatchScore(url, r.path) \in Int
         /\ MatchScore(url, e.path) >= 0 => MatchScore(url, e.path) < MatchScore(url, r.path)
<1> DEFINE p == e.path
           q == r.path
<1>1. r.httpMethod = e.httpMethod /\ Len(q) = Len(url) /\ Len(p) = Len(url)
  BY DEF Beaten
<1>2. \E k \in 1 .. Len(url) : q[k] # p[k]
  BY DEF Beaten
<1>3. \A k \in 1 .. Len(url) : q[k] = p[k] \/ (p[k].kind = "param" /\ q[k] = url[k] /\ url[k].kind = "static")
  BY DEF Beaten
<1>4. \A k \in 1 .. Len(p) : ~p[k].optional /\ (p[k].kind = "rest" => k = Len(p))
  BY DEF Plain
<1> HIDE DEF p, q
<1>5. /\ MatchScore(url, p) \in Int /\ MatchScore(url, q) \in Int
      /\ MatchScore(url, p) >= 0 => MatchScore(url, p) < MatchScore(url, q)
  BY <1>1, <1>2, <1>3, <1>4, SpecificScoresMore
<1> QED BY <1>1, <1>5 DEF p, q

\* So no request that matches the one goes unmatched by the other.
LEMMA BeatenIsNotMatched ==
  ASSUME NEW call, NEW routes, NEW e, e \in MatchCall(call, routes), NEW r \in routes, Plain(e.path),
         Len(call.segments) \in Nat, DOMAIN call.segments = 1 .. Len(call.segments)
  PROVE  ~Beaten(call.segments, e, r)
<1> SUFFICES ASSUME Beaten(call.segments, e, r) PROVE FALSE
  OBVIOUS
<1> DEFINE url == call.segments
<1>1. Len(url) \in Nat /\ DOMAIN url = 1 .. Len(url) /\ Beaten(url, e, r)
  OBVIOUS
<1> HIDE DEF url
<1>2. /\ r.httpMethod = e.httpMethod
      /\ MatchScore(url, e.path) \in Int /\ MatchScore(url, r.path) \in Int
      /\ MatchScore(url, e.path) >= 0 => MatchScore(url, e.path) < MatchScore(url, r.path)
  BY <1>1, BeatenScoresLess
<1>3. MatchScore(url, e.path) >= 0 /\ MatchScore(url, r.path) <= MatchScore(url, e.path)
  BY <1>2, BestScores DEF url
<1> QED BY <1>2, <1>3

\* A URL written out is never a request for a route whose parameter takes what
\* another route of the same verb spells out, however the routes are listed
\* (matchCall keeps only those that score most).
THEOREM MostSpecificRouteWins == AnalysisSpec => []MostSpecificRoute
<1>1. ReportsInv => MostSpecificRoute
  <2> DEFINE Wins(dir, e, i) ==
               LET x == repo.items[i[1]][i[2]]
               IN <<"line", i[1], i[2]>> \in results[dir].endpoints[e].names /\ Written(x) /\ Plain(e[2].path)
                    => ~\E r \in prepared[e[1]].routes : Beaten(x.arg.url, e[2], r)
  <2>a. (\A dir \in DOMAIN results : \A e \in DOMAIN results[dir].endpoints : \A i \in Items(results[dir]) : Wins(dir, e, i))
          => MostSpecificRoute
    BY DEF MostSpecificRoute, Written, Plain, Beaten
  <2> HIDE DEF Wins
  <2>b. ASSUME ReportsInv, NEW dir \in DOMAIN results, NEW e \in DOMAIN results[dir].endpoints, NEW i \in Items(results[dir])
        PROVE  Wins(dir, e, i)
    <3> DEFINE ways == results[dir].endpoints
    <3>1. PICK f \in DOMAIN repo.items : \E n \in DOMAIN repo.items[f] : i = <<f, n>>
      BY DEF Items
    <3>2. PICK n \in DOMAIN repo.items[f] : i = <<f, n>>
      BY <3>1
    <3>3. i[1] = f /\ i[2] = n
      BY <3>2
    <3>4. repo \in Checkouts /\ WaysFit(ways)
      BY <2>b DEF ReportsInv, Sound
    <3>5. e \in DOMAIN ways
      OBVIOUS
    <3> HIDE DEF ways
    <3> DEFINE x == repo.items[f][n]
    <3> SUFFICES ASSUME Line(f, n) \in ways[e].names, Written(x), Plain(e[2].path), NEW r \in prepared[e[1]].routes
                 PROVE  ~Beaten(x.arg.url, e[2], r)
      BY <3>3 DEF Wins, Line, ways
    <3>6. PICK call : Fits(e[1], f, n, call) /\ e[2] \in MatchCall(call, prepared[e[1]].routes)
      BY <3>4, <3>5 DEF WaysFit
    <3>7. call.segments = x.arg.url
      BY <3>6 DEF Fits
    <3>8. Len(x.arg.url) \in Nat /\ DOMAIN x.arg.url = 1 .. Len(x.arg.url)
      BY <3>4, WrittenUrlIsList
    <3> DEFINE routes == prepared[e[1]].routes
               way == e[2]
    <3>9. way \in MatchCall(call, routes) /\ r \in routes /\ Plain(way.path)
      BY <3>6
    <3>10. Len(call.segments) \in Nat /\ DOMAIN call.segments = 1 .. Len(call.segments)
      BY <3>7, <3>8
    <3> HIDE DEF x, routes, way
    <3>11. ~Beaten(call.segments, way, r)
      BY <3>9, <3>10, BeatenIsNotMatched
    <3> QED BY <3>7, <3>11 DEF way, x
  <2> QED BY <2>a, <2>b
<1> QED BY <1>1, ReportsInvariance, PTL

\* A file points its clients to one backend, unless they name several.
LEMMA PointsToOne ==
  ASSUME NEW f, NEW a \in Backends, NEW b \in Backends, Points(a, f), Points(b, f), a # b,
         NEW clients, clients = ({Find(f, y) : y \in DOMAIN Imports(f)} \cup {f}) \cap repo.creates
  PROVE  (\E c \in clients : Mentions(a, c)) /\ (\E c \in clients : Mentions(b, c))
<1>1. \A y \in DOMAIN Imports(f) : Find(f, y) \in repo.creates => Find(f, y) \in clients
  OBVIOUS
<1>2. f \in repo.creates => f \in clients
  OBVIOUS
<1> DEFINE Named(x) == \E c \in clients : Mentions(x, c)
           Only(x) == Mentions(x, f) /\ ~\E o \in Backends \ {x} : Mentions(o, f)
<1>3. ASSUME NEW x, Points(x, f) PROVE Named(x) \/ Only(x)
  <2>1. CASE f \in repo.creates /\ Mentions(x, f)
    BY <1>2, <2>1
  <2>2. ASSUME NEW y \in DOMAIN Imports(f), Find(f, y) \in repo.creates, Directs(x, f, Find(f, y)) PROVE Named(x) \/ Only(x)
    BY <1>1, <2>2 DEF Directs
  <2> QED BY <1>3, <2>1, <2>2 DEF Points
<1>4. ASSUME NEW x \in Backends, NEW z \in Backends, x # z, Only(x) PROVE ~Points(z, f)
  <2>1. ~Mentions(z, f) /\ Mentions(x, f)
    BY <1>4
  <2>2. \A m : ~Directs(z, f, m)
    BY <1>4, <2>1 DEF Directs
  <2> QED BY <2>1, <2>2 DEF Points
<1> HIDE DEF Only
<1> QED BY <1>3, <1>4

\* A relative path requested through a shared client is told of for one
\* backend at most, unless the clients of its file name several.
THEOREM OneBackendIsAsked == AnalysisSpec => []OneBackend
<1>1. ReportsInv => OneBackend
  <2> SUFFICES ASSUME ReportsInv, NEW dir \in DOMAIN results, NEW i \in Items(results[dir]),
                      NEW x, x = repo.items[i[1]][i[2]],
                      NEW clients, clients = ({Find(i[1], y) : y \in DOMAIN Imports(i[1])} \cup {i[1]}) \cap repo.creates,
                      NEW named, named = {b \in Backends : \E f \in clients : Mentions(b, f)},
                      x.k = "call", x.arg.e = "text", x.on # Null, x.on \notin DOMAIN By(repo.services, i[1], <<>>),
                      Cardinality(named) <= 1,
                      NEW asked, asked = {b \in Backends : Reports(results[dir], b, i[1], i[2])}
               PROVE  Cardinality(asked) <= 1
    BY DEF OneBackend
  <2>1. IsFiniteSet(Backends)
    <3>1. Len(Recipe) \in Nat /\ Backends = 1 .. Len(Recipe)
      BY RecipeIsAList DEF Backends
    <3> QED BY <3>1, FS_Interval
  <2>2. IsFiniteSet(named)
    <3>1. named \subseteq Backends
      OBVIOUS
    <3> QED BY <2>1, <3>1, FS_Subset
  <2>3. \E f \in DOMAIN repo.items : \E n \in DOMAIN repo.items[f] : i = <<f, n>>
    BY DEF Items
  <2>4. PICK f \in DOMAIN repo.items : \E n \in DOMAIN repo.items[f] : i = <<f, n>>
    BY <2>3
  <2>5. PICK n \in DOMAIN repo.items[f] : i = <<f, n>>
    BY <2>4
  <2>6. i[1] = f /\ i[2] = n /\ x = repo.items[f][n]
    BY <2>5
  <2>7. WaysFit(results[dir].endpoints) /\ MissesFit(results[dir].unmatched.calls)
    BY DEF ReportsInv, Sound
  <2>8. ASSUME NEW b \in asked PROVE Points(b, f)
    <3>1. \A call : Fits(b, f, n, call) => Points(b, f)
      BY <2>6 DEF Fits
    <3>2. Reports(results[dir], b, f, n)
      BY <2>6
    <3>3. CASE \E e \in DOMAIN results[dir].endpoints : e[1] = b /\ Line(f, n) \in results[dir].endpoints[e].names
      BY <2>7, <3>1, <3>3 DEF WaysFit
    <3>4. CASE \E c \in results[dir].unmatched.calls : c.backend = b /\ c.site = Line(f, n)
      BY <2>7, <3>1, <3>4 DEF MissesFit
    <3> QED BY <3>2, <3>3, <3>4 DEF Reports, Line
  <2>9. ASSUME NEW a \in asked, NEW b \in asked, a # b PROVE FALSE
    <3>1. Points(a, f) /\ Points(b, f) /\ a \in Backends /\ b \in Backends
      BY <2>8
    <3>2. a \in named /\ b \in named
      BY <2>6, <2>9, <3>1, PointsToOne
    <3>3. IsFiniteSet({a, b}) /\ Cardinality({a, b}) = 2
      <4>1. IsFiniteSet({a}) /\ Cardinality({a}) = 1
        BY FS_Singleton
      <4>2. {a, b} = {a} \cup {b} /\ b \notin {a}
        BY <2>9
      <4>3. IsFiniteSet({a} \cup {b}) /\ Cardinality({a} \cup {b}) = Cardinality({a}) + 1
        BY <4>1, <4>2, FS_AddElement
      <4>4. Cardinality({a} \cup {b}) = 1 + 1
        BY <4>1, <4>3, Zenon
      <4>5. IsFiniteSet({a, b}) /\ Cardinality({a, b}) = 1 + 1
        BY <4>2, <4>3, <4>4, Zenon
      <4>6. 1 + 1 = 2
        OBVIOUS
      <4> QED BY <4>5, <4>6
    <3>4. {a, b} \subseteq named
      BY <3>2
    <3>5. Cardinality({a, b}) <= Cardinality(named)
      BY <2>2, <3>4, FS_Subset
    <3>6. Cardinality(named) \in Nat
      BY <2>2, FS_CardinalityType
    <3> QED BY <3>3, <3>5, <3>6
  <2>10. CASE asked = {}
    <3>1. Cardinality({}) = 0
      BY FS_EmptySet
    <3>2. Cardinality(asked) = 0
      BY <2>10, <3>1, Zenon
    <3> QED BY <3>2
  <2>11. CASE asked # {}
    <3>1. PICK a \in asked : TRUE
      BY <2>11
    <3>2. asked = {a}
      BY <2>9, <3>1
    <3>3. Cardinality({a}) = 1
      BY FS_Singleton
    <3>4. Cardinality(asked) = 1
      BY <3>2, <3>3, Zenon
    <3> QED BY <3>4
  <2> QED BY <2>10, <2>11
<1> QED BY <1>1, ReportsInvariance, PTL
=============================================================================
