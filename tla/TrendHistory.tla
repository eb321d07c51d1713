---------------------------- MODULE TrendHistory ----------------------------
(***************************************************************************)
(* The three records a run leaves of an app's coverage, and the trends     *)
(* drawn from them: its per-file snapshot (replaced), its row of           *)
(* coverage_history and the point of every slice that reaches it           *)
(* (slice_history).  executeRun of apps/worker/src/worker.ts writes them   *)
(* one after the other; a slice build replaces the slices and seeds points *)
(* from the snapshots (packages/db/src/database.ts).                       *)
(*                                                                         *)
(* One repository.  Apps and slices are numbers in the order of their      *)
(* names, a path is <<directory, file>>, and a run is named by its order:  *)
(* one worker runs one run, or one build, at a time.                       *)
(***************************************************************************)
EXTENDS CoverageTrend

CONSTANTS
  Apps,        \* names of apps, 1 .. n
  DirOf,       \* app -> its working directory
  Reports,     \* app -> what a test of it may leave: [coverage, files, tests]
  SliceNames,  \* names of slices, 1 .. m
  Shapes,      \* what a build may find: slice -> paths of backend files
  MaxRuns,     \* bound: runs
  MaxBuilds    \* bound: slice builds

MetricType ==
  {v \in [covered : Nat, total : Nat, percent : {Null} \cup 0 .. 1000] :
     v.covered <= v.total /\ v = Metric(v.covered, v.total)}
CoverageType == [Metrics -> {Null} \cup MetricType]
Files(set) == IsFiniteSet(set) /\ \A f \in set : f.metrics \in CoverageType
Report(r) ==
  /\ r.coverage \in {Null} \cup CoverageType
  /\ Files(r.files) /\ (r.files # {} => r.coverage # Null)
  /\ r.tests # Null => {r.tests.total, r.tests.passed, r.tests.failed} \subseteq Nat

ASSUME TrendHistoryAssumption ==
  /\ {MaxRuns, MaxBuilds} \subseteq Nat
  /\ IsFiniteSet(Apps) /\ Apps = 1 .. Cardinality(Apps) /\ DOMAIN DirOf = Apps
  /\ IsFiniteSet(SliceNames) /\ SliceNames \subseteq Nat
  /\ \A shape \in Shapes : DOMAIN shape = SliceNames /\ \A s \in SliceNames : IsFiniteSet(shape[s])
  /\ \A a \in Apps : \A r \in Reports[a] : Report(r)
  /\ "lines" \in Metrics /\ MetricOrder \in Seq(Metrics)

\* Null is none of the values it stands beside.
ASSUME NullIsApart ==
  /\ Null # {1} /\ Null \notin 0 .. 1000
  /\ Null \notin [covered : Int, total : Int, percent : {Null} \cup Int]
  /\ \A a \in Apps : \A r \in Reports[a] : \A n \in 1 .. MaxRuns : Null # [run |-> n, files |-> r.files]

\* Every app reports on files of a directory of its own, each of them once.
\* An app whose package was renamed keeps its snapshot beside the one under
\* the new name, and breaks it.
OwnPaths ==
  /\ \A a, b \in Apps : DirOf[a] = DirOf[b] => a = b
  /\ \A a \in Apps : \A r \in Reports[a] : \A f \in r.files :
       f.path[1] = DirOf[a] /\ \A g \in r.files : g.path = f.path => g = f

VARIABLES
  rows,       \* coverage_history
  snapshots,  \* coverage_snapshots with coverage_files: app -> Null or [run, files]
  slices,     \* slices with slice_files: slice -> paths; none is no slice
  points,     \* slice_history: [run, at, slice, coverage, measured]
  runs,       \* runs started so far
  live,       \* executeRun's memory while a run executes, Null otherwise
  builds      \* slice builds so far

vars == <<rows, snapshots, slices, points, runs, live, builds>>

\* The order of now() within and between runs: run r captures app a's
\* snapshot at At(r, a) and ends at At(r, Last).
LastStep == Cardinality(Apps) + 1
At(r, step) == r * LastStep + step

Init ==
  /\ rows = {} /\ points = {}
  /\ snapshots = [a \in Apps |-> Null]
  /\ slices \in {[s \in SliceNames |-> {}]} \cup Shapes
  /\ runs = 0 /\ builds = 0
  /\ live = Null

-----------------------------------------------------------------------------
(* A slice's current coverage.                                             *)

\* sliceBackendRows and sliceRecords: every slice file joined with every
\* snapshot that lists its path, under its backend's directory.
Listed(paths) ==
  UNION {{[app |-> a, path |-> f.path, metrics |-> f.metrics] :
            f \in {g \in snapshots[a].files : g.path \in paths}} :
         a \in {b \in Apps : snapshots[b] # Null}}
Current(paths) ==
  LET listed == Listed(paths)
  IN [coverage |-> SumCoverage(listed),
      measured |-> Cardinality(listed),
      sources  |-> {f.app : f \in listed}]

-----------------------------------------------------------------------------
(* A run.                                                                  *)

StartRun(local, todo) ==
  /\ live = Null /\ runs < MaxRuns
  /\ runs' = runs + 1
  /\ live' = [local |-> local, todo |-> todo, got |-> <<>>, results |-> {}, over |-> FALSE]
  /\ UNCHANGED <<rows, snapshots, slices, points, builds>>

\* coverageHistoryInsertSql: the row of an app that left coverage or tests.
Row(a, report) ==
  {[run |-> runs, at |-> At(runs, LastStep), app |-> a, tests |-> report.tests,
    coverage |-> IF report.coverage = Null THEN [m \in Metrics |-> Null] ELSE report.coverage] :
     r \in {q \in {report} : q.coverage # Null \/ q.tests # Null}}

\* One round of executeRun's loop: recordCoverageSnapshot, sliceCoverage.set
\* and finishAppRun.  A report with neither coverage nor tests stands for a
\* command that failed, and for an app without tests.
TestApp(a, report) ==
  /\ live # Null /\ ~live.over
  /\ live.todo # {} /\ a = Min(live.todo)
  /\ snapshots' = IF live.local \/ report.coverage = Null \/ report.files = {} THEN snapshots
                  ELSE [snapshots EXCEPT ![a] = [run |-> runs, files |-> report.files]]
  /\ live' = [live EXCEPT
       !.todo = @ \ {a},
       !.got = IF report.files = {} THEN @ ELSE Put(@, DirOf[a], report.files),
       !.results = @ \cup Row(a, report)]
  /\ UNCHANGED <<rows, slices, points, runs, builds>>

\* updateRun with a verdict copies the results into coverage_history.
Verdict ==
  /\ live # Null /\ ~live.over /\ live.todo = {}
  /\ rows' = rows \cup live.results
  /\ live' = [live EXCEPT !.over = TRUE]
  /\ UNCHANGED <<snapshots, slices, points, runs, builds>>

\* A stop, the deadline, or a runner that failed: no verdict.
Cut ==
  /\ live # Null /\ ~live.over
  /\ live' = [live EXCEPT !.over = TRUE]
  /\ UNCHANGED <<rows, snapshots, slices, points, runs, builds>>

\* The files a point is made of: the run's own for the backends it tested,
\* the snapshots' for the others, one entry per path.  Mutant: the run's own.
Measured_OwnOnly(s) ==
  UNION {{f \in live.got[d] : f.path \in slices[s]} : d \in DOMAIN live.got}

Measured(s) ==
  LET LookUp(p) == IF p[1] \in DOMAIN live.got THEN {f \in live.got[p[1]] : f.path = p}
                   ELSE {[path |-> p, metrics |-> (CHOOSE f \in Listed({q}) : TRUE).metrics] :
                            q \in {r \in {p} : Listed({r}) # {}}}
  IN UNION {LookUp(p) : p \in slices[s]}

\* recordSliceHistory, in the finally of executeRun.
Record ==
  /\ live # Null /\ live.over
  /\ LET reached == {s \in SliceNames : /\ \E p \in slices[s] : p[1] \in DOMAIN live.got
                                        /\ Measured(s) # {}}
     IN points' = {p \in points : p.run # runs \/ p.app \notin reached}
                    \cup {[run |-> runs, at |-> At(runs, LastStep), app |-> s, tests |-> Null,
                           coverage |-> SumCoverage(Measured(s)),
                           measured |-> Cardinality(Measured(s))] : s \in reached}
  /\ live' = Null
  /\ UNCHANGED <<rows, snapshots, slices, runs, builds>>

\* The worker's process ends, and is started again.
Crash ==
  /\ live # Null
  /\ live' = Null
  /\ UNCHANGED <<rows, snapshots, slices, points, runs, builds>>

-----------------------------------------------------------------------------
(* A slice build that passes: replaceSlices, with seedSliceHistory.        *)

\* The point a build seeds a slice with: its current coverage, as of the
\* newest snapshot in it.
Seed(s, c) ==
  LET newest == CHOOSE a \in c.sources :
                  \A b \in c.sources : At(snapshots[b].run, b) <= At(snapshots[a].run, a)
  IN [run |-> snapshots[newest].run, at |-> At(snapshots[newest].run, newest), app |-> s,
      tests |-> Null, coverage |-> c.coverage, measured |-> c.measured]

Taken(p, set) == \E q \in set : q.run = p.run /\ q.app = p.app

\* Mutant: a seed takes the place of the run's own point.
Seeded_Replaces(seeds) == {p \in points : ~Taken(p, seeds)} \cup seeds
Seeded(seeds) == points \cup {p \in seeds : ~Taken(p, points)}

Build(shape) ==
  /\ live = Null /\ builds < MaxBuilds
  /\ builds' = builds + 1
  /\ slices' = shape
  /\ LET measured == {s \in SliceNames : Current(shape[s]).measured > 0}
     IN points' = Seeded({Seed(s, Current(shape[s])) : s \in measured})
  /\ UNCHANGED <<rows, snapshots, runs, live>>

Next ==
  \/ \E local \in BOOLEAN, todo \in SUBSET Apps \ {{}} : StartRun(local, todo)
  \/ \E a \in Apps : \E report \in Reports[a] : TestApp(a, report)
  \/ Verdict \/ Cut \/ Record \/ Crash
  \/ \E shape \in Shapes : Build(shape)

Spec == Init /\ [][Next]_vars

-----------------------------------------------------------------------------
(* Correctness.                                                            *)

\* Every row and point is well formed, and a run leaves one at most of each
\* app and slice.
TypeOK ==
  /\ \A r \in rows : r.run \in 1 .. MaxRuns /\ r.app \in Apps /\ r.coverage \in CoverageType
  /\ \A p \in points : p.run \in 1 .. MaxRuns /\ p.app \in SliceNames /\ p.coverage \in CoverageType
  /\ \A r, q \in rows : r.run = q.run /\ r.app = q.app => r = q
  /\ \A p, q \in points : p.run = q.run /\ p.app = q.app => p = q
  /\ runs \in 0 .. MaxRuns /\ builds \in 0 .. MaxBuilds
  /\ live # Null => live.todo \subseteq Apps /\ DOMAIN live.got \subseteq Range(DirOf)

NewestRow(known) == CHOOSE r \in known : \A q \in known : q.run <= r.run

\* What is known of each app after a run, from the rows themselves: the value
\* of its newest row that has one.
KnownAfter(history, names, metric) ==
  LET In(values, known) == IF known = {} THEN Null ELSE values[NewestRow(known)]
      From(values) ==
        [a \in names |-> [run \in 1 .. MaxRuns |->
           In(values, {r \in history : r.app = a /\ r.run <= run /\ values[r] # Null})]]
  IN From([r \in history |-> ResolveTrendValue(r.coverage, metric)])

\* The tests of each app's newest row, which may have none.
TestedAfter(history, names) ==
  LET Tests(seen) == IF seen = {} THEN Null ELSE NewestRow(seen).tests
  IN [a \in names |-> [run \in 1 .. MaxRuns |-> Tests({r \in history : r.app = a /\ r.run <= run})]]

\* A point of a trend weighs every app by what was last measured of it, even
\* in a run that tested others or produced no coverage; its number of tests is
\* of the apps' last rows, also of those that reported none; and there is one
\* point per run that touched the scope, in order (coverage-trends.ts:72-77).
TrendAgrees(trend, touched, known, counted) ==
  /\ {trend.points[i].run : i \in DOMAIN trend.points} = touched
  /\ \A i, j \in DOMAIN trend.points : i < j => trend.points[i].run < trend.points[j].run
  /\ \A p \in Range(trend.points) :
       LET measured == {a \in DOMAIN known : known[a][p.run] # Null}
       IN IF measured = {} THEN p.total = Null
          ELSE /\ p.total # Null
               /\ p.total.covered = SumFunction([a \in measured |-> known[a][p.run].covered])
               /\ p.total.total = SumFunction([a \in measured |-> known[a][p.run].total])
  /\ \A p \in Range(trend.points) :
       LET tested == {a \in DOMAIN counted : counted[a][p.run] # Null}
       IN p.testsTotal = IF tested = {} THEN Null
                         ELSE SumFunction([a \in tested |-> counted[a][p.run].total])

TrendsAgree ==
  live = Null =>
    \A c \in {<<rows, Apps, "lines">>, <<rows, {1}, "lines">>, <<rows, Apps, "max">>, <<points, SliceNames, "lines">>} :
      LET history == {r \in c[1] : r.app \in c[2]}
      IN TrendAgrees(BuildCoverageTrend(c[1], c[3], IF c[2] = {1} THEN {1} ELSE Null), {r.run : r \in history},
                     KnownAfter(history, c[2], c[3]), TestedAfter(history, c[2]))

\* An app has moved by the difference between what was known of it when the
\* window began, or first became known in it, and what is known at its end;
\* only those that moved are shown, the largest first; with one app, the headline
\* says the same.  A pass rate of 100% means that no test failed
\* (coverage-trends.ts:169-221).
MoversAre(movers, window, known) ==
  LET Since(a) == {run \in window : known[a][run] # Null /\ known[a][run].percent # Null}
  IN /\ DOMAIN movers = {a \in Apps : Cardinality(Since(a)) > 1 /\ Max(window) \in Since(a)}
     /\ \A a \in DOMAIN movers :
          movers[a] = known[a][Max(window)].percent - known[a][Min(Since(a))].percent
WindowHolds(slice, window, known) ==
  LET movers == Movers(slice)
      up     == TopMovers(slice, 1, TRUE)
      Kept(rate) == rate.withFailures = 0 <=> rate.passRate \in {Null, 1000}
  IN /\ MoversAre(movers, window, known)
     /\ \A i \in DOMAIN up : \A a \in DOMAIN movers : movers[a] <= movers[up[i]]
     /\ Kept(TrendReliability(slice))
     /\ Cardinality(DOMAIN slice.joined) = 1 =>
          \A a \in DOMAIN movers : SummarizeTrend(slice).delta = movers[a]
MoversHold ==
  live = Null =>
    LET Holds(trend, known) ==
          \A since \in 1 .. runs :
            WindowHolds(SliceTrend(trend, At(since, LastStep)), {r.run : r \in {q \in rows : q.run >= since}}, known)
    IN Holds(BuildCoverageTrend(rows, "lines", Null), KnownAfter(rows, Apps, "lines"))

\* When a run of a remote ref has been recorded, a slice's newest point is its
\* current coverage: the files the run added up in memory for some backends
\* and the database's own sum over the snapshots tell the same, however the
\* apps were selected, cut or left unmeasured (database.ts:1858-1865, 1945).
PointIsCurrent ==
  [][\A p \in points' : live # Null /\ live' = Null /\ ~live.local /\ p \notin points =>
       LET Same(c) == p.coverage = c.coverage /\ p.measured = c.measured
       IN Same(Current(slices[p.app]))]_vars

\* A build leaves every measured slice with a point of the newest run that
\* measured it, and changes no point a run has written itself
\* (database.ts:1733-1736, 1777).
SeedsFillGaps ==
  [][builds' # builds =>
       /\ points \subseteq points'
       /\ \A s \in SliceNames : Current(slices'[s]).measured > 0 =>
            \E p \in points' : /\ p.app = s
                               /\ \A a \in Current(slices'[s]).sources : snapshots[a].run <= p.run]_vars

\* What database.ts:1939-1943 says of a slice's coverage: a path counts once,
\* whatever other reports list it.
CountsOnce == \A s \in SliceNames : Current(slices[s]).measured <= Cardinality(slices[s])
=============================================================================
