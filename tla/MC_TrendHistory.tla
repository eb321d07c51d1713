--------------------------- MODULE MC_TrendHistory ---------------------------
(* Two apps of two files each; a slice of both backends and one of the first. *)
EXTENDS TrendHistory

Full(d, c) == [path |-> <<d, 1>>, metrics |-> [lines |-> Metric(c, 2), branches |-> IF d = "api" THEN Null ELSE Metric(1, 1)]]
Half(d, c) == [path |-> <<d, 2>>, metrics |-> [lines |-> Metric(c, 1), branches |-> Metric(0, 0)]]
Ran(files, passed, failed) ==
  [coverage |-> SumCoverage(files), files |-> files, tests |-> [total |-> passed + failed, passed |-> passed, failed |-> failed]]
Crashed   == [coverage |-> Null, files |-> {}, tests |-> Null]
NoResults(files) == [coverage |-> SumCoverage(files), files |-> files, tests |-> Null]
TestsOnly == [coverage |-> Null, files |-> {}, tests |-> [total |-> 1, passed |-> 0, failed |-> 1]]

MCOrder == <<"lines", "branches">>
MCDirs == [a \in Apps |-> IF a = 1 THEN "api" ELSE "jobs"]
MCReports == [a \in Apps |->
  LET d == MCDirs[a]
  IN IF a = 1 THEN {Crashed, NoResults({Full(d, 1)}), Ran({Full(d, 2), Half(d, 0)}, 1, 1)}
     ELSE {TestsOnly, Ran({Full(d, 1), Half(d, 1)}, 1, 0)}]
MCShapes == {[s \in SliceNames |-> IF s = 1 THEN {<<"api", 1>>, <<"jobs", 1>>} ELSE {<<"api", 2>>}]}

\* The condition of PointsAreCurrent holds of this instance.
ASSUME MCOwnPaths == OwnPaths

\* An app whose package was renamed, so that its snapshot stays beside the
\* one under the new name.
RenamedDirs == [a \in Apps |-> "api"]
RenamedReports == [a \in Apps |-> {Ran({Full("api", 1)}, 1, 0)}]
RenamedShapes == {[s \in SliceNames |-> {<<"api", 1>>}]}
=============================================================================
