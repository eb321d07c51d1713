--------------------------- MODULE MC_AppReports ---------------------------
(* The app in jobs/api of a checkout in /w/repo. *)
EXTENDS AppReports

MCRoot == <<"w", "repo">>
MCDirectory == <<"jobs", "api">>
Script(tool) == [tool |-> tool, coverage |-> FALSE, serial |-> FALSE]
MCManifests == {
  [name |-> "api", scripts |-> [test |-> Script("vitest")], jest |-> Null],
  [name |-> "api", scripts |-> [test |-> Script("jest")], jest |-> [up |-> 1, segs |-> <<"out">>]],
  [name |-> "api", scripts |-> [coverage |-> Script("other")], jest |-> Null]}
MCConfigured == {[auto |-> FALSE, coveragePath |-> <<"lcov.info">>, lcov |-> TRUE, reporters |-> {}]}
Pass(start, end) == [status |-> "passed", started |-> start, finished |-> end]
MCHistories == {{}, {Pass(0, 4), Pass(4, 5), Pass(5, 8)}, {Pass(0, 1), [status |-> "failed", started |-> 2, finished |-> 9]}}
MCPlaces == {MCDirectory \o <<"coverage">>, <<"jobs", "out">>, <<>>}
MCStale == {{}, {MCDirectory \o <<"coverage", Summary>>, MCDirectory \o <<"coverage", Detailed>>, MCDirectory \o <<Results>>},
            {<<"jobs", "out", Detailed>>, <<"lcov.info">>}}

Rel(segs) == [segs |-> segs, abs |-> FALSE]
St(line, hit) == [line |-> line, hit |-> hit]
Fn(name, line, hit) == [name |-> name, line |-> line, hit |-> hit]
Arm(branch, arm, line, hit) == [branch |-> branch, arm |-> arm, line |-> line, hit |-> hit]
First(path) == [functions |-> {Fn("f", 1, TRUE), Fn("g", 3, FALSE)},
                statements |-> {St(1, TRUE), St(1, FALSE), St(3, FALSE), St(4, FALSE)},
                arms |-> {Arm(0, 0, 3, FALSE), Arm(0, 1, 3, FALSE), Arm(1, 0, 1, TRUE), Arm(1, 1, 1, TRUE)}, path |-> path]
Second(path) == [functions |-> {Fn("h", 1, FALSE)}, statements |-> {St(2, FALSE)},
                 arms |-> {Arm(0, 0, 2, TRUE), Arm(0, 1, 2, FALSE), Arm(1, 0, 1, FALSE)}, path |-> path]
MCRecords == {{}, {First(Rel(<<"a">>))},
              {First([segs |-> MCRoot \o MCDirectory \o <<"a">>, abs |-> TRUE]), Second(Rel(MCDirectory \o <<"b">>))}}
L(k, path, n, id, hit) == [hit |-> hit, path |-> path, k |-> k, n |-> n, id |-> id]
MCLines == {L("SF", Rel(<<"a">>), 0, Null, FALSE), L("SF", Rel(MCDirectory \o <<"b">>), 0, Null, FALSE),
            L("DA", Null, 1, Null, TRUE), L("DA", Null, 2, Null, FALSE), L("FN", Null, 1, "f", FALSE),
            L("FNDA", Null, 0, "f", TRUE), L("BRDA", Null, 2, "0", FALSE), L("end", Null, 0, Null, FALSE)}
MCSuites == {[failed |-> TRUE, assertions |-> <<>>], [failed |-> FALSE, assertions |-> <<>>],
             [failed |-> TRUE, assertions |-> <<"passed">>], [failed |-> TRUE, assertions |-> <<"failed", "skipped">>]}
-----------------------------------------------------------------------------
(* Detection and limits over small inputs.                                 *)

Dirs == <<<<"apps", "a">>, <<"apps", "b">>, <<"lib">>>>
Workspaces == [Range(Dirs) -> [name : {<<"x">>, Null}, scripts : {<<>>, [test |-> Script("vitest")]}, jest : {Null}]]
Detect(w, requested, excluded) == DetectPnpmWorkspaceApps(Dirs, w, requested, excluded)

\* Two apps never share a name, by which a run is asked for them, and asking
\* for more workspaces only adds apps, excluding some only removes those.
ASSUME DetectedAppsAreDistinct ==
  \A w \in Workspaces, requested, excluded \in SUBSET Range(Dirs) :
    LET all == Detect(w, requested, excluded)
    IN all.error = Null =>
         /\ \A d, e \in DOMAIN all.apps : all.apps[d].name = all.apps[e].name => d = e
         /\ LET asked == Detect(w, {}, excluded)
            IN asked.error = Null => DOMAIN asked.apps \subseteq DOMAIN all.apps
         /\ DOMAIN all.apps = DOMAIN Detect(w, requested, {}).apps \ excluded
         /\ SelectApps(all.apps, {all.apps[d].name : d \in DOMAIN all.apps}) = DOMAIN all.apps

\* What the chart's scale promises, before it is proved for all inputs.
ASSUME ScaleOnSmallInputs ==
  \A lo \in {0, 13, 49, 500, 777, 985, 1000} : \A hi \in lo .. 1000 : DomainFits(lo, hi)

\* The chart's labels are points, the first and the last among them, no more
\* than asked for.
ASSUME LabelsAreSpread ==
  \A n \in 1 .. 20, count \in 0 .. 8 :
    LET labels == LabelIndexes(n, count)
    IN /\ labels \subseteq 0 .. n - 1 /\ {0, n - 1} \subseteq labels
       /\ Cardinality(labels) = Smaller(n, Bigger(2, count))
=============================================================================
