--------------------------- MODULE CoverageTrend ---------------------------
(***************************************************************************)
(* The trend the dashboard draws from coverage_history: buildCoverageTrend *)
(* and its readers (packages/shared/src/coverage-trends.ts) and the scale  *)
(* of the chart (apps/web/src/components/trend-model.ts).                  *)
(*                                                                         *)
(* A row is [run, at, app, coverage, tests]; apps are numbers in the order *)
(* of their names, and names that differ in case only are one app.         *)
(* Percentages are in tenths; covered counts of a point are in thousandths *)
(* so that the weighted views of "max" and "min" stay exact.               *)
(***************************************************************************)
EXTENDS Coverage

CONSTANT MetricOrder   \* coverageMetricNames as a sequence

Best(metric, a, b) == IF metric = "max" THEN a > b ELSE a < b

\* resolveTrendValue.  max and min take the first of the best metrics, and
\* weigh it by the lines of the app, or its statements, if there are any.
BestMetric(coverage, metric) ==
  FoldLeft(LAMBDA c, m : CASE coverage[m] = Null -> c
                           [] coverage[m] # Null /\ coverage[m].percent = Null -> c
                           [] OTHER -> IF c = Null THEN m
                                       ELSE IF Best(metric, coverage[m].percent, coverage[c].percent) THEN m ELSE c,
           Null, MetricOrder)
Weighted(coverage, chosen) ==
  LET Sized(m) == m \in Metrics /\ coverage[m] # Null /\ coverage[m].total # 0
      weigher == CASE Sized("lines") -> "lines"
                   [] ~Sized("lines") /\ Sized("statements") -> "statements"
                   [] OTHER -> chosen
      weight == coverage[weigher].total
  IN IF chosen = Null THEN Null
     ELSE [covered |-> coverage[chosen].percent * weight, total |-> weight,
           percent |-> coverage[chosen].percent, from |-> chosen]
ResolveTrendValue(coverage, metric) ==
  IF metric \in {"max", "min"} THEN Weighted(coverage, BestMetric(coverage, metric))
  ELSE IF coverage[metric] = Null THEN Null
  ELSE [covered |-> 1000 * coverage[metric].covered, total |-> coverage[metric].total,
        percent |-> coverage[metric].percent, from |-> metric]

\* The runs in scope, oldest first, each with its rows.
RunRows(rows, scope) ==
  LET inScope == {r \in rows : scope = Null \/ r.app \in scope}
      groups  == {{r \in inScope : r.run = id} : id \in {r.run : r \in inScope}}
      At(g)   == (CHOOSE r \in g : TRUE).at
  IN InOrder(groups, LAMBDA a, b : At(a) < At(b))

\* Mutant: an app that produced no coverage loses its last value.
Latest_Forgets(latest, group, metric) ==
  LET Of(app) == CHOOSE x \in group : x.app = app
      ran == {r.app : r \in group}
  IN [app \in DOMAIN latest \cup ran |->
        IF app \in ran THEN [tests |-> Of(app).tests, value |-> ResolveTrendValue(Of(app).coverage, metric)]
        ELSE latest[app]]

\* Mutant: an app that reported no tests keeps its last ones, as it does its
\* coverage.
Latest_KeepsTests(latest, group, metric) ==
  LET Of(app) == CHOOSE x \in group : x.app = app
      Kept(app, part, value) == IF value = Null /\ app \in DOMAIN latest THEN latest[app][part] ELSE value
      ran == {r.app : r \in group}
  IN [app \in DOMAIN latest \cup ran |->
        IF app \in ran
        THEN [tests |-> Kept(app, "tests", Of(app).tests),
              value |-> Kept(app, "value", ResolveTrendValue(Of(app).coverage, metric))]
        ELSE latest[app]]

\* What is known of each app after a run: its tests are the run's, its value
\* the last one known.
Latest(latest, group, metric) ==
  LET Of(app) == CHOOSE x \in group : x.app = app
      Kept(app, value) == IF value = Null /\ app \in DOMAIN latest THEN latest[app].value ELSE value
      ran == {r.app : r \in group}
  IN [app \in DOMAIN latest \cup ran |->
        IF app \in ran
        THEN [tests |-> Of(app).tests, value |-> Kept(app, ResolveTrendValue(Of(app).coverage, metric))]
        ELSE latest[app]]

Round(n, d) == (2 * n + d) \div (2 * d)

Point(group, latest) ==
  LET measured == {a \in DOMAIN latest : latest[a].value # Null}
      tested   == {a \in DOMAIN latest : latest[a].tests # Null}
      covered  == SumFunction([a \in measured |-> latest[a].value.covered])
      total    == SumFunction([a \in measured |-> latest[a].value.total])
      reported == {r \in group : r.tests # Null}
      any      == CHOOSE r \in group : TRUE
  IN [run |-> any.run, at |-> any.at,
      total |-> IF measured = {} THEN Null
                ELSE [covered |-> covered, total |-> total,
                      percent |-> IF total = 0 THEN Null ELSE Round(covered, total)],
      testsTotal |-> IF tested = {} THEN Null
                     ELSE SumFunction([a \in tested |-> latest[a].tests.total]),
      ranTests |-> IF reported = {} THEN Null
                   ELSE [passed |-> SumFunction([r \in reported |-> r.tests.passed]),
                         failed |-> SumFunction([r \in reported |-> r.tests.failed])]]

\* The trend of runs in order, after giving what is known after each.
TrendOf(runs, after) ==
  LET apps == UNION {DOMAIN k : k \in Range(after)}
      PercentIn(known, a) == IF a \notin DOMAIN known THEN Null
                             ELSE IF known[a].value = Null THEN Null ELSE known[a].value.percent
  IN [points |-> [i \in DOMAIN runs |-> Point(runs[i], after[i])],
      apps   |-> [a \in apps |-> [i \in DOMAIN runs |-> PercentIn(after[i], a)]],
      joined |-> [a \in apps |-> SelectInSeq(after, LAMBDA known : a \in DOMAIN known)]]
\* What is known after each of the runs, in order.
After(runs, metric) ==
  LET known[i \in {0} \cup DOMAIN runs] ==
        IF i = 0 THEN <<>> ELSE Latest(known[i - 1], runs[i], metric)
  IN [i \in DOMAIN runs |-> known[i]]
BuildCoverageTrend(rows, metric, scope) ==
  LET Build(runs) == TrendOf(runs, After(runs, metric))
  IN Build(RunRows(rows, scope))

\* sliceTrend: the points from the first one at or after a date.
SliceTrend(trend, since) ==
  LET n       == Len(trend.points)
      start   == Min({i \in 1 .. n : trend.points[i].at >= since} \cup {n + 1})
      from(s) == SubSeq(s, start, n)
  IN [points |-> from(trend.points),
      apps |-> [a \in {b \in DOMAIN trend.apps : \E i \in start .. n : trend.apps[b][i] # Null}
                  |-> from(trend.apps[a])],
      joined |-> trend.joined]

\* trendMovers, as the apps that moved and by how much.  Mutant: an app's
\* first point is the first of the trend.
Movers_FromStart(trend) ==
  [a \in {b \in DOMAIN trend.apps : Len(trend.points) > 1 /\ trend.apps[b][1] # Null
                                    /\ Last(trend.apps[b]) # Null} |->
     Last(trend.apps[a]) - trend.apps[a][1]]

Movers(trend) ==
  LET First(a) == SelectInSeq(trend.apps[a], LAMBDA v : v # Null)
  IN [a \in {b \in DOMAIN trend.apps : First(b) \notin {0, Len(trend.points)}
                                       /\ Last(trend.apps[b]) # Null} |->
        Last(trend.apps[a]) - trend.apps[a][First(a)]]

\* The apps that moved most, at most limit of them; the sort is stable, over
\* apps in the order they joined the trend.
Ranked(movers, joined, limit, improved) ==
  LET moved   == {a \in DOMAIN movers : IF improved THEN movers[a] > 0 ELSE movers[a] < 0}
      Size(a) == IF improved THEN movers[a] ELSE 0 - movers[a]
      Earlier(a, b) == \/ joined[a] < joined[b]
                       \/ joined[a] = joined[b] /\ a < b
      sorted  == InOrder(moved, LAMBDA a, b : Size(a) > Size(b) \/ (Size(a) = Size(b) /\ Earlier(a, b)))
  IN SubSeq(sorted, 1, IF Cardinality(moved) < limit THEN Cardinality(moved) ELSE limit)
TopMovers(trend, limit, improved) == Ranked(Movers(trend), trend.joined, limit, improved)

\* trendReliability: the pass rate is rounded down, so 100% means every test.
TrendReliability(trend) ==
  LET ran == {i \in DOMAIN trend.points : trend.points[i].ranTests # Null}
      passed == SumFunction([i \in ran |-> trend.points[i].ranTests.passed])
      failed == SumFunction([i \in ran |-> trend.points[i].ranTests.failed])
  IN [passRate |-> IF passed + failed = 0 THEN Null ELSE (1000 * passed) \div (passed + failed),
      withTests |-> Cardinality(ran),
      withFailures |-> Cardinality({i \in ran : trend.points[i].ranTests.failed > 0})]

\* summarizeTrend: what moved between the first and the last measured point.
SummarizeTrend(trend) ==
  LET known == {i \in DOMAIN trend.points : trend.points[i].total # Null /\ trend.points[i].total.percent # Null}
      tested == {i \in DOMAIN trend.points : trend.points[i].testsTotal # Null}
      P(i) == trend.points[i]
      Uncovered(i) == P(i).total.total * 1000 - P(i).total.covered
  IN [last |-> IF known = {} THEN Null ELSE P(Max(known)).total.percent,
      comparable |-> Cardinality(known) > 1,
      delta |-> IF known = {} THEN Null ELSE P(Max(known)).total.percent - P(Min(known)).total.percent,
      uncovered |-> IF known = {} THEN Null ELSE Uncovered(Max(known)) - Uncovered(Min(known)),
      tests |-> IF tested = {} THEN Null ELSE P(Max(tested)).testsTotal - P(Min(tested)).testsTotal]
=============================================================================
