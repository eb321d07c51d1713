------------------------------ MODULE Coverage ------------------------------
(***************************************************************************)
(* What the worker reads out of an app's reports: coverage totals, per-file *)
(* counts and gaps from an Istanbul summary, its detailed report or an     *)
(* LCOV file (packages/shared/src/coverage.ts), and the counts of a        *)
(* structured test report (apps/worker/src/test-results.ts).               *)
(*                                                                         *)
(* A path is [abs, segs]; a percentage is in tenths.  An LCOV report is    *)
(* its sequence of lines, each [k, path, n, id, hit]: its keyword and the  *)
(* parts of it that k has.  JSON is taken as parsed.                       *)
(***************************************************************************)
EXTENDS Integers, Sequences, FiniteSets, SequencesExt, FiniteSetsExt

CONSTANTS
  Null,         \* null, undefined, a part that is not there
  Metrics,      \* coverageMetricNames
  DetailLimit,  \* COVERAGE_DETAIL_LIMITS, one bound for the three lists
  MaxTestCases  \* maximumTestCases

Metric(covered, total) ==
  [covered |-> covered, total |-> total,
   percent |-> IF total = 0 THEN Null ELSE (2000 * covered + total) \div (2 * total)]

\* The elements of a set in an order (Array.prototype.sort, whose comparison
\* leaves no ties here), as a function of their places: the place
\* of an element is the number of those before it.
InOrder(S, Before(_, _)) ==
  [i \in 1 .. Cardinality(S) |-> CHOOSE x \in S : Cardinality({y \in S : Before(y, x)}) = i - 1]

\* A map with one entry set.
Put(map, key, value) == [x \in DOMAIN map \cup {key} |-> IF x = key THEN value ELSE map[x]]

ValidCounts(v) == v # Null /\ v.covered >= 0 /\ v.total >= 0 /\ v.covered <= v.total
OptionalMetric(v) == IF ValidCounts(v) THEN Metric(v.covered, v.total) ELSE Null

-----------------------------------------------------------------------------
(* Paths                                                                   *)

\* Mutant: a path is taken to be the app's own whenever it is relative.
NormalizeCoverageFilePath_AlwaysJoins(p, root, wd) ==
  CASE p.abs /\ IsPrefix(root, p.segs) -> SubSeq(p.segs, Len(root) + 1, Len(p.segs))
    [] p.abs /\ ~IsPrefix(root, p.segs) -> <<Last(p.segs)>>
    [] OTHER -> wd \o p.segs

NormalizeCoverageFilePath(p, root, wd) ==
  CASE p.abs /\ IsPrefix(root, p.segs) -> SubSeq(p.segs, Len(root) + 1, Len(p.segs))
    [] p.abs /\ ~IsPrefix(root, p.segs) -> <<Last(p.segs)>>
    [] OTHER -> IF wd # <<>> /\ ~IsStrictPrefix(wd, p.segs) THEN wd \o p.segs ELSE p.segs

-----------------------------------------------------------------------------
(* Totals                                                                  *)

\* An Istanbul summary: the counts of "total", and of each file by its key.
ParseIstanbulReport(doc, root, wd) ==
  IF \E m \in Metrics : ~ValidCounts(doc.total[m]) THEN Null
  ELSE [summary |-> [m \in Metrics |-> OptionalMetric(doc.total[m])],
        files |-> {f \in {[path |-> NormalizeCoverageFilePath(key, root, wd),
                           metrics |-> [m \in Metrics |-> OptionalMetric(doc.files[key][m])]]
                            : key \in DOMAIN doc.files} :
                     f.path # <<>> /\ \E m \in Metrics : f.metrics[m] # Null}]

\* The counters a line of an LCOV report adds to: DA lines, FNDA functions,
\* BRDA branches.
Counter == [DA |-> "lines", FNDA |-> "functions", BRDA |-> "branches"]
Zero == [m \in Metrics |-> [covered |-> 0, total |-> 0]]
Count(counts, t) ==
  [counts EXCEPT ![Counter[t.k]] = [covered |-> @.covered + IF t.hit THEN 1 ELSE 0,
                                    total   |-> @.total + 1]]
LcovMetrics(counts) ==
  [m \in Metrics |-> IF m = "statements" THEN Null ELSE Metric(counts[m].covered, counts[m].total)]

\* closeRecord
CloseRecord(s) ==
  [s EXCEPT !.current = Null,
            !.files = IF s.current = Null \/ s.current.path = <<>> THEN @
                      ELSE Append(@, [path |-> s.current.path, metrics |-> LcovMetrics(s.current.counts)])]

\* One line of parseLcovReport's loop.
LcovLine(s, t, root, wd) ==
  CASE t.k = "SF"  -> [CloseRecord(s) EXCEPT !.current =
                         [path |-> NormalizeCoverageFilePath(t.path, root, wd), counts |-> Zero]]
    [] t.k = "end" -> [CloseRecord(s) EXCEPT !.records = @ + 1]
    [] t.k \in DOMAIN Counter ->
         [s EXCEPT !.total = Count(@, t),
                   !.current = IF @ = Null THEN Null
                               ELSE [path |-> s.current.path, counts |-> Count(s.current.counts, t)]]
    [] OTHER -> s

ParseLcovReport(text, root, wd) ==
  LET start == [total |-> Zero, records |-> 0, files |-> <<>>, current |-> Null]
      end   == CloseRecord(FoldLeft(LAMBDA s, t : LcovLine(s, t, root, wd), start, text))
  IN IF end.records = 0 /\ end.total = Zero THEN Null
     ELSE [summary |-> LcovMetrics(end.total), files |-> end.files]

\* sumCoverage of the database, over a set of files.
SumCoverage(files) ==
  [m \in Metrics |->
     LET reported == {f \in files : f.metrics[m] # Null}
         Sum(part) == SumFunction([f \in reported |-> f.metrics[m][part]])
     IN IF reported = {} THEN Null ELSE Metric(Sum("covered"), Sum("total"))]

-----------------------------------------------------------------------------
(* Gaps                                                                    *)

ToLineRanges(lines) ==
  LET sorted == InOrder({n \in lines : n > 0}, <)
      Add(ranges, n) ==
        IF ranges # <<>> /\ n = Last(ranges)[2] + 1
        THEN [ranges EXCEPT ![Len(ranges)][2] = n] ELSE Append(ranges, <<n, n>>)
  IN FoldLeft(Add, <<>>, sorted)

\* capDetails keeps the first entries of each list.
Cap(list) == SubSeq(list, 1, IF Len(list) <= DetailLimit THEN Len(list) ELSE DetailLimit)
ByLine(set) == CHOOSE list \in SetToSeqs(set) : \A i, j \in DOMAIN list : i < j => list[i].line <= list[j].line

\* parseIstanbulDetails for one file: statements (line 0: no location),
\* functions and the arms of branches, with what ran.
IstanbulGaps(record) ==
  LET lines(hit) == {s.line : s \in {t \in record.statements : t.line > 0 /\ t.hit = hit}}
      missed == {a \in record.arms : ~a.hit}
      Of(arms, id) == Cardinality({a \in arms : a.branch = id})
  IN [lines     |-> Cap(ToLineRanges(lines(FALSE) \ lines(TRUE))),
      functions |-> Cap(ByLine({f \in record.functions : ~f.hit})),
      branches  |-> Cap(ByLine({[branch |-> a.branch, line |-> a.line, uncovered |-> Of(missed, a.branch),
                                 total |-> Of(record.arms, a.branch)] : a \in missed}))]

\* parseLcovDetails: the gaps of each path.  A later record of a path takes
\* the place of an earlier one; lines before the first record are ignored.
NoGaps(path) == [path |-> path, missed |-> {}, declared |-> <<>>, ran |-> {}, branches |-> <<>>]
CloseGaps(s) ==
  [s EXCEPT !.current = Null,
     !.gaps = IF s.current = Null \/ s.current.path = <<>> THEN @
              ELSE Put(@, s.current.path,
                [lines |-> Cap(ToLineRanges(s.current.missed)),
                 functions |-> Cap(ByLine({[name |-> id, line |-> s.current.declared[id]] :
                                  id \in DOMAIN s.current.declared \ s.current.ran})),
                 branches |-> Cap(ByLine({[line |-> b[1], block |-> b[2], uncovered |-> s.current.branches[b].uncovered,
                                           total |-> s.current.branches[b].total] :
                                  b \in {c \in DOMAIN s.current.branches :
                                           s.current.branches[c].uncovered > 0}}))])]
GapLine(s, t, root, wd) ==
  LET Now(part, value) == [s EXCEPT !.current[part] = value]
      c == s.current
      at == <<t.n, t.id>>
      old == IF at \in DOMAIN c.branches THEN c.branches[at] ELSE [total |-> 0, uncovered |-> 0]
  IN CASE t.k = "SF"  -> [CloseGaps(s) EXCEPT !.current = NoGaps(NormalizeCoverageFilePath(t.path, root, wd))]
       [] t.k = "end" -> CloseGaps(s)
       [] t.k \notin {"SF", "end"} /\ c = Null -> s
       [] t.k = "DA"   /\ c # Null -> Now("missed", IF t.n # 0 /\ ~t.hit THEN c.missed \cup {t.n} ELSE c.missed)
       [] t.k = "FN"   /\ c # Null -> Now("declared", Put(c.declared, t.id, t.n))
       [] t.k = "FNDA" /\ c # Null -> Now("ran", IF t.hit THEN c.ran \cup {t.id} ELSE c.ran \ {t.id})
       [] t.k = "BRDA" /\ c # Null ->
            Now("branches", Put(c.branches, at, [total |-> old.total + 1,
                                                 uncovered |-> old.uncovered + IF t.hit THEN 0 ELSE 1]))
ParseLcovDetails(text, root, wd) ==
  CloseGaps(FoldLeft(LAMBDA s, t : GapLine(s, t, root, wd), [gaps |-> <<>>, current |-> Null], text)).gaps

-----------------------------------------------------------------------------
(* Test reports                                                            *)

Statuses == {"passed", "failed", "skipped", "todo"}

\* A suite adds its assertions while there is room, and a failure of its own
\* if it failed (or carries a message) without a failed assertion.
ReadSuite(cases, suite) ==
  LET room   == MaxTestCases - Len(cases)
      taken  == SubSeq(suite.assertions, 1, IF Len(suite.assertions) <= room THEN Len(suite.assertions) ELSE room)
      failed == \E i \in DOMAIN taken : taken[i] = "failed"
  IN cases \o taken \o (IF Len(cases \o taken) < MaxTestCases /\ suite.failed /\ ~failed
                        THEN <<"failed">> ELSE <<>>)

ParseTestResults(suites) ==
  LET cases == FoldLeft(ReadSuite, <<>>, suites)
      CountOf(status) == Cardinality({i \in DOMAIN cases : cases[i] = status})
  IN [total |-> Len(cases), counts |-> [s \in Statuses |-> CountOf(s)]]
=============================================================================
