----------------------------- MODULE AppReports -----------------------------
(***************************************************************************)
(* One app of a run, from the checkout to its result: its earlier reports  *)
(* are cleared, its test command writes reports and ends, or is cut at the *)
(* app's time limit, and the worker reads what is there (the loop of       *)
(* executeRun in apps/worker/src/worker.ts, with detection.ts, coverage.ts,*)
(* test-results.ts and timeouts.ts).  The command is the environment.      *)
(*                                                                         *)
(* A file on disk is [by, body]: who wrote it, and its parsed content (Null *)
(* when it cannot be parsed).  A record of a detailed report is            *)
(* [path, statements, functions, arms], with statements [line, hit],       *)
(* functions [name, line, hit] and the arms of branches                    *)
(* [branch, line, arm, hit], where line is the branch's.                   *)
(***************************************************************************)
EXTENDS Coverage, Limits
INSTANCE Detection

CONSTANTS
  Root,            \* segments of the checkout's directory in the runner
  Directory,       \* the app's working directory
  Manifests,       \* package manifests a detected app may have
  ConfiguredApps,  \* apps configured by hand: [auto, coveragePath, lcov, reporters]
  Histories,       \* the app's earlier runs: sets of [status, started, finished]
  Times,           \* how long its command may take
  Places,          \* directories its command may write reports to
  Stale,           \* sets of reports that are there before it runs
  Records,         \* sets of records a detailed report may hold
  LcovLines,       \* lines an LCOV report may hold
  Suites,          \* suites of a test report
  MaxLines,        \* bound: lines of an LCOV report
  MaxSuites        \* bound: suites of a test report

ASSUME AppReportsAssumption ==
  /\ MaxTestCases \in Nat \ {0} /\ MaxSuites \in Nat
  /\ Directory \in Seq(STRING) /\ Places \subseteq Seq(STRING)
  /\ \A a \in ConfiguredApps : a.coveragePath # Null
  /\ \A h \in Histories : IsFiniteSet(h) /\ \A r \in h : {r.started, r.finished} \subseteq Nat
  /\ \A s \in Suites : s.failed \in BOOLEAN /\ s.assertions \in Seq(Statuses)

\* The file of a record by the path that json-summary lists it under: the
\* tool's own path is from the root of the disk, of the repository or of the
\* app.
Absolute(r) ==
  LET segs == r.path.segs
  IN IF r.path.abs THEN r.path
     ELSE [segs |-> Root \o (IF IsPrefix(Directory, segs) THEN segs ELSE Directory \o segs), abs |-> TRUE]

\* What reporters write of any app: a file has a name and lines that count
\* from one, Istanbul has one record of it, and LCOV the keywords below.  The
\* app has a test command, or is configured with a report of its own format.
FilePath == [segs : Seq(STRING) \ {<<>>}, abs : BOOLEAN]
ASSUME ReportersAssumption ==
  /\ Metrics = {"lines", "functions", "branches", "statements"} /\ DetailLimit \in Nat
  /\ Root \in Seq(STRING)
  /\ \A m \in Manifests :
       TestCommand(m) # Null /\ (m.jest # Null => m.jest.up \in Nat /\ m.jest.segs \in Seq(STRING))
  /\ \A a \in ConfiguredApps :
       /\ ~a.auto /\ a.lcov \in BOOLEAN /\ a.coveragePath \in Seq(STRING) \ {<<>>}
       /\ Last(a.coveragePath) \notin {Summary, Detailed, Lcov, Results} \ {IF a.lcov THEN Lcov ELSE Summary}
  /\ \A records \in Records :
       /\ IsFiniteSet(records) /\ \A r, q \in records : Absolute(r) = Absolute(q) => r = q
       /\ \A r \in records :
            /\ r.path \in FilePath /\ (r.path.abs \/ r.path.segs # Directory)
            /\ IsFiniteSet(r.statements) /\ \A s \in r.statements : s.line \in Nat \ {0} /\ s.hit \in BOOLEAN
            /\ IsFiniteSet(r.functions) /\ \A f \in r.functions : f.line \in Nat /\ f.hit \in BOOLEAN
            /\ IsFiniteSet(r.arms) /\ \A a \in r.arms : a.line \in Nat /\ a.hit \in BOOLEAN
  /\ \A t \in LcovLines :
       /\ t.k \in {"SF", "end", "DA", "FN", "FNDA", "BRDA"} /\ t.n \in Nat /\ t.hit \in BOOLEAN
       /\ t.k = "SF" => t.path \in FilePath

\* Null is none of the values it stands in for.
Counts == [covered : Nat, total : Nat]
Maps(K, V) == UNION {[I -> V] : I \in SUBSET K}
Ids == {t.id : t \in LcovLines}
Branches == {t.n : t \in LcovLines} \X Ids
LcovRecord == [path : Seq(STRING), counts : [Metrics -> Counts]]
GapRecord ==
  [path : Seq(STRING), missed : SUBSET Nat, declared : Maps(Ids, Nat), ran : SUBSET Ids,
   branches : Maps(Branches, [total : Nat, uncovered : Nat])]
ASSUME NullIsApart ==
  /\ Null \notin Counts /\ Null \notin [covered : Nat, total : Nat, percent : {Null} \cup Int]
  /\ Null \notin Records /\ \A records \in Records : \A r \in records : IstanbulGaps(r) # Null
  /\ Null \notin LcovRecord /\ Null \notin GapRecord

VARIABLES
  app,       \* the app, as detected or configured
  history,   \* its earlier runs
  place,     \* where its command writes reports
  disk,      \* report files: path -> [by, body]
  phase,     \* what the worker does with the app
  exit,      \* how its command ended: [code, took]
  outcome    \* what it has read: [coverage, files, from, tests]

vars == <<app, history, place, disk, phase, exit, outcome>>
command == <<app, history, place>>

Detected(manifest) ==
  LET d == DetectPnpmWorkspaceApps(<<Directory>>, [w \in {Directory} |-> manifest], {}, {}).apps[Directory]
  IN [auto |-> TRUE, coveragePath |-> d.coveragePath, lcov |-> FALSE, reporters |-> d.command.reporters]

Init ==
  /\ app \in {Detected(m) : m \in Manifests} \cup ConfiguredApps
  /\ history \in Histories /\ place \in Places
  /\ \E paths \in Stale : disk = [p \in paths |-> [by |-> "before", body |-> Null]]
  /\ phase = "clear"
  /\ exit = Null /\ outcome = Null

\* clearAppReports
Clear ==
  /\ phase = "clear" /\ phase' = "run"
  /\ disk' = [p \in DOMAIN disk \ Cleared(Directory, app.coveragePath) |-> disk[p]]
  /\ UNCHANGED <<command, exit, outcome>>

-----------------------------------------------------------------------------
(* The command.                                                            *)

\* It writes a report: one that it was told to write, or any report when the
\* worker does not know the tool.
Write(name, path, body) ==
  /\ phase = "run" /\ (app.reporters = {} \/ name \in app.reporters)
  /\ disk' = Put(disk, path, [by |-> "command", body |-> body])
  /\ UNCHANGED <<command, phase, exit, outcome>>

Wrote(path) == path \in DOMAIN disk /\ disk[path].by = "command"

\* Istanbul's counts of a record: a line is covered when a statement on it ran.
LinesOf(record, hits) == {s.line : s \in {t \in record.statements : t.hit \in hits}}
CountsOf(record) ==
  [m \in Metrics |->
     CASE m = "lines" -> [covered |-> Cardinality(LinesOf(record, {TRUE})), total |-> Cardinality(LinesOf(record, BOOLEAN))]
       [] m = "functions" -> [covered |-> Cardinality({f \in record.functions : f.hit}), total |-> Cardinality(record.functions)]
       [] m = "branches" -> [covered |-> Cardinality({a \in record.arms : a.hit}), total |-> Cardinality(record.arms)]
       [] OTHER -> [covered |-> 0, total |-> 0]]
Total(records) ==
  [m \in Metrics |-> [covered |-> SumFunction([r \in records |-> CountsOf(r)[m].covered]),
                      total   |-> SumFunction([r \in records |-> CountsOf(r)[m].total])]]

\* The reporters json-summary and json, one after the other; the detailed
\* report names a file as the tool does.
SummaryOf(records) ==
  [total |-> Total(records), records |-> records,
   files |-> [p \in {Absolute(r) : r \in records} |-> CountsOf(CHOOSE r \in records : Absolute(r) = p)]]
WriteSummary(records) ==
  /\ ~Wrote(Append(place, Summary))
  /\ Write(Summary, Append(place, Summary), SummaryOf(records))
WriteDetailed ==
  /\ Wrote(Append(place, Summary))
  /\ Write(Detailed, Append(place, Detailed), disk[Append(place, Summary)].body.records)

\* The lcov reporter writes line after line.
PrintLine(t) ==
  LET path == Append(place, Lcov)
      text == IF Wrote(path) THEN disk[path].body ELSE <<>>
  IN /\ ~Wrote(Append(place, Summary)) /\ Len(text) < MaxLines
     /\ Write(Lcov, path, Append(text, t))

WriteResults(suites) ==
  /\ app.reporters # {} /\ ~Wrote(Directory \o <<Results>>)
  /\ Write(Results, Directory \o <<Results>>, suites)

\* It ends, after a time within the app's limit, or is cut at the limit, or
\* for its silence before that: then nothing of it is read.
Limit == AppTimeLimit(RecentPassingDurations(history))
Exit(code, took) ==
  /\ phase = "run" /\ took < Limit
  /\ phase' = "read" /\ exit' = [code |-> code, took |-> took]
  /\ UNCHANGED <<command, disk, outcome>>
CutShort ==
  /\ phase = "run" /\ phase' = "done"
  /\ \E took \in {t \in Times : t < Limit} \cup {Limit} : exit' = [code |-> 1, took |-> took]
  /\ outcome' = [coverage |-> Null, files |-> {}, from |-> Null, tests |-> Null]
  /\ UNCHANGED <<command, disk>>

-----------------------------------------------------------------------------
(* Reading.                                                                *)

Exists == DOMAIN disk
Body(path) == disk[path].body
Gaps(details, path) == IF path \in DOMAIN details THEN details[path] ELSE Null

\* attachCoverageDetails; an unreadable detailed report leaves the files as
\* they are.
IstanbulDetails(records) ==
  LET path(r) == NormalizeCoverageFilePath(r.path, Root, Directory)
  IN [p \in {path(r) : r \in records} |-> IstanbulGaps(CHOOSE r \in records : path(r) = p)]
WithDetails(found, files) ==
  LET detailed == IF found.lcov THEN found.path ELSE Beside(found.path, Detailed)
      readable == detailed \in Exists /\ Body(detailed) # Null
      details  == IF ~readable THEN <<>>
                  ELSE IF found.lcov THEN ParseLcovDetails(Body(detailed), Root, Directory)
                  ELSE IstanbulDetails(Body(detailed))
  IN {[file |-> f, details |-> Gaps(details, f.path),
       source |-> IF detailed \in Exists THEN detailed ELSE Null] : f \in files}

\* What a report says, or Null when it cannot be read.
Report(found) ==
  IF found = Null \/ Body(found.path) = Null THEN Null
  ELSE IF found.lcov THEN ParseLcovReport(Body(found.path), Root, Directory)
  ELSE ParseIstanbulReport(Body(found.path), Root, Directory)

\* readTestResults, then discoverCoverageReport or parseCoverage.
Read ==
  /\ phase = "read" /\ phase' = "done"
  /\ LET results == Directory \o <<Results>>
         found   == IF app.auto THEN Discovered(Directory, app.coveragePath, Exists)
                    ELSE Configured(app.coveragePath, app.lcov, Exists)
         report  == Report(found)
     IN outcome' =
          [tests    |-> IF results \in Exists /\ Body(results) # Null THEN ParseTestResults(Body(results)) ELSE Null,
           coverage |-> IF report = Null THEN Null ELSE report.summary,
           from     |-> IF report = Null THEN Null ELSE found,
           files    |-> IF report = Null THEN {}
                        ELSE WithDetails(found, IF found.lcov THEN Range(report.files) ELSE report.files)]
  /\ UNCHANGED <<command, disk, exit>>

\* How the app's row is finished, and whether its snapshot is replaced.
Verdict ==
  IF exit.code = 0 /\ outcome.tests # Null /\ outcome.tests.total = 0 THEN "skipped"
  ELSE IF exit.code = 0 /\ outcome.coverage # Null THEN "passed" ELSE "failed"

Next ==
  \/ Clear \/ CutShort \/ Read
  \/ \E records \in Records : WriteSummary(records)
  \/ WriteDetailed
  \/ \E t \in LcovLines : PrintLine(t)
  \/ \E suites \in SeqOf(Suites, MaxSuites) : WriteResults(suites)
  \/ \E code \in {0, 1}, took \in Times : Exit(code, took)

Spec == Init /\ [][Next]_vars

-----------------------------------------------------------------------------
(* Properties.                                                             *)

Done == phase = "done"

\* Nothing is read that was there before the command ran: not its coverage,
\* not the gaps of a file, not its test results (worker.ts:451, 463-491).
FreshReports ==
  Done =>
    /\ outcome.from # Null => Wrote(outcome.from.path)
    /\ \A f \in outcome.files : f.source # Null => Wrote(f.source)
    /\ outcome.tests # Null => Wrote(Directory \o <<Results>>)

\* The lines of a list of ranges.
Spanned(ranges) == UNION {ranges[i][1] .. ranges[i][2] : i \in DOMAIN ranges}
MissedOf(f, m) == f.file.metrics[m].total - f.file.metrics[m].covered
OnlyOne(f) == \A g \in outcome.files : g.file.path = f.file.path => g = f

\* What the worker read adds up, whichever of the two formats it came in: an
\* Istanbul file finds its gaps, under whatever path the two reports name it,
\* and the gaps are the missed lines and functions of its counts, with a branch
\* for one missed arm or for several (as far as the detail limit goes); an LCOV
\* file has no more missed lines than its counts say; and no file counts for
\* more than the report's total.
ReportAddsUp ==
  Done =>
    /\ \A f \in outcome.files :
         f.details # Null /\ OnlyOne(f) =>
           LET lines == Spanned(f.details.lines)
           IN /\ Cardinality(lines) <= MissedOf(f, "lines")
              /\ ~outcome.from.lcov /\ Len(f.details.lines) < DetailLimit => Cardinality(lines) = MissedOf(f, "lines")
              /\ ~outcome.from.lcov /\ Len(f.details.functions) < DetailLimit =>
                   Len(f.details.functions) = MissedOf(f, "functions")
              /\ ~outcome.from.lcov /\ Len(f.details.branches) < DetailLimit =>
                   /\ Len(f.details.branches) <= MissedOf(f, "branches")
                   /\ f.details.branches = <<>> => MissedOf(f, "branches") = 0
    /\ \A f \in outcome.files : ~outcome.from.lcov /\ f.source # Null => f.details # Null
    /\ outcome.coverage # Null =>
         LET sum == SumCoverage({f.file : f \in {g \in outcome.files : OnlyOne(g)}})
         IN \A m \in Metrics :
              sum[m] # Null => sum[m].total <= outcome.coverage[m].total /\ sum[m].covered <= outcome.coverage[m].covered

\* A failed suite or test is a failed test case of the app, unless the test
\* case limit came first, so an app is never skipped as one without tests
\* when a suite of it failed to load (worker.ts:505-522).
FailureIsCounted ==
  Done /\ outcome.tests # Null =>
    LET suites == Range(Body(Directory \o <<Results>>))
        failed == {s \in suites : s.failed \/ "failed" \in Range(s.assertions)}
    IN /\ failed # {} /\ outcome.tests.total < MaxTestCases => outcome.tests.counts["failed"] > 0
       /\ Verdict = "skipped" => failed = {}

\* An app is cut at its limit only after three times what any of its recent passes took,
\* and never before the floor; failed or long past runs do not count
\* (timeouts.ts:31-44, database.ts:1403-1426).
SparesSlowApps ==
  Done /\ exit.took = Limit =>
    LET passed == {r \in history : r.status = "passed"}
    IN /\ exit.took >= FloorLimit
       /\ \A r \in passed :
            Cardinality({s \in passed : s.finished >= r.finished}) <= History
              => exit.took >= Multiplier * (r.finished - r.started)
       /\ exit.took > DefaultLimit => \E r \in passed : exit.took = Multiplier * (r.finished - r.started)
=============================================================================
