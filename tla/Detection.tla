----------------------------- MODULE Detection -----------------------------
(***************************************************************************)
(* What a run tests and where it looks for the results                     *)
(* (apps/worker/src/detection.ts): the apps of a pnpm workspace with their *)
(* test commands, and the places an app's reports are cleared from and     *)
(* read from.                                                              *)
(*                                                                         *)
(* A path is the sequence of its segments.  A manifest is                  *)
(* [name, scripts, jest]: scripts maps the script names it has to what     *)
(* they run, [tool, coverage, serial]; jest is the coverageDirectory it    *)
(* configures, [up, segs] (so many directories up, then down) or Null.     *)
(***************************************************************************)
EXTENDS Integers, Sequences, FiniteSets, SequencesExt, FiniteSetsExt

CONSTANT Null   \* null, undefined, a part that is not there

Summary  == "coverage-summary.json"
Detailed == "coverage-final.json"
Lcov     == "lcov.info"
Results  == ".qa-buddy-test-results.json"

-----------------------------------------------------------------------------
(* Apps                                                                    *)

\* testCommand: the first of the scripts below, run so that it measures
\* coverage and, for a known tool, leaves the reports that are read later.
TestCommand(manifest) ==
  LET has    == SelectSeq(<<"test:coverage", "test:cov", "coverage", "test">>, LAMBDA s : s \in DOMAIN manifest.scripts)
      script == manifest.scripts[Head(has)]
      known  == script.tool \in {"vitest", "jest"}
  IN IF has = <<>> THEN Null
     ELSE [script    |-> Head(has),
           coverage  |-> IF known THEN ~script.coverage ELSE Head(has) = "test",
           reporters |-> IF known THEN {Summary, Detailed, Results} ELSE {},
           parallel  |-> known /\ ~(script.tool = "jest" /\ script.serial)]

\* configuredJestCoveragePath; Null outside the repository.
ConfiguredJestCoveragePath(manifest, directory) ==
  IF manifest.jest = Null \/ manifest.jest.up > Len(directory) THEN Null
  ELSE SubSeq(directory, 1, Len(directory) - manifest.jest.up) \o manifest.jest.segs \o <<Summary>>

InAppsGroup(directory) == directory[1] = "apps"

\* The workspaces to test: the apps group if there is one, and the requested
\* ones.
Candidates(manifests, requested) ==
  IF \E d \in DOMAIN manifests : InAppsGroup(d)
  THEN {d \in DOMAIN manifests : InAppsGroup(d) \/ d \in requested}
  ELSE DOMAIN manifests

\* uniqueName over the directories in order: a name taken already gets its
\* directory added.
UniqueNames(ordered, manifests) ==
  LET Raw(d) == IF manifests[d].name = Null THEN [base |-> d, at |-> Null] ELSE [base |-> manifests[d].name, at |-> Null]
  IN FoldLeft(LAMBDA named, d :
                (d :> IF Raw(d) \in Range(named) THEN [Raw(d) EXCEPT !.at = d] ELSE Raw(d)) @@ named,
              <<>>, ordered)

\* detectPnpmWorkspaceApps: the apps by directory, or an error.  dirs are the
\* workspaces with a manifest, sorted.
DetectPnpmWorkspaceApps(dirs, manifests, requested, excluded) ==
  LET apps    == {d \in Range(dirs) : d \in Candidates(manifests, requested) \ excluded
                                       /\ TestCommand(manifests[d]) # Null}
      names   == UniqueNames(SelectSeq(dirs, LAMBDA d : d \in apps), manifests)
      conventional(d) == d \o <<"coverage", Summary>>
      configured(d)   == ConfiguredJestCoveragePath(manifests[d], d)
  IN CASE requested \ DOMAIN manifests # {} -> [error |-> "unknown workspace"]
       [] requested \subseteq DOMAIN manifests /\ apps = {} -> [error |-> "no test scripts"]
       [] OTHER -> [error |-> Null,
                    unmatched |-> excluded \ DOMAIN manifests,
                    apps |-> [d \in apps |->
                                [name |-> names[d], command |-> TestCommand(manifests[d]),
                                 coveragePath |-> IF configured(d) = Null THEN conventional(d) ELSE configured(d)]]]

\* setDetectedApps: the selected apps, all of which must have been detected.
SelectApps(apps, selected) ==
  IF selected = Null THEN DOMAIN apps
  ELSE IF selected \subseteq {apps[d].name : d \in DOMAIN apps} THEN {d \in DOMAIN apps : apps[d].name \in selected}
  ELSE Null

-----------------------------------------------------------------------------
(* Report files                                                            *)

Beside(path, name) == Append(Front(path), name)

\* coverageCandidates, in order: [path, lcov].
CoverageCandidates(wd, configured) ==
  LET json(p) == [path |-> p, lcov |-> FALSE]
      lcov(p) == [path |-> p, lcov |-> TRUE]
  IN (IF configured = Null THEN <<>> ELSE <<json(configured), lcov(Beside(configured, Lcov))>>)
     \o <<json(wd \o <<"coverage", Summary>>), json(wd \o <<Summary>>),
          lcov(wd \o <<"coverage", Lcov>>), lcov(wd \o <<Lcov>>),
          json(<<"coverage">> \o wd \o <<Summary>>), lcov(<<"coverage">> \o wd \o <<Lcov>>)>>

\* clearAppReports: what it removes.  Mutant: the summaries' detailed
\* reports stay.
Cleared_KeepsDetails(wd, configured) ==
  {c.path : c \in Range(CoverageCandidates(wd, configured))} \cup {wd \o <<Results>>}

Cleared(wd, configured) ==
  LET candidates == Range(CoverageCandidates(wd, configured))
  IN {c.path : c \in candidates}
       \cup {Beside(c.path, Detailed) : c \in {x \in candidates : ~x.lcov}}
       \cup {wd \o <<Results>>}

\* discoverCoverageReport: the first candidate that exists, whether or not it
\* can be read.
Discovered(wd, configured, exists) ==
  LET candidates == CoverageCandidates(wd, configured)
      n == SelectInSeq(candidates, LAMBDA c : c.path \in exists)
  IN IF n = 0 THEN Null ELSE candidates[n]

\* parseCoverage of the worker: a configured app's report is where its
\* configuration says it is.
Configured(path, lcov, exists) == IF path \in exists THEN [path |-> path, lcov |-> lcov] ELSE Null
=============================================================================
