------------------------------- MODULE Limits -------------------------------
(***************************************************************************)
(* Numbers derived from earlier results: the time an app is given to run   *)
(* (apps/worker/src/timeouts.ts, from recentPassingAppDurations of the     *)
(* database) and the scale of the trend chart (trend-model.ts).            *)
(*                                                                         *)
(* Times are any unit that makes the floor and the default whole numbers;  *)
(* percentages are tenths.                                                 *)
(***************************************************************************)
EXTENDS Integers, FiniteSets

CONSTANTS
  Multiplier,    \* APP_TIME_LIMIT_MULTIPLIER
  FloorLimit,    \* APP_TIME_LIMIT_FLOOR_MS
  DefaultLimit,  \* APP_TIME_LIMIT_DEFAULT_MS
  History        \* APP_TIME_LIMIT_HISTORY

ASSUME LimitsAssumption ==
  /\ {Multiplier, FloorLimit, DefaultLimit, History} \subseteq Nat \ {0}
  /\ FloorLimit <= DefaultLimit

-----------------------------------------------------------------------------
(* The time limit of an app                                                *)

Slowest(durations) == CHOOSE d \in durations : \A e \in durations : e <= d

AppTimeLimit(durations) ==
  IF durations = {} THEN DefaultLimit
  ELSE IF Multiplier * Slowest(durations) <= FloorLimit THEN FloorLimit
  ELSE Multiplier * Slowest(durations)

\* The app runs of one app that passed, the History that finished last, and
\* how long they took; a clock set back between start and end drops a run
\* after it has taken its place among the last ones.
RecentPassingDurations(appRuns) ==
  LET passed == {r \in appRuns : r.status = "passed"}
      recent == {r \in passed : Cardinality({s \in passed : s.finished > r.finished}) < History}
  IN {r.finished - r.started : r \in {s \in recent : s.started <= s.finished}}

-----------------------------------------------------------------------------
(* The scale of the chart                                                  *)

Bigger(a, b)  == IF a > b THEN a ELSE b
Smaller(a, b) == IF a < b THEN a ELSE b
Ceil(n, d)    == 0 - ((0 - n) \div d)

Step(range) == CASE range <= 250 -> 50
                 [] range > 250 /\ range <= 500 -> 100
                 [] range > 500 /\ range <= 1000 -> 200
                 [] range > 1000 -> 250

\* The range around the values before its ends are moved to steps.
Padded(lo, hi) ==
  LET min  == Bigger(0, ((lo - 20) \div 50) * 50)
      max  == Smaller(1000, Ceil(hi + 20, 50) * 50)
      max2 == IF max - min < 100 /\ max + 50 <= 1000 THEN max + 50 ELSE max
  IN [min |-> IF max2 - min < 100 THEN Bigger(0, max2 - 100) ELSE min, max |-> max2]

\* niceDomain of values between lo and hi; ticks are min, min + step, ..., max.
NiceDomain(lo, hi) ==
  LET p == Padded(lo, hi)
      s == Step(p.max - p.min)
  IN [min |-> (p.min \div s) * s, max |-> Ceil(p.max, s) * s, step |-> s]

\* chartLayout's labels: at most count of n points, spread evenly.
LabelIndexes(n, count) ==
  LET labels == Smaller(n, Bigger(2, count))
  IN {IF labels = 1 THEN 0 ELSE (2 * i * (n - 1) + labels - 1) \div (2 * (labels - 1)) : i \in 0 .. labels - 1}

-----------------------------------------------------------------------------
(* What they promise.                                                      *)

\* An app that takes no longer than Multiplier times any of its recent passes
\* is not cut, a fast one gets at least the floor, and an app is held to what
\* its slowest recent pass earns it (timeouts.ts:31-44).
HeadroomKept(durations) ==
  /\ AppTimeLimit(durations) >= FloorLimit
  /\ \A d \in durations : Multiplier * d <= AppTimeLimit(durations)
  /\ AppTimeLimit(durations) > DefaultLimit =>
       \E d \in durations : AppTimeLimit(durations) = Multiplier * d

\* Every value lies on the chart, the chart is not flat and stays within 0%
\* to 100%, and both of its ends are among at most seven ticks
\* (trend-model.ts:61-75).
DomainFits(lo, hi) ==
  LET d == NiceDomain(lo, hi)
  IN /\ 0 <= d.min /\ d.min <= lo /\ hi <= d.max /\ d.max <= 1000
     /\ d.max - d.min >= 100
     /\ (d.max - d.min) % d.step = 0 /\ d.max - d.min <= 6 * d.step
=============================================================================
