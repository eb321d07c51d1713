------------------------- MODULE AppReports_proofs -------------------------
(***************************************************************************)
(* Machine-checked proofs about AppReports, for any number of apps, tests, *)
(* earlier runs and reports of any shape, and about the pure limits of     *)
(* Limits for all inputs.  IInv says which command wrote each file of the  *)
(* directories a reader looks in; TestsAsWritten, that no step changes     *)
(* what a test result file says; Contents, what each coverage report that  *)
(* the command wrote can hold.  What a reader makes of a list of suites or *)
(* of lines is a fold, followed by induction on their number.              *)
(***************************************************************************)
EXTENDS AppReports, SequenceTheorems, FiniteSetTheorems, WellFoundedInduction, TLAPS

-----------------------------------------------------------------------------
(* The time limit of an app                                                *)

\* Finitely many durations have a largest one: the set of those no smaller
\* than it is the smallest of its kind.
LEMMA SlowestExists ==
  ASSUME NEW D \in SUBSET Nat, IsFiniteSet(D), D # {}
  PROVE  Slowest(D) \in D /\ \A e \in D : e <= Slowest(D)
<1> DEFINE Above(d) == {e \in D : e >= d}
           T == {Above(d) : d \in D}
<1>1. IsWellFoundedOn(StrictSubsetOrdering(D), FiniteSubsetsOf(D))
  BY FS_StrictSubsetOrderingWellFounded
<1>2. T \subseteq FiniteSubsetsOf(D) /\ T # {}
  <2>1. T \subseteq SUBSET D /\ T # {}
    OBVIOUS
  <2>2. FiniteSubsetsOf(D) = SUBSET D
    BY FS_FiniteSubsetsOfFinite
  <2> HIDE DEF T
  <2> QED BY <2>1, <2>2
<1>3. PICK x \in T : \A y \in T : ~(<<y, x>> \in StrictSubsetOrdering(D))
  <2> HIDE DEF T
  <2> QED BY <1>1, <1>2, WFMin
<1>4. PICK d \in D : x = Above(d)
  OBVIOUS
<1>5. ASSUME NEW e \in D PROVE e <= d
  <2>1. SUFFICES ASSUME e > d PROVE FALSE
    OBVIOUS
  <2>2. Above(e) \subseteq Above(d) /\ d \in Above(d) /\ d \notin Above(e)
    <3>1. D \subseteq Int
      OBVIOUS
    <3>2. ASSUME NEW y \in D, y >= e PROVE y >= d
      BY <3>1, <3>2, <2>1
    <3>3. d >= d /\ ~(d >= e)
      BY <3>1, <2>1
    <3> QED BY <3>2, <3>3
  <2>3. <<Above(e), x>> \in StrictSubsetOrdering(D)
    BY <2>2, <1>4 DEF StrictSubsetOrdering
  <2> QED BY <2>3, <1>3
<1> QED BY <1>5 DEF Slowest

\* An app that takes no longer than Multiplier times any of its recent passes
\* is not cut; only a slow pass earns it more than the default
\* (timeouts.ts:31-44).
THEOREM HeadroomIsKept ==
  ASSUME NEW durations \in SUBSET Nat, IsFiniteSet(durations)
  PROVE  HeadroomKept(durations)
<1>1. CASE durations = {}
  BY <1>1, LimitsAssumption DEF HeadroomKept, AppTimeLimit
<1>2. CASE durations # {}
  <2> DEFINE s == Slowest(durations)
             limit == AppTimeLimit(durations)
  <2>1. s \in durations /\ s \in Nat /\ \A e \in durations : e <= s
    BY <1>2, SlowestExists
  <2>2. Multiplier \in Nat /\ FloorLimit \in Nat /\ DefaultLimit \in Nat /\ FloorLimit <= DefaultLimit
    BY LimitsAssumption
  <2>3. Multiplier * s \in Nat
    BY <2>1, <2>2
  <2>4. limit = IF Multiplier * s <= FloorLimit THEN FloorLimit ELSE Multiplier * s
    BY <1>2 DEF AppTimeLimit
  <2>5. ASSUME NEW d \in durations PROVE Multiplier * d <= Multiplier * s
    BY <2>1, <2>2, SMT
  <2>6. ASSUME NEW d \in durations PROVE Multiplier * d <= limit
    <3>1. Multiplier * d \in Nat
      BY <2>2
    <3> QED BY <2>2, <2>3, <2>4, <2>5, <3>1
  <2> QED BY <2>1, <2>2, <2>3, <2>4, <2>6 DEF HeadroomKept
<1> QED BY <1>1, <1>2

-----------------------------------------------------------------------------
(* The scale of the chart                                                  *)

\* The padded range holds the values, in whole steps of 5%, at least 10% wide.
LEMMA PaddedFits ==
  ASSUME NEW lo \in Nat, NEW hi \in Nat, lo <= hi, hi <= 1000
  PROVE  /\ Padded(lo, hi).min \in Nat /\ Padded(lo, hi).min <= lo
         /\ Padded(lo, hi).max \in Nat /\ hi <= Padded(lo, hi).max /\ Padded(lo, hi).max <= 1000
         /\ \E q \in 0 .. 20 : Padded(lo, hi).min = 50 * q
         /\ \E r \in 0 .. 20 : Padded(lo, hi).max = 50 * r
         /\ Padded(lo, hi).max - Padded(lo, hi).min >= 100
<1> DEFINE q == (lo - 20) \div 50
           r == Ceil(hi + 20, 50)
           v == Padded(lo, hi)
           min == IF 0 > q * 50 THEN 0 ELSE q * 50
           max == IF 1000 < r * 50 THEN 1000 ELSE r * 50
           max2 == IF max - min < 100 /\ max + 50 <= 1000 THEN max + 50 ELSE max
           low  == IF max2 - min < 100 THEN (IF 0 > max2 - 100 THEN 0 ELSE max2 - 100) ELSE min
<1>1. v = [min |-> low, max |-> max2]
  BY DEF Padded, Bigger, Smaller
<1>2. q \in Int /\ 50 * q <= lo - 20 /\ lo - 20 < 50 * q + 50
  OBVIOUS
<1>3. r \in Int /\ 50 * r >= hi + 20 /\ 50 * r < hi + 70
  BY DEF Ceil
<1>4. v.min = low /\ v.max = max2
  BY <1>1
<1> HIDE DEF q, r, v
<1>5. PICK a \in 0 .. 20 : min = 50 * a /\ min <= lo /\ (a = 0 \/ min > lo - 70)
  <2>1. CASE q <= 0
    BY <1>2, <2>1
  <2>2. CASE q > 0
    BY <1>2, <2>2
  <2> QED BY <1>2, <2>1, <2>2
<1>6. PICK b \in 0 .. 20 : max = 50 * b /\ hi <= max /\ max > 0 /\ (b = 20 \/ hi + 20 <= max)
  <2>1. CASE r >= 20
    BY <1>3, <2>1
  <2>2. CASE r < 20
    BY <1>3, <2>2
  <2> QED BY <1>3, <2>1, <2>2
<1> HIDE DEF min, max
<1>7. PICK c \in 0 .. 20 : max2 = 50 * c /\ max <= max2 /\ (max2 - min < 100 => c = 20)
  BY <1>5, <1>6
<1> HIDE DEF max2
<1>8. PICK d \in 0 .. 20 : low = 50 * d /\ low <= min /\ max2 - low >= 100
  BY <1>5, <1>6, <1>7
<1> HIDE DEF low
<1> QED BY <1>4, <1>5, <1>6, <1>7, <1>8 DEF v

Stepped(a, b, s, x, y) ==
  /\ x = (a \div s) * s /\ x <= a
  /\ y = Ceil(b, s) * s /\ b <= y /\ y <= 1000
  /\ (y - x) % s = 0 /\ y - x <= 6 * s

\* Moving its ends out to multiples of the step keeps them within 0 and 1000
\* and at most six steps apart.
LEMMA SteppedFits ==
  ASSUME NEW a \in Nat, NEW b \in Nat, b <= 1000, b - a >= 100,
         \E q \in 0 .. 20 : a = 50 * q, \E r \in 0 .. 20 : b = 50 * r,
         NEW s, s = Step(b - a)
  PROVE  \E x, y \in Nat : Stepped(a, b, s, x, y)
<1>1. /\ s \in {50, 100, 200, 250}
      /\ s = 50 => b - a <= 250
      /\ s = 100 => b - a <= 500
      /\ s = 200 => b - a <= 1000
      /\ s = 250 => b - a > 1000
  BY DEF Step
<1>2. CASE s = 50
  <2>1. \E q \in 0 .. 20 : 50 * q <= a /\ a < 50 * q + 50
    OBVIOUS
  <2>2. \E r \in 0 .. 20 : 50 * r - 50 < b /\ b <= 50 * r
    OBVIOUS
  <2>3. PICK q \in 0 .. 20 : 50 * q <= a /\ a < 50 * q + 50
    BY <2>1
  <2>4. PICK r \in 0 .. 20 : 50 * r - 50 < b /\ b <= 50 * r
    BY <2>2
  <2>5. (a \div 50) * 50 = 50 * q
    BY <2>3
  <2>6. Ceil(b, 50) * 50 = 50 * r
    BY <2>4 DEF Ceil
  <2>7. (50 * r - 50 * q) % 50 = 0
    OBVIOUS
  <2>8. 50 * r - 50 * q <= 6 * 50
    BY <1>2, <1>1, <2>3, <2>4
  <2>9. 50 * q <= a /\ b <= 50 * r /\ 50 * r <= 1000
    BY <2>3, <2>4
  <2> WITNESS 50 * q \in Nat, 50 * r \in Nat
  <2> QED BY <1>2, <2>5, <2>6, <2>7, <2>8, <2>9 DEF Stepped
<1>3. CASE s = 100
  <2>1. \E q \in 0 .. 10 : 100 * q <= a /\ a < 100 * q + 100
    OBVIOUS
  <2>2. \E r \in 0 .. 10 : 100 * r - 100 < b /\ b <= 100 * r
    OBVIOUS
  <2>3. PICK q \in 0 .. 10 : 100 * q <= a /\ a < 100 * q + 100
    BY <2>1
  <2>4. PICK r \in 0 .. 10 : 100 * r - 100 < b /\ b <= 100 * r
    BY <2>2
  <2>5. (a \div 100) * 100 = 100 * q
    BY <2>3
  <2>6. Ceil(b, 100) * 100 = 100 * r
    BY <2>4 DEF Ceil
  <2>7. (100 * r - 100 * q) % 100 = 0
    OBVIOUS
  <2>8. 100 * r - 100 * q <= 6 * 100
    BY <1>3, <1>1, <2>3, <2>4
  <2>9. 100 * q <= a /\ b <= 100 * r /\ 100 * r <= 1000
    BY <2>3, <2>4
  <2> WITNESS 100 * q \in Nat, 100 * r \in Nat
  <2> QED BY <1>3, <2>5, <2>6, <2>7, <2>8, <2>9 DEF Stepped
<1>4. CASE s = 200
  <2>1. \E q \in 0 .. 5 : 200 * q <= a /\ a < 200 * q + 200
    OBVIOUS
  <2>2. \E r \in 0 .. 5 : 200 * r - 200 < b /\ b <= 200 * r
    OBVIOUS
  <2>3. PICK q \in 0 .. 5 : 200 * q <= a /\ a < 200 * q + 200
    BY <2>1
  <2>4. PICK r \in 0 .. 5 : 200 * r - 200 < b /\ b <= 200 * r
    BY <2>2
  <2>5. (a \div 200) * 200 = 200 * q
    BY <2>3
  <2>6. Ceil(b, 200) * 200 = 200 * r
    BY <2>4 DEF Ceil
  <2>7. (200 * r - 200 * q) % 200 = 0
    OBVIOUS
  <2>8. 200 * r - 200 * q <= 6 * 200
    BY <1>4, <1>1, <2>3, <2>4
  <2>9. 200 * q <= a /\ b <= 200 * r /\ 200 * r <= 1000
    BY <2>3, <2>4
  <2> WITNESS 200 * q \in Nat, 200 * r \in Nat
  <2> QED BY <1>4, <2>5, <2>6, <2>7, <2>8, <2>9 DEF Stepped
<1>5. CASE s = 250
  BY <1>1, <1>5
<1> QED BY <1>1, <1>2, <1>3, <1>4, <1>5

\* Every value lies on the chart, which is not flat and has at most seven
\* ticks, its ends among them (trend-model.ts:61-75).
THEOREM DomainAlwaysFits ==
  ASSUME NEW lo \in Nat, NEW hi \in Nat, lo <= hi, hi <= 1000
  PROVE  DomainFits(lo, hi)
<1>1. PICK a, b : a = Padded(lo, hi).min /\ b = Padded(lo, hi).max
  OBVIOUS
<1>2. /\ a \in Nat /\ a <= lo /\ b \in Nat /\ hi <= b /\ b <= 1000 /\ b - a >= 100
      /\ \E q \in 0 .. 20 : a = 50 * q
      /\ \E r \in 0 .. 20 : b = 50 * r
  BY <1>1, PaddedFits
<1>3. PICK s : s = Step(b - a)
  OBVIOUS
<1>4. PICK x, y \in Nat : Stepped(a, b, s, x, y)
  BY <1>2, <1>3, SteppedFits
<1>5. NiceDomain(lo, hi) = [min |-> x, max |-> y, step |-> s]
  BY <1>1, <1>3, <1>4 DEF NiceDomain, Stepped
<1>6. x <= lo /\ hi <= y /\ y - x >= 100
  <2>1. x <= a /\ b <= y
    BY <1>4 DEF Stepped
  <2> QED BY <1>2, <2>1
<1> QED BY <1>4, <1>5, <1>6 DEF DomainFits, Stepped

-----------------------------------------------------------------------------
(* Fresh reports                                                           *)

\* A non-empty set of positions has a first one.
LEMMA FirstExists ==
  ASSUME NEW S \in SUBSET Nat, S # {}
  PROVE  Min(S) \in S /\ \A y \in S : Min(S) <= y
<1> DEFINE Less == OpToRel(<, Nat)
<1>1. IsWellFoundedOn(Less, Nat)
  BY NatLessThanWellFounded
<1>2. \A x, y \in Nat : <<x, y>> \in Less <=> x < y
  BY DEF OpToRel
<1> HIDE DEF Less
<1>3. PICK x \in S : \A y \in S : ~(<<y, x>> \in Less)
  <2>1. S \subseteq Nat
    OBVIOUS
  <2> QED BY <1>1, <2>1, WFMin
<1>4. ASSUME NEW y \in S PROVE x <= y
  <2>1. ~(y < x)
    BY <1>2, <1>3
  <2> QED BY <2>1
<1> QED BY <1>4 DEF Min

\* A non-empty set of positions up to n has a last one.
LEMMA LastExists ==
  ASSUME NEW n \in Nat, NEW S \in SUBSET (1 .. n), S # {}
  PROVE  Max(S) \in S /\ \A y \in S : y <= Max(S)
<1> DEFINE U == {x \in 0 .. n : \A y \in S : y <= x}
<1>1. U \in SUBSET Nat /\ n \in U
  OBVIOUS
<1> DEFINE m == Min(U)
<1>2. m \in U /\ \A x \in U : m <= x
  <2> HIDE DEF U
  <2> QED BY <1>1, FirstExists
<1> HIDE DEF m
<1>3. m \in S
  <2>1. SUFFICES ASSUME m \notin S PROVE FALSE
    OBVIOUS
  <2>2. \A y \in S : y <= m - 1
    BY <1>2, <2>1
  <2>3. PICK y \in S : y \in Nat /\ 1 <= y
    <3>1. PICK y \in S : TRUE
      OBVIOUS
    <3> QED BY <3>1
  <2>4. m - 1 \in U
    BY <1>2, <2>2, <2>3
  <2> QED BY <1>2, <2>4
<1> QED BY <1>2, <1>3 DEF Max

\* The candidates are a sequence of records, the configured path first.
LEMMA CandidatesInOrder ==
  ASSUME NEW wd, NEW configured
  PROVE  LET cs == CoverageCandidates(wd, configured)
         IN /\ Len(cs) \in Nat /\ DOMAIN cs = 1 .. Len(cs)
            /\ configured # Null => [path |-> configured, lcov |-> FALSE] \in Range(cs)
<1> DEFINE json(p) == [path |-> p, lcov |-> FALSE]
           lcov(p) == [path |-> p, lcov |-> TRUE]
           one == IF configured = Null THEN <<>> ELSE <<json(configured), lcov(Beside(configured, Lcov))>>
           two == <<json(wd \o <<"coverage", Summary>>), json(wd \o <<Summary>>),
                    lcov(wd \o <<"coverage", Lcov>>), lcov(wd \o <<Lcov>>),
                    json(<<"coverage">> \o wd \o <<Summary>>), lcov(<<"coverage">> \o wd \o <<Lcov>>)>>
           cs == CoverageCandidates(wd, configured)
           T == {json(configured), lcov(Beside(configured, Lcov))}
                  \cup {json(wd \o <<"coverage", Summary>>), json(wd \o <<Summary>>),
                        lcov(wd \o <<"coverage", Lcov>>), lcov(wd \o <<Lcov>>),
                        json(<<"coverage">> \o wd \o <<Summary>>), lcov(<<"coverage">> \o wd \o <<Lcov>>)}
<1>1. cs = one \o two
  BY DEF CoverageCandidates
<1>2. one \in Seq(T) /\ (configured # Null => Len(one) = 2 /\ one[1] = json(configured))
  <2>1. json(configured) \in T /\ lcov(Beside(configured, Lcov)) \in T
    OBVIOUS
  <2> HIDE DEF T, json, lcov
  <2> QED BY <2>1
<1>3. two \in Seq(T)
  OBVIOUS
<1>4. [path |-> configured, lcov |-> FALSE] = json(configured)
  OBVIOUS
<1> HIDE DEF json, one, two, T, cs
<1>5. cs \in Seq(T) /\ (configured # Null => Len(cs) >= 2 /\ cs[1] = json(configured))
  <2>1. Len(one) \in Nat /\ Len(two) \in Nat
    BY <1>2, <1>3
  <2>2. /\ one \o two \in Seq(T) /\ Len(one \o two) = Len(one) + Len(two)
        /\ \A i \in 1 .. Len(one) : (one \o two)[i] = one[i]
    BY <1>2, <1>3, ConcatProperties
  <2>3. ASSUME configured # Null PROVE Len(cs) >= 2 /\ cs[1] = json(configured)
    <3>1. Len(one) = 2 /\ one[1] = json(configured) /\ 1 \in 1 .. Len(one)
      BY <1>2, <2>3
    <3>2. Len(cs) >= 2
      BY <1>1, <2>1, <2>2, <3>1
    <3> QED BY <1>1, <2>2, <3>1, <3>2
  <2> QED BY <1>1, <2>2, <2>3
<1>6. Len(cs) \in Nat /\ DOMAIN cs = 1 .. Len(cs)
  BY <1>5
<1>7. configured # Null => json(configured) \in Range(cs)
  BY <1>5, <1>6 DEF Range
<1> QED BY <1>4, <1>6, <1>7 DEF cs

\* What discovery finds is a candidate that exists.
LEMMA DiscoveredIsCandidate ==
  ASSUME NEW wd, NEW configured, NEW exists
  PROVE  LET found == Discovered(wd, configured, exists)
         IN found # Null => /\ found \in Range(CoverageCandidates(wd, configured))
                            /\ found.path \in exists
<1> DEFINE cs == CoverageCandidates(wd, configured)
           I == {i \in 1 .. Len(cs) : cs[i].path \in exists}
           n == SelectInSeq(cs, LAMBDA c : c.path \in exists)
<1>1. Len(cs) \in Nat /\ DOMAIN cs = 1 .. Len(cs)
  BY CandidatesInOrder
<1>2. n = IF I # {} THEN Min(I) ELSE 0
  BY DEF SelectInSeq
<1>3. Discovered(wd, configured, exists) = IF n = 0 THEN Null ELSE cs[n]
  BY DEF Discovered
<1> HIDE DEF n, cs
<1>4. CASE I = {}
  BY <1>2, <1>3, <1>4
<1>5. CASE I # {}
  <2>1. I \subseteq Nat
    BY <1>1
  <2>2. Min(I) \in I
    BY <2>1, <1>5, FirstExists
  <2>3. n \in 1 .. Len(cs) /\ cs[n].path \in exists
    BY <2>2, <1>2, <1>5
  <2>4. cs[n] \in Range(cs)
    BY <2>3, <1>1 DEF Range
  <2> QED BY <2>3, <2>4, <1>3 DEF cs
<1> QED BY <1>4, <1>5

\* Every file that reading an app may open is one that clearing removed.
LEMMA ReadsWhatWasCleared ==
  ASSUME NEW wd, NEW configured, NEW exists
  PROVE  /\ wd \o <<Results>> \in Cleared(wd, configured)
         /\ LET found == Discovered(wd, configured, exists)
            IN found # Null =>
                 /\ found.path \in Cleared(wd, configured) \cap exists
                 /\ ~found.lcov => Beside(found.path, Detailed) \in Cleared(wd, configured)
         /\ \A lcov : configured # Null =>
               LET found == Configured(configured, lcov, exists)
               IN found # Null =>
                 /\ found.path \in Cleared(wd, configured) \cap exists
                 /\ ~found.lcov => Beside(found.path, Detailed) \in Cleared(wd, configured)
<1> DEFINE cs == Range(CoverageCandidates(wd, configured))
<1>1. \A c \in cs : /\ c.path \in Cleared(wd, configured)
                    /\ ~c.lcov => Beside(c.path, Detailed) \in Cleared(wd, configured)
  BY DEF Cleared
<1>2. wd \o <<Results>> \in Cleared(wd, configured)
  BY DEF Cleared
<1>3. configured # Null => [path |-> configured, lcov |-> FALSE] \in cs
  BY CandidatesInOrder
<1> HIDE DEF cs
<1>4. ASSUME configured # Null
      PROVE  configured \in Cleared(wd, configured) /\ Beside(configured, Detailed) \in Cleared(wd, configured)
  <2> DEFINE r == [path |-> configured, lcov |-> FALSE]
  <2>1. r \in cs /\ r.path = configured /\ r.lcov = FALSE
    BY <1>3, <1>4
  <2> HIDE DEF r
  <2>2. r.path \in Cleared(wd, configured) /\ (~r.lcov => Beside(r.path, Detailed) \in Cleared(wd, configured))
    BY <1>1, <2>1
  <2> QED BY <2>1, <2>2
<1>5. ASSUME Discovered(wd, configured, exists) # Null
      PROVE  Discovered(wd, configured, exists) \in cs /\ Discovered(wd, configured, exists).path \in exists
  BY <1>5, DiscoveredIsCandidate DEF cs
<1>6. Discovered(wd, configured, exists) # Null =>
        LET found == Discovered(wd, configured, exists)
        IN /\ found.path \in Cleared(wd, configured) \cap exists
           /\ ~found.lcov => Beside(found.path, Detailed) \in Cleared(wd, configured)
  <2> DEFINE found == Discovered(wd, configured, exists)
  <2> HAVE found # Null
  <2>1. found \in cs /\ found.path \in exists
    BY <1>5
  <2> HIDE DEF found
  <2>2. /\ found.path \in Cleared(wd, configured) \cap exists
        /\ ~found.lcov => Beside(found.path, Detailed) \in Cleared(wd, configured)
    BY <1>1, <2>1
  <2> QED BY <2>2 DEF found
<1>7. ASSUME NEW lcov, configured # Null, configured \in exists
      PROVE  LET found == Configured(configured, lcov, exists)
             IN /\ found.path \in Cleared(wd, configured) \cap exists
                /\ ~found.lcov => Beside(found.path, Detailed) \in Cleared(wd, configured)
  BY <1>4, <1>7 DEF Configured
<1> QED BY <1>2, <1>6, <1>7 DEF Configured

\* Every file that lies where reading looks was written by the command.
FromCommand ==
  phase # "clear" => \A p \in DOMAIN disk : p \in Cleared(Directory, app.coveragePath) => disk[p].by = "command"

Phases == {"clear", "run", "read", "done"}

IInv ==
  /\ phase \in Phases
  /\ app.auto \/ app.coveragePath # Null
  /\ history \in Histories
  /\ FromCommand
  /\ FreshReports

LEMMA InitIsFresh == Init => IInv
<1> SUFFICES ASSUME Init PROVE IInv
  OBVIOUS
<1>1. app.auto \/ app.coveragePath # Null
  BY AppReportsAssumption DEF Init, Detected
<1>2. phase = "clear" /\ history \in Histories
  BY DEF Init
<1> QED BY <1>1, <1>2 DEF IInv, Phases, FromCommand, FreshReports, Done

\* Clearing leaves no file where reading looks.
LEMMA ClearIsFresh == IInv /\ Clear => IInv'
<1> SUFFICES ASSUME IInv, Clear PROVE IInv'
  OBVIOUS
<1>1. phase' = "run" /\ app' = app /\ history' = history
  BY DEF Clear, command
<1>2. FromCommand'
  <2>1. DOMAIN disk' = DOMAIN disk \ Cleared(Directory, app.coveragePath)
    BY DEF Clear
  <2> QED BY <1>1, <2>1 DEF FromCommand
<1> QED BY <1>1, <1>2 DEF IInv, Phases, FreshReports, Done

\* The command writes its own files only.
LEMMA WriteIsFresh ==
  ASSUME NEW name, NEW path, NEW body, IInv, Write(name, path, body)
  PROVE  IInv'
<1>1. phase = "run" /\ phase' = "run" /\ app' = app /\ history' = history
  BY DEF Write, command
<1>2. /\ DOMAIN disk' = {path} \cup DOMAIN disk
      /\ disk'[path] = [by |-> "command", body |-> body]
      /\ \A p \in DOMAIN disk : p # path => disk'[p] = disk[p]
  BY DEF Write, Put
<1>3. FromCommand'
  BY <1>1, <1>2 DEF FromCommand, IInv
<1> QED BY <1>1, <1>3 DEF IInv, Phases, FreshReports, Done

LEMMA CutIsFresh == IInv /\ CutShort => IInv'
<1> SUFFICES ASSUME IInv, CutShort PROVE IInv'
  OBVIOUS
<1>1. /\ phase = "run" /\ phase' = "done" /\ app' = app /\ history' = history /\ disk' = disk
      /\ outcome' = [coverage |-> Null, files |-> {}, from |-> Null, tests |-> Null]
  BY DEF CutShort, command
<1>2. FreshReports'
  BY <1>1 DEF FreshReports
<1> QED BY <1>1, <1>2 DEF IInv, Phases, FromCommand

\* Reading opens files where reading looks, and nowhere else.
LEMMA ReadIsFresh == IInv /\ Read => IInv'
<1> SUFFICES ASSUME IInv, Read PROVE IInv'
  OBVIOUS
<1> DEFINE results == Directory \o <<Results>>
           found   == IF app.auto THEN Discovered(Directory, app.coveragePath, Exists)
                      ELSE Configured(app.coveragePath, app.lcov, Exists)
           report  == Report(found)
           files   == IF found.lcov THEN Range(report.files) ELSE report.files
           cleared == Cleared(Directory, app.coveragePath)
<1>1. phase = "read" /\ phase' = "done" /\ app' = app /\ history' = history /\ disk' = disk
  BY DEF Read, command
<1>2. outcome' = [tests    |-> IF results \in Exists /\ Body(results) # Null THEN ParseTestResults(Body(results)) ELSE Null,
                  coverage |-> IF report = Null THEN Null ELSE report.summary,
                  from     |-> IF report = Null THEN Null ELSE found,
                  files    |-> IF report = Null THEN {} ELSE WithDetails(found, files)]
  BY DEF Read
<1>3. \A p \in cleared \cap Exists : Wrote(p)
  BY <1>1 DEF IInv, FromCommand, Exists, Wrote
<1>4. results \in cleared
  BY ReadsWhatWasCleared
<1>5. found # Null => /\ found.path \in cleared \cap Exists
                      /\ ~found.lcov => Beside(found.path, Detailed) \in cleared
  BY ReadsWhatWasCleared DEF IInv
<1>6. report # Null => found # Null
  BY DEF Report
<1> HIDE DEF results, found, cleared
<1>7. ASSUME NEW f \in WithDetails(found, files), f.source # Null, report # Null
      PROVE  Wrote(f.source)
  <2> DEFINE detailed == IF found.lcov THEN found.path ELSE Beside(found.path, Detailed)
  <2>1. f.source = IF detailed \in Exists THEN detailed ELSE Null
    BY DEF WithDetails
  <2>2. detailed \in cleared
    BY <1>5, <1>6, <1>7
  <2> HIDE DEF detailed
  <2> QED BY <1>3, <1>7, <2>1, <2>2
<1> HIDE DEF report, files
<1>8. \A p : Wrote(p) => Wrote(p)'
  BY <1>1 DEF Wrote
<1>9. outcome'.from # Null => Wrote(outcome'.from.path)
  BY <1>2, <1>3, <1>5, <1>6
<1>10. \A f \in outcome'.files : f.source # Null => Wrote(f.source)
  BY <1>2, <1>7
<1>11. outcome'.tests # Null => Wrote(results)
  BY <1>2, <1>3, <1>4
<1>12. FreshReports'
  BY <1>1, <1>8, <1>9, <1>10, <1>11 DEF FreshReports, results
<1>13. FromCommand'
  BY <1>1 DEF IInv, FromCommand
<1> QED BY <1>1, <1>12, <1>13 DEF IInv, Phases

\* Nothing that an app's row, coverage or tests come from was there before
\* its command ran, whatever the command writes, and wherever
\* (worker.ts:451, 463-491).
LEMMA NextIsFresh == IInv /\ [Next]_vars => IInv'
<1> SUFFICES ASSUME IInv, [Next]_vars PROVE IInv'
  OBVIOUS
<1>1. CASE Clear
  BY <1>1, ClearIsFresh
<1>2. CASE CutShort
  BY <1>2, CutIsFresh
<1>3. CASE Read
  BY <1>3, ReadIsFresh
<1>4. ASSUME NEW records \in Records, WriteSummary(records) PROVE IInv'
  BY <1>4, WriteIsFresh DEF WriteSummary
<1>5. CASE WriteDetailed
  BY <1>5, WriteIsFresh DEF WriteDetailed
<1>6. ASSUME NEW t \in LcovLines, PrintLine(t) PROVE IInv'
  BY <1>6, WriteIsFresh DEF PrintLine
<1>7. ASSUME NEW suites \in SeqOf(Suites, MaxSuites), WriteResults(suites) PROVE IInv'
  BY <1>7, WriteIsFresh DEF WriteResults
<1>8. ASSUME NEW code \in {0, 1}, NEW took \in Times, Exit(code, took) PROVE IInv'
  BY <1>8 DEF Exit, command, IInv, Phases, FromCommand, FreshReports, Done
<1>9. CASE UNCHANGED vars
  BY <1>9 DEF vars, command, IInv, Phases, FromCommand, FreshReports, Done, Wrote
<1> QED BY <1>1, <1>2, <1>3, <1>4, <1>5, <1>6, <1>7, <1>8, <1>9 DEF Next

-----------------------------------------------------------------------------
(* Time limits from earlier results                                        *)

\* The passes that count are finitely many durations of passes, and every
\* pass among the last History that finished counts, unless its clock was
\* set back.
LEMMA RecentPasses ==
  ASSUME NEW runs, IsFiniteSet(runs), \A r \in runs : {r.started, r.finished} \subseteq Nat
  PROVE  LET passed    == {r \in runs : r.status = "passed"}
             durations == RecentPassingDurations(runs)
         IN /\ durations \in SUBSET Nat /\ IsFiniteSet(durations)
            /\ \A d \in durations : \E r \in passed : d = r.finished - r.started
            /\ \A r \in passed :
                 Cardinality({s \in passed : s.finished >= r.finished}) <= History /\ r.started <= r.finished
                   => r.finished - r.started \in durations
<1> DEFINE passed == {r \in runs : r.status = "passed"}
           After(r) == {s \in passed : s.finished > r.finished}
           Since(r) == {s \in passed : s.finished >= r.finished}
           recent == {r \in passed : Cardinality(After(r)) < History}
           counted == {s \in recent : s.started <= s.finished}
           durations == {r.finished - r.started : r \in counted}
<1>1. RecentPassingDurations(runs) = durations
  BY DEF RecentPassingDurations
<1>2. \A r \in passed : r.started \in Nat /\ r.finished \in Nat
  OBVIOUS
<1>3. IsFiniteSet(counted) /\ IsFiniteSet(passed)
  BY FS_Subset
<1>4. IsFiniteSet(durations)
  <2> DEFINE took == [r \in counted |-> r.finished - r.started]
  <2>1. durations = {took[r] : r \in counted}
    OBVIOUS
  <2>2. took \in Surjection(counted, durations)
    BY <2>1 DEF Surjection
  <2> HIDE DEF counted, durations, took
  <2> QED BY <1>3, <2>2, FS_Surjection
<1>5. durations \in SUBSET Nat /\ \A d \in durations : \E r \in passed : d = r.finished - r.started
  <2>1. counted \subseteq passed /\ \A r \in counted : r.started <= r.finished
    OBVIOUS
  <2> HIDE DEF counted, passed
  <2>2. ASSUME NEW r \in counted PROVE r.finished - r.started \in Nat /\ r \in passed
    BY <1>2, <2>1
  <2> QED BY <2>2
<1>6. ASSUME NEW r \in passed, Cardinality(Since(r)) <= History, r.started <= r.finished
      PROVE  r.finished - r.started \in durations
  <2>1. IsFiniteSet(Since(r)) /\ r \in Since(r)
    <3>1. r.finished >= r.finished
      BY <1>2
    <3>2. Since(r) \subseteq passed
      OBVIOUS
    <3> QED BY <1>3, <3>1, <3>2, FS_Subset
  <2>2. After(r) \subseteq Since(r) \ {r}
    BY <1>2
  <2>3. /\ IsFiniteSet(Since(r) \ {r}) /\ Cardinality(Since(r) \ {r}) = Cardinality(Since(r)) - 1
        /\ Cardinality(Since(r)) \in Nat
    <3> HIDE DEF Since
    <3> QED BY <2>1, FS_RemoveElement, FS_CardinalityType
  <2>4. Cardinality(After(r)) <= Cardinality(Since(r) \ {r}) /\ Cardinality(After(r)) \in Nat
    <3> HIDE DEF Since, After
    <3> QED BY <2>2, <2>3, FS_Subset, FS_CardinalityType
  <2>5. Cardinality(After(r)) < History
    <3> HIDE DEF Since, After
    <3> QED BY <1>6, <2>3, <2>4, LimitsAssumption
  <2> QED BY <1>6, <2>5
<1> QED BY <1>1, <1>4, <1>5, <1>6

\* The limit of an app follows from its history alone.
LEMMA HistorySparesSlowApps == IInv => SparesSlowApps
<1> SUFFICES ASSUME IInv, Done, exit.took = Limit
             PROVE  LET passed == {r \in history : r.status = "passed"}
                    IN /\ exit.took >= FloorLimit
                       /\ \A r \in passed :
                            Cardinality({s \in passed : s.finished >= r.finished}) <= History
                              => exit.took >= Multiplier * (r.finished - r.started)
                       /\ exit.took > DefaultLimit => \E r \in passed : exit.took = Multiplier * (r.finished - r.started)
  BY DEF SparesSlowApps
<1> DEFINE passed == {r \in history : r.status = "passed"}
           durations == RecentPassingDurations(history)
<1>1. IsFiniteSet(history) /\ \A r \in history : {r.started, r.finished} \subseteq Nat
  BY AppReportsAssumption DEF IInv
<1>2. /\ durations \in SUBSET Nat /\ IsFiniteSet(durations)
      /\ \A d \in durations : \E r \in passed : d = r.finished - r.started
      /\ \A r \in passed :
           Cardinality({s \in passed : s.finished >= r.finished}) <= History /\ r.started <= r.finished
             => r.finished - r.started \in durations
  BY <1>1, RecentPasses
<1>3. \A r \in passed : r.started \in Nat /\ r.finished \in Nat
  BY <1>1
<1> HIDE DEF passed, durations
<1>4. HeadroomKept(durations)
  BY <1>2, HeadroomIsKept
<1>5. exit.took = AppTimeLimit(durations)
  BY DEF Limit, durations
<1>6. exit.took >= FloorLimit /\ FloorLimit \in Nat /\ Multiplier \in Nat \ {0}
  BY <1>4, <1>5, LimitsAssumption DEF HeadroomKept
<1>7. exit.took \in Nat
  <2>1. AppTimeLimit(durations) \in Nat
    <3>1. CASE durations = {}
      BY <3>1, LimitsAssumption DEF AppTimeLimit
    <3>2. CASE durations # {}
      <4>1. Slowest(durations) \in Nat
        BY <1>2, <3>2, SlowestExists
      <4>2. Multiplier * Slowest(durations) \in Nat
        BY <4>1, <1>6
      <4> QED BY <3>2, <4>2, <1>6 DEF AppTimeLimit
    <3> QED BY <3>1, <3>2
  <2> QED BY <1>5, <2>1
<1>8. ASSUME NEW r \in passed, Cardinality({s \in passed : s.finished >= r.finished}) <= History
      PROVE  exit.took >= Multiplier * (r.finished - r.started)
  <2>1. CASE r.started <= r.finished
    <3>1. r.finished - r.started \in durations
      BY <1>2, <1>8, <2>1
    <3>2. r.finished - r.started \in Nat
      BY <1>3, <2>1
    <3>3. Multiplier * (r.finished - r.started) <= exit.took
      BY <1>4, <1>5, <3>1 DEF HeadroomKept
    <3>4. Multiplier * (r.finished - r.started) \in Nat
      BY <3>2, <1>6
    <3> QED BY <1>7, <3>3, <3>4
  <2>2. CASE r.started > r.finished
    <3>1. PICK n \in Nat : r.finished - r.started = 0 - n
      <4>1. r.started - r.finished \in Nat /\ r.finished - r.started = 0 - (r.started - r.finished)
        BY <1>3, <2>2
      <4> QED BY <4>1
    <3>2. Multiplier * (0 - n) = 0 - Multiplier * n /\ Multiplier * n \in Nat
      BY <1>6, <3>1
    <3> QED BY <1>7, <3>1, <3>2
  <2> QED BY <1>3, <2>1, <2>2
<1>9. ASSUME exit.took > DefaultLimit
      PROVE  \E r \in passed : exit.took = Multiplier * (r.finished - r.started)
  <2>1. PICK d \in durations : exit.took = Multiplier * d
    BY <1>4, <1>5, <1>9 DEF HeadroomKept
  <2> QED BY <1>2, <2>1
<1> QED BY <1>6, <1>8, <1>9 DEF passed

-----------------------------------------------------------------------------
(* Induction and folds                                                     *)

\* Induction over a set of numbers in place of a predicate.
LEMMA NatInduct ==
  ASSUME NEW T, 0 \in T, \A n \in Nat : n \in T => n + 1 \in T
  PROVE  Nat \subseteq T
<1> DEFINE Less == OpToRel(<, Nat)
           Bad == {n \in Nat : n \notin T}
<1>1. IsWellFoundedOn(Less, Nat)
  BY NatLessThanWellFounded
<1>2. \A x, y \in Nat : x < y => <<x, y>> \in Less
  BY DEF OpToRel
<1>3. SUFFICES ASSUME Bad # {} PROVE FALSE
  OBVIOUS
<1> HIDE DEF Less
<1>4. PICK n \in Bad : \A m \in Bad : ~(<<m, n>> \in Less)
  <2>1. Bad \subseteq Nat
    OBVIOUS
  <2> HIDE DEF Bad
  <2> QED BY <1>1, <1>3, <2>1, WFMin
<1>5. n - 1 \in Nat /\ n - 1 \notin Bad
  <2>1. n \in Nat /\ n # 0
    OBVIOUS
  <2>2. n - 1 \in Nat /\ n - 1 < n
    BY <2>1
  <2> QED BY <1>2, <1>4, <2>1, <2>2
<1>6. n \in T
  BY <1>5
<1> QED BY <1>6

\* A step F over the elements of S, taken in the order of c.
Folding(S, V, base, F, c) ==
  /\ IsFiniteSet(S) /\ base \in V /\ F \in [V \X S -> V]
  /\ \A s \in SUBSET S : s # {} => c[s] \in s

\* g is the fold of every part of S.
IsFold(g, S, V, base, F, c) ==
  /\ g \in [SUBSET S -> V]
  /\ \A s \in SUBSET S : g[s] = IF s = {} THEN base ELSE F[<<g[s \ {c[s]}], c[s]>>]

\* A fold over a finite set follows its recursive equation, whichever
\* element c takes next: the function is built up by the size of the sets.
LEMMA FoldExists ==
  ASSUME NEW S, NEW V, NEW base, NEW F, NEW c, Folding(S, V, base, F, c)
  PROVE  \E g : IsFold(g, S, V, base, F, c)
<1> USE DEF Folding
<1> DEFINE D(k) == {s \in SUBSET S : Cardinality(s) <= k}
           Good(g, k) == /\ g \in [D(k) -> V]
                         /\ \A s \in D(k) : g[s] = IF s = {} THEN base ELSE F[<<g[s \ {c[s]}], c[s]>>]
           T == {k \in Nat : \E g : Good(g, k)}
<1>1. \A s \in SUBSET S : IsFiniteSet(s) /\ Cardinality(s) \in Nat
  BY FS_Subset, FS_CardinalityType
<1>2. 0 \in T
  <2> DEFINE g == [s \in D(0) |-> base]
  <2>1. ASSUME NEW s \in D(0) PROVE s = {}
    BY <1>1, FS_EmptySet
  <2>2. Good(g, 0)
    BY <2>1
  <2> QED BY <2>2
<1>3. ASSUME NEW k \in Nat, k \in T PROVE k + 1 \in T
  <2>1. PICK g : Good(g, k)
    BY <1>3
  <2> DEFINE h == [s \in D(k + 1) |-> IF s = {} THEN base ELSE F[<<g[s \ {c[s]}], c[s]>>]]
  <2>2. ASSUME NEW s \in D(k + 1), s # {} PROVE c[s] \in S /\ s \ {c[s]} \in D(k)
    <3>1. c[s] \in s /\ s \ {c[s]} \in SUBSET S
      <4>1. s \in SUBSET S
        OBVIOUS
      <4> QED BY <2>2, <4>1
    <3>2. Cardinality(s \ {c[s]}) = Cardinality(s) - 1
      BY <1>1, <3>1, FS_RemoveElement
    <3> QED BY <1>1, <3>1, <3>2
  <2>3. D(k) \subseteq D(k + 1)
    BY <1>1
  <2>4. \A t \in D(k) : h[t] = g[t]
    BY <2>1, <2>3
  <2>5. h \in [D(k + 1) -> V]
    <3>1. ASSUME NEW s \in D(k + 1) PROVE (IF s = {} THEN base ELSE F[<<g[s \ {c[s]}], c[s]>>]) \in V
      <4>1. CASE s = {}
        BY <4>1
      <4>2. CASE s # {}
        <5>1. g[s \ {c[s]}] \in V /\ c[s] \in S
          BY <2>1, <2>2, <4>2
        <5> HIDE DEF D, Good
        <5> QED BY <4>2, <5>1
      <4> QED BY <4>1, <4>2
    <3> HIDE DEF D, Good
    <3> QED BY <3>1
  <2>6. \A s \in D(k + 1) : h[s] = IF s = {} THEN base ELSE F[<<h[s \ {c[s]}], c[s]>>]
    <3> HIDE DEF D, Good
    <3> QED BY <2>2, <2>4
  <2>7. Good(h, k + 1)
    BY <2>5, <2>6
  <2> HIDE DEF h, Good
  <2> QED BY <2>7
<1>4. Cardinality(S) \in T
  <2> HIDE DEF T
  <2> QED BY <1>1, <1>2, <1>3, NatInduct
<1>5. D(Cardinality(S)) = SUBSET S
  BY <1>1, FS_Subset
<1>6. PICK g : Good(g, Cardinality(S))
  BY <1>4
<1> HIDE DEF D
<1> QED BY <1>5, <1>6 DEF IsFold

-----------------------------------------------------------------------------
(* Failures are counted                                                    *)

\* Two sequences joined: the length and the elements.
LEMMA JoinedTwo ==
  ASSUME NEW S, NEW a \in Seq(S), NEW b \in Seq(S)
  PROVE  /\ a \o b \in Seq(S) /\ Len(a \o b) = Len(a) + Len(b)
         /\ \A i \in 1 .. Len(a) : (a \o b)[i] = a[i]
         /\ \A i \in 1 .. Len(b) : (a \o b)[Len(a) + i] = b[i]
OBVIOUS

IsJoined(s, a, b, c) ==
  /\ Len(s) = Len(a) + Len(b) + Len(c)
  /\ \A i \in 1 .. Len(a) : s[i] = a[i]
  /\ \A i \in 1 .. Len(b) : s[Len(a) + i] = b[i]
  /\ \A i \in 1 .. Len(c) : s[Len(a) + Len(b) + i] = c[i]

\* Three sequences joined: the length and the elements.
LEMMA Joined ==
  ASSUME NEW S, NEW a \in Seq(S), NEW b \in Seq(S), NEW c \in Seq(S)
  PROVE  a \o b \o c \in Seq(S) /\ IsJoined(a \o b \o c, a, b, c)
<1> DEFINE ab == a \o b
<1>2. /\ ab \in Seq(S) /\ Len(ab) = Len(a) + Len(b)
      /\ \A i \in 1 .. Len(a) : ab[i] = a[i]
      /\ \A i \in 1 .. Len(b) : ab[Len(a) + i] = b[i]
  BY JoinedTwo
<1> HIDE DEF ab
<1>3. /\ ab \o c \in Seq(S) /\ Len(ab \o c) = Len(ab) + Len(c)
      /\ \A i \in 1 .. Len(ab) : (ab \o c)[i] = ab[i]
      /\ \A i \in 1 .. Len(c) : (ab \o c)[Len(ab) + i] = c[i]
  <2>1. ab \in Seq(S)
    BY <1>2
  <2> QED BY <2>1, JoinedTwo
<1> DEFINE abc == ab \o c
<1> HIDE DEF abc
<1>4. Len(a) \in Nat /\ Len(b) \in Nat /\ Len(c) \in Nat
  OBVIOUS
<1>5. /\ abc \in Seq(S) /\ Len(abc) = Len(a) + Len(b) + Len(c)
      /\ \A i \in 1 .. Len(c) : abc[Len(a) + Len(b) + i] = c[i]
  BY <1>2, <1>3, <1>4 DEF abc
<1>6. \A i \in 1 .. Len(ab) : abc[i] = ab[i]
  BY <1>3 DEF abc
<1>7. \A i \in 1 .. Len(a) : abc[i] = a[i]
  BY <1>2, <1>4, <1>6
<1>8. \A i \in 1 .. Len(b) : abc[Len(a) + i] = b[i]
  BY <1>2, <1>4, <1>6
<1> QED BY <1>5, <1>7, <1>8 DEF abc, ab, IsJoined

SuiteType == [failed : BOOLEAN, assertions : Seq(Statuses)]

\* A suite adds cases up to the limit, one for its failure among them.
LEMMA SuiteAdds ==
  ASSUME NEW cases \in Seq(Statuses), Len(cases) <= MaxTestCases, NEW suite, 
         suite.failed \in BOOLEAN, suite.assertions \in Seq(Statuses)
  PROVE  LET after == ReadSuite(cases, suite)
         IN /\ after \in Seq(Statuses) /\ Len(after) <= MaxTestCases /\ Len(cases) <= Len(after)
            /\ \A i \in DOMAIN cases : after[i] = cases[i]
            /\ (suite.failed \/ "failed" \in Range(suite.assertions)) /\ Len(after) < MaxTestCases
                 => \E i \in DOMAIN after : after[i] = "failed"
<1> DEFINE room   == MaxTestCases - Len(cases)
           all    == suite.assertions
           most   == IF Len(all) <= room THEN Len(all) ELSE room
           taken  == SubSeq(all, 1, most)
           failed == \E i \in DOMAIN taken : taken[i] = "failed"
           own    == IF Len(cases \o taken) < MaxTestCases /\ suite.failed /\ ~failed THEN <<"failed">> ELSE <<>>
           after  == ReadSuite(cases, suite)
<1>1. after = cases \o taken \o own
  BY DEF ReadSuite
<1>2. room \in Nat /\ most \in Nat /\ most <= Len(all) /\ most <= room /\ (most < room => most = Len(all))
  BY AppReportsAssumption
<1>3. taken \in Seq(Statuses) /\ Len(taken) = most /\ \A i \in 1 .. most : taken[i] = all[i]
  <2> HIDE DEF most
  <2> QED BY <1>2
<1>4. own \in Seq(Statuses) /\ Len(own) \in {0, 1}
  <2>1. "failed" \in Statuses
    BY DEF Statuses
  <2> HIDE DEF failed, taken
  <2> QED BY <2>1
<1> HIDE DEF most, taken, own, after
<1>5. Len(cases \o taken) = Len(cases) + most /\ cases \o taken \in Seq(Statuses)
  <2>1. cases \in Seq(Statuses) /\ taken \in Seq(Statuses) /\ Len(taken) = most
    BY <1>3
  <2> QED BY ONLY <2>1
<1>6. /\ after \in Seq(Statuses)
      /\ Len(after) = Len(cases) + most + Len(own)
      /\ \A i \in 1 .. Len(cases) : after[i] = cases[i]
      /\ \A i \in 1 .. most : after[Len(cases) + i] = taken[i]
      /\ \A i \in 1 .. Len(own) : after[Len(cases) + most + i] = own[i]
  <2>1. cases \in Seq(Statuses) /\ taken \in Seq(Statuses) /\ own \in Seq(Statuses) /\ Len(taken) = most
    BY <1>3, <1>4
  <2>2. after \in Seq(Statuses) /\ IsJoined(after, cases, taken, own)
    BY <1>1, <2>1, Joined
  <2> QED BY <2>1, <2>2 DEF IsJoined
<1> DEFINE n == Len(cases)
           p == Len(own)
           o == Len(after)
<1>13. n \in Nat /\ p \in {0, 1} /\ o = n + most + p /\ most \in Nat /\ n + most <= MaxTestCases
      /\ MaxTestCases \in Nat
  BY <1>2, <1>4, <1>6, AppReportsAssumption
<1>7. Len(own) = 1 => Len(cases) + most < MaxTestCases /\ own = <<"failed">>
  BY <1>5 DEF own
<1>14. DOMAIN after = 1 .. o /\ DOMAIN cases = 1 .. n /\ DOMAIN own = 1 .. p
  BY <1>4, <1>6
<1> HIDE DEF n, p, o
<1>15. /\ p = 1 => n + most < MaxTestCases
       /\ most < MaxTestCases - n => most = Len(all)
  BY <1>2, <1>7 DEF p, n
<1>8. o <= MaxTestCases
  BY <1>13, <1>15
<1>9. ASSUME suite.failed \/ "failed" \in Range(suite.assertions), o < MaxTestCases
      PROVE  \E i \in DOMAIN after : after[i] = "failed"
  <2>1. most = Len(all)
    BY <1>9, <1>13, <1>15
  <2>2. CASE \E i \in 1 .. most : taken[i] = "failed"
    <3>1. PICK i \in 1 .. most : taken[i] = "failed"
      BY <2>2
    <3>2. n + i \in 1 .. o
      BY <1>13
    <3>3. after[n + i] = "failed"
      BY <1>6, <3>1 DEF n
    <3> QED BY <1>14, <3>2, <3>3
  <2>3. CASE ~\E i \in 1 .. most : taken[i] = "failed"
    <3>1. "failed" \notin Range(suite.assertions)
      BY <1>3, <2>1, <2>3 DEF Range
    <3>2. suite.failed
      BY <1>9, <3>1
    <3>3. ~failed
      BY <1>3, <2>3
    <3>4. n + most < MaxTestCases
      BY <1>9, <1>13
    <3>5. own = <<"failed">>
      BY <1>5, <3>2, <3>3, <3>4 DEF own, n
    <3>6. p = 1 /\ own[1] = "failed"
      BY <3>5 DEF p
    <3>7. after[n + most + 1] = "failed"
      BY <1>6, <3>6 DEF n, p
    <3>8. n + most + 1 \in 1 .. o
      BY <1>13, <3>6
    <3> QED BY <1>14, <3>7, <3>8
  <2> QED BY <2>2, <2>3
<1>10. n <= o /\ \A i \in DOMAIN cases : after[i] = cases[i]
  BY <1>6, <1>13, <1>14 DEF n
<1> QED BY <1>6, <1>8, <1>9, <1>10 DEF after, n, o

\* The test cases that the loop over a report's suites collects.
Cases(suites) == FoldLeft(ReadSuite, <<>>, suites)

\* The loop over a report's suites goes from one to the next.
LEMMA CasesUnfold ==
  ASSUME NEW n \in Nat, NEW suites \in [1 .. n -> Suites]
  PROVE  \E it :
           /\ Cases(suites) = it[1 .. n]
           /\ it[1 .. 0] = <<>>
           /\ \A k \in 1 .. n : it[1 .. k] = ReadSuite(it[1 .. k - 1], suites[k])
<1> DEFINE S == 1 .. n
           V == {cs \in Seq(Statuses) : Len(cs) <= MaxTestCases}
           F == [p \in V \X S |-> ReadSuite(p[1], suites[p[2]])]
           base == <<>>
           c == [s \in SUBSET S |-> Max(s)]
           Unfold(g, s) == IF s = {} THEN <<>> ELSE ReadSuite(g[s \ {Max(s)}], suites[Max(s)])
           it == CHOOSE g : g = [s \in SUBSET S |-> Unfold(g, s)]
<1>1. DOMAIN suites = S
  OBVIOUS
<1>2. Cases(suites) = it[S]
  BY <1>1 DEF Cases, FoldLeft, MapThenFoldSet
<1>3. \A s \in SUBSET S : s # {} => c[s] \in s
  <2>1. ASSUME NEW s \in SUBSET S, s # {} PROVE Max(s) \in s
    BY <2>1, LastExists
  <2> QED BY <2>1
<1>4. base \in V /\ F \in [V \X S -> V]
  <2>1. ASSUME NEW v \in V, NEW x \in S PROVE ReadSuite(v, suites[x]) \in V
    BY SuiteAdds, AppReportsAssumption
  <2>2. base \in V
    BY AppReportsAssumption
  <2> HIDE DEF V, S, base
  <2> QED BY <2>1, <2>2
<1>5. IsFiniteSet(S)
  BY FS_Interval
<1>6. PICK g \in [SUBSET S -> V] :
        \A s \in SUBSET S : g[s] = IF s = {} THEN base ELSE F[<<g[s \ {c[s]}], c[s]>>]
  <2> HIDE DEF S, V, F, c, base
  <2>1. Folding(S, V, base, F, c)
    BY <1>3, <1>4, <1>5 DEF Folding
  <2>2. PICK g : IsFold(g, S, V, base, F, c)
    BY <2>1, FoldExists
  <2> QED BY <2>2 DEF IsFold
<1>7. g = [s \in SUBSET S |-> Unfold(g, s)]
  <2>1. ASSUME NEW s \in SUBSET S PROVE g[s] = Unfold(g, s)
    <3>1. CASE s = {}
      BY <1>6, <3>1
    <3>2. CASE s # {}
      <4>1. c[s] = Max(s) /\ Max(s) \in S /\ g[s \ {Max(s)}] \in V
        BY <1>3, <1>6, <3>2
      <4>2. g[s] = F[<<g[s \ {Max(s)}], Max(s)>>]
        <5> HIDE DEF V, S, F, c
        <5> QED BY <1>6, <3>2, <4>1
      <4>3. F[<<g[s \ {Max(s)}], Max(s)>>] = ReadSuite(g[s \ {Max(s)}], suites[Max(s)])
        <5> HIDE DEF V, S
        <5> QED BY <4>1
      <4> HIDE DEF V, S, F
      <4> QED BY <3>2, <4>2, <4>3
    <3> QED BY <3>1, <3>2
  <2> HIDE DEF S, V, Unfold
  <2> QED BY <1>6, <2>1
<1>8. it = [s \in SUBSET S |-> Unfold(it, s)]
  <2> HIDE DEF S, Unfold
  <2> QED BY <1>7
<1> HIDE DEF it
<1>9. it[1 .. 0] = <<>>
  <2>1. 1 .. 0 = {} /\ {} \in SUBSET S
    OBVIOUS
  <2>2. it[{}] = Unfold(it, {})
    BY <1>8, <2>1
  <2> QED BY <2>1, <2>2
<1>10. ASSUME NEW k \in 1 .. n PROVE it[1 .. k] = ReadSuite(it[1 .. k - 1], suites[k])
  <2>1. 1 .. k \in SUBSET S /\ 1 .. k # {} /\ (1 .. k) \ {k} = 1 .. k - 1
    <3>1. 1 .. k \in SUBSET S /\ k \in 1 .. k
      OBVIOUS
    <3>2. (1 .. k) \ {k} = 1 .. k - 1
      OBVIOUS
    <3> QED BY <3>1, <3>2
  <2>2. Max(1 .. k) = k
    <3>1. Max(1 .. k) \in 1 .. k /\ \A y \in 1 .. k : y <= Max(1 .. k)
      BY <2>1, LastExists
    <3>2. k \in 1 .. k
      OBVIOUS
    <3> QED BY <3>1, <3>2
  <2>3. it[1 .. k] = Unfold(it, 1 .. k)
    BY <1>8, <2>1
  <2> QED BY <2>1, <2>2, <2>3
<1> QED BY <1>2, <1>9, <1>10

\* However many suites a report has, a failure among them is a failed case,
\* unless the limit came first.
LEMMA FailuresCounted ==
  ASSUME NEW n \in Nat, NEW suites \in [1 .. n -> Suites],
         \E k \in 1 .. n : suites[k].failed \/ "failed" \in Range(suites[k].assertions)
  PROVE  LET results == ParseTestResults(suites)
         IN results.total < MaxTestCases => results.total > 0 /\ results.counts["failed"] > 0
<1> DEFINE Failing(k) == suites[k].failed \/ "failed" \in Range(suites[k].assertions)
           Counted(cases) == \E i \in DOMAIN cases : cases[i] = "failed"
           cases == Cases(suites)
<1>1. PICK it : /\ cases = it[1 .. n] /\ it[1 .. 0] = <<>>
                /\ \A k \in 1 .. n : it[1 .. k] = ReadSuite(it[1 .. k - 1], suites[k])
  BY CasesUnfold
<1> DEFINE Kept(k) == k <= n =>
             /\ it[1 .. k] \in Seq(Statuses) /\ Len(it[1 .. k]) <= MaxTestCases
             /\ (\E j \in 1 .. k : Failing(j)) /\ Len(it[1 .. k]) < MaxTestCases => Counted(it[1 .. k])
           T == {k \in Nat : Kept(k)}
<1>2. 0 \in T
  <2>1. it[1 .. 0] \in Seq(Statuses) /\ Len(it[1 .. 0]) <= MaxTestCases
    BY <1>1, AppReportsAssumption
  <2>2. ~\E j \in 1 .. 0 : Failing(j)
    OBVIOUS
  <2> QED BY <2>1, <2>2
<1>3. ASSUME NEW k \in Nat, k \in T PROVE k + 1 \in T
  <2>1. SUFFICES ASSUME k + 1 <= n PROVE Kept(k + 1)
    OBVIOUS
  <2> DEFINE before == it[1 .. k]
             after == it[1 .. k + 1]
             suite == suites[k + 1]
  <2>2. k + 1 \in 1 .. n /\ (k + 1) - 1 = k
    BY <2>1
  <2>3. after = ReadSuite(before, suite)
    BY <1>1, <2>2
  <2>4. before \in Seq(Statuses) /\ Len(before) <= MaxTestCases
    BY <1>3, <2>1
  <2>5. suite.failed \in BOOLEAN /\ suite.assertions \in Seq(Statuses)
    BY <2>2, AppReportsAssumption
  <2>6. /\ after \in Seq(Statuses) /\ Len(after) <= MaxTestCases /\ Len(before) <= Len(after)
        /\ \A i \in DOMAIN before : after[i] = before[i]
        /\ (suite.failed \/ "failed" \in Range(suite.assertions)) /\ Len(after) < MaxTestCases => Counted(after)
    <3> HIDE DEF before, after, suite
    <3> QED BY <2>3, <2>4, <2>5, SuiteAdds
  <2>7. ASSUME NEW j \in 1 .. k + 1, Failing(j), Len(after) < MaxTestCases PROVE Counted(after)
    <3>1. CASE j = k + 1
      BY <2>6, <2>7, <3>1
    <3>2. CASE j # k + 1
      <4>1. Len(before) < MaxTestCases /\ j \in 1 .. k
        BY <2>4, <2>6, <2>7, <3>2, AppReportsAssumption
      <4>2. Counted(before)
        BY <1>3, <2>1, <2>7, <4>1
      <4>3. DOMAIN before \subseteq DOMAIN after
        BY <2>4, <2>6
      <4> QED BY <2>6, <4>2, <4>3
    <3> QED BY <3>1, <3>2
  <2> QED BY <2>6, <2>7
<1>4. n \in T
  <2> HIDE DEF T
  <2> QED BY <1>2, <1>3, NatInduct
<1>5. Len(cases) < MaxTestCases => Counted(cases)
  <2>1. cases = it[1 .. n]
    BY <1>1
  <2>2. (\E j \in 1 .. n : Failing(j)) /\ Len(it[1 .. n]) < MaxTestCases => Counted(it[1 .. n])
    <3> HIDE DEF cases, Failing, Counted
    <3> QED BY <1>4
  <2>3. \E j \in 1 .. n : Failing(j)
    OBVIOUS
  <2> HIDE DEF cases, Failing, Counted
  <2> QED BY <2>1, <2>2, <2>3
<1>6. cases \in Seq(Statuses)
  BY <1>1, <1>4
<1> HIDE DEF cases
<1> DEFINE failures == {i \in DOMAIN cases : cases[i] = "failed"}
<1>7. /\ ParseTestResults(suites).total = Len(cases)
      /\ ParseTestResults(suites).counts["failed"] = Cardinality(failures)
  BY DEF ParseTestResults, Statuses, cases, Cases
<1>8. ASSUME Len(cases) < MaxTestCases PROVE Len(cases) > 0 /\ Cardinality(failures) > 0
  <2>1. DOMAIN cases = 1 .. Len(cases) /\ Len(cases) \in Nat
    BY <1>6
  <2>2. IsFiniteSet(failures) /\ failures # {}
    <3>1. IsFiniteSet(1 .. Len(cases))
      BY <2>1, FS_Interval
    <3>2. failures \subseteq 1 .. Len(cases)
      BY <2>1
    <3>3. failures # {}
      BY <1>5, <1>8
    <3> HIDE DEF failures
    <3> QED BY <3>1, <3>2, <3>3, FS_Subset
  <2>3. Cardinality(failures) \in Nat /\ Cardinality(failures) # 0
    <3> HIDE DEF failures
    <3> QED BY <2>2, FS_EmptySet, FS_CardinalityType
  <2> QED BY <1>5, <1>8, <2>1, <2>3
<1> QED BY <1>7, <1>8

\* The test results on disk are suites the command wrote, or unreadable ones
\* from before, and what was read of them is what they say.
TestsAsWritten ==
  LET results == Directory \o <<Results>>
  IN /\ place \in Places
     /\ results \in DOMAIN disk => disk[results].body \in SeqOf(Suites, MaxSuites) \cup {Null}
     /\ phase = "done" /\ outcome.tests # Null =>
          /\ results \in DOMAIN disk /\ disk[results].body # Null
          /\ outcome.tests = ParseTestResults(disk[results].body)

LEMMA InitAsWritten == Init => TestsAsWritten
  BY DEF Init, TestsAsWritten

\* A coverage report is never written over the test results.
LEMMA OtherReports ==
  ASSUME NEW dir \in Seq(STRING), NEW name \in {Summary, Detailed, Lcov}
  PROVE  Append(dir, name) # Directory \o <<Results>>
<1>1. name # Results
  BY DEF Summary, Detailed, Lcov, Results
<1> DEFINE A == STRING \cup {name, Results}
           a == Append(dir, name)
           b == Append(Directory, Results)
<1>2. dir \in Seq(A) /\ Directory \in Seq(A) /\ name \in A /\ Results \in A
  BY AppReportsAssumption, SeqMonotonic
<1> HIDE DEF A
<1>3. a[Len(a)] = name /\ b[Len(b)] = Results
  BY <1>2
<1>4. Directory \o <<Results>> = b
  BY <1>2, AppendIsConcat
<1> QED BY <1>1, <1>3, <1>4

LEMMA CoverageAsWritten ==
  ASSUME NEW name \in {Summary, Detailed, Lcov}, NEW body, Write(name, Append(place, name), body), TestsAsWritten
  PROVE  TestsAsWritten'
<1> DEFINE results == Directory \o <<Results>>
<1>1. place \in Seq(STRING)
  BY AppReportsAssumption DEF TestsAsWritten
<1>2. Append(place, name) # results
  BY <1>1, OtherReports
<1>3. phase' = "run" /\ place' = place /\ outcome' = outcome
  BY DEF Write, command
<1>4. (results \in DOMAIN disk' <=> results \in DOMAIN disk) /\ (results \in DOMAIN disk => disk'[results] = disk[results])
  BY <1>2 DEF Write, Put
<1> QED BY <1>3, <1>4 DEF TestsAsWritten

LEMMA ResultsAsWritten ==
  ASSUME NEW suites \in SeqOf(Suites, MaxSuites), WriteResults(suites), TestsAsWritten
  PROVE  TestsAsWritten'
<1> DEFINE results == Directory \o <<Results>>
<1>1. phase' = "run" /\ place' = place /\ outcome' = outcome
  BY DEF WriteResults, Write, command
<1>2. disk'[results].body = suites
  BY DEF WriteResults, Write, Put
<1> QED BY <1>1, <1>2 DEF TestsAsWritten

LEMMA NextAsWritten == TestsAsWritten /\ [Next]_vars => TestsAsWritten'
<1> SUFFICES ASSUME TestsAsWritten, [Next]_vars PROVE TestsAsWritten'
  OBVIOUS
<1>1. CASE Clear
  BY <1>1 DEF Clear, command, TestsAsWritten
<1>2. CASE CutShort
  BY <1>2 DEF CutShort, command, TestsAsWritten
<1>3. CASE Read
  <2>1. /\ phase' = "done" /\ place' = place /\ disk' = disk
        /\ outcome'.tests = LET results == Directory \o <<Results>>
                            IN IF results \in Exists /\ Body(results) # Null THEN ParseTestResults(Body(results)) ELSE Null
    BY <1>3 DEF Read, command
  <2> QED BY <2>1 DEF TestsAsWritten, Exists, Body
<1>4. ASSUME NEW records \in Records, WriteSummary(records) PROVE TestsAsWritten'
  BY <1>4, CoverageAsWritten DEF WriteSummary
<1>5. CASE WriteDetailed
  BY <1>5, CoverageAsWritten DEF WriteDetailed
<1>6. ASSUME NEW t \in LcovLines, PrintLine(t) PROVE TestsAsWritten'
  BY <1>6, CoverageAsWritten DEF PrintLine
<1>7. ASSUME NEW suites \in SeqOf(Suites, MaxSuites), WriteResults(suites) PROVE TestsAsWritten'
  BY <1>7, ResultsAsWritten
<1>8. ASSUME NEW code \in {0, 1}, NEW took \in Times, Exit(code, took) PROVE TestsAsWritten'
  BY <1>8 DEF Exit, command, TestsAsWritten
<1>9. CASE UNCHANGED vars
  BY <1>9 DEF vars, command, TestsAsWritten
<1> QED BY <1>1, <1>2, <1>3, <1>4, <1>5, <1>6, <1>7, <1>8, <1>9 DEF Next

LEMMA WrittenIsCounted == TestsAsWritten => FailureIsCounted
<1> SUFFICES ASSUME TestsAsWritten, Done, outcome.tests # Null
             PROVE  LET suites == Range(Body(Directory \o <<Results>>))
                        failed == {s \in suites : s.failed \/ "failed" \in Range(s.assertions)}
                    IN /\ failed # {} /\ outcome.tests.total < MaxTestCases => outcome.tests.counts["failed"] > 0
                       /\ Verdict = "skipped" => failed = {}
  BY DEF FailureIsCounted
<1> DEFINE suites == Body(Directory \o <<Results>>)
           failed == {s \in Range(suites) : s.failed \/ "failed" \in Range(s.assertions)}
<1>1. PICK n \in Nat : suites \in [1 .. n -> Suites]
  <2>1. suites \in SeqOf(Suites, MaxSuites)
    BY DEF TestsAsWritten, Body, Done
  <2>2. \A m \in 0 .. MaxSuites : m \in Nat
    BY AppReportsAssumption
  <2> HIDE DEF suites
  <2> QED BY <2>1, <2>2 DEF SeqOf
<1>2. outcome.tests = ParseTestResults(suites)
  BY DEF TestsAsWritten, Body, Done
<1>3. failed # {} => \E k \in 1 .. n : suites[k].failed \/ "failed" \in Range(suites[k].assertions)
  BY <1>1 DEF Range
<1> HIDE DEF suites, failed
<1>4. failed # {} /\ outcome.tests.total < MaxTestCases => outcome.tests.total > 0 /\ outcome.tests.counts["failed"] > 0
  BY <1>1, <1>2, <1>3, FailuresCounted
<1>5. Verdict = "skipped" => outcome.tests.total = 0
  BY DEF Verdict
<1>6. Verdict = "skipped" => failed = {}
  BY <1>4, <1>5, AppReportsAssumption
<1> QED BY <1>4, <1>6 DEF suites, failed

-----------------------------------------------------------------------------
(* Sums over finite sets                                                   *)

\* g sums f over the parts of S, whichever element is taken first.
Summing(g, S, f) ==
  /\ g \in [SUBSET S -> Int] /\ g[{}] = 0
  /\ \A s \in SUBSET S : \A x \in s : g[s] = g[s \ {x}] + f[x]

\* A sum that takes its elements in the order of c.
IsSum(g, S, f, c) ==
  g = [s \in SUBSET S |-> IF s = {} THEN 0 ELSE g[s \ {c[s]}] + f[c[s]]]

\* Addition commutes: a sum taken in one order satisfies the equation of
\* every order.
LEMMA AnyOrder ==
  ASSUME NEW S, IsFiniteSet(S), NEW f \in [S -> Int], NEW c, NEW g \in [SUBSET S -> Int],
         \A s \in SUBSET S : s # {} => c[s] \in s, IsSum(g, S, f, c)
  PROVE  Summing(g, S, f)
<1>1. \A s \in SUBSET S : IsFiniteSet(s) /\ Cardinality(s) \in Nat
  BY FS_Subset, FS_CardinalityType
<1>2. /\ g[{}] = 0
      /\ \A s \in SUBSET S : s # {} => g[s] = g[s \ {c[s]}] + f[c[s]]
  <2>1. {} \in SUBSET S
    OBVIOUS
  <2> QED BY <2>1 DEF IsSum
<1> DEFINE Good(s) == \A x \in s : g[s] = g[s \ {x}] + f[x]
           T == {n \in Nat : \A s \in SUBSET S : Cardinality(s) <= n => Good(s)}
<1>3. 0 \in T
  <2>1. ASSUME NEW s \in SUBSET S, Cardinality(s) <= 0 PROVE s = {}
    <3>1. Cardinality(s) = 0
      BY <1>1, <2>1
    <3> QED BY <1>1, <3>1, FS_EmptySet
  <2> QED BY <2>1
<1>4. ASSUME NEW n \in Nat, n \in T PROVE n + 1 \in T
  <2>1. SUFFICES ASSUME NEW s \in SUBSET S, Cardinality(s) <= n + 1, NEW x \in s
                 PROVE  g[s] = g[s \ {x}] + f[x]
    OBVIOUS
  <2> DEFINE y == c[s]
  <2>2. y \in s /\ g[s] = g[s \ {y}] + f[y]
    BY <1>2, <2>1
  <2>3. CASE x = y
    BY <2>2, <2>3
  <2>4. CASE x # y
    <3>1. Cardinality(s \ {x}) = Cardinality(s) - 1 /\ Cardinality(s \ {y}) = Cardinality(s) - 1
      <4>1. IsFiniteSet(s) /\ x \in s /\ y \in s
        BY <1>1, <2>1, <2>2
      <4> HIDE DEF y
      <4> QED BY <4>1, FS_RemoveElement
    <3>2. Cardinality(s \ {x}) <= n /\ Cardinality(s \ {y}) <= n
      BY <1>1, <2>1, <3>1
    <3>3. s \ {x} \in SUBSET S /\ s \ {y} \in SUBSET S /\ (s \ {x}) \ {y} \in SUBSET S
      OBVIOUS
    <3>4. g[s \ {y}] = g[(s \ {y}) \ {x}] + f[x] /\ g[s \ {x}] = g[(s \ {x}) \ {y}] + f[y]
      <4>1. x \in s \ {y} /\ y \in s \ {x}
        BY <2>1, <2>2, <2>4
      <4>2. Good(s \ {x}) /\ Good(s \ {y})
        BY <1>4, <3>2, <3>3
      <4> HIDE DEF y
      <4> QED BY <4>1, <4>2
    <3>5. (s \ {y}) \ {x} = (s \ {x}) \ {y}
      OBVIOUS
    <3>6. {g[s \ {x}], g[s \ {y}], g[(s \ {x}) \ {y}], f[x], f[y]} \subseteq Int
      <4>1. x \in S /\ y \in S
        BY <2>1, <2>2
      <4> HIDE DEF y
      <4> QED BY <3>3, <4>1
    <3>7. \A i, j, k \in Int : (i + j) + k = (i + k) + j
      OBVIOUS
    <3> DEFINE z == g[(s \ {x}) \ {y}]
    <3>8. g[s \ {y}] = z + f[x] /\ g[s \ {x}] = z + f[y]
      BY <3>4, <3>5
    <3> HIDE DEF y, z
    <3>9. z \in Int /\ f[x] \in Int /\ f[y] \in Int
      BY <3>6 DEF z
    <3> QED BY <2>2, <3>7, <3>8, <3>9
  <2> QED BY <2>3, <2>4
<1>5. Nat \subseteq T
  <2> HIDE DEF T
  <2> QED BY <1>3, <1>4, NatInduct
<1>6. ASSUME NEW s \in SUBSET S PROVE Good(s)
  <2>1. Cardinality(s) \in T
    BY <1>1, <1>5
  <2> QED BY <1>1, <2>1
<1> QED BY <1>2, <1>6 DEF Summing

\* Every order of the elements has a sum.
LEMMA SumExists ==
  ASSUME NEW S, IsFiniteSet(S), NEW f \in [S -> Int], NEW c,
         \A s \in SUBSET S : s # {} => c[s] \in s
  PROVE  \E g : g \in [SUBSET S -> Int] /\ IsSum(g, S, f, c)
<1> DEFINE F == [p \in Int \X S |-> p[1] + f[p[2]]]
<1>1. Folding(S, Int, 0, F, c)
  BY DEF Folding
<1> HIDE DEF F
<1>2. PICK g : IsFold(g, S, Int, 0, F, c)
  BY <1>1, FoldExists
<1>3. g \in [SUBSET S -> Int]
  BY <1>2 DEF IsFold
<1>4. ASSUME NEW s \in SUBSET S PROVE g[s] = IF s = {} THEN 0 ELSE g[s \ {c[s]}] + f[c[s]]
  <2>1. CASE s = {}
    BY <1>2, <2>1 DEF IsFold
  <2>2. CASE s # {}
    <3>1. c[s] \in S /\ s \ {c[s]} \in SUBSET S
      BY <2>2
    <3>2. g[s] = F[<<g[s \ {c[s]}], c[s]>>]
      BY <1>2, <2>2 DEF IsFold
    <3>3. F[<<g[s \ {c[s]}], c[s]>>] = g[s \ {c[s]}] + f[c[s]]
      BY <1>3, <3>1 DEF F
    <3> QED BY <2>2, <3>2, <3>3
  <2> QED BY <2>1, <2>2
<1>5. IsSum(g, S, f, c)
  BY <1>3, <1>4 DEF IsSum
<1> QED BY <1>3, <1>5

\* Induction over the parts of a finite set: G has the empty set, and a set
\* when it has that set without each one of its elements.
LEMMA SetInduct ==
  ASSUME NEW S, IsFiniteSet(S), NEW G, {} \in G,
         \A s \in SUBSET S : s # {} /\ (\A x \in s : s \ {x} \in G) => s \in G
  PROVE  SUBSET S \subseteq G
<1>1. \A s \in SUBSET S : IsFiniteSet(s) /\ Cardinality(s) \in Nat
  BY FS_Subset, FS_CardinalityType
<1> DEFINE T == {n \in Nat : \A s \in SUBSET S : Cardinality(s) <= n => s \in G}
<1>2. ASSUME NEW s \in SUBSET S, s \notin G PROVE \E x \in s : s \ {x} \in SUBSET S /\ s \ {x} \notin G
  <2>1. s # {}
    BY <1>2
  <2> QED BY <1>2, <2>1
<1>3. 0 \in T
  <2>1. ASSUME NEW s \in SUBSET S, Cardinality(s) <= 0 PROVE s = {}
    <3>1. Cardinality(s) = 0
      BY <1>1, <2>1
    <3> QED BY <1>1, <3>1, FS_EmptySet
  <2> QED BY <2>1
<1>4. ASSUME NEW n \in Nat, n \in T PROVE n + 1 \in T
  <2>1. SUFFICES ASSUME NEW s \in SUBSET S, Cardinality(s) <= n + 1, s \notin G PROVE FALSE
    OBVIOUS
  <2>2. PICK x \in s : s \ {x} \in SUBSET S /\ s \ {x} \notin G
    BY <1>2, <2>1
  <2>3. Cardinality(s \ {x}) = Cardinality(s) - 1
    <3>1. IsFiniteSet(s) /\ x \in s
      BY <1>1
    <3> QED BY <3>1, FS_RemoveElement
  <2>4. Cardinality(s \ {x}) <= n
    BY <1>1, <2>1, <2>3
  <2> QED BY <1>4, <2>2, <2>4
<1>5. Nat \subseteq T
  <2> HIDE DEF T
  <2> QED BY <1>3, <1>4, NatInduct
<1>6. ASSUME NEW s \in SUBSET S PROVE s \in G
  <2>1. Cardinality(s) \in T
    BY <1>1, <1>5
  <2> QED BY <1>1, <2>1
<1> QED BY <1>6

\* A sum goes over to another set along an injection that keeps the terms.
LEMMA SumMoves ==
  ASSUME NEW S, IsFiniteSet(S), NEW R, NEW f, NEW k, NEW g, NEW h,
         Summing(g, S, f), Summing(h, R, k), NEW b \in [S -> R],
         \A x, y \in S : b[x] = b[y] => x = y, \A x \in S : k[b[x]] = f[x]
  PROVE  g[S] = h[{b[x] : x \in S}]
<1> DEFINE G == {s \in SUBSET S : g[s] = h[{b[x] : x \in s}]}
<1>1. {} \in G
  <2>1. {b[x] : x \in {}} = {}
    OBVIOUS
  <2> QED BY <2>1 DEF Summing
<1>2. ASSUME NEW s \in SUBSET S, NEW x \in s, s \ {x} \in G PROVE s \in G
  <2> DEFINE B(t) == {b[y] : y \in t}
  <2>1. B(s) \in SUBSET R /\ b[x] \in B(s)
    OBVIOUS
  <2>2. B(s \ {x}) = B(s) \ {b[x]}
    <3>1. \A y \in s : b[y] = b[x] => y = x
      OBVIOUS
    <3>2. B(s \ {x}) \subseteq B(s) \ {b[x]}
      BY <3>1
    <3>3. B(s) \ {b[x]} \subseteq B(s \ {x})
      OBVIOUS
    <3> QED BY <3>2, <3>3
  <2>3. h[B(s)] = h[B(s) \ {b[x]}] + k[b[x]]
    <3> HIDE DEF B
    <3> QED BY <2>1 DEF Summing
  <2>4. g[s] = g[s \ {x}] + f[x]
    BY DEF Summing
  <2>5. g[s \ {x}] = h[B(s \ {x})]
    BY <1>2
  <2>6. k[b[x]] = f[x]
    OBVIOUS
  <2>7. g[s] = h[B(s)]
    <3> HIDE DEF B, G
    <3> QED BY <2>2, <2>3, <2>4, <2>5, <2>6
  <2> QED BY <2>7
<1>3. SUBSET S \subseteq G
  <2> HIDE DEF G
  <2>1. ASSUME NEW s \in SUBSET S, s # {}, \A x \in s : s \ {x} \in G PROVE s \in G
    BY <1>2, <2>1
  <2> QED BY <1>1, <2>1, SetInduct
<1> QED BY <1>3

\* SumFunction is such a sum, in the order CHOOSE takes the elements.
LEMMA SumOf ==
  ASSUME NEW S, IsFiniteSet(S), NEW f \in [S -> Int]
  PROVE  \E g : Summing(g, S, f) /\ SumFunction(f) = g[S]
<1> DEFINE c == [s \in SUBSET S |-> CHOOSE x \in s : TRUE]
           Unfold(h, s) == IF s = {} THEN 0 ELSE f[CHOOSE x \in s : TRUE] + h[s \ {CHOOSE x \in s : TRUE}]
           it == CHOOSE h : h = [s \in SUBSET S |-> Unfold(h, s)]
<1>1. \A s \in SUBSET S : s # {} => c[s] \in s
  OBVIOUS
<1>2. PICK g : g \in [SUBSET S -> Int] /\ IsSum(g, S, f, c)
  <2> HIDE DEF c
  <2> QED BY <1>1, SumExists
<1>3. g = [s \in SUBSET S |-> Unfold(g, s)]
  <2>1. ASSUME NEW s \in SUBSET S PROVE g[s] = Unfold(g, s)
    <3>1. CASE s = {}
      BY <1>2, <3>1 DEF IsSum
    <3>2. CASE s # {}
      <4>1. c[s] = (CHOOSE x \in s : TRUE) /\ c[s] \in S /\ s \ {c[s]} \in SUBSET S
        BY <3>2
      <4>2. g[s] = g[s \ {c[s]}] + f[c[s]]
        BY <1>2, <3>2 DEF IsSum
      <4>3. g[s \ {c[s]}] + f[c[s]] = f[c[s]] + g[s \ {c[s]}]
        BY <1>2, <4>1
      <4> HIDE DEF c
      <4> QED BY <3>2, <4>1, <4>2, <4>3
    <3> QED BY <3>1, <3>2
  <2> HIDE DEF Unfold
  <2> QED BY <1>2, <2>1
<1>4. it = [s \in SUBSET S |-> Unfold(it, s)]
  <2> HIDE DEF Unfold
  <2> QED BY <1>3
<1>5. SumFunction(f) = it[S]
  <2>1. DOMAIN f = S
    OBVIOUS
  <2>2. SumFunction(f) = SumFunctionOnSet(f, S)
    BY <2>1 DEF SumFunction
  <2> QED BY <2>2 DEF SumFunctionOnSet, FoldFunctionOnSet, MapThenFoldSet
<1>6. SUBSET S \subseteq {s \in SUBSET S : it[s] = g[s]}
  <2> DEFINE G == {s \in SUBSET S : it[s] = g[s]}
  <2>1. \A s \in SUBSET S : it[s] = Unfold(it, s) /\ g[s] = Unfold(g, s)
    <3> HIDE DEF Unfold, it
    <3> QED BY <1>3, <1>4
  <2>2. {} \in G
    <3>1. {} \in SUBSET S
      OBVIOUS
    <3> HIDE DEF it
    <3> QED BY <2>1, <3>1
  <2>3. ASSUME NEW s \in SUBSET S, s # {}, \A x \in s : s \ {x} \in G PROVE s \in G
    <3>1. (CHOOSE x \in s : TRUE) \in s
      BY <2>3
    <3> HIDE DEF it
    <3>2. it[s \ {CHOOSE x \in s : TRUE}] = g[s \ {CHOOSE x \in s : TRUE}]
      BY <2>3, <3>1
    <3> QED BY <2>1, <2>3, <3>2
  <2> HIDE DEF G
  <2>4. SUBSET S \subseteq G
    BY <2>2, <2>3, SetInduct
  <2> QED BY <2>4 DEF G
<1>7. Summing(g, S, f)
  <2> HIDE DEF c
  <2> QED BY <1>1, <1>2, AnyOrder
<1>8. SumFunction(f) = g[S]
  <2> HIDE DEF it
  <2> QED BY <1>5, <1>6
<1> QED BY <1>7, <1>8

\* A part of a sum of counts is no more than the sum.
LEMMA SumPart ==
  ASSUME NEW R, IsFiniteSet(R), NEW k \in [R -> Nat], NEW h, Summing(h, R, k), NEW s \in SUBSET R
  PROVE  h[R] \in Nat /\ h[s] \in Nat /\ h[s] <= h[R]
<1> DEFINE G == {t \in SUBSET R : h[t] \in Nat /\ h[s \cap t] \in Nat /\ h[s \cap t] <= h[t]}
<1>1. {} \in G
  <2>1. s \cap {} = {}
    OBVIOUS
  <2> QED BY <2>1 DEF Summing
<1>2. ASSUME NEW t \in SUBSET R, NEW x \in t, t \ {x} \in G PROVE t \in G
  <2> DEFINE u == t \ {x}
  <2>1. h[t] = h[u] + k[x] /\ k[x] \in Nat
    BY DEF Summing
  <2>2. h[u] \in Nat /\ h[s \cap u] \in Nat /\ h[s \cap u] <= h[u]
    BY <1>2
  <2>3. CASE x \in s
    <3>1. (s \cap t) \ {x} = s \cap u /\ s \cap t \in SUBSET R /\ x \in s \cap t
      BY <2>3
    <3>2. h[s \cap t] = h[s \cap u] + k[x]
      <4> HIDE DEF u
      <4> QED BY <3>1 DEF Summing
    <3> HIDE DEF u
    <3>3. h[t] \in Nat /\ h[s \cap t] \in Nat /\ h[s \cap t] <= h[t]
      BY <2>1, <2>2, <3>2
    <3> QED BY <3>3
  <2>4. CASE x \notin s
    <3>1. h[s \cap t] = h[s \cap u]
      <4>1. s \cap t = s \cap u
        BY <2>4
      <4> QED BY <4>1
    <3> HIDE DEF u
    <3>2. h[t] \in Nat /\ h[s \cap t] \in Nat /\ h[s \cap t] <= h[t]
      BY <2>1, <2>2, <3>1
    <3> QED BY <3>2
  <2> QED BY <2>3, <2>4
<1>3. R \in G
  <2> HIDE DEF G
  <2>1. ASSUME NEW t \in SUBSET R, t # {}, \A x \in t : t \ {x} \in G PROVE t \in G
    BY <1>2, <2>1
  <2>2. SUBSET R \subseteq G
    BY <1>1, <2>1, SetInduct
  <2> QED BY <2>2
<1>4. s \cap R = s
  OBVIOUS
<1> QED BY <1>3, <1>4

\* A sum of counts each of which is also one of another sum, of an element of
\* its own, is no more than that sum.
LEMMA SumInto ==
  ASSUME NEW S, IsFiniteSet(S), NEW R, IsFiniteSet(R), NEW f \in [S -> Nat], NEW k \in [R -> Nat],
         NEW e, \A x \in S : \E y \in R : e[y] = x /\ k[y] = f[x]
  PROVE  SumFunction(f) \in Nat /\ SumFunction(k) \in Nat /\ SumFunction(f) <= SumFunction(k)
<1>1. PICK g : Summing(g, S, f) /\ SumFunction(f) = g[S]
  <2>1. f \in [S -> Int]
    OBVIOUS
  <2> QED BY <2>1, SumOf
<1>2. PICK h : Summing(h, R, k) /\ SumFunction(k) = h[R]
  <2>1. k \in [R -> Int]
    OBVIOUS
  <2> QED BY <2>1, SumOf
<1> DEFINE b == [x \in S |-> CHOOSE y \in R : e[y] = x /\ k[y] = f[x]]
<1>3. \A x \in S : b[x] \in R /\ e[b[x]] = x /\ k[b[x]] = f[x]
  OBVIOUS
<1>4. b \in [S -> R]
  BY <1>3
<1> HIDE DEF b
<1>5. \A x, y \in S : b[x] = b[y] => x = y
  BY <1>3
<1>6. g[S] = h[{b[x] : x \in S}]
  <2>1. Summing(g, S, f) /\ Summing(h, R, k) /\ \A x \in S : k[b[x]] = f[x]
    BY <1>1, <1>2, <1>3
  <2> QED BY <1>4, <1>5, <2>1, SumMoves
<1>7. {b[x] : x \in S} \in SUBSET R
  BY <1>4
<1> QED BY <1>1, <1>2, <1>6, <1>7, SumPart

Rest(R, z, S) == S = R \ {z}

\* One more element adds its count.
LEMMA SumWithout ==
  ASSUME NEW R, IsFiniteSet(R), NEW z \in R, NEW f \in [R -> Nat], NEW S, Rest(R, z, S),
         NEW g \in [S -> Nat], \A i \in S : g[i] = f[i]
  PROVE  SumFunction(f) = SumFunction(g) + f[z]
<1> USE DEF Rest
<1> DEFINE b == [i \in S |-> i]
<1>1. IsFiniteSet(S)
  BY FS_Subset
<1>2. f \in [R -> Int] /\ g \in [S -> Int]
  OBVIOUS
<1>3. \A x \in S : b[x] = x
  OBVIOUS
<1>4. b \in [S -> R] /\ {b[x] : x \in S} = S
  OBVIOUS
<1> HIDE DEF b
<1>5. PICK v : Summing(v, R, f) /\ SumFunction(f) = v[R]
  BY <1>2, SumOf
<1>6. PICK w : Summing(w, S, g) /\ SumFunction(g) = w[S]
  BY <1>1, <1>2, SumOf
<1>7. w[S] = v[{b[x] : x \in S}]
  <2>1. Summing(w, S, g) /\ Summing(v, R, f) /\ \A x \in S : f[b[x]] = g[x]
    BY <1>3, <1>5, <1>6
  <2>2. \A x, y \in S : b[x] = b[y] => x = y
    BY <1>3
  <2>3. b \in [S -> R]
    BY <1>4
  <2> QED BY ONLY <1>1, <2>1, <2>2, <2>3, SumMoves
<1>8. v[R] = v[S] + f[z]
  BY <1>5 DEF Summing
<1> QED BY <1>4, <1>5, <1>6, <1>7, <1>8

LEMMA SumAppend ==
  ASSUME NEW n \in Nat, NEW f \in [1 .. n + 1 -> Nat], NEW g \in [1 .. n -> Nat], \A i \in 1 .. n : g[i] = f[i]
  PROVE  SumFunction(f) = SumFunction(g) + f[n + 1]
<1>1. IsFiniteSet(1 .. n + 1)
  BY FS_Interval
<1>2. n + 1 \in 1 .. n + 1 /\ 1 .. n = (1 .. n + 1) \ {n + 1}
  OBVIOUS
<1>3. PICK R, S, z : R = 1 .. n + 1 /\ S = 1 .. n /\ z = n + 1
  OBVIOUS
<1>4. IsFiniteSet(R) /\ z \in R /\ f \in [R -> Nat] /\ Rest(R, z, S) /\ g \in [S -> Nat] /\ \A i \in S : g[i] = f[i]
  BY <1>1, <1>2, <1>3 DEF Rest
<1>5. SumFunction(f) = SumFunction(g) + f[z]
  BY ONLY <1>4, SumWithout
<1> QED BY <1>3, <1>5

-----------------------------------------------------------------------------
(* Sets in an order                                                        *)

LEMMA FiniteImage ==
  ASSUME NEW B, IsFiniteSet(B), NEW f
  PROVE  IsFiniteSet({f[x] : x \in B})
<1> DEFINE g == [x \in B |-> f[x]]
<1>1. g \in Surjection(B, {f[x] : x \in B})
  BY DEF Surjection
<1> HIDE DEF g
<1> QED BY <1>1, FS_Surjection

\* R orders the elements of S, and none before itself.
Orders(R, S) ==
  /\ \A x \in S : <<x, x>> \notin R
  /\ \A x, y \in S : x # y => <<x, y>> \in R \/ <<y, x>> \in R
  /\ \A x, y, z \in S : <<x, y>> \in R /\ <<y, z>> \in R => <<x, z>> \in R

\* The number of elements of S before each.
Rank(S, R) == [x \in S |-> Cardinality({y \in S : <<y, x>> \in R})]

\* The ranks are the numbers up to that of the elements, each of one element.
Ranked(S, R) ==
  /\ Cardinality(S) \in Nat
  /\ \A x \in S : Rank(S, R)[x] \in Nat
  /\ \A x, y \in S : Rank(S, R)[x] < Rank(S, R)[y] <=> <<x, y>> \in R
  /\ \A x, y \in S : Rank(S, R)[x] = Rank(S, R)[y] => x = y
  /\ \A x \in S : \E i \in 1 .. Cardinality(S) : Rank(S, R)[x] = i - 1
  /\ \A i \in 1 .. Cardinality(S) : \E x \in S : Rank(S, R)[x] = i - 1

\* The rank is an injection into 0 .. n - 1 where S has n elements, and so
\* meets each of these numbers.
LEMMA RankOrders ==
  ASSUME NEW S, IsFiniteSet(S), NEW R, Orders(R, S)
  PROVE  Ranked(S, R)
<1> DEFINE n == Cardinality(S)
           Below(x) == {y \in S : <<y, x>> \in R}
           rank == [x \in S |-> Cardinality(Below(x))]
<1>1. n \in Nat
  BY FS_CardinalityType
<1>2. ASSUME NEW x \in S PROVE IsFiniteSet(Below(x)) /\ rank[x] \in 0 .. n - 1
  <2>1. Below(x) \in SUBSET S /\ Below(x) # S
    BY DEF Orders
  <2>2. IsFiniteSet(Below(x)) /\ Cardinality(Below(x)) <= n /\ Cardinality(Below(x)) # n
    <3> HIDE DEF Below
    <3> QED BY <2>1, FS_Subset
  <2>3. Cardinality(Below(x)) \in Nat
    BY <2>2, FS_CardinalityType
  <2> HIDE DEF Below, n
  <2> QED BY <1>1, <2>2, <2>3
<1>3. \A x \in S : rank[x] \in Nat
  <2> SUFFICES ASSUME NEW x \in S PROVE rank[x] \in Nat
    OBVIOUS
  <2>1. rank[x] \in 0 .. n - 1
    BY <1>2
  <2> HIDE DEF rank, n
  <2> QED BY <2>1
<1>4. ASSUME NEW x \in S, NEW y \in S, <<x, y>> \in R PROVE rank[x] < rank[y]
  <2>1. Below(x) \in SUBSET Below(y) /\ Below(x) # Below(y)
    BY <1>4 DEF Orders
  <2>2. IsFiniteSet(Below(y))
    BY <1>2
  <2>3. Cardinality(Below(x)) <= Cardinality(Below(y)) /\ Cardinality(Below(x)) # Cardinality(Below(y))
    <3> HIDE DEF Below
    <3> QED BY <2>1, <2>2, FS_Subset
  <2>4. rank[x] = Cardinality(Below(x)) /\ rank[y] = Cardinality(Below(y))
    OBVIOUS
  <2> HIDE DEF rank, Below
  <2> QED BY <1>3, <2>3, <2>4
<1> DEFINE P == 0 .. n - 1
<1>5. /\ \A x, y \in S : rank[x] < rank[y] <=> <<x, y>> \in R
      /\ \A x, y \in S : rank[x] = rank[y] => x = y
  <2> SUFFICES ASSUME NEW x \in S, NEW y \in S
               PROVE  (rank[x] < rank[y] <=> <<x, y>> \in R) /\ (rank[x] = rank[y] => x = y)
    OBVIOUS
  <2>1. (<<x, y>> \in R => rank[x] < rank[y]) /\ (<<y, x>> \in R => rank[y] < rank[x])
    BY <1>4
  <2>2. x = y \/ <<x, y>> \in R \/ <<y, x>> \in R
    BY DEF Orders
  <2>3. rank[x] \in Nat /\ rank[y] \in Nat
    BY <1>3
  <2> HIDE DEF rank
  <2> QED BY <2>1, <2>2, <2>3
<1>6. \A k \in P : \E x \in S : rank[x] = k
  <2>1. rank \in [S -> P]
    BY <1>2
  <2>2. rank \in Injection(S, P)
    <3> HIDE DEF rank, P
    <3> QED BY <1>5, <2>1 DEF Injection, IsInjective
  <2>3. IsFiniteSet(P) /\ Cardinality(P) = n
    <3> HIDE DEF n
    <3> QED BY <1>1, FS_Interval
  <2>4. rank \in Surjection(S, P)
    <3> HIDE DEF rank, P
    <3> QED BY <2>2, <2>3, FS_Injection
  <2> HIDE DEF rank, P
  <2> QED BY <2>4 DEF Surjection
<1>7. rank = Rank(S, R)
  BY DEF Rank
<1> HIDE DEF rank
<1>8. \A i \in 1 .. n : \E x \in S : rank[x] = i - 1
  <2>1. \A i \in 1 .. n : i - 1 \in P
    <3> HIDE DEF n
    <3> QED BY <1>1
  <2> HIDE DEF P, n
  <2> QED BY <1>6, <2>1
<1>9. \A x \in S : \E i \in 1 .. n : rank[x] = i - 1
  <2> SUFFICES ASSUME NEW x \in S PROVE \E i \in 1 .. n : rank[x] = i - 1
    OBVIOUS
  <2>1. rank[x] + 1 \in 1 .. n /\ (rank[x] + 1) - 1 = rank[x]
    <3>1. rank[x] \in 0 .. n - 1
      BY <1>2
    <3> HIDE DEF n
    <3> QED BY <1>1, <3>1
  <2> HIDE DEF n
  <2> QED BY <2>1
<1> QED BY <1>1, <1>3, <1>5, <1>7, <1>8, <1>9 DEF Ranked

-----------------------------------------------------------------------------
(* Folds over a sequence                                                   *)

\* The places up to k, of which k is the last.
LEMMA UpTo ==
  ASSUME NEW n \in Nat, NEW k \in 1 .. n
  PROVE  1 .. k \in SUBSET (1 .. n) /\ 1 .. k # {} /\ (1 .. k) \ {k} = 1 .. k - 1 /\ Max(1 .. k) = k
<1>1. 1 .. k \in SUBSET (1 .. n) /\ k \in 1 .. k
  OBVIOUS
<1>2. (1 .. k) \ {k} = 1 .. k - 1
  OBVIOUS
<1>3. Max(1 .. k) \in 1 .. k /\ \A y \in 1 .. k : y <= Max(1 .. k)
  BY <1>1, LastExists
<1> QED BY <1>1, <1>2, <1>3

\* g folds a step F from the base over the elements of a text.
FoldsText(g, n, V, base, text, F) ==
  /\ g \in [SUBSET (1 .. n) -> V] /\ g[{}] = base
  /\ \A s \in SUBSET (1 .. n) : s # {} =>
       /\ Max(s) \in s /\ g[s \ {Max(s)}] \in V
       /\ g[s] = F[<<g[s \ {Max(s)}], text[Max(s)]>>]

LEMMA TypedFold ==
  ASSUME NEW n \in Nat, NEW V, NEW base \in V, NEW X, NEW text \in [1 .. n -> X], NEW F \in [V \X X -> V]
  PROVE  \E g : FoldsText(g, n, V, base, text, F)
<1> DEFINE S == 1 .. n
           G == [p \in V \X S |-> F[<<p[1], text[p[2]]>>]]
           c == [s \in SUBSET S |-> Max(s)]
<1>1. \A s \in SUBSET S : s # {} => c[s] = Max(s) /\ c[s] \in s
  <2>1. ASSUME NEW s \in SUBSET S, s # {} PROVE Max(s) \in s
    BY <2>1, LastExists
  <2> QED BY <2>1
<1>2. IsFiniteSet(S)
  BY FS_Interval
<1>3. G \in [V \X S -> V] /\ \A v \in V, i \in S : G[<<v, i>>] = F[<<v, text[i]>>]
  OBVIOUS
<1> HIDE DEF S, G, c
<1>4. PICK g : IsFold(g, S, V, base, G, c)
  <2>1. Folding(S, V, base, G, c)
    BY <1>1, <1>2, <1>3 DEF Folding
  <2> QED BY <2>1, FoldExists
<1>5. g \in [SUBSET S -> V] /\ g[{}] = base
  BY <1>4 DEF IsFold
<1>6. ASSUME NEW s \in SUBSET S, s # {}
      PROVE  Max(s) \in s /\ g[s \ {Max(s)}] \in V /\ g[s] = F[<<g[s \ {Max(s)}], text[Max(s)]>>]
  <2>1. Max(s) \in s /\ Max(s) \in S /\ c[s] = Max(s)
    BY <1>1, <1>6
  <2>2. g[s \ {Max(s)}] \in V
    BY <1>5
  <2>3. g[s] = G[<<g[s \ {Max(s)}], Max(s)>>]
    BY <1>4, <1>6, <2>1 DEF IsFold
  <2> QED BY <1>3, <2>1, <2>2, <2>3
<1> QED BY <1>5, <1>6 DEF S, FoldsText

-----------------------------------------------------------------------------
(* Line ranges                                                             *)

\* The numbers of a set in order: each of them at a place, and no other.
LEMMA InOrderMeets ==
  ASSUME NEW S \in SUBSET Nat, IsFiniteSet(S)
  PROVE  /\ Cardinality(S) \in Nat
         /\ InOrder(S, <) \in [1 .. Cardinality(S) -> S]
         /\ \A x \in S : \E i \in 1 .. Cardinality(S) : InOrder(S, <)[i] = x
<1> DEFINE R == {p \in S \X S : p[1] < p[2]}
           n == Cardinality(S)
           q == InOrder(S, <)
           rank == Rank(S, R)
<1>1. Orders(R, S)
  BY DEF Orders
<1>2. \A x \in S : {y \in S : <<y, x>> \in R} = {y \in S : y < x}
  OBVIOUS
<1>3. \A x \in S : rank[x] = Cardinality({y \in S : y < x})
  BY <1>2 DEF Rank
<1>4. Ranked(S, R)
  <2> HIDE DEF R
  <2> QED BY <1>1, RankOrders
<1>5. q = [i \in 1 .. n |-> CHOOSE x \in S : Cardinality({y \in S : y < x}) = i - 1]
  BY DEF InOrder
<1>9. /\ n \in Nat
      /\ \A x, y \in S : rank[x] = rank[y] => x = y
      /\ \A x \in S : \E i \in 1 .. n : rank[x] = i - 1
      /\ \A i \in 1 .. n : \E x \in S : rank[x] = i - 1
  BY <1>4 DEF Ranked
<1> HIDE DEF rank, n, q
<1>6. ASSUME NEW i \in 1 .. n PROVE q[i] \in S /\ rank[q[i]] = i - 1
  <2>1. PICK x \in S : rank[x] = i - 1
    BY <1>9
  <2>2. Cardinality({y \in S : y < x}) = i - 1
    BY <1>3, <2>1
  <2>3. q[i] \in S /\ Cardinality({y \in S : y < q[i]}) = i - 1
    BY <1>5, <2>2
  <2> QED BY <1>3, <2>3
<1>7. ASSUME NEW x \in S PROVE \E i \in 1 .. n : q[i] = x
  <2>1. PICK i \in 1 .. n : rank[x] = i - 1
    BY <1>9
  <2> QED BY <1>9, <1>6, <2>1
<1>8. q \in [1 .. n -> S]
  BY <1>5, <1>6
<1> QED BY <1>9, <1>7, <1>8 DEF n, q

RangeList == {list \in Seq(Nat \X Nat) : \A i \in 1 .. Len(list) : list[i][1] <= list[i][2]}

\* One more line in the loop of toLineRanges.
AddLine(ranges, n) ==
  IF ranges # <<>> /\ n = Last(ranges)[2] + 1
  THEN [ranges EXCEPT ![Len(ranges)][2] = n] ELSE Append(ranges, <<n, n>>)

LEMMA LineAdds ==
  ASSUME NEW list \in RangeList, NEW n \in Nat
  PROVE  AddLine(list, n) \in RangeList /\ Spanned(AddLine(list, n)) = Spanned(list) \cup {n}
<1> DEFINE after == AddLine(list, n)
           m == Len(list)
           At(i) == list[i][1] .. list[i][2]
<1>1. list \in Seq(Nat \X Nat) /\ m \in Nat /\ DOMAIN list = 1 .. m
  BY DEF RangeList
<1>2. \A i \in 1 .. m : list[i] \in Nat \X Nat /\ list[i][1] \in Nat /\ list[i][2] \in Nat /\ list[i][1] <= list[i][2]
  <2> TAKE i \in 1 .. m
  <2>1. list[i] \in Nat \X Nat
    BY <1>1
  <2> QED BY <2>1 DEF RangeList
<1>3. CASE list # <<>> /\ n = Last(list)[2] + 1
  <2>1. m > 0 /\ m \in 1 .. m /\ n = list[m][2] + 1
    BY <1>1, <1>3 DEF Last
  <2>2. after = [list EXCEPT ![m] = [list[m] EXCEPT ![2] = n]]
    BY <1>3 DEF AddLine
  <2>3. [list[m] EXCEPT ![2] = n] = <<list[m][1], n>>
    BY <1>2, <2>1
  <2>4. after \in Seq(Nat \X Nat) /\ Len(after) = m /\ after[m] = <<list[m][1], n>> /\ \A i \in 1 .. m : i # m => after[i] = list[i]
    <3>1. <<list[m][1], n>> \in Nat \X Nat
      BY <1>2, <2>1
    <3> HIDE DEF after
    <3> QED BY <1>1, <2>1, <2>2, <2>3, <3>1
  <2>5. after \in RangeList
    <3> HIDE DEF after
    <3>1. after[m][1] <= after[m][2]
      BY <1>2, <2>1, <2>4
    <3>2. \A i \in 1 .. Len(after) : after[i][1] <= after[i][2]
      BY <1>2, <2>4, <3>1
    <3> QED BY <2>4, <3>2 DEF RangeList
  <2>6. after[m][1] .. after[m][2] = At(m) \cup {n}
    <3>1. list[m][1] .. n = At(m) \cup {n}
      BY <1>2, <2>1
    <3> HIDE DEF after
    <3> QED BY <2>4, <3>1
  <2>7. DOMAIN after = 1 .. m
    <3> HIDE DEF after
    <3> QED BY <2>4
  <2>8. Spanned(after) = Spanned(list) \cup {n}
    <3>1. ASSUME NEW x \in Spanned(after) PROVE x \in Spanned(list) \cup {n}
      <4>1. PICK i \in 1 .. m : x \in after[i][1] .. after[i][2]
        <5> HIDE DEF after
        <5> QED BY <2>7, <3>1 DEF Spanned
      <4>2. x \in At(i) \cup {n}
        <5> HIDE DEF after
        <5> QED BY <2>4, <2>6, <4>1
      <4> QED BY <1>1, <4>2 DEF Spanned
    <3>2. ASSUME NEW x \in Spanned(list) \cup {n} PROVE x \in Spanned(after)
      <4>1. PICK i \in 1 .. m : x \in after[i][1] .. after[i][2]
        <5>1. CASE x = n
          <6>1. x \in after[m][1] .. after[m][2]
            BY <2>6, <5>1
          <6> QED BY <2>1, <6>1
        <5>2. CASE x # n
          <6>1. PICK i \in 1 .. m : x \in At(i)
            BY <1>1, <3>2, <5>2 DEF Spanned
          <6>2. x \in after[i][1] .. after[i][2]
            <7> HIDE DEF after
            <7> QED BY <2>4, <2>6, <6>1
          <6> QED BY <6>2
        <5> QED BY <5>1, <5>2
      <4> HIDE DEF after
      <4> QED BY <2>7, <4>1 DEF Spanned
    <3> HIDE DEF after
    <3> QED BY <3>1, <3>2
  <2> QED BY <2>5, <2>8
<1>4. CASE ~(list # <<>> /\ n = Last(list)[2] + 1)
  <2>1. after = Append(list, <<n, n>>)
    BY <1>4 DEF AddLine
  <2> HIDE DEF after
  <2>2. /\ after \in Seq(Nat \X Nat) /\ Len(after) = m + 1 /\ after[m + 1] = <<n, n>>
        /\ \A i \in 1 .. m : after[i] = list[i]
    BY <1>1, <2>1
  <2>3. DOMAIN after = 1 .. m + 1
    BY <2>2
  <2>4. after[m + 1][1] .. after[m + 1][2] = {n}
    BY <2>2
  <2>5. after \in RangeList
    <3>1. ASSUME NEW i \in 1 .. m + 1 PROVE after[i][1] <= after[i][2]
      <4>1. CASE i = m + 1
        BY <2>2, <4>1
      <4>2. CASE i # m + 1
        <5>1. i \in 1 .. m
          BY <1>1, <4>2
        <5> QED BY <1>2, <2>2, <5>1
      <4> QED BY <4>1, <4>2
    <3> QED BY <2>2, <3>1 DEF RangeList
  <2>6. ASSUME NEW x \in Spanned(after) PROVE x \in Spanned(list) \cup {n}
    <3>1. PICK i \in 1 .. m + 1 : x \in after[i][1] .. after[i][2]
      BY <2>3, <2>6 DEF Spanned
    <3>2. CASE i = m + 1
      BY <2>4, <3>1, <3>2
    <3>3. CASE i # m + 1
      <4>1. i \in 1 .. m
        BY <1>1, <3>3
      <4>2. x \in At(i)
        BY <2>2, <3>1, <4>1
      <4> QED BY <1>1, <4>1, <4>2 DEF Spanned
    <3> QED BY <3>2, <3>3
  <2>7. ASSUME NEW x \in Spanned(list) \cup {n} PROVE x \in Spanned(after)
    <3>1. PICK i \in 1 .. m + 1 : x \in after[i][1] .. after[i][2]
      <4>1. CASE x = n
        BY <1>1, <2>4, <4>1
      <4>2. CASE x # n
        <5>1. PICK i \in 1 .. m : x \in At(i)
          BY <1>1, <2>7, <4>2 DEF Spanned
        <5>2. i \in 1 .. m + 1 /\ x \in after[i][1] .. after[i][2]
          <6>1. after[i] = list[i] /\ i \in 1 .. m + 1
            BY <1>1, <2>2
          <6> QED BY <5>1, <6>1
        <5> QED BY <5>2
      <4> QED BY <4>1, <4>2
    <3> QED BY <2>3, <3>1 DEF Spanned
  <2>8. Spanned(after) = Spanned(list) \cup {n}
    BY <2>6, <2>7
  <2> QED BY <2>5, <2>8 DEF after
<1> QED BY <1>3, <1>4

\* The loop of toLineRanges goes from one line to the next.
LEMMA RangesUnfold ==
  ASSUME NEW n \in Nat, NEW q \in [1 .. n -> Nat]
  PROVE  \E it :
           /\ FoldLeft(AddLine, <<>>, q) = it[1 .. n]
           /\ it[1 .. 0] = <<>>
           /\ \A k \in 1 .. n : it[1 .. k] = AddLine(it[1 .. k - 1], q[k])
<1> DEFINE S == 1 .. n
           F == [p \in RangeList \X Nat |-> AddLine(p[1], p[2])]
           Unfold(g, s) == IF s = {} THEN <<>> ELSE AddLine(g[s \ {Max(s)}], q[Max(s)])
           it == CHOOSE g : g = [s \in SUBSET S |-> Unfold(g, s)]
<1>1. FoldLeft(AddLine, <<>>, q) = it[S]
  <2>1. DOMAIN q = S
    OBVIOUS
  <2> QED BY <2>1 DEF FoldLeft, MapThenFoldSet
<1>2. <<>> \in RangeList
  BY DEF RangeList
<1>3. F \in [RangeList \X Nat -> RangeList] /\ \A v \in RangeList, x \in Nat : F[<<v, x>>] = AddLine(v, x)
  BY LineAdds
<1> HIDE DEF F
<1>10. PICK g : FoldsText(g, n, RangeList, <<>>, q, F)
  BY <1>2, <1>3, TypedFold
<1>4. /\ g \in [SUBSET S -> RangeList] /\ g[{}] = <<>>
      /\ \A s \in SUBSET S : s # {} =>
           /\ Max(s) \in s /\ g[s \ {Max(s)}] \in RangeList
           /\ g[s] = F[<<g[s \ {Max(s)}], q[Max(s)]>>]
  BY <1>10 DEF FoldsText
<1>5. g = [s \in SUBSET S |-> Unfold(g, s)]
  <2>1. ASSUME NEW s \in SUBSET S PROVE g[s] = Unfold(g, s)
    <3>1. CASE s = {}
      BY <1>4, <3>1
    <3>2. CASE s # {}
      <4>1. Max(s) \in s /\ q[Max(s)] \in Nat
        BY <1>4, <3>2
      <4> HIDE DEF S
      <4> QED BY <1>3, <1>4, <3>2, <4>1
    <3> QED BY <3>1, <3>2
  <2> HIDE DEF S, Unfold
  <2> QED BY <1>4, <2>1
<1>6. it = [s \in SUBSET S |-> Unfold(it, s)]
  <2> HIDE DEF S, Unfold
  <2> QED BY <1>5
<1> HIDE DEF it
<1>7. it[1 .. 0] = <<>>
  <2>1. 1 .. 0 = {} /\ {} \in SUBSET S
    OBVIOUS
  <2>2. it[{}] = Unfold(it, {})
    BY <1>6, <2>1
  <2> QED BY <2>1, <2>2
<1>8. ASSUME NEW k \in 1 .. n PROVE it[1 .. k] = AddLine(it[1 .. k - 1], q[k])
  <2>1. 1 .. k \in SUBSET S /\ 1 .. k # {} /\ (1 .. k) \ {k} = 1 .. k - 1 /\ Max(1 .. k) = k
    BY UpTo
  <2>2. it[1 .. k] = Unfold(it, 1 .. k)
    BY <1>6, <2>1
  <2> QED BY <2>1, <2>2
<1> QED BY <1>1, <1>7, <1>8

\* The ranges of a set of lines span these lines.
LEMMA RangesSpan ==
  ASSUME NEW lines \in SUBSET Nat, IsFiniteSet(lines)
  PROVE  ToLineRanges(lines) \in RangeList /\ Spanned(ToLineRanges(lines)) = {n \in lines : n > 0}
<1> DEFINE S == {n \in lines : n > 0}
           q == InOrder(S, <)
           m == Cardinality(S)
           T == {k \in Nat : TRUE}
<1>1. S \in SUBSET Nat /\ IsFiniteSet(S)
  BY FS_Subset
<1>2. ToLineRanges(lines) = FoldLeft(AddLine, <<>>, q)
  BY DEF ToLineRanges, AddLine
<1> HIDE DEF S
<1>3. m \in Nat /\ q \in [1 .. m -> S] /\ \A x \in S : \E i \in 1 .. m : q[i] = x
  BY <1>1, InOrderMeets
<1> HIDE DEF q, m
<1>4. q \in [1 .. m -> Nat]
  BY <1>1, <1>3
<1>5. PICK it : /\ FoldLeft(AddLine, <<>>, q) = it[1 .. m]
                /\ it[1 .. 0] = <<>>
                /\ \A k \in 1 .. m : it[1 .. k] = AddLine(it[1 .. k - 1], q[k])
  BY <1>3, <1>4, RangesUnfold
<1> DEFINE Good(k) == k <= m => it[1 .. k] \in RangeList /\ Spanned(it[1 .. k]) = {q[i] : i \in 1 .. k}
           U == {k \in Nat : Good(k)}
<1>6. 0 \in U
  <2>1. <<>> \in RangeList /\ Spanned(<<>>) = {}
    BY DEF RangeList, Spanned
  <2>2. {q[i] : i \in 1 .. 0} = {}
    OBVIOUS
  <2> QED BY <1>5, <2>1, <2>2
<1>7. ASSUME NEW k \in Nat, k \in U PROVE k + 1 \in U
  <2>1. SUFFICES ASSUME k + 1 <= m PROVE it[1 .. k + 1] \in RangeList /\ Spanned(it[1 .. k + 1]) = {q[i] : i \in 1 .. k + 1}
    OBVIOUS
  <2>2. k + 1 \in 1 .. m /\ (k + 1) - 1 = k /\ k <= m
    BY <1>3, <2>1
  <2>3. it[1 .. k + 1] = AddLine(it[1 .. k], q[k + 1]) /\ q[k + 1] \in Nat
    BY <1>4, <1>5, <2>2
  <2>4. it[1 .. k] \in RangeList /\ Spanned(it[1 .. k]) = {q[i] : i \in 1 .. k}
    BY <1>7, <2>2
  <2>5. it[1 .. k + 1] \in RangeList /\ Spanned(it[1 .. k + 1]) = Spanned(it[1 .. k]) \cup {q[k + 1]}
    BY <2>3, <2>4, LineAdds
  <2>6. {q[i] : i \in 1 .. k + 1} = {q[i] : i \in 1 .. k} \cup {q[k + 1]}
    OBVIOUS
  <2> QED BY <2>4, <2>5, <2>6
<1>8. m \in U
  <2> HIDE DEF U
  <2> QED BY <1>3, <1>6, <1>7, NatInduct
<1>9. {q[i] : i \in 1 .. m} = S
  BY <1>3
<1>10. it[1 .. m] \in RangeList /\ Spanned(it[1 .. m]) = S
  <2>1. Good(m)
    BY <1>8
  <2>2. m <= m
    BY <1>3
  <2> QED BY <1>9, <2>1, <2>2
<1> QED BY <1>2, <1>5, <1>10 DEF S

-----------------------------------------------------------------------------
(* Capped lists                                                            *)

\* A capped list is the start of the list, and below the limit all of it.
LEMMA CapKeeps ==
  ASSUME NEW T, NEW list \in Seq(T), DetailLimit \in Nat
  PROVE  /\ Cap(list) \in Seq(T) /\ Len(Cap(list)) <= Len(list)
         /\ \A i \in 1 .. Len(Cap(list)) : Cap(list)[i] = list[i]
         /\ Len(Cap(list)) < DetailLimit => Cap(list) = list
<1> DEFINE m == IF Len(list) <= DetailLimit THEN Len(list) ELSE DetailLimit
<1>1. m \in Nat /\ m <= Len(list) /\ Len(list) \in Nat /\ (m < DetailLimit => m = Len(list))
  OBVIOUS
<1>2. Cap(list) = SubSeq(list, 1, m)
  BY DEF Cap
<1> HIDE DEF m
<1>3. /\ SubSeq(list, 1, m) \in Seq(T) /\ Len(SubSeq(list, 1, m)) = m
      /\ \A i \in 1 .. m : SubSeq(list, 1, m)[i] = list[i]
  BY <1>1
<1>4. m = Len(list) => SubSeq(list, 1, m) = list
  OBVIOUS
<1> QED BY <1>1, <1>2, <1>3, <1>4

\* The gaps of a set of lines are some of them, and below the limit all.
LEMMA LineGaps ==
  ASSUME NEW lines \in SUBSET (Nat \ {0}), IsFiniteSet(lines), DetailLimit \in Nat, NEW list, list = Cap(ToLineRanges(lines))
  PROVE  /\ IsFiniteSet(Spanned(list)) /\ Cardinality(Spanned(list)) \in Nat /\ Cardinality(lines) \in Nat
         /\ Cardinality(Spanned(list)) <= Cardinality(lines)
         /\ Len(list) < DetailLimit => Spanned(list) = lines
<1> DEFINE all == ToLineRanges(lines)
<1>1. all \in RangeList /\ Spanned(all) = lines
  <2>1. \A n \in lines : n \in Nat /\ n > 0
    OBVIOUS
  <2>2. lines \in SUBSET Nat /\ {n \in lines : n > 0} = lines
    BY <2>1
  <2> QED BY <2>2, RangesSpan
<1>2. all \in Seq(Nat \X Nat)
  BY <1>1 DEF RangeList
<1> HIDE DEF all
<1>3. /\ list \in Seq(Nat \X Nat) /\ Len(list) <= Len(all)
      /\ \A i \in 1 .. Len(list) : list[i] = all[i]
      /\ Len(list) < DetailLimit => list = all
  <2>1. list = Cap(all)
    BY DEF all
  <2>2. DetailLimit \in Nat
    OBVIOUS
  <2>3. /\ Cap(all) \in Seq(Nat \X Nat) /\ Len(Cap(all)) <= Len(all)
        /\ \A i \in 1 .. Len(Cap(all)) : Cap(all)[i] = all[i]
        /\ Len(Cap(all)) < DetailLimit => Cap(all) = all
    BY ONLY <1>2, <2>2, CapKeeps
  <2> QED BY ONLY <2>1, <2>3
<1>4. DOMAIN list = 1 .. Len(list) /\ DOMAIN all = 1 .. Len(all) /\ Len(list) \in Nat /\ Len(all) \in Nat
  BY <1>2, <1>3
<1>5. Spanned(list) \in SUBSET lines
  <2>1. ASSUME NEW i \in DOMAIN list PROVE i \in DOMAIN all /\ list[i] = all[i]
    BY <1>3, <1>4
  <2>2. Spanned(list) \subseteq Spanned(all)
    BY <2>1 DEF Spanned
  <2> QED BY <1>1, <2>2
<1>6. /\ IsFiniteSet(Spanned(list)) /\ Cardinality(Spanned(list)) <= Cardinality(lines)
      /\ Cardinality(Spanned(list)) \in Nat /\ Cardinality(lines) \in Nat
  BY <1>5, FS_Subset, FS_CardinalityType
<1> QED BY <1>1, <1>3, <1>6

\* A finite set can be listed by line.
LEMMA ListByLine ==
  ASSUME NEW S, IsFiniteSet(S), \A x \in S : x.line \in Nat
  PROVE  ByLine(S) \in Seq(S) /\ Len(ByLine(S)) = Cardinality(S)
<1> DEFINE n == Cardinality(S)
           Sorts(list) == list \in SetToSeqs(S) /\ \A i, j \in DOMAIN list : i < j => list[i].line <= list[j].line
<1>1. n \in Nat /\ ExistsBijection(1 .. n, S)
  BY FS_CardinalityType
<1>2. PICK b : b \in [1 .. n -> S] /\ (\A x \in S : \E i \in 1 .. n : b[i] = x)
  BY <1>1 DEF ExistsBijection, Bijection, Injection, Surjection
<1> DEFINE at == [x \in S |-> CHOOSE i \in 1 .. n : b[i] = x]
           R == {p \in S \X S : p[1].line < p[2].line \/ (p[1].line = p[2].line /\ at[p[1]] < at[p[2]])}
<1>3. ASSUME NEW x \in S PROVE at[x] \in 1 .. n /\ at[x] \in Nat /\ b[at[x]] = x
  BY <1>2
<1> HIDE DEF at
<1>4. Orders(R, S)
  <2>1. \A x \in S : <<x, x>> \notin R
    BY <1>3
  <2>2. ASSUME NEW x \in S, NEW y \in S, x # y PROVE <<x, y>> \in R \/ <<y, x>> \in R
    <3>1. at[x] # at[y]
      BY <1>3, <2>2
    <3>2. at[x] \in Nat /\ at[y] \in Nat /\ x.line \in Nat /\ y.line \in Nat
      BY <1>3
    <3>3. \A i, j, k, l \in Nat : k # l => i < j \/ (i = j /\ k < l) \/ j < i \/ (j = i /\ l < k)
      OBVIOUS
    <3> QED BY <3>1, <3>2, <3>3
  <2>3. ASSUME NEW x \in S, NEW y \in S, NEW z \in S, <<x, y>> \in R, <<y, z>> \in R PROVE <<x, z>> \in R
    <3>1. at[x] \in Nat /\ at[y] \in Nat /\ at[z] \in Nat /\ x.line \in Nat /\ y.line \in Nat /\ z.line \in Nat
      BY <1>3
    <3> QED BY <2>3, <3>1
  <2> HIDE DEF R
  <2> QED BY <2>1, <2>2, <2>3 DEF Orders
<1>5. Ranked(S, R)
  <2> HIDE DEF R
  <2> QED BY <1>4, RankOrders
<1> DEFINE rank == Rank(S, R)
           q == [i \in 1 .. n |-> CHOOSE x \in S : rank[x] = i - 1]
<1>6. /\ \A x, y \in S : rank[x] < rank[y] <=> <<x, y>> \in R
      /\ \A i \in 1 .. n : \E x \in S : rank[x] = i - 1
  BY <1>5 DEF Ranked
<1>7. \A x, y \in S : <<x, y>> \in R => x.line <= y.line
  OBVIOUS
<1> HIDE DEF rank, R, n
<1>8. ASSUME NEW i \in 1 .. n PROVE q[i] \in S /\ rank[q[i]] = i - 1
  BY <1>6
<1>9. q \in [1 .. n -> S]
  BY <1>8
<1> HIDE DEF q
<1>10. ASSUME NEW i \in 1 .. n, NEW j \in 1 .. n, i < j PROVE q[i] # q[j] /\ q[i].line <= q[j].line
  <2>1. rank[q[i]] < rank[q[j]] /\ rank[q[i]] # rank[q[j]]
    BY <1>1, <1>8, <1>10
  <2> QED BY <1>6, <1>7, <1>8, <2>1
<1>11. Sorts(q)
  <2>1. \A i, j \in 1 .. n : i # j => q[i] # q[j]
    <3>1. \A i, j \in 1 .. n : i # j => i < j \/ j < i
      BY <1>1
    <3> QED BY <1>10, <3>1
  <2>2. q \in SetToSeqs(S)
    BY <1>9, <2>1 DEF SetToSeqs, n
  <2> QED BY <1>9, <1>10, <2>2
<1>12. Sorts(ByLine(S))
  BY <1>11 DEF ByLine
<1>13. ByLine(S) \in [1 .. n -> S]
  BY <1>12 DEF SetToSeqs, n
<1> QED BY <1>1, <1>13 DEF n

-----------------------------------------------------------------------------
(* Totals                                                                  *)

\* The counts of a file are those of an element of R.
Counting(F, m, R, e, c, t) ==
  \A f \in F : f.metrics[m] # Null =>
    \E y \in R : e[y] = f /\ c[y] = f.metrics[m].covered /\ t[y] = f.metrics[m].total

\* Files whose counts are those of some elements of R sum up to no more than
\* the sum over R.
LEMMA SumBound ==
  ASSUME NEW F, NEW m \in Metrics, SumCoverage(F)[m] # Null, NEW R, IsFiniteSet(R), NEW e,
         NEW c \in [R -> Nat], NEW t \in [R -> Nat], Counting(F, m, R, e, c, t)
  PROVE  /\ SumFunction(c) \in Nat /\ SumCoverage(F)[m].covered \in Nat /\ SumCoverage(F)[m].covered <= SumFunction(c)
         /\ SumFunction(t) \in Nat /\ SumCoverage(F)[m].total \in Nat /\ SumCoverage(F)[m].total <= SumFunction(t)
<1> USE DEF Counting
<1> DEFINE S == {f \in F : f.metrics[m] # Null}
           Sum(part) == SumFunction([f \in S |-> f.metrics[m][part]])
           covered == [f \in S |-> f.metrics[m].covered]
           total == [f \in S |-> f.metrics[m].total]
<1>1. SumCoverage(F)[m] = IF S = {} THEN Null ELSE Metric(Sum("covered"), Sum("total"))
  BY DEF SumCoverage
<1>2. SumCoverage(F)[m].covered = SumFunction(covered) /\ SumCoverage(F)[m].total = SumFunction(total)
  <2>1. SumCoverage(F)[m] = Metric(Sum("covered"), Sum("total"))
    BY <1>1
  <2>2. \A x, y : Metric(x, y).covered = x /\ Metric(x, y).total = y
    BY DEF Metric
  <2>3. Sum("covered") = SumFunction(covered) /\ Sum("total") = SumFunction(total)
    OBVIOUS
  <2> HIDE DEF Sum, covered, total
  <2> QED BY ONLY <2>1, <2>2, <2>3
<1>3. \A f \in S : \E y \in R : e[y] = f /\ c[y] = covered[f] /\ t[y] = total[f]
  OBVIOUS
<1>4. IsFiniteSet(S)
  <2> DEFINE I == {e[y] : y \in R}
  <2>1. IsFiniteSet(I)
    BY FiniteImage
  <2>2. S \in SUBSET I
    BY <1>3
  <2> HIDE DEF S, I
  <2> QED BY <2>1, <2>2, FS_Subset
<1>5. covered \in [S -> Nat] /\ total \in [S -> Nat]
  <2>1. ASSUME NEW f \in S PROVE f.metrics[m].covered \in Nat /\ f.metrics[m].total \in Nat
    <3>1. PICK y \in R : c[y] = f.metrics[m].covered /\ t[y] = f.metrics[m].total
      OBVIOUS
    <3> QED BY <3>1
  <2> QED BY <2>1
<1> HIDE DEF S, covered, total
<1>6. \A f \in S : \E y \in R : e[y] = f /\ c[y] = covered[f]
  BY <1>3
<1>7. \A f \in S : \E y \in R : e[y] = f /\ t[y] = total[f]
  BY <1>3
<1>8. SumFunction(c) \in Nat /\ SumFunction(covered) \in Nat /\ SumFunction(covered) <= SumFunction(c)
  BY <1>4, <1>5, <1>6, SumInto
<1>9. SumFunction(t) \in Nat /\ SumFunction(total) \in Nat /\ SumFunction(total) <= SumFunction(t)
  BY <1>4, <1>5, <1>7, SumInto
<1> QED BY <1>2, <1>8, <1>9

MetricType == [covered : Nat, total : Nat, percent : {Null} \cup Int]

LEMMA MetricTyped ==
  ASSUME NEW covered \in Nat, NEW total \in Nat
  PROVE  Metric(covered, total) \in MetricType /\ Metric(covered, total) # Null
<1>1. total # 0 => (2000 * covered + total) \div (2 * total) \in Int
  OBVIOUS
<1> DEFINE p == IF total = 0 THEN Null ELSE (2000 * covered + total) \div (2 * total)
<1>2. p \in {Null} \cup Int
  BY <1>1
<1>3. Metric(covered, total) = [covered |-> covered, total |-> total, percent |-> p]
  BY DEF Metric
<1> HIDE DEF p
<1>4. Metric(covered, total) \in MetricType
  BY <1>2, <1>3 DEF MetricType
<1> QED BY <1>4, NullIsApart DEF MetricType

-----------------------------------------------------------------------------
(* Istanbul reports                                                        *)

\* A record is of a file with lines, functions and branches.
IsRecord(r) ==
  /\ r.path \in FilePath /\ (r.path.abs \/ r.path.segs # Directory)
  /\ IsFiniteSet(r.statements) /\ \A s \in r.statements : s.line \in Nat \ {0} /\ s.hit \in BOOLEAN
  /\ IsFiniteSet(r.functions) /\ \A f \in r.functions : f.line \in Nat /\ f.hit \in BOOLEAN
  /\ IsFiniteSet(r.arms) /\ \A a \in r.arms : a.line \in Nat /\ a.hit \in BOOLEAN

\* The path a file is known by, whichever way a report names it.
Own(r) == NormalizeCoverageFilePath(r.path, Root, Directory)

LEMMA OwnPath ==
  ASSUME NEW r, IsRecord(r)
  PROVE  NormalizeCoverageFilePath(Absolute(r), Root, Directory) = Own(r)
<1> DEFINE s == r.path.segs
           x == IF IsPrefix(Directory, s) THEN s ELSE Directory \o s
<1>1. CASE r.path.abs
  BY <1>1 DEF Absolute, Own
<1>2. CASE ~r.path.abs
  <2>1. s \in Seq(STRING) /\ s # Directory
    BY <1>2 DEF IsRecord, FilePath
  <2>2. Root \in Seq(STRING) /\ Directory \in Seq(STRING)
    BY ReportersAssumption, AppReportsAssumption
  <2>3. Absolute(r) = [segs |-> Root \o x, abs |-> TRUE]
    BY <1>2 DEF Absolute
  <2>4. x \in Seq(STRING)
    <3>1. Directory \o s \in Seq(STRING)
      BY <2>1, <2>2
    <3> HIDE DEF s
    <3> QED BY <2>1, <3>1
  <2>5. Own(r) = x
    <3>1. Own(r) = IF Directory # <<>> /\ ~IsStrictPrefix(Directory, s) THEN Directory \o s ELSE s
      BY <1>2 DEF Own, NormalizeCoverageFilePath
    <3>2. IsStrictPrefix(Directory, s) <=> IsPrefix(Directory, s)
      BY <2>1 DEF IsStrictPrefix
    <3>3. Directory = <<>> => Directory \o s = s
      BY <2>1
    <3> QED BY <3>1, <3>2, <3>3
  <2> HIDE DEF x
  <2>6. IsPrefix(Root, Root \o x) /\ SubSeq(Root \o x, Len(Root) + 1, Len(Root \o x)) = x
    <3>1. Len(Root) <= Len(Root \o x) /\ SubSeq(Root, 1, Len(Root)) = SubSeq(Root \o x, 1, Len(Root))
      BY <2>2, <2>4
    <3>2. SubSeq(Root \o x, Len(Root) + 1, Len(Root \o x)) = x
      BY <2>2, <2>4
    <3> QED BY <3>1, <3>2 DEF IsPrefix
  <2>7. NormalizeCoverageFilePath(Absolute(r), Root, Directory) = x
    BY <2>3, <2>6 DEF NormalizeCoverageFilePath
  <2> QED BY <2>5, <2>7
<1> QED BY <1>1, <1>2

LEMMA LinesFinite ==
  ASSUME NEW r, IsRecord(r), NEW hits
  PROVE  /\ LinesOf(r, hits) \in SUBSET (Nat \ {0}) /\ IsFiniteSet(LinesOf(r, hits))
         /\ Cardinality(LinesOf(r, hits)) \in Nat
<1> DEFINE T == {t \in r.statements : t.hit \in hits}
           line == [s \in T |-> s.line]
<1>1. LinesOf(r, hits) = {line[s] : s \in T}
  BY DEF LinesOf
<1>2. IsFiniteSet(T) /\ \A s \in T : line[s] \in Nat \ {0}
  BY FS_Subset DEF IsRecord
<1> HIDE DEF T, line
<1>3. IsFiniteSet({line[s] : s \in T})
  BY <1>2, FiniteImage
<1> QED BY <1>1, <1>2, <1>3, FS_CardinalityType

\* What was hit of a set, and what was not, make up the set.
LEMMA HitOrMissed ==
  ASSUME NEW S, IsFiniteSet(S)
  PROVE  LET hit == {x \in S : x.hit}
             missed == {x \in S : ~x.hit}
         IN /\ IsFiniteSet(missed) /\ Cardinality(missed) = Cardinality(S) - Cardinality(hit)
            /\ Cardinality(hit) <= Cardinality(S) /\ Cardinality(hit) \in Nat /\ Cardinality(S) \in Nat
<1> DEFINE hit == {x \in S : x.hit}
           missed == {x \in S : ~x.hit}
<1>1. S \cap hit = hit /\ hit \in SUBSET S /\ missed = S \ hit
  OBVIOUS
<1> HIDE DEF hit, missed
<1>2. /\ IsFiniteSet(hit) /\ Cardinality(hit) <= Cardinality(S)
      /\ Cardinality(hit) \in Nat /\ Cardinality(S) \in Nat
  BY <1>1, FS_Subset, FS_CardinalityType
<1>3. IsFiniteSet(S \ hit) /\ Cardinality(S \ hit) = Cardinality(S) - Cardinality(S \cap hit)
  BY ONLY FS_Difference, IsFiniteSet(S)
<1> QED BY <1>1, <1>2, <1>3 DEF hit, missed

\* What is missed of a file is what is there and not covered.
LEMMA RecordCounts ==
  ASSUME NEW r, IsRecord(r)
  PROVE  /\ CountsOf(r) \in [Metrics -> Counts] /\ \A m \in Metrics : CountsOf(r)[m].covered <= CountsOf(r)[m].total
         /\ LET c == CountsOf(r)["lines"]
                missed == LinesOf(r, {FALSE}) \ LinesOf(r, {TRUE})
            IN IsFiniteSet(missed) /\ missed \in SUBSET (Nat \ {0}) /\ Cardinality(missed) = c.total - c.covered
         /\ LET c == CountsOf(r)["functions"]
                missed == {f \in r.functions : ~f.hit}
            IN IsFiniteSet(missed) /\ Cardinality(missed) = c.total - c.covered
         /\ LET c == CountsOf(r)["branches"]
                missed == {a \in r.arms : ~a.hit}
            IN IsFiniteSet(missed) /\ Cardinality(missed) = c.total - c.covered
<1> DEFINE all == LinesOf(r, BOOLEAN)
           ran == LinesOf(r, {TRUE})
           not == LinesOf(r, {FALSE})
           fs == r.functions
           hit == {f \in fs : f.hit}
           idle == {f \in fs : ~f.hit}
           arms == r.arms
           taken == {a \in arms : a.hit}
           left == {a \in arms : ~a.hit}
<1>1. /\ IsFiniteSet(all) /\ IsFiniteSet(ran) /\ IsFiniteSet(not) /\ not \in SUBSET (Nat \ {0})
      /\ Cardinality(all) \in Nat /\ Cardinality(ran) \in Nat
  BY LinesFinite
<1>2. ran \in SUBSET all /\ not \ ran = all \ ran
  BY DEF LinesOf, IsRecord
<1>3. /\ IsFiniteSet(idle) /\ Cardinality(idle) = Cardinality(fs) - Cardinality(hit)
      /\ Cardinality(hit) <= Cardinality(fs) /\ Cardinality(hit) \in Nat /\ Cardinality(fs) \in Nat
  <2>1. IsFiniteSet(fs)
    BY DEF IsRecord
  <2> HIDE DEF fs
  <2> QED BY <2>1, HitOrMissed
<1>5. /\ IsFiniteSet(left) /\ Cardinality(left) = Cardinality(arms) - Cardinality(taken)
      /\ Cardinality(taken) <= Cardinality(arms) /\ Cardinality(taken) \in Nat /\ Cardinality(arms) \in Nat
  <2>1. IsFiniteSet(arms)
    BY DEF IsRecord
  <2> HIDE DEF arms
  <2> QED BY <2>1, HitOrMissed
<1> HIDE DEF all, ran, not, fs, hit, idle, arms, taken, left
<1>4. /\ IsFiniteSet(all \ ran) /\ Cardinality(all \ ran) = Cardinality(all) - Cardinality(ran)
      /\ Cardinality(ran) <= Cardinality(all)
  <2>1. all \cap ran = ran
    BY <1>2
  <2> QED BY <1>1, <1>2, <2>1, FS_Difference, FS_Subset
<1>6. /\ CountsOf(r) = [m \in Metrics |->
           CASE m = "lines" -> [covered |-> Cardinality(ran), total |-> Cardinality(all)]
             [] m = "functions" -> [covered |-> Cardinality(hit), total |-> Cardinality(fs)]
             [] m = "branches" -> [covered |-> Cardinality(taken), total |-> Cardinality(arms)]
             [] OTHER -> [covered |-> 0, total |-> 0]]
  BY DEF CountsOf, all, ran, fs, hit, arms, taken
<1>7. /\ CountsOf(r)["lines"] = [covered |-> Cardinality(ran), total |-> Cardinality(all)]
      /\ CountsOf(r)["functions"] = [covered |-> Cardinality(hit), total |-> Cardinality(fs)]
      /\ CountsOf(r)["branches"] = [covered |-> Cardinality(taken), total |-> Cardinality(arms)]
  BY <1>6, ReportersAssumption
<1>8. ASSUME NEW m \in Metrics
      PROVE  CountsOf(r)[m] \in Counts /\ CountsOf(r)[m].covered <= CountsOf(r)[m].total
  <2>1. CASE m = "lines"
    BY <1>1, <1>4, <1>7, <2>1 DEF Counts
  <2>2. CASE m = "functions"
    BY <1>3, <1>7, <2>2 DEF Counts
  <2>3. CASE m = "branches"
    BY <1>5, <1>7, <2>3 DEF Counts
  <2>4. CASE m \notin {"lines", "functions", "branches"}
    <3>1. CountsOf(r)[m] = [covered |-> 0, total |-> 0]
      BY <1>6, <2>4
    <3> QED BY <3>1 DEF Counts
  <2> QED BY <2>1, <2>2, <2>3, <2>4
<1>9. CountsOf(r) \in [Metrics -> Counts]
  <2>1. CountsOf(r) = [m \in Metrics |-> CountsOf(r)[m]]
    BY <1>6
  <2> QED BY <1>8, <2>1
<1>10. /\ IsFiniteSet(not \ ran) /\ not \ ran \in SUBSET (Nat \ {0})
       /\ Cardinality(not \ ran) = CountsOf(r)["lines"].total - CountsOf(r)["lines"].covered
  <2>1. not \ ran \in SUBSET (Nat \ {0})
    BY <1>1
  <2>2. IsFiniteSet(not \ ran) /\ Cardinality(not \ ran) = Cardinality(all) - Cardinality(ran)
    BY <1>2, <1>4
  <2>3. CountsOf(r)["lines"].total = Cardinality(all) /\ CountsOf(r)["lines"].covered = Cardinality(ran)
    BY <1>7
  <2> QED BY <2>1, <2>2, <2>3
<1>11. /\ IsFiniteSet(idle) /\ Cardinality(idle) = CountsOf(r)["functions"].total - CountsOf(r)["functions"].covered
       /\ IsFiniteSet(left) /\ Cardinality(left) = CountsOf(r)["branches"].total - CountsOf(r)["branches"].covered
  BY <1>3, <1>5, <1>7
<1>12. /\ not \ ran = LinesOf(r, {FALSE}) \ LinesOf(r, {TRUE}) /\ idle = {f \in r.functions : ~f.hit}
       /\ left = {a \in r.arms : ~a.hit}
  BY DEF not, ran, idle, fs, left, arms
<1> QED BY <1>8, <1>9, <1>10, <1>11, <1>12

\* A record as a file of the summary.
Entry(r) ==
  [path |-> Own(r), metrics |-> [m \in Metrics |-> Metric(CountsOf(r)[m].covered, CountsOf(r)[m].total)]]

\* The gaps of a record add up to its counts.
LEMMA RecordGaps ==
  ASSUME NEW r, IsRecord(r)
  PROVE  LET gaps  == IstanbulGaps(r)
             lines == Spanned(gaps.lines)
             c     == Entry(r).metrics
         IN /\ Cardinality(lines) <= c["lines"].total - c["lines"].covered
            /\ Len(gaps.lines) < DetailLimit => Cardinality(lines) = c["lines"].total - c["lines"].covered
            /\ Len(gaps.functions) < DetailLimit => Len(gaps.functions) = c["functions"].total - c["functions"].covered
            /\ Len(gaps.branches) < DetailLimit =>
                 /\ Len(gaps.branches) <= c["branches"].total - c["branches"].covered
                 /\ gaps.branches = <<>> => c["branches"].total - c["branches"].covered = 0
<1> DEFINE missed == LinesOf(r, {FALSE}) \ LinesOf(r, {TRUE})
           idle == {f \in r.functions : ~f.hit}
           left == {a \in r.arms : ~a.hit}
           Of(arms, id) == Cardinality({a \in arms : a.branch = id})
           gap == [a \in left |-> [branch |-> a.branch, line |-> a.line, uncovered |-> Of(left, a.branch),
                                    total |-> Of(r.arms, a.branch)]]
           branches == {gap[a] : a \in left}
           counts == CountsOf(r)
           gaps == IstanbulGaps(r)
           c == Entry(r).metrics
<1>1. /\ IsFiniteSet(missed) /\ missed \in SUBSET (Nat \ {0})
      /\ Cardinality(missed) = counts["lines"].total - counts["lines"].covered
      /\ IsFiniteSet(idle) /\ Cardinality(idle) = counts["functions"].total - counts["functions"].covered
      /\ IsFiniteSet(left) /\ Cardinality(left) = counts["branches"].total - counts["branches"].covered
  BY RecordCounts
<1>2. gaps = [lines |-> Cap(ToLineRanges(missed)), functions |-> Cap(ByLine(idle)), branches |-> Cap(ByLine(branches))]
  <2> DEFINE at(hit) == {s.line : s \in {t \in r.statements : t.line > 0 /\ t.hit = hit}}
  <2>1. at(TRUE) = LinesOf(r, {TRUE}) /\ at(FALSE) = LinesOf(r, {FALSE})
    <3>1. \A t \in r.statements : t.line > 0
      BY DEF IsRecord
    <3>2. ASSUME NEW h PROVE {t \in r.statements : t.line > 0 /\ t.hit = h} = {t \in r.statements : t.hit \in {h}}
      BY <3>1
    <3>3. \A h : at(h) = LinesOf(r, {h})
      BY <3>2 DEF LinesOf
    <3> HIDE DEF at
    <3> QED BY <3>3
  <2> QED BY <2>1 DEF IstanbulGaps
<1>3. /\ c["lines"].total = counts["lines"].total /\ c["lines"].covered = counts["lines"].covered
      /\ c["functions"].total = counts["functions"].total /\ c["functions"].covered = counts["functions"].covered
      /\ c["branches"].total = counts["branches"].total /\ c["branches"].covered = counts["branches"].covered
  BY ReportersAssumption DEF Entry, Metric
<1>4. DetailLimit \in Nat
  BY ReportersAssumption
<1>5. \A f \in idle : f.line \in Nat
  BY DEF IsRecord
<1>8. \A a \in left : gap[a].line \in Nat
  BY DEF IsRecord
<1> HIDE DEF missed, idle, left, gap, counts, c, gaps
<1>6. /\ Cardinality(Spanned(gaps.lines)) <= Cardinality(missed)
      /\ Len(gaps.lines) < DetailLimit => Spanned(gaps.lines) = missed
  <2>1. gaps.lines = Cap(ToLineRanges(missed))
    BY <1>2
  <2> QED BY <1>1, <1>4, <2>1, LineGaps
<1>7. Len(gaps.functions) < DetailLimit => Len(gaps.functions) = Cardinality(idle)
  <2> DEFINE list == ByLine(idle)
  <2>1. list \in Seq(idle) /\ Len(list) = Cardinality(idle)
    BY <1>1, <1>5, ListByLine
  <2>2. gaps.functions = Cap(list)
    BY <1>2
  <2> HIDE DEF list
  <2> QED BY <1>4, <2>1, <2>2, CapKeeps
<1>9. Len(gaps.branches) < DetailLimit =>
        Len(gaps.branches) <= Cardinality(left) /\ (gaps.branches = <<>> => Cardinality(left) = 0)
  <2> DEFINE list == ByLine(branches)
  <2>1. /\ IsFiniteSet(branches) /\ Cardinality(branches) <= Cardinality(left)
        /\ Cardinality(branches) = 0 => left = {}
    <3>1. IsFiniteSet(branches)
      BY <1>1, FiniteImage
    <3>2. [a \in left |-> gap[a]] \in Surjection(left, branches)
      BY DEF Surjection
    <3> QED BY <1>1, <3>1, <3>2, FS_Surjection, FS_EmptySet
  <2>2. \A b \in branches : b.line \in Nat
    BY <1>8
  <2> HIDE DEF branches
  <2>3. list \in Seq(branches) /\ Len(list) = Cardinality(branches)
    BY <2>1, <2>2, ListByLine
  <2>4. gaps.branches = Cap(list)
    BY <1>2
  <2> HIDE DEF list
  <2>5. Len(gaps.branches) < DetailLimit => Len(gaps.branches) = Cardinality(branches)
    BY <1>4, <2>3, <2>4, CapKeeps
  <2> QED BY <2>1, <2>5, FS_EmptySet
<1> QED BY <1>1, <1>3, <1>6, <1>7, <1>9 DEF c, gaps

\* A summary that can be read lists every record by its own path, with its
\* counts, and their totals.
LEMMA SummaryIs ==
  ASSUME NEW records \in Records, NEW report, report = ParseIstanbulReport(SummaryOf(records), Root, Directory),
         report # Null
  PROVE  /\ \A f \in report.files : \E r \in records : f = Entry(r)
         /\ \A r \in records : Own(r) # <<>> => Entry(r) \in report.files
         /\ \A f \in report.files : f.path # <<>>
         /\ \A m \in Metrics : /\ report.summary[m].covered = Total(records)[m].covered
                               /\ report.summary[m].total = Total(records)[m].total
<1> DEFINE doc == SummaryOf(records)
           listed(key) == [path |-> NormalizeCoverageFilePath(key, Root, Directory),
                           metrics |-> [m \in Metrics |-> OptionalMetric(doc.files[key][m])]]
           all == {listed(key) : key \in DOMAIN doc.files}
<1>1. \A r \in records : IsRecord(r)
  BY ReportersAssumption DEF IsRecord
<1>2. \A r, q \in records : Absolute(r) = Absolute(q) => r = q
  BY ReportersAssumption
<1>3. /\ report.summary = [m \in Metrics |-> OptionalMetric(doc.total[m])]
      /\ \A m \in Metrics : ValidCounts(doc.total[m])
      /\ report.files = {f \in all : f.path # <<>> /\ \E m \in Metrics : f.metrics[m] # Null}
  BY DEF ParseIstanbulReport
<1>4. /\ doc.total = Total(records)
      /\ DOMAIN doc.files = {Absolute(r) : r \in records}
      /\ \A r \in records : doc.files[Absolute(r)] = CountsOf(CHOOSE q \in records : Absolute(q) = Absolute(r))
  BY DEF SummaryOf
<1>5. ASSUME NEW r \in records PROVE doc.files[Absolute(r)] = CountsOf(r)
  <2>1. (CHOOSE q \in records : Absolute(q) = Absolute(r)) = r
    BY <1>2
  <2> QED BY <1>4, <2>1
<1> HIDE DEF doc
<1>6. ASSUME NEW r \in records, NEW m \in Metrics
      PROVE  /\ OptionalMetric(CountsOf(r)[m]) = Metric(CountsOf(r)[m].covered, CountsOf(r)[m].total)
             /\ OptionalMetric(CountsOf(r)[m]) # Null
  <2>1. CountsOf(r)[m] \in Counts /\ CountsOf(r)[m].covered <= CountsOf(r)[m].total
    BY <1>1, RecordCounts
  <2>2. ValidCounts(CountsOf(r)[m])
    BY <2>1, NullIsApart DEF ValidCounts, Counts
  <2>3. Metric(CountsOf(r)[m].covered, CountsOf(r)[m].total) # Null
    BY <2>1, MetricTyped DEF Counts
  <2> QED BY <2>2, <2>3 DEF OptionalMetric
<1>7. ASSUME NEW r \in records PROVE listed(Absolute(r)) = Entry(r)
  <2>1. NormalizeCoverageFilePath(Absolute(r), Root, Directory) = Own(r)
    BY <1>1, OwnPath
  <2>2. \A m \in Metrics : OptionalMetric(doc.files[Absolute(r)][m]) = Metric(CountsOf(r)[m].covered, CountsOf(r)[m].total)
    BY <1>5, <1>6
  <2> QED BY <2>1, <2>2 DEF Entry
<1>8. all = {Entry(r) : r \in records}
  <2> HIDE DEF listed
  <2> QED BY <1>4, <1>7
<1> HIDE DEF all
<1>9. \A f \in report.files : \E r \in records : f = Entry(r)
  BY <1>3, <1>8
<1>10. ASSUME NEW r \in records, Own(r) # <<>> PROVE Entry(r) \in report.files
  <2>1. Entry(r).path # <<>>
    BY <1>10 DEF Entry
  <2>2. Entry(r).metrics["lines"] # Null /\ "lines" \in Metrics
    BY <1>6, ReportersAssumption DEF Entry
  <2> QED BY <1>3, <1>8, <2>1, <2>2
<1>11. ASSUME NEW m \in Metrics
       PROVE  report.summary[m].covered = Total(records)[m].covered /\ report.summary[m].total = Total(records)[m].total
  <2>1. report.summary[m] = Metric(Total(records)[m].covered, Total(records)[m].total)
    BY <1>3, <1>4 DEF OptionalMetric
  <2> QED BY <2>1 DEF Metric
<1> QED BY <1>3, <1>9, <1>10, <1>11

\* Its files add up to no more than its totals.
LEMMA SummaryHolds ==
  ASSUME NEW records \in Records, NEW report, report = ParseIstanbulReport(SummaryOf(records), Root, Directory),
         report # Null, NEW F \in SUBSET report.files, NEW m \in Metrics, SumCoverage(F)[m] # Null
  PROVE  /\ SumCoverage(F)[m].covered <= report.summary[m].covered
         /\ SumCoverage(F)[m].total <= report.summary[m].total
<1> DEFINE e == [r \in records |-> Entry(r)]
           c == [r \in records |-> CountsOf(r)[m].covered]
           t == [r \in records |-> CountsOf(r)[m].total]
<1>1. IsFiniteSet(records) /\ \A r \in records : IsRecord(r)
  BY ReportersAssumption DEF IsRecord
<1>2. c \in [records -> Nat] /\ t \in [records -> Nat]
  <2>1. \A r \in records : CountsOf(r)[m].covered \in Nat /\ CountsOf(r)[m].total \in Nat
    BY <1>1, RecordCounts DEF Counts
  <2> QED BY <2>1
<1>3. Counting(F, m, records, e, c, t)
  <2> SUFFICES ASSUME NEW f \in F
               PROVE  \E y \in records : e[y] = f /\ c[y] = f.metrics[m].covered /\ t[y] = f.metrics[m].total
    BY DEF Counting
  <2>1. PICK r \in records : f = Entry(r)
    BY SummaryIs
  <2>2. f.metrics[m].covered = CountsOf(r)[m].covered /\ f.metrics[m].total = CountsOf(r)[m].total
    BY <2>1 DEF Entry, Metric
  <2> QED BY <2>1, <2>2
<1>4. /\ report.summary[m].covered = SumFunction(c) /\ report.summary[m].total = SumFunction(t)
  <2>1. Total(records)[m].covered = SumFunction(c) /\ Total(records)[m].total = SumFunction(t)
    BY DEF Total
  <2>2. report.summary[m].covered = Total(records)[m].covered /\ report.summary[m].total = Total(records)[m].total
    BY SummaryIs
  <2> HIDE DEF c, t
  <2> QED BY <2>1, <2>2
<1> HIDE DEF e, c, t
<1>5. SumCoverage(F)[m].covered <= SumFunction(c) /\ SumCoverage(F)[m].total <= SumFunction(t)
  BY <1>1, <1>2, <1>3, SumBound
<1> QED BY <1>4, <1>5

\* The gaps of a file that is the only one of its path are those of its own
\* record, whichever of the records of that path is taken.
LEMMA DetailsAre ==
  ASSUME NEW records \in Records, NEW report, report = ParseIstanbulReport(SummaryOf(records), Root, Directory),
         report # Null, NEW f \in report.files
  PROVE  /\ f.path \in DOMAIN IstanbulDetails(records)
         /\ \E r \in records : /\ IstanbulDetails(records)[f.path] = IstanbulGaps(r)
                               /\ Entry(r) \in report.files /\ Entry(r).path = f.path
<1>1. PICK q \in records : f = Entry(q)
  BY SummaryIs
<1>2. f.path = Own(q) /\ f.path # <<>>
  BY <1>1, SummaryIs DEF Entry
<1> DEFINE r == CHOOSE x \in records : Own(x) = f.path
<1>3. r \in records /\ Own(r) = f.path
  BY <1>2
<1>4. Entry(r) \in report.files /\ Entry(r).path = f.path
  <2> HIDE DEF r
  <2> QED BY <1>2, <1>3, SummaryIs DEF Entry
<1>5. /\ f.path \in DOMAIN IstanbulDetails(records)
      /\ IstanbulDetails(records)[f.path] = IstanbulGaps(r)
  BY <1>2 DEF IstanbulDetails, Own
<1> HIDE DEF r
<1> QED BY <1>3, <1>4, <1>5

-----------------------------------------------------------------------------
(* LCOV reports, one line after another                                    *)

Parts == {"covered", "total"}

\* The files of an LCOV report: of statements it says nothing.
LcovCounts ==
  {x \in [Metrics -> {Null} \cup MetricType] :
     x["statements"] = Null /\ \A m \in Metrics \ {"statements"} : x[m] \in MetricType}
LcovFile == [path : Seq(STRING) \ {<<>>}, metrics : LcovCounts]
LcovState ==
  [total : [Metrics -> Counts], records : Nat, files : Seq(LcovFile), current : {Null} \cup LcovRecord]
LcovStart == [total |-> Zero, records |-> 0, files |-> <<>>, current |-> Null]
LcovStep(s, t) == LcovLine(s, t, Root, Directory)

IsLine(t) ==
  /\ t.k \in {"SF", "end", "DA", "FN", "FNDA", "BRDA"} /\ t.n \in Nat /\ t.hit \in BOOLEAN
  /\ t.k = "SF" => t.path \in FilePath
Counts3 == {"DA", "FNDA", "BRDA"}

\* What a line adds to a count.
Bump(t, m, part) == IF m = Counter[t.k] /\ (part = "total" \/ t.hit) THEN 1 ELSE 0

LEMMA CountAdds ==
  ASSUME NEW counts \in [Metrics -> Counts], NEW t, IsLine(t), t.k \in Counts3
  PROVE  /\ Count(counts, t) \in [Metrics -> Counts]
         /\ \A m \in Metrics : /\ Count(counts, t)[m].covered = counts[m].covered + Bump(t, m, "covered")
                               /\ Count(counts, t)[m].total = counts[m].total + Bump(t, m, "total")
<1> DEFINE c == Counter[t.k]
           new == [covered |-> counts[c].covered + IF t.hit THEN 1 ELSE 0, total |-> counts[c].total + 1]
<1>1. c \in {"lines", "functions", "branches"} /\ c \in Metrics
  BY ReportersAssumption DEF Counter, Counts3
<1>2. Count(counts, t) = [counts EXCEPT ![c] = new]
  BY DEF Count
<1> HIDE DEF c
<1>3. \A m \in Metrics : counts[m].covered \in Nat /\ counts[m].total \in Nat
  <2>1. \A m \in Metrics : counts[m] \in Counts
    OBVIOUS
  <2> QED BY <2>1 DEF Counts
<1>4. new \in Counts /\ new.covered = counts[c].covered + (IF t.hit THEN 1 ELSE 0) /\ new.total = counts[c].total + 1
  BY <1>1, <1>3 DEF Counts
<1> HIDE DEF new
<1>5. Count(counts, t) \in [Metrics -> Counts]
  BY <1>1, <1>2, <1>4
<1>6. ASSUME NEW m \in Metrics
      PROVE  /\ Count(counts, t)[m].covered = counts[m].covered + Bump(t, m, "covered")
             /\ Count(counts, t)[m].total = counts[m].total + Bump(t, m, "total")
  <2>1. CASE m = c
    <3>1. Count(counts, t)[m] = new
      BY <1>1, <1>2, <2>1
    <3> QED BY <1>4, <2>1, <3>1 DEF Bump, c
  <2>2. CASE m # c
    <3>1. Count(counts, t)[m] = counts[m] /\ Bump(t, m, "covered") = 0 /\ Bump(t, m, "total") = 0
      BY <1>1, <1>2, <2>2 DEF Bump, c
    <3> QED BY <1>3, <3>1
  <2> QED BY <2>1, <2>2
<1> QED BY <1>5, <1>6

LEMMA PathTyped ==
  ASSUME NEW p \in FilePath
  PROVE  NormalizeCoverageFilePath(p, Root, Directory) \in Seq(STRING)
<1> DEFINE s == p.segs
<1>1. s \in Seq(STRING) /\ s # <<>> /\ p.abs \in BOOLEAN
  BY DEF FilePath
<1>2. Root \in Seq(STRING) /\ Directory \in Seq(STRING)
  BY ReportersAssumption, AppReportsAssumption
<1> HIDE DEF s
<1>3. SubSeq(s, Len(Root) + 1, Len(s)) \in Seq(STRING) /\ <<Last(s)>> \in Seq(STRING) /\ Directory \o s \in Seq(STRING)
  <2>1. Last(s) \in STRING
    BY <1>1 DEF Last
  <2>2. SubSeq(s, Len(Root) + 1, Len(s)) \in Seq(STRING)
    BY <1>1, <1>2
  <2> QED BY <1>1, <1>2, <2>1, <2>2
<1> QED BY <1>1, <1>3 DEF NormalizeCoverageFilePath, s

ZeroIs(m) == Zero[m].covered = 0 /\ Zero[m].total = 0
LEMMA ZeroTyped == Zero \in [Metrics -> Counts] /\ \A m \in Metrics : ZeroIs(m)
  BY DEF Zero, Counts, ZeroIs

LEMMA LcovMetricsTyped ==
  ASSUME NEW counts \in [Metrics -> Counts]
  PROVE  /\ LcovMetrics(counts) \in LcovCounts
         /\ \A m \in Metrics \ {"statements"} :
              /\ LcovMetrics(counts)[m].covered = counts[m].covered
              /\ LcovMetrics(counts)[m].total = counts[m].total
              /\ LcovMetrics(counts)[m] # Null
         /\ LcovMetrics(counts)["statements"] = Null
<1> DEFINE x == LcovMetrics(counts)
<1>1. x = [m \in Metrics |-> IF m = "statements" THEN Null ELSE Metric(counts[m].covered, counts[m].total)]
  BY DEF LcovMetrics
<1>2. ASSUME NEW m \in Metrics \ {"statements"}
      PROVE  x[m] \in MetricType /\ x[m] # Null /\ x[m].covered = counts[m].covered /\ x[m].total = counts[m].total
  <2>1. counts[m].covered \in Nat /\ counts[m].total \in Nat
    <3>1. counts[m] \in Counts
      OBVIOUS
    <3> QED BY <3>1 DEF Counts
  <2>2. x[m] = Metric(counts[m].covered, counts[m].total)
    BY <1>1
  <2> HIDE DEF x
  <2> QED BY <2>1, <2>2, MetricTyped DEF Metric
<1>3. "statements" \in Metrics /\ x["statements"] = Null
  BY <1>1, ReportersAssumption
<1>4. x \in [Metrics -> {Null} \cup MetricType]
  <2>1. \A m \in Metrics : x[m] \in {Null} \cup MetricType
    BY <1>2, <1>3
  <2> QED BY <1>1, <2>1
<1> HIDE DEF x
<1>5. x \in LcovCounts
  BY <1>2, <1>3, <1>4 DEF LcovCounts
<1> QED BY <1>2, <1>3, <1>5 DEF x

\* The files once the current record is closed.
ClosedFiles(s) ==
  IF s.current = Null \/ s.current.path = <<>> THEN s.files
  ELSE Append(s.files, [path |-> s.current.path, metrics |-> LcovMetrics(s.current.counts)])

LEMMA ClosedTyped ==
  ASSUME NEW s \in LcovState
  PROVE  /\ ClosedFiles(s) \in Seq(LcovFile)
         /\ CloseRecord(s) = [total |-> s.total, records |-> s.records, files |-> ClosedFiles(s), current |-> Null]
<1>1. ClosedFiles(s) \in Seq(LcovFile)
  <2>1. s.files \in Seq(LcovFile) /\ s.current \in {Null} \cup LcovRecord
    BY DEF LcovState
  <2>2. CASE s.current = Null \/ s.current.path = <<>>
    BY <2>1, <2>2 DEF ClosedFiles
  <2>3. CASE ~(s.current = Null \/ s.current.path = <<>>)
    <3> DEFINE f == [path |-> s.current.path, metrics |-> LcovMetrics(s.current.counts)]
    <3>1. s.current.path \in Seq(STRING) \ {<<>>} /\ s.current.counts \in [Metrics -> Counts]
      BY <2>1, <2>3 DEF LcovRecord
    <3>2. LcovMetrics(s.current.counts) \in LcovCounts
      BY <3>1, LcovMetricsTyped
    <3>3. f \in LcovFile
      BY <3>1, <3>2 DEF LcovFile
    <3>4. ClosedFiles(s) = Append(s.files, f)
      BY <2>3 DEF ClosedFiles
    <3> HIDE DEF f
    <3> QED BY <2>1, <3>3, <3>4
  <2> QED BY <2>2, <2>3
<1>2. CloseRecord(s) = [s EXCEPT !.current = Null, !.files = ClosedFiles(s)]
  BY DEF CloseRecord, ClosedFiles
<1>3. s = [total |-> s.total, records |-> s.records, files |-> s.files, current |-> s.current]
  BY DEF LcovState
<1>4. CloseRecord(s) = [total |-> s.total, records |-> s.records, files |-> ClosedFiles(s), current |-> Null]
  BY <1>2, <1>3
<1> QED BY <1>1, <1>4

\* What a line of each keyword does.
LcovDoes(s, t, u) ==
  /\ t.k = "SF" => /\ u.total = s.total /\ u.files = ClosedFiles(s)
                   /\ u.current = [path |-> NormalizeCoverageFilePath(t.path, Root, Directory), counts |-> Zero]
  /\ t.k = "end" => u.total = s.total /\ u.files = ClosedFiles(s) /\ u.current = Null
  /\ t.k \in Counts3 =>
       /\ u.total = Count(s.total, t) /\ u.files = s.files
       /\ u.current = IF s.current = Null THEN Null
                      ELSE [path |-> s.current.path, counts |-> Count(s.current.counts, t)]
  /\ t.k = "FN" => u = s

LEMMA LcovStepIs ==
  ASSUME NEW s \in LcovState, NEW t, IsLine(t)
  PROVE  LcovStep(s, t) \in LcovState /\ LcovDoes(s, t, LcovStep(s, t))
<1> DEFINE closed == CloseRecord(s)
<1>8. PICK u : u = LcovStep(s, t)
  OBVIOUS
<1>9. SUFFICES u \in LcovState /\ LcovDoes(s, t, u)
  BY <1>8
<1>1. /\ ClosedFiles(s) \in Seq(LcovFile)
      /\ closed = [total |-> s.total, records |-> s.records, files |-> ClosedFiles(s), current |-> Null]
  BY ClosedTyped
<1>2. /\ s = [total |-> s.total, records |-> s.records, files |-> s.files, current |-> s.current]
      /\ s.total \in [Metrics -> Counts] /\ s.records \in Nat /\ s.files \in Seq(LcovFile)
      /\ s.current \in {Null} \cup LcovRecord
  BY DEF LcovState
<1>3. DOMAIN Counter = Counts3
  BY DEF Counter, Counts3
<1>4. CASE t.k = "SF"
  <2> DEFINE record == [path |-> NormalizeCoverageFilePath(t.path, Root, Directory), counts |-> Zero]
  <2>1. record \in LcovRecord
    <3>1. NormalizeCoverageFilePath(t.path, Root, Directory) \in Seq(STRING)
      BY <1>4, PathTyped DEF IsLine
    <3> QED BY <3>1, ZeroTyped DEF LcovRecord
  <2>2. u = [closed EXCEPT !.current = record]
    BY <1>3, <1>4, <1>8 DEF LcovStep, LcovLine, Counts3
  <2>3. u = [total |-> s.total, records |-> s.records, files |-> ClosedFiles(s), current |-> record]
    <3> HIDE DEF record, closed
    <3> QED BY <1>1, <2>2
  <2> QED BY <1>1, <1>2, <1>4, <2>1, <2>3 DEF LcovState, LcovDoes, Counts3
<1>5. CASE t.k = "end"
  <2>1. u = [closed EXCEPT !.records = @ + 1]
    BY <1>3, <1>5, <1>8 DEF LcovStep, LcovLine, Counts3
  <2>2. u = [total |-> s.total, records |-> s.records + 1, files |-> ClosedFiles(s), current |-> Null]
    <3> HIDE DEF closed
    <3> QED BY <1>1, <2>1
  <2> QED BY <1>1, <1>2, <1>5, <2>2 DEF LcovState, LcovDoes, Counts3
<1>6. CASE t.k \in Counts3
  <2> DEFINE next == IF s.current = Null THEN Null
                     ELSE [path |-> s.current.path, counts |-> Count(s.current.counts, t)]
  <2>1. next \in {Null} \cup LcovRecord
    <3>1. CASE s.current = Null
      BY <3>1
    <3>2. CASE s.current # Null
      <4>1. s.current.path \in Seq(STRING) /\ s.current.counts \in [Metrics -> Counts]
        BY <1>2, <3>2 DEF LcovRecord
      <4>2. Count(s.current.counts, t) \in [Metrics -> Counts]
        BY <1>6, <4>1, CountAdds
      <4>3. [path |-> s.current.path, counts |-> Count(s.current.counts, t)] \in LcovRecord
        BY <4>1, <4>2 DEF LcovRecord
      <4> QED BY <3>2, <4>3
    <3> QED BY <3>1, <3>2
  <2>2. u = [s EXCEPT !.total = Count(s.total, t), !.current = next]
    <3>1. t.k # "SF" /\ t.k # "end" /\ t.k \in DOMAIN Counter
      BY <1>3, <1>6 DEF Counts3
    <3>2. LcovLine(s, t, Root, Directory) = [s EXCEPT !.total = Count(@, t), !.current = next]
      BY <3>1 DEF LcovLine
    <3>3. u = LcovLine(s, t, Root, Directory)
      BY <1>8 DEF LcovStep
    <3> HIDE DEF next
    <3> QED BY <3>2, <3>3
  <2>3. Count(s.total, t) \in [Metrics -> Counts]
    BY <1>2, <1>6, CountAdds
  <2>4. u = [total |-> Count(s.total, t), records |-> s.records, files |-> s.files, current |-> next]
    <3> HIDE DEF next
    <3> QED BY <1>2, <2>1, <2>2
  <2>5. u \in LcovState
    <3> HIDE DEF next
    <3> QED BY <1>2, <2>1, <2>3, <2>4 DEF LcovState
  <2>6. t.k # "SF" /\ t.k # "end" /\ t.k # "FN"
    BY <1>6 DEF Counts3
  <2>7. u.total = Count(s.total, t) /\ u.files = s.files /\ u.current = next
    <3> HIDE DEF next
    <3> QED BY <2>4
  <2> QED BY <2>5, <2>6, <2>7 DEF LcovDoes
<1>7. CASE t.k = "FN"
  <2>1. u = s
    BY <1>3, <1>7, <1>8 DEF LcovStep, LcovLine, Counts3
  <2> QED BY <1>7, <2>1 DEF LcovDoes, Counts3
<1> QED BY <1>4, <1>5, <1>6, <1>7 DEF IsLine, Counts3

LEMMA LinesAreLines == \A t \in LcovLines : IsLine(t)
  BY ReportersAssumption DEF IsLine

\* The loop of parseLcovReport goes from one line to the next.
LEMMA LcovUnfold ==
  ASSUME NEW n \in Nat, NEW text \in [1 .. n -> LcovLines]
  PROVE  \E it :
           /\ FoldLeft(LcovStep, LcovStart, text) = it[1 .. n]
           /\ it[1 .. 0] = LcovStart
           /\ \A k \in 1 .. n : it[1 .. k] = LcovStep(it[1 .. k - 1], text[k])
<1> DEFINE S == 1 .. n
           F == [p \in LcovState \X LcovLines |-> LcovStep(p[1], p[2])]
           Unfold(g, s) == IF s = {} THEN LcovStart ELSE LcovStep(g[s \ {Max(s)}], text[Max(s)])
           it == CHOOSE g : g = [s \in SUBSET S |-> Unfold(g, s)]
<1>1. FoldLeft(LcovStep, LcovStart, text) = it[S]
  <2>1. DOMAIN text = S
    OBVIOUS
  <2> QED BY <2>1 DEF FoldLeft, MapThenFoldSet
<1>2. LcovStart \in LcovState
  <2>1. <<>> \in Seq(LcovFile)
    OBVIOUS
  <2> QED BY <2>1, ZeroTyped DEF LcovStart, LcovState
<1>3. F \in [LcovState \X LcovLines -> LcovState] /\ \A v \in LcovState, x \in LcovLines : F[<<v, x>>] = LcovStep(v, x)
  <2>1. \A v \in LcovState, x \in LcovLines : LcovStep(v, x) \in LcovState
    BY LcovStepIs, LinesAreLines
  <2> QED BY <2>1
<1> HIDE DEF F
<1>10. PICK g : FoldsText(g, n, LcovState, LcovStart, text, F)
  BY <1>2, <1>3, TypedFold
<1>4. /\ g \in [SUBSET S -> LcovState] /\ g[{}] = LcovStart
      /\ \A s \in SUBSET S : s # {} =>
           /\ Max(s) \in s /\ g[s \ {Max(s)}] \in LcovState
           /\ g[s] = F[<<g[s \ {Max(s)}], text[Max(s)]>>]
  BY <1>10 DEF FoldsText
<1>5. g = [s \in SUBSET S |-> Unfold(g, s)]
  <2>1. ASSUME NEW s \in SUBSET S PROVE g[s] = Unfold(g, s)
    <3>1. CASE s = {}
      BY <1>4, <3>1
    <3>2. CASE s # {}
      <4>1. Max(s) \in s /\ text[Max(s)] \in LcovLines
        BY <1>4, <3>2
      <4> HIDE DEF S
      <4> QED BY <1>3, <1>4, <3>2, <4>1
    <3> QED BY <3>1, <3>2
  <2> HIDE DEF S, Unfold
  <2> QED BY <1>4, <2>1
<1>6. it = [s \in SUBSET S |-> Unfold(it, s)]
  <2> HIDE DEF S, Unfold
  <2> QED BY <1>5
<1> HIDE DEF it
<1>7. it[1 .. 0] = LcovStart
  <2>1. 1 .. 0 = {} /\ {} \in SUBSET S
    OBVIOUS
  <2>2. it[{}] = Unfold(it, {})
    BY <1>6, <2>1
  <2> QED BY <2>1, <2>2
<1>8. ASSUME NEW k \in 1 .. n PROVE it[1 .. k] = LcovStep(it[1 .. k - 1], text[k])
  <2>1. 1 .. k \in SUBSET S /\ 1 .. k # {} /\ (1 .. k) \ {k} = 1 .. k - 1 /\ Max(1 .. k) = k
    BY UpTo
  <2>2. it[1 .. k] = Unfold(it, 1 .. k)
    BY <1>6, <2>1
  <2> QED BY <2>1, <2>2
<1> QED BY <1>1, <1>7, <1>8

LEMMA SumNat ==
  ASSUME NEW S, IsFiniteSet(S), NEW f \in [S -> Nat]
  PROVE  SumFunction(f) \in Nat /\ (S = {} => SumFunction(f) = 0)
<1>1. PICK g : Summing(g, S, f) /\ SumFunction(f) = g[S]
  <2>1. f \in [S -> Int]
    OBVIOUS
  <2> QED BY <2>1, SumOf
<1>2. S \in SUBSET S /\ g[{}] = 0
  BY <1>1 DEF Summing
<1>3. g[S] \in Nat
  BY <1>1, <1>2, SumPart
<1> QED BY <1>1, <1>2, <1>3

\* What the files of a report add up to, and what its open record holds.
Counted == Metrics \ {"statements"}
FilesSum(files, m, part) == SumFunction([i \in 1 .. Len(files) |-> files[i].metrics[m][part]])
Held(s, m, part) == IF s.current = Null THEN 0 ELSE s.current.counts[m][part]
AddsUp(s) == \A m \in Counted, part \in Parts : FilesSum(s.files, m, part) + Held(s, m, part) <= s.total[m][part]

LEMMA CountsTyped ==
  ASSUME NEW counts \in [Metrics -> Counts], NEW m \in Metrics, NEW part \in Parts
  PROVE  counts[m][part] \in Nat
<1>1. counts[m] \in Counts
  OBVIOUS
<1> QED BY <1>1 DEF Counts, Parts

LEMMA FilesTyped ==
  ASSUME NEW files \in Seq(LcovFile), NEW m \in Counted, NEW part \in Parts
  PROVE  /\ [i \in 1 .. Len(files) |-> files[i].metrics[m][part]] \in [1 .. Len(files) -> Nat]
         /\ FilesSum(files, m, part) \in Nat /\ (Len(files) = 0 => FilesSum(files, m, part) = 0)
<1> DEFINE f == [i \in 1 .. Len(files) |-> files[i].metrics[m][part]]
<1>1. ASSUME NEW i \in 1 .. Len(files) PROVE files[i].metrics[m][part] \in Nat
  <2>1. files[i].metrics \in LcovCounts
    <3>1. files[i] \in LcovFile
      OBVIOUS
    <3> QED BY <3>1 DEF LcovFile
  <2>2. files[i].metrics[m] \in MetricType
    BY <2>1 DEF LcovCounts, Counted
  <2> QED BY <2>2 DEF MetricType, Parts
<1>2. f \in [1 .. Len(files) -> Nat]
  BY <1>1
<1>3. IsFiniteSet(1 .. Len(files)) /\ (Len(files) = 0 => 1 .. Len(files) = {})
  BY FS_Interval
<1>4. FilesSum(files, m, part) = SumFunction(f)
  BY DEF FilesSum
<1> HIDE DEF f
<1>5. SumFunction(f) \in Nat /\ (1 .. Len(files) = {} => SumFunction(f) = 0)
  BY <1>2, <1>3, SumNat
<1> QED BY <1>2, <1>3, <1>4, <1>5 DEF f

\* A record that is closed counts as its file did while it was open.
LEMMA ClosedSum ==
  ASSUME NEW s \in LcovState, NEW m \in Counted, NEW part \in Parts
  PROVE  /\ FilesSum(s.files, m, part) \in Nat /\ Held(s, m, part) \in Nat /\ s.total[m][part] \in Nat
         /\ FilesSum(ClosedFiles(s), m, part) \in Nat
         /\ FilesSum(ClosedFiles(s), m, part) <= FilesSum(s.files, m, part) + Held(s, m, part)
<1>1. /\ s.files \in Seq(LcovFile) /\ s.current \in {Null} \cup LcovRecord /\ s.total \in [Metrics -> Counts]
      /\ ClosedFiles(s) \in Seq(LcovFile)
  BY ClosedTyped DEF LcovState
<1>2. FilesSum(s.files, m, part) \in Nat /\ FilesSum(ClosedFiles(s), m, part) \in Nat
  BY <1>1, FilesTyped
<1>3. m \in Metrics /\ s.total[m][part] \in Nat
  BY <1>1, CountsTyped DEF Counted
<1>4. s.current # Null => s.current.counts \in [Metrics -> Counts] /\ s.current.counts[m][part] \in Nat
  <2>1. ASSUME s.current # Null PROVE s.current.counts \in [Metrics -> Counts]
    BY <1>1, <2>1 DEF LcovRecord
  <2> QED BY <1>3, <2>1, CountsTyped
<1>5. Held(s, m, part) \in Nat
  BY <1>4 DEF Held
<1>6. CASE s.current = Null \/ s.current.path = <<>>
  <2>1. ClosedFiles(s) = s.files
    BY <1>6 DEF ClosedFiles
  <2> QED BY <1>2, <1>3, <1>5, <2>1
<1>7. CASE ~(s.current = Null \/ s.current.path = <<>>)
  <2> DEFINE file == [path |-> s.current.path, metrics |-> LcovMetrics(s.current.counts)]
             f == [i \in 1 .. Len(ClosedFiles(s)) |-> ClosedFiles(s)[i].metrics[m][part]]
             g == [i \in 1 .. Len(s.files) |-> s.files[i].metrics[m][part]]
             n == Len(s.files)
  <2>1. ClosedFiles(s) = Append(s.files, file)
    BY <1>7 DEF ClosedFiles
  <2>2. /\ Len(ClosedFiles(s)) = n + 1 /\ n \in Nat /\ ClosedFiles(s)[n + 1] = file
        /\ \A i \in 1 .. n : ClosedFiles(s)[i] = s.files[i]
    <3> HIDE DEF file
    <3> QED BY <1>1, <2>1
  <2>3. file.metrics[m][part] = s.current.counts[m][part]
    <3>1. /\ LcovMetrics(s.current.counts)[m].covered = s.current.counts[m].covered
          /\ LcovMetrics(s.current.counts)[m].total = s.current.counts[m].total
      BY <1>4, <1>7, LcovMetricsTyped DEF Counted
    <3> QED BY <3>1 DEF Parts
  <2>4. f \in [1 .. n + 1 -> Nat] /\ g \in [1 .. n -> Nat]
    <3>1. f \in [1 .. Len(ClosedFiles(s)) -> Nat]
      BY <1>1, FilesTyped
    <3>2. g \in [1 .. Len(s.files) -> Nat]
      BY <1>1, FilesTyped
    <3> HIDE DEF f, g
    <3> QED BY <2>2, <3>1, <3>2
  <2>5. (\A i \in 1 .. n : g[i] = f[i]) /\ f[n + 1] = s.current.counts[m][part]
    <3>1. \A i \in 1 .. n : i \in 1 .. n + 1
      BY <2>2
    <3> HIDE DEF file
    <3> QED BY <2>2, <2>3, <3>1
  <2>6. FilesSum(ClosedFiles(s), m, part) = SumFunction(f) /\ FilesSum(s.files, m, part) = SumFunction(g)
    BY DEF FilesSum
  <2> HIDE DEF f, g, n
  <2>7. SumFunction(f) = SumFunction(g) + f[n + 1]
    BY <2>2, <2>4, <2>5, SumAppend
  <2>8. Held(s, m, part) = s.current.counts[m][part]
    BY <1>7 DEF Held
  <2> QED BY <1>2, <1>3, <1>5, <2>5, <2>6, <2>7, <2>8
<1> QED BY <1>6, <1>7

\* A line counts for the report's total, and for no more than that in the
\* file it is of.
LEMMA StepAdds ==
  ASSUME NEW s \in LcovState, AddsUp(s), NEW t, IsLine(t)
  PROVE  AddsUp(LcovStep(s, t))
<1>1. PICK u : u = LcovStep(s, t)
  OBVIOUS
<1>2. u \in LcovState /\ LcovDoes(s, t, u)
  BY <1>1, LcovStepIs
<1>3. SUFFICES ASSUME NEW m \in Counted, NEW part \in Parts
               PROVE  FilesSum(u.files, m, part) + Held(u, m, part) <= u.total[m][part]
  BY <1>1 DEF AddsUp
<1>4. /\ FilesSum(s.files, m, part) \in Nat /\ Held(s, m, part) \in Nat /\ s.total[m][part] \in Nat
      /\ FilesSum(ClosedFiles(s), m, part) \in Nat
      /\ FilesSum(ClosedFiles(s), m, part) <= FilesSum(s.files, m, part) + Held(s, m, part)
  BY ClosedSum
<1>5. FilesSum(s.files, m, part) + Held(s, m, part) <= s.total[m][part]
  BY DEF AddsUp
<1>6. s.total \in [Metrics -> Counts] /\ s.current \in {Null} \cup LcovRecord /\ m \in Metrics
  BY DEF LcovState, Counted
<1>7. CASE t.k \in {"SF", "end"}
  <2>1. u.total = s.total /\ u.files = ClosedFiles(s)
    BY <1>2, <1>7 DEF LcovDoes
  <2>2. Held(u, m, part) = 0
    <3>1. CASE t.k = "SF"
      <4>1. u.current.counts = Zero
        BY <1>2, <3>1 DEF LcovDoes
      <4>2. Zero[m][part] = 0
        BY <1>6, ZeroTyped DEF ZeroIs, Parts
      <4> QED BY <4>1, <4>2 DEF Held
    <3>2. CASE t.k = "end"
      BY <1>2, <3>2 DEF LcovDoes, Held
    <3> QED BY <1>7, <3>1, <3>2
  <2> QED BY <1>4, <1>5, <2>1, <2>2
<1>8. CASE t.k \in Counts3
  <2>1. /\ u.total = Count(s.total, t) /\ u.files = s.files
        /\ u.current = IF s.current = Null THEN Null
                       ELSE [path |-> s.current.path, counts |-> Count(s.current.counts, t)]
    BY <1>2, <1>8 DEF LcovDoes
  <2>2. Count(s.total, t)[m][part] = s.total[m][part] + Bump(t, m, part)
    BY <1>6, <1>8, CountAdds DEF Parts
  <2>3. Bump(t, m, part) \in {0, 1}
    BY DEF Bump
  <2>4. Held(u, m, part) <= Held(s, m, part) + Bump(t, m, part) /\ Held(u, m, part) \in Nat
    <3>1. CASE s.current = Null
      BY <2>1, <2>3, <3>1 DEF Held
    <3>2. CASE s.current # Null
      <4>1. s.current.counts \in [Metrics -> Counts]
        BY <1>6, <3>2 DEF LcovRecord
      <4>2. Count(s.current.counts, t)[m][part] = s.current.counts[m][part] + Bump(t, m, part)
        BY <1>6, <1>8, <4>1, CountAdds DEF Parts
      <4>3. u.current.counts = Count(s.current.counts, t)
        BY <2>1, <3>2
      <4>4. Held(s, m, part) = s.current.counts[m][part]
        BY <3>2 DEF Held
      <4> QED BY <1>4, <2>1, <2>3, <4>2, <4>3, <4>4 DEF Held
    <3> QED BY <3>1, <3>2
  <2>5. u.total[m][part] = s.total[m][part] + Bump(t, m, part)
    BY <2>1, <2>2
  <2> QED BY <1>4, <1>5, <2>1, <2>3, <2>4, <2>5
<1>9. CASE t.k = "FN"
  BY <1>2, <1>5, <1>9 DEF LcovDoes
<1> QED BY <1>7, <1>8, <1>9 DEF IsLine, Counts3

LEMMA StartAdds == LcovStart \in LcovState /\ AddsUp(LcovStart)
<1>1. LcovStart \in LcovState
  <2>1. <<>> \in Seq(LcovFile)
    OBVIOUS
  <2> QED BY <2>1, ZeroTyped DEF LcovStart, LcovState
<1>2. ASSUME NEW m \in Counted, NEW part \in Parts
      PROVE  FilesSum(LcovStart.files, m, part) + Held(LcovStart, m, part) <= LcovStart.total[m][part]
  <2>1. LcovStart.files = <<>> /\ LcovStart.current = Null /\ LcovStart.total = Zero
    BY DEF LcovStart
  <2>2. FilesSum(<<>>, m, part) = 0
    <3>1. <<>> \in Seq(LcovFile) /\ Len(<<>>) = 0
      OBVIOUS
    <3> QED BY <3>1, FilesTyped
  <2>3. Zero[m][part] = 0
    BY ZeroTyped DEF ZeroIs, Parts, Counted
  <2> QED BY <2>1, <2>2, <2>3 DEF Held
<1> QED BY <1>1, <1>2 DEF AddsUp

\* The state after the whole report.
LcovEnd(text) == FoldLeft(LcovStep, LcovStart, text)

LEMMA EndAdds ==
  ASSUME NEW text \in Seq(LcovLines)
  PROVE  LcovEnd(text) \in LcovState /\ AddsUp(LcovEnd(text))
<1> DEFINE n == Len(text)
<1>1. n \in Nat /\ text \in [1 .. n -> LcovLines]
  OBVIOUS
<1> HIDE DEF n
<1>2. PICK it : /\ FoldLeft(LcovStep, LcovStart, text) = it[1 .. n]
                /\ it[1 .. 0] = LcovStart
                /\ \A k \in 1 .. n : it[1 .. k] = LcovStep(it[1 .. k - 1], text[k])
  BY <1>1, LcovUnfold
<1> DEFINE U == {k \in Nat : k <= n => it[1 .. k] \in LcovState /\ AddsUp(it[1 .. k])}
<1>3. 0 \in U
  BY <1>2, StartAdds
<1>4. ASSUME NEW k \in Nat, k \in U PROVE k + 1 \in U
  <2>1. SUFFICES ASSUME k + 1 <= n PROVE it[1 .. k + 1] \in LcovState /\ AddsUp(it[1 .. k + 1])
    OBVIOUS
  <2>2. k + 1 \in 1 .. n /\ (k + 1) - 1 = k /\ k <= n
    BY <1>1, <2>1
  <2>3. it[1 .. k + 1] = LcovStep(it[1 .. k], text[k + 1]) /\ text[k + 1] \in LcovLines
    BY <1>1, <1>2, <2>2
  <2>4. IsLine(text[k + 1])
    BY <2>3, LinesAreLines
  <2>5. it[1 .. k] \in LcovState /\ AddsUp(it[1 .. k])
    BY <1>4, <2>2
  <2> QED BY <2>3, <2>4, <2>5, LcovStepIs, StepAdds
<1>5. n \in U
  <2> HIDE DEF U
  <2> QED BY <1>1, <1>3, <1>4, NatInduct
<1>6. n <= n
  BY <1>1
<1> QED BY <1>2, <1>5, <1>6 DEF LcovEnd

LEMMA LcovReportIs ==
  ASSUME NEW text, NEW report, report = ParseLcovReport(text, Root, Directory), report # Null,
         LcovEnd(text) \in LcovState
  PROVE  report.summary = LcovMetrics(LcovEnd(text).total) /\ report.files = ClosedFiles(LcovEnd(text))
<1> DEFINE end == CloseRecord(LcovEnd(text))
<1>1. end = [total |-> LcovEnd(text).total, records |-> LcovEnd(text).records,
             files |-> ClosedFiles(LcovEnd(text)), current |-> Null]
  BY ClosedTyped
<1>2. report = [summary |-> LcovMetrics(end.total), files |-> end.files]
  BY DEF ParseLcovReport, LcovEnd, LcovStep, LcovStart
<1> HIDE DEF end
<1> QED BY <1>1, <1>2

\* The files of an LCOV report add up to no more than its totals.
LEMMA LcovHolds ==
  ASSUME NEW text \in Seq(LcovLines), NEW report, report = ParseLcovReport(text, Root, Directory), report # Null,
         NEW F \in SUBSET Range(report.files), NEW m \in Metrics, SumCoverage(F)[m] # Null
  PROVE  /\ SumCoverage(F)[m].covered <= report.summary[m].covered
         /\ SumCoverage(F)[m].total <= report.summary[m].total
<1> DEFINE s == LcovEnd(text)
           files == report.files
           n == Len(files)
           R == 1 .. n
           e == [i \in R |-> files[i]]
           c == [i \in R |-> files[i].metrics[m].covered]
           t == [i \in R |-> files[i].metrics[m].total]
<1>1. s \in LcovState /\ AddsUp(s)
  BY EndAdds
<1>2. report.summary = LcovMetrics(s.total) /\ files = ClosedFiles(s)
  BY <1>1, LcovReportIs
<1> HIDE DEF s
<1>3. files \in Seq(LcovFile)
  BY <1>1, <1>2, ClosedTyped
<1>4. \A f \in F : \E i \in R : e[i] = f
  <2>1. DOMAIN files = R
    BY <1>3
  <2>2. \A f \in F : f \in {files[i] : i \in R}
    BY <2>1 DEF Range
  <2> QED BY <2>2
<1>5. m \in Counted
  <2>1. SUFFICES ASSUME m = "statements" PROVE FALSE
    BY DEF Counted
  <2>2. ASSUME NEW f \in F PROVE f.metrics[m] = Null
    <3>1. f \in LcovFile
      BY <1>3, <1>4
    <3> QED BY <2>1, <3>1 DEF LcovFile, LcovCounts
  <2>3. {f \in F : f.metrics[m] # Null} = {}
    BY <2>2
  <2>4. SumCoverage(F)[m] = Null
    BY <2>3 DEF SumCoverage
  <2> QED BY <2>4
<1>6. c \in [R -> Nat] /\ t \in [R -> Nat] /\ FilesSum(files, m, "covered") = SumFunction(c) /\ FilesSum(files, m, "total") = SumFunction(t)
  BY <1>3, <1>5, FilesTyped DEF FilesSum, Parts
<1>7. IsFiniteSet(R)
  <2>1. n \in Nat
    BY <1>3
  <2> QED BY <2>1, FS_Interval
<1>8. Counting(F, m, R, e, c, t)
  BY <1>4 DEF Counting
<1> HIDE DEF c, t, e, R, n
<1>9. /\ SumFunction(c) \in Nat /\ SumCoverage(F)[m].covered \in Nat /\ SumCoverage(F)[m].covered <= SumFunction(c)
      /\ SumFunction(t) \in Nat /\ SumCoverage(F)[m].total \in Nat /\ SumCoverage(F)[m].total <= SumFunction(t)
  <2>1. c \in [R -> Nat] /\ t \in [R -> Nat]
    BY <1>6
  <2> QED BY <1>7, <1>8, <2>1, SumBound
<1>10. /\ report.summary[m].covered = s.total[m].covered /\ report.summary[m].total = s.total[m].total
  <2>1. s.total \in [Metrics -> Counts]
    BY <1>1 DEF LcovState
  <2> QED BY <1>2, <1>5, <2>1, LcovMetricsTyped DEF Counted
<1>11. SumFunction(c) <= s.total[m].covered /\ SumFunction(t) <= s.total[m].total
  <2>1. ASSUME NEW part \in Parts PROVE FilesSum(files, m, part) <= s.total[m][part]
    <3>1. /\ FilesSum(s.files, m, part) \in Nat /\ Held(s, m, part) \in Nat /\ s.total[m][part] \in Nat
          /\ FilesSum(files, m, part) \in Nat
          /\ FilesSum(files, m, part) <= FilesSum(s.files, m, part) + Held(s, m, part)
      BY <1>1, <1>2, <1>5, ClosedSum
    <3>2. FilesSum(s.files, m, part) + Held(s, m, part) <= s.total[m][part]
      BY <1>1, <1>5 DEF AddsUp
    <3> QED BY <3>1, <3>2
  <2> QED BY <1>6, <2>1 DEF Parts
<1>12. SumCoverage(F)[m].covered \in Int /\ SumCoverage(F)[m].total \in Int /\ s.total[m].covered \in Int /\ s.total[m].total \in Int
  <2>1. s.total \in [Metrics -> Counts]
    BY <1>1 DEF LcovState
  <2>2. s.total[m].covered \in Nat /\ s.total[m].total \in Nat
    BY <2>1, CountsTyped DEF Parts
  <2> QED BY <1>9, <2>2
<1> QED BY <1>9, <1>10, <1>11, <1>12

-----------------------------------------------------------------------------
(* The gaps of an LCOV report                                              *)

\* parseLcovDetails' entry of a record.
GapsOf(c) ==
  [lines |-> Cap(ToLineRanges(c.missed)),
   functions |-> Cap(ByLine({[name |-> id, line |-> c.declared[id]] : id \in DOMAIN c.declared \ c.ran})),
   branches |-> Cap(ByLine({[line |-> b[1], block |-> b[2], uncovered |-> c.branches[b].uncovered,
                             total |-> c.branches[b].total] :
                              b \in {d \in DOMAIN c.branches : c.branches[d].uncovered > 0}}))]
GapFiles == {GapsOf(c) : c \in GapRecord}
GapState == [gaps : Maps(Seq(STRING), GapFiles), current : {Null} \cup GapRecord]
GapStart == [gaps |-> <<>>, current |-> Null]
GapStep(s, t) == GapLine(s, t, Root, Directory)

LEMMA PutTyped ==
  ASSUME NEW K, NEW V, NEW map \in Maps(K, V), NEW key \in K, NEW value \in V
  PROVE  Put(map, key, value) \in Maps(K, V)
<1>1. PICK I \in SUBSET K : map \in [I -> V]
  BY DEF Maps
<1>2. Put(map, key, value) = [x \in I \cup {key} |-> IF x = key THEN value ELSE map[x]]
  BY <1>1 DEF Put
<1>3. Put(map, key, value) \in [I \cup {key} -> V] /\ I \cup {key} \in SUBSET K
  BY <1>1, <1>2
<1> QED BY <1>1, <1>2, <1>3 DEF Maps

\* The gaps once the current record is closed.
ClosedGaps(s) ==
  IF s.current = Null \/ s.current.path = <<>> THEN s.gaps ELSE Put(s.gaps, s.current.path, GapsOf(s.current))

LEMMA GapsClosed ==
  ASSUME NEW s \in GapState
  PROVE  /\ ClosedGaps(s) \in Maps(Seq(STRING), GapFiles)
         /\ CloseGaps(s) = [gaps |-> ClosedGaps(s), current |-> Null]
<1>1. /\ s = [gaps |-> s.gaps, current |-> s.current]
      /\ s.gaps \in Maps(Seq(STRING), GapFiles) /\ s.current \in {Null} \cup GapRecord
  BY DEF GapState
<1>2. ClosedGaps(s) \in Maps(Seq(STRING), GapFiles)
  <2>1. CASE s.current = Null \/ s.current.path = <<>>
    BY <1>1, <2>1 DEF ClosedGaps
  <2>2. CASE ~(s.current = Null \/ s.current.path = <<>>)
    <3>1. s.current \in GapRecord /\ s.current.path \in Seq(STRING)
      BY <1>1, <2>2 DEF GapRecord
    <3>2. GapsOf(s.current) \in GapFiles
      BY <3>1 DEF GapFiles
    <3>3. ClosedGaps(s) = Put(s.gaps, s.current.path, GapsOf(s.current))
      BY <2>2 DEF ClosedGaps
    <3>4. s.gaps \in Maps(Seq(STRING), GapFiles)
      BY <1>1
    <3>5. Put(s.gaps, s.current.path, GapsOf(s.current)) \in Maps(Seq(STRING), GapFiles)
      BY ONLY <3>1, <3>2, <3>4, PutTyped
    <3> QED BY <3>3, <3>5
  <2> QED BY <2>1, <2>2
<1>3. CloseGaps(s) = [s EXCEPT !.current = Null, !.gaps = ClosedGaps(s)]
  BY DEF CloseGaps, ClosedGaps, GapsOf
<1>4. CloseGaps(s) = [gaps |-> ClosedGaps(s), current |-> Null]
  BY <1>1, <1>3
<1> QED BY <1>2, <1>4

\* The lines of a record that did not run, once a line of the report is read.
Missed(c, t) == IF t.k = "DA" /\ t.n # 0 /\ ~t.hit THEN c.missed \cup {t.n} ELSE c.missed

\* What a line of each keyword does.
GapDoes(s, t, u) ==
  /\ t.k = "SF" => /\ u.gaps = ClosedGaps(s)
                   /\ u.current # Null /\ u.current.missed = {}
                   /\ u.current.path = NormalizeCoverageFilePath(t.path, Root, Directory)
  /\ t.k = "end" => u.gaps = ClosedGaps(s) /\ u.current = Null
  /\ t.k \notin {"SF", "end"} =>
       /\ u.gaps = s.gaps
       /\ s.current = Null => u.current = Null
       /\ s.current # Null => /\ u.current # Null /\ u.current.path = s.current.path
                              /\ u.current.missed = Missed(s.current, t)

LEMMA NoGapsTyped ==
  ASSUME NEW path \in Seq(STRING)
  PROVE  NoGaps(path) \in GapRecord
<1>1. <<>> \in Maps(Ids, Nat) /\ <<>> \in Maps(Branches, [total : Nat, uncovered : Nat])
  <2>1. \A V : <<>> \in [{} -> V]
    OBVIOUS
  <2> QED BY <2>1 DEF Maps
<1> QED BY <1>1 DEF NoGaps, GapRecord

\* One part of the current record set.
LEMMA NowIs ==
  ASSUME NEW s \in GapState, s.current # Null, NEW value
  PROVE  LET c == s.current
         IN /\ [s EXCEPT !.current["missed"] = value] =
                 [gaps |-> s.gaps, current |-> [path |-> c.path, missed |-> value, declared |-> c.declared,
                                                ran |-> c.ran, branches |-> c.branches]]
            /\ [s EXCEPT !.current["declared"] = value] =
                 [gaps |-> s.gaps, current |-> [path |-> c.path, missed |-> c.missed, declared |-> value,
                                                ran |-> c.ran, branches |-> c.branches]]
            /\ [s EXCEPT !.current["ran"] = value] =
                 [gaps |-> s.gaps, current |-> [path |-> c.path, missed |-> c.missed, declared |-> c.declared,
                                                ran |-> value, branches |-> c.branches]]
            /\ [s EXCEPT !.current["branches"] = value] =
                 [gaps |-> s.gaps, current |-> [path |-> c.path, missed |-> c.missed, declared |-> c.declared,
                                                ran |-> c.ran, branches |-> value]]
<1>1. s = [gaps |-> s.gaps, current |-> s.current] /\ s.current \in GapRecord
  BY DEF GapState
<1> DEFINE c == s.current
<1>2. c = [path |-> c.path, missed |-> c.missed, declared |-> c.declared, ran |-> c.ran, branches |-> c.branches]
  BY <1>1 DEF GapRecord
<1>3. [s EXCEPT !.current["missed"] = value] =
                 [gaps |-> s.gaps, current |-> [path |-> c.path, missed |-> value, declared |-> c.declared,
                                                ran |-> c.ran, branches |-> c.branches]]
  BY <1>1, <1>2
<1>4. [s EXCEPT !.current["declared"] = value] =
                 [gaps |-> s.gaps, current |-> [path |-> c.path, missed |-> c.missed, declared |-> value,
                                                ran |-> c.ran, branches |-> c.branches]]
  BY <1>1, <1>2
<1>5. [s EXCEPT !.current["ran"] = value] =
                 [gaps |-> s.gaps, current |-> [path |-> c.path, missed |-> c.missed, declared |-> c.declared,
                                                ran |-> value, branches |-> c.branches]]
  BY <1>1, <1>2
<1>6. [s EXCEPT !.current["branches"] = value] =
                 [gaps |-> s.gaps, current |-> [path |-> c.path, missed |-> c.missed, declared |-> c.declared,
                                                ran |-> c.ran, branches |-> value]]
  BY <1>1, <1>2
<1> QED BY <1>3, <1>4, <1>5, <1>6

LEMMA GapStepIs ==
  ASSUME NEW s \in GapState, NEW t \in LcovLines
  PROVE  GapStep(s, t) \in GapState /\ GapDoes(s, t, GapStep(s, t))
<1>1. PICK u : u = GapLine(s, t, Root, Directory)
  OBVIOUS
<1>2. SUFFICES u \in GapState /\ GapDoes(s, t, u)
  BY <1>1 DEF GapStep
<1>3. IsLine(t)
  BY LinesAreLines
<1>4. /\ ClosedGaps(s) \in Maps(Seq(STRING), GapFiles)
      /\ CloseGaps(s) = [gaps |-> ClosedGaps(s), current |-> Null]
  BY GapsClosed
<1>5. /\ s = [gaps |-> s.gaps, current |-> s.current]
      /\ s.gaps \in Maps(Seq(STRING), GapFiles) /\ s.current \in {Null} \cup GapRecord
  BY DEF GapState
<1>6. CASE t.k = "SF"
  <2> DEFINE path == NormalizeCoverageFilePath(t.path, Root, Directory)
  <2>1. path \in Seq(STRING)
    BY <1>3, <1>6, PathTyped DEF IsLine
  <2>2. u = [CloseGaps(s) EXCEPT !.current = NoGaps(path)]
    BY <1>1, <1>6 DEF GapLine
  <2>3. NoGaps(path) \in GapRecord /\ NoGaps(path) # Null
    BY <2>1, NoGapsTyped, NullIsApart
  <2>4. NoGaps(path).path = path /\ NoGaps(path).missed = {}
    BY DEF NoGaps
  <2> HIDE DEF path
  <2>5. u = [gaps |-> ClosedGaps(s), current |-> NoGaps(path)]
    BY <1>4, <2>2
  <2>6. u \in GapState
    BY <1>4, <2>3, <2>5 DEF GapState
  <2> QED BY <1>6, <2>3, <2>4, <2>5, <2>6 DEF GapDoes, path
<1>7. CASE t.k = "end"
  <2>1. u = CloseGaps(s)
    BY <1>1, <1>7 DEF GapLine
  <2>2. u \in GapState
    BY <1>4, <2>1 DEF GapState
  <2> QED BY <1>4, <1>7, <2>1, <2>2 DEF GapDoes
<1>8. CASE t.k \notin {"SF", "end"} /\ s.current = Null
  <2>1. u = s
    BY <1>1, <1>8 DEF GapLine
  <2> QED BY <1>8, <2>1 DEF GapDoes
<1>9. CASE t.k \notin {"SF", "end"} /\ s.current # Null
  <2> DEFINE c == s.current
             at == <<t.n, t.id>>
             old == IF at \in DOMAIN c.branches THEN c.branches[at] ELSE [total |-> 0, uncovered |-> 0]
             missed == IF t.n # 0 /\ ~t.hit THEN c.missed \cup {t.n} ELSE c.missed
             declared == Put(c.declared, t.id, t.n)
             ran == IF t.hit THEN c.ran \cup {t.id} ELSE c.ran \ {t.id}
             new == [total |-> old.total + 1, uncovered |-> old.uncovered + IF t.hit THEN 0 ELSE 1]
             branches == Put(c.branches, at, new)
             Is(r) == u = [gaps |-> s.gaps, current |-> r]
             Fits(r) == r \in GapRecord /\ r.path = c.path /\ r.missed = Missed(c, t)
  <2>1. /\ c.path \in Seq(STRING) /\ c.missed \in SUBSET Nat /\ c.declared \in Maps(Ids, Nat)
        /\ c.ran \in SUBSET Ids /\ c.branches \in Maps(Branches, [total : Nat, uncovered : Nat])
    BY <1>5, <1>9 DEF GapRecord
  <2>2. t.n \in Nat /\ t.id \in Ids /\ at \in Branches
    BY <1>3 DEF IsLine, Ids, Branches
  <2>3. ASSUME t.k = "DA" PROVE \E r : Is(r) /\ Fits(r)
    <3> DEFINE r == [path |-> c.path, missed |-> missed, declared |-> c.declared, ran |-> c.ran, branches |-> c.branches]
    <3>1. u = [s EXCEPT !.current["missed"] = missed]
      BY <1>1, <1>9, <2>3 DEF GapLine
    <3>2. missed \in SUBSET Nat /\ missed = Missed(c, t)
      BY <2>1, <2>2, <2>3 DEF Missed
    <3> HIDE DEF missed, c
    <3>3. Is(r)
      BY <1>9, <3>1, NowIs DEF c
    <3>4. Fits(r)
      BY <2>1, <3>2 DEF GapRecord
    <3> QED BY <3>3, <3>4
  <2>4. ASSUME t.k = "FN" PROVE \E r : Is(r) /\ Fits(r)
    <3> DEFINE r == [path |-> c.path, missed |-> c.missed, declared |-> declared, ran |-> c.ran, branches |-> c.branches]
    <3>1. u = [s EXCEPT !.current["declared"] = declared]
      BY <1>1, <1>9, <2>4 DEF GapLine
    <3>2. c.missed = Missed(c, t)
      BY <2>4 DEF Missed
    <3>5. declared \in Maps(Ids, Nat)
      <4> HIDE DEF c
      <4> QED BY <2>1, <2>2, PutTyped
    <3> HIDE DEF declared, c
    <3>3. Is(r)
      BY <1>9, <3>1, NowIs DEF c
    <3>4. Fits(r)
      BY <2>1, <3>2, <3>5 DEF GapRecord
    <3> QED BY <3>3, <3>4
  <2>5. ASSUME t.k = "FNDA" PROVE \E r : Is(r) /\ Fits(r)
    <3> DEFINE r == [path |-> c.path, missed |-> c.missed, declared |-> c.declared, ran |-> ran, branches |-> c.branches]
    <3>1. u = [s EXCEPT !.current["ran"] = ran]
      BY <1>1, <1>9, <2>5 DEF GapLine
    <3>2. c.missed = Missed(c, t)
      BY <2>5 DEF Missed
    <3>5. ran \in SUBSET Ids
      BY <2>1, <2>2
    <3> HIDE DEF ran, c
    <3>3. Is(r)
      BY <1>9, <3>1, NowIs DEF c
    <3>4. Fits(r)
      BY <2>1, <3>2, <3>5 DEF GapRecord
    <3> QED BY <3>3, <3>4
  <2>6. ASSUME t.k = "BRDA" PROVE \E r : Is(r) /\ Fits(r)
    <3> DEFINE r == [path |-> c.path, missed |-> c.missed, declared |-> c.declared, ran |-> c.ran, branches |-> branches]
    <3>1. u = [s EXCEPT !.current["branches"] = branches]
      BY <1>1, <1>9, <2>6 DEF GapLine
    <3>2. c.missed = Missed(c, t)
      BY <2>6 DEF Missed
    <3>5. branches \in Maps(Branches, [total : Nat, uncovered : Nat])
      <4>1. old \in [total : Nat, uncovered : Nat]
        <5>1. \A b \in DOMAIN c.branches : c.branches[b] \in [total : Nat, uncovered : Nat]
          <6> HIDE DEF c, at
          <6>1. PICK I \in SUBSET Branches : c.branches \in [I -> [total : Nat, uncovered : Nat]]
            BY <2>1 DEF Maps
          <6> QED BY <6>1
        <5> HIDE DEF c, at
        <5> QED BY <5>1
      <4>2. new \in [total : Nat, uncovered : Nat]
        <5> HIDE DEF old
        <5> QED BY <4>1
      <4> HIDE DEF c, at, new
      <4> QED BY <2>1, <2>2, <4>2, PutTyped
    <3> HIDE DEF branches, c
    <3>3. Is(r)
      BY <1>9, <3>1, NowIs DEF c
    <3>4. Fits(r)
      BY <2>1, <3>2, <3>5 DEF GapRecord
    <3> QED BY <3>3, <3>4
  <2>7. PICK r : Is(r) /\ Fits(r)
    BY <1>3, <1>9, <2>3, <2>4, <2>5, <2>6 DEF IsLine
  <2>8. u \in GapState /\ u.gaps = s.gaps /\ u.current = r /\ r # Null
    <3>1. r # Null /\ r \in GapRecord
      BY <2>7, NullIsApart
    <3> HIDE DEF Fits
    <3> QED BY <1>5, <2>7, <3>1 DEF GapState
  <2> QED BY <1>9, <2>7, <2>8 DEF GapDoes
<1> QED BY <1>6, <1>7, <1>8, <1>9

\* The loop of parseLcovDetails goes from one line to the next.
LEMMA GapUnfold ==
  ASSUME NEW n \in Nat, NEW text \in [1 .. n -> LcovLines]
  PROVE  \E it :
           /\ FoldLeft(GapStep, GapStart, text) = it[1 .. n]
           /\ it[1 .. 0] = GapStart
           /\ \A k \in 1 .. n : it[1 .. k] = GapStep(it[1 .. k - 1], text[k])
<1> DEFINE S == 1 .. n
           F == [p \in GapState \X LcovLines |-> GapStep(p[1], p[2])]
           Unfold(g, s) == IF s = {} THEN GapStart ELSE GapStep(g[s \ {Max(s)}], text[Max(s)])
           it == CHOOSE g : g = [s \in SUBSET S |-> Unfold(g, s)]
<1>1. FoldLeft(GapStep, GapStart, text) = it[S]
  <2>1. DOMAIN text = S
    OBVIOUS
  <2> QED BY <2>1 DEF FoldLeft, MapThenFoldSet
<1>2. GapStart \in GapState
  <2>1. <<>> \in [{} -> GapFiles]
    OBVIOUS
  <2> QED BY <2>1 DEF GapStart, GapState, Maps
<1>3. F \in [GapState \X LcovLines -> GapState] /\ \A v \in GapState, x \in LcovLines : F[<<v, x>>] = GapStep(v, x)
  <2>1. \A v \in GapState, x \in LcovLines : GapStep(v, x) \in GapState
    BY GapStepIs
  <2> QED BY <2>1
<1> HIDE DEF F
<1>10. PICK g : FoldsText(g, n, GapState, GapStart, text, F)
  BY <1>2, <1>3, TypedFold
<1>4. /\ g \in [SUBSET S -> GapState] /\ g[{}] = GapStart
      /\ \A s \in SUBSET S : s # {} =>
           /\ Max(s) \in s /\ g[s \ {Max(s)}] \in GapState
           /\ g[s] = F[<<g[s \ {Max(s)}], text[Max(s)]>>]
  BY <1>10 DEF FoldsText
<1>5. g = [s \in SUBSET S |-> Unfold(g, s)]
  <2>1. ASSUME NEW s \in SUBSET S PROVE g[s] = Unfold(g, s)
    <3>1. CASE s = {}
      BY <1>4, <3>1
    <3>2. CASE s # {}
      <4>1. Max(s) \in s /\ text[Max(s)] \in LcovLines
        BY <1>4, <3>2
      <4> HIDE DEF S
      <4> QED BY <1>3, <1>4, <3>2, <4>1
    <3> QED BY <3>1, <3>2
  <2> HIDE DEF S, Unfold
  <2> QED BY <1>4, <2>1
<1>6. it = [s \in SUBSET S |-> Unfold(it, s)]
  <2> HIDE DEF S, Unfold
  <2> QED BY <1>5
<1> HIDE DEF it
<1>7. it[1 .. 0] = GapStart
  <2>1. 1 .. 0 = {} /\ {} \in SUBSET S
    OBVIOUS
  <2>2. it[{}] = Unfold(it, {})
    BY <1>6, <2>1
  <2> QED BY <2>1, <2>2
<1>8. ASSUME NEW k \in 1 .. n PROVE it[1 .. k] = GapStep(it[1 .. k - 1], text[k])
  <2>1. 1 .. k \in SUBSET S /\ 1 .. k # {} /\ (1 .. k) \ {k} = 1 .. k - 1 /\ Max(1 .. k) = k
    BY UpTo
  <2>2. it[1 .. k] = Unfold(it, 1 .. k)
    BY <1>6, <2>1
  <2> QED BY <2>1, <2>2
<1> QED BY <1>1, <1>7, <1>8

\* No more lines were missed than the count says.
Fewer(missed, count) ==
  missed \in SUBSET (Nat \ {0}) /\ IsFiniteSet(missed) /\ Cardinality(missed) <= count.total - count.covered

\* The gaps of a path are those of a file of it.
GapsHeld(files, gaps) ==
  \A p \in DOMAIN gaps :
    \E i \in 1 .. Len(files) :
      /\ files[i].path = p
      /\ Cardinality(Spanned(gaps[p].lines)) <= files[i].metrics["lines"].total - files[i].metrics["lines"].covered

\* The two readers of a report, after the same lines of it: of the counts and
\* of the gaps.
Pair(a, b) ==
  /\ a.current = Null <=> b.current = Null
  /\ a.current # Null => b.current.path = a.current.path /\ Fewer(b.current.missed, a.current.counts["lines"])
  /\ GapsHeld(a.files, b.gaps)

LEMMA PairCloses ==
  ASSUME NEW a \in LcovState, NEW b \in GapState, Pair(a, b)
  PROVE  GapsHeld(ClosedFiles(a), ClosedGaps(b))
<1>1. /\ a.files \in Seq(LcovFile) /\ a.current \in {Null} \cup LcovRecord
      /\ b.gaps \in Maps(Seq(STRING), GapFiles) /\ b.current \in {Null} \cup GapRecord
  BY DEF LcovState, GapState
<1>2. CASE a.current = Null \/ a.current.path = <<>>
  <2>1. ClosedFiles(a) = a.files /\ ClosedGaps(b) = b.gaps
    BY <1>2 DEF Pair, ClosedFiles, ClosedGaps
  <2> QED BY <2>1 DEF Pair
<1>3. CASE ~(a.current = Null \/ a.current.path = <<>>)
  <2> DEFINE path == a.current.path
             file == [path |-> path, metrics |-> LcovMetrics(a.current.counts)]
             files == ClosedFiles(a)
             gaps == ClosedGaps(b)
             n == Len(a.files)
             entry == GapsOf(b.current)
             c == a.current.counts["lines"]
  <2>1. files = Append(a.files, file)
    BY <1>3 DEF ClosedFiles
  <2>2. /\ b.current # Null /\ b.current.path = path /\ path # <<>> /\ path \in Seq(STRING)
        /\ a.current.counts \in [Metrics -> Counts] /\ b.current \in GapRecord
        /\ Fewer(b.current.missed, c) /\ GapsHeld(a.files, b.gaps)
    BY <1>1, <1>3 DEF Pair, LcovRecord
  <2>3. gaps = Put(b.gaps, path, entry)
    BY <2>2 DEF ClosedGaps
  <2>4. file.metrics["lines"].total = c.total /\ file.metrics["lines"].covered = c.covered
    <3>1. "lines" \in Metrics \ {"statements"}
      BY ReportersAssumption
    <3> QED BY <2>2, <3>1, LcovMetricsTyped
  <2>5. entry \in GapFiles /\ entry.lines = Cap(ToLineRanges(b.current.missed))
    BY <2>2 DEF GapFiles, GapsOf
  <2>6. Cardinality(Spanned(entry.lines)) <= c.total - c.covered
    <3> DEFINE missed == b.current.missed
    <3>1. missed \in SUBSET (Nat \ {0}) /\ IsFiniteSet(missed) /\ Cardinality(missed) <= c.total - c.covered
      BY <2>2 DEF Fewer
    <3>2. DetailLimit \in Nat
      BY ReportersAssumption
    <3>3. entry.lines = Cap(ToLineRanges(missed))
      BY <2>5
    <3>4. c.total \in Nat /\ c.covered \in Nat
      <4>1. "lines" \in Metrics
        BY ReportersAssumption
      <4> QED BY <2>2, <4>1, CountsTyped DEF Parts
    <3> HIDE DEF entry, missed, c
    <3>5. /\ Cardinality(Spanned(entry.lines)) \in Nat /\ Cardinality(missed) \in Nat
          /\ Cardinality(Spanned(entry.lines)) <= Cardinality(missed)
      BY <3>1, <3>2, <3>3, LineGaps
    <3> QED BY <3>1, <3>4, <3>5
  <2>7. /\ files \in Seq(LcovFile) /\ Len(files) = n + 1 /\ n \in Nat /\ files[n + 1] = file
        /\ \A i \in 1 .. n : files[i] = a.files[i]
    <3>1. files \in Seq(LcovFile)
      BY ClosedTyped
    <3> HIDE DEF file, files
    <3> QED BY <1>1, <2>1, <3>1
  <2>8. file.path = path
    OBVIOUS
  <2> HIDE DEF files, gaps, entry, file, c
  <2>9. /\ DOMAIN gaps = DOMAIN b.gaps \cup {path} /\ gaps[path] = entry
        /\ \A x \in DOMAIN b.gaps : x # path => gaps[x] = b.gaps[x]
    <3> HIDE DEF path
    <3> QED BY <2>3 DEF Put
  <2>10. ASSUME NEW p \in DOMAIN gaps
         PROVE  \E i \in 1 .. Len(files) :
                  /\ files[i].path = p
                  /\ Cardinality(Spanned(gaps[p].lines)) <= files[i].metrics["lines"].total - files[i].metrics["lines"].covered
    <3>1. CASE p = path
      <4>1. n + 1 \in 1 .. Len(files) /\ files[n + 1].path = p
        BY <2>7, <2>8, <3>1
      <4>2. Cardinality(Spanned(gaps[p].lines)) <= files[n + 1].metrics["lines"].total - files[n + 1].metrics["lines"].covered
        BY <2>4, <2>6, <2>7, <2>9, <3>1
      <4> QED BY <4>1, <4>2
    <3>2. CASE p # path
      <4>1. p \in DOMAIN b.gaps /\ gaps[p] = b.gaps[p]
        BY <2>9, <3>2
      <4>2. PICK i \in 1 .. n :
              /\ a.files[i].path = p
              /\ Cardinality(Spanned(b.gaps[p].lines)) <= a.files[i].metrics["lines"].total - a.files[i].metrics["lines"].covered
        BY <2>2, <4>1 DEF GapsHeld
      <4>3. i \in 1 .. Len(files) /\ files[i] = a.files[i]
        BY <2>7
      <4> QED BY <4>1, <4>2, <4>3
    <3> QED BY <3>1, <3>2
  <2> QED BY <2>10 DEF GapsHeld, files, gaps
<1> QED BY <1>2, <1>3

\* A line that did not run is one more of the total and not of what ran.
LEMMA FewerKept ==
  ASSUME NEW c \in GapRecord, NEW counts \in [Metrics -> Counts], Fewer(c.missed, counts["lines"]),
         NEW t, IsLine(t), t.k \in Counts3
  PROVE  Fewer(Missed(c, t), Count(counts, t)["lines"])
<1> DEFINE new == Count(counts, t)["lines"]
           old == counts["lines"]
<1>1. /\ new.covered = old.covered + Bump(t, "lines", "covered") /\ new.total = old.total + Bump(t, "lines", "total")
      /\ old.covered \in Nat /\ old.total \in Nat
  <2>1. "lines" \in Metrics
    BY ReportersAssumption
  <2> QED BY <2>1, CountAdds, CountsTyped DEF Parts
<1>2. /\ c.missed \in SUBSET (Nat \ {0}) /\ IsFiniteSet(c.missed) /\ Cardinality(c.missed) <= old.total - old.covered
      /\ Cardinality(c.missed) \in Nat
  BY FS_CardinalityType DEF Fewer
<1>3. t.n \in Nat /\ t.hit \in BOOLEAN
  BY DEF IsLine
<1> HIDE DEF new, old
<1>4. CASE t.k = "DA" /\ t.n # 0 /\ ~t.hit
  <2>1. Missed(c, t) = c.missed \cup {t.n}
    BY <1>4 DEF Missed
  <2>2. Bump(t, "lines", "covered") = 0 /\ Bump(t, "lines", "total") = 1
    BY <1>4 DEF Bump, Counter
  <2>3. IsFiniteSet(c.missed \cup {t.n}) /\ Cardinality(c.missed \cup {t.n}) <= Cardinality(c.missed) + 1
    <3>1. CASE t.n \in c.missed
      <4>1. c.missed \cup {t.n} = c.missed
        BY <3>1
      <4>2. Cardinality(c.missed) <= Cardinality(c.missed) + 1
        BY <1>2
      <4> QED BY <1>2, <4>1, <4>2
    <3>2. CASE t.n \notin c.missed
      <4>1. IsFiniteSet(c.missed \cup {t.n}) /\ Cardinality(c.missed \cup {t.n}) = Cardinality(c.missed) + 1
        BY <1>2, <3>2, FS_AddElement
      <4> QED BY <1>2, <4>1
    <3> QED BY <3>1, <3>2
  <2>4. Cardinality(c.missed \cup {t.n}) \in Nat
    BY <2>3, FS_CardinalityType
  <2>5. Cardinality(c.missed \cup {t.n}) <= new.total - new.covered
    BY <1>1, <1>2, <2>2, <2>3, <2>4
  <2>6. c.missed \cup {t.n} \in SUBSET (Nat \ {0})
    BY <1>2, <1>3, <1>4
  <2> QED BY <2>1, <2>3, <2>5, <2>6 DEF Fewer, new
<1>5. CASE ~(t.k = "DA" /\ t.n # 0 /\ ~t.hit)
  <2>1. Missed(c, t) = c.missed
    BY <1>5 DEF Missed
  <2>2. /\ Bump(t, "lines", "covered") \in Nat /\ Bump(t, "lines", "total") \in Nat
        /\ Bump(t, "lines", "covered") <= Bump(t, "lines", "total")
    BY DEF Bump
  <2>3. Cardinality(c.missed) <= new.total - new.covered
    BY <1>1, <1>2, <2>2
  <2> QED BY <1>2, <2>1, <2>3 DEF Fewer, new
<1> QED BY <1>4, <1>5

LEMMA PairSteps ==
  ASSUME NEW a \in LcovState, NEW b \in GapState, Pair(a, b), NEW t \in LcovLines
  PROVE  Pair(LcovStep(a, t), GapStep(b, t))
<1>1. PICK u : u = LcovStep(a, t)
  OBVIOUS
<1>2. PICK v : v = GapStep(b, t)
  OBVIOUS
<1>3. IsLine(t)
  BY LinesAreLines
<1>4. LcovDoes(a, t, u)
  BY <1>1, <1>3, LcovStepIs
<1>5. GapDoes(b, t, v)
  BY <1>2, GapStepIs
<1>6. GapsHeld(ClosedFiles(a), ClosedGaps(b))
  BY PairCloses
<1>7. CASE t.k = "SF"
  <2>1. /\ u.files = ClosedFiles(a) /\ v.gaps = ClosedGaps(b) /\ v.current # Null /\ v.current.missed = {}
        /\ u.current = [path |-> NormalizeCoverageFilePath(t.path, Root, Directory), counts |-> Zero]
        /\ v.current.path = NormalizeCoverageFilePath(t.path, Root, Directory)
    BY <1>4, <1>5, <1>7 DEF LcovDoes, GapDoes
  <2>2. u.current # Null
    <3>1. NormalizeCoverageFilePath(t.path, Root, Directory) \in Seq(STRING)
      BY <1>3, <1>7, PathTyped DEF IsLine
    <3>2. u.current \in LcovRecord
      BY <2>1, <3>1, ZeroTyped DEF LcovRecord
    <3> QED BY <3>2, NullIsApart
  <2>3. Fewer({}, Zero["lines"])
    <3>1. Zero["lines"].total = 0 /\ Zero["lines"].covered = 0
      BY ZeroTyped, ReportersAssumption DEF ZeroIs
    <3>2. IsFiniteSet({}) /\ Cardinality({}) = 0
      BY FS_EmptySet
    <3> QED BY <3>1, <3>2 DEF Fewer
  <2>4. u.current.path = v.current.path /\ u.current.counts = Zero
    BY <2>1
  <2>5. Pair(u, v)
    BY <1>6, <2>1, <2>2, <2>3, <2>4 DEF Pair
  <2> QED BY <1>1, <1>2, <2>5
<1>8. CASE t.k = "end"
  <2>1. u.files = ClosedFiles(a) /\ v.gaps = ClosedGaps(b) /\ v.current = Null /\ u.current = Null
    BY <1>4, <1>5, <1>8 DEF LcovDoes, GapDoes
  <2>2. Pair(u, v)
    BY <1>6, <2>1 DEF Pair
  <2> QED BY <1>1, <1>2, <2>2
<1>9. CASE t.k \in Counts3 \cup {"FN"}
  <2>1. /\ v.gaps = b.gaps
        /\ b.current = Null => v.current = Null
        /\ b.current # Null => /\ v.current # Null /\ v.current.path = b.current.path
                               /\ v.current.missed = Missed(b.current, t)
    BY <1>5, <1>9 DEF GapDoes, Counts3
  <2>2. /\ u.files = a.files
        /\ a.current = Null => u.current = Null
    <3>1. CASE t.k = "FN"
      BY <1>4, <3>1 DEF LcovDoes
    <3>2. CASE t.k \in Counts3
      BY <1>4, <3>2 DEF LcovDoes
    <3> QED BY <1>9, <3>1, <3>2
  <2>3. ASSUME a.current # Null
        PROVE  /\ u.current # Null /\ u.current.path = a.current.path
               /\ Fewer(v.current.missed, u.current.counts["lines"])
    <3>1. a.current \in LcovRecord /\ b.current # Null /\ b.current \in GapRecord
      BY <2>3 DEF LcovState, GapState, Pair
    <3>2. a.current.counts \in [Metrics -> Counts] /\ a.current.path \in Seq(STRING)
      BY <3>1 DEF LcovRecord
    <3>3. Fewer(b.current.missed, a.current.counts["lines"])
      BY <2>3 DEF Pair
    <3>4. CASE t.k = "FN"
      <4>1. u = a
        BY <1>4, <3>4 DEF LcovDoes
      <4>2. v.current.missed = b.current.missed
        BY <2>1, <3>1, <3>4 DEF Missed
      <4> QED BY <2>3, <3>3, <4>1, <4>2
    <3>5. CASE t.k \in Counts3
      <4>1. u.current = [path |-> a.current.path, counts |-> Count(a.current.counts, t)]
        BY <1>4, <2>3, <3>5 DEF LcovDoes
      <4>2. Count(a.current.counts, t) \in [Metrics -> Counts]
        BY <1>3, <3>2, <3>5, CountAdds
      <4>3. u.current \in LcovRecord
        BY <3>2, <4>1, <4>2 DEF LcovRecord
      <4>4. Fewer(Missed(b.current, t), Count(a.current.counts, t)["lines"])
        BY <1>3, <3>1, <3>2, <3>3, <3>5, FewerKept
      <4> QED BY <2>1, <3>1, <4>1, <4>3, <4>4, NullIsApart
    <3> QED BY <1>9, <3>4, <3>5
  <2>4. Pair(u, v)
    BY <2>1, <2>2, <2>3 DEF Pair
  <2> QED BY <1>1, <1>2, <2>4
<1> QED BY <1>3, <1>7, <1>8, <1>9 DEF IsLine, Counts3

\* The state after the whole report.
GapEnd(text) == FoldLeft(GapStep, GapStart, text)

LEMMA PairEnds ==
  ASSUME NEW text \in Seq(LcovLines)
  PROVE  LcovEnd(text) \in LcovState /\ GapEnd(text) \in GapState /\ Pair(LcovEnd(text), GapEnd(text))
<1> DEFINE n == Len(text)
<1>1. n \in Nat /\ text \in [1 .. n -> LcovLines]
  OBVIOUS
<1> HIDE DEF n
<1>2. PICK it : /\ FoldLeft(LcovStep, LcovStart, text) = it[1 .. n]
                /\ it[1 .. 0] = LcovStart
                /\ \A k \in 1 .. n : it[1 .. k] = LcovStep(it[1 .. k - 1], text[k])
  BY <1>1, LcovUnfold
<1>3. PICK gt : /\ FoldLeft(GapStep, GapStart, text) = gt[1 .. n]
                /\ gt[1 .. 0] = GapStart
                /\ \A k \in 1 .. n : gt[1 .. k] = GapStep(gt[1 .. k - 1], text[k])
  BY <1>1, GapUnfold
<1> DEFINE U == {k \in Nat : k <= n => it[1 .. k] \in LcovState /\ gt[1 .. k] \in GapState /\ Pair(it[1 .. k], gt[1 .. k])}
<1>4. 0 \in U
  <2>1. GapStart \in GapState
    <3>1. <<>> \in [{} -> GapFiles]
      OBVIOUS
    <3> QED BY <3>1 DEF GapStart, GapState, Maps
  <2>2. Pair(LcovStart, GapStart)
    BY DEF Pair, LcovStart, GapStart, GapsHeld
  <2> QED BY <1>2, <1>3, <2>1, <2>2, StartAdds
<1>5. ASSUME NEW k \in Nat, k \in U PROVE k + 1 \in U
  <2>1. SUFFICES ASSUME k + 1 <= n
                 PROVE  it[1 .. k + 1] \in LcovState /\ gt[1 .. k + 1] \in GapState /\ Pair(it[1 .. k + 1], gt[1 .. k + 1])
    OBVIOUS
  <2>2. k + 1 \in 1 .. n /\ (k + 1) - 1 = k /\ k <= n
    BY <1>1, <2>1
  <2>3. /\ it[1 .. k + 1] = LcovStep(it[1 .. k], text[k + 1]) /\ text[k + 1] \in LcovLines
        /\ gt[1 .. k + 1] = GapStep(gt[1 .. k], text[k + 1])
    BY <1>1, <1>2, <1>3, <2>2
  <2>4. IsLine(text[k + 1])
    BY <2>3, LinesAreLines
  <2>5. it[1 .. k] \in LcovState /\ gt[1 .. k] \in GapState /\ Pair(it[1 .. k], gt[1 .. k])
    BY <1>5, <2>2
  <2>6. it[1 .. k + 1] \in LcovState
    BY <2>3, <2>4, <2>5, LcovStepIs
  <2>7. gt[1 .. k + 1] \in GapState
    BY <2>3, <2>5, GapStepIs
  <2>8. Pair(it[1 .. k + 1], gt[1 .. k + 1])
    BY <2>3, <2>5, PairSteps
  <2> QED BY <2>6, <2>7, <2>8
<1>6. n \in U
  <2> HIDE DEF U
  <2> QED BY <1>1, <1>4, <1>5, NatInduct
<1>7. n <= n
  BY <1>1
<1> QED BY <1>2, <1>3, <1>6, <1>7 DEF LcovEnd, GapEnd

\* The gaps of an LCOV report are no more than its counts say.
LEMMA LcovGaps ==
  ASSUME NEW text \in Seq(LcovLines), NEW report, report = ParseLcovReport(text, Root, Directory), report # Null,
         NEW p \in DOMAIN ParseLcovDetails(text, Root, Directory)
  PROVE  \E f \in Range(report.files) :
           /\ f.path = p
           /\ Cardinality(Spanned(ParseLcovDetails(text, Root, Directory)[p].lines)) <=
                f.metrics["lines"].total - f.metrics["lines"].covered
<1> DEFINE a == LcovEnd(text)
           b == GapEnd(text)
           details == ParseLcovDetails(text, Root, Directory)
<1>1. a \in LcovState /\ b \in GapState /\ Pair(a, b)
  BY PairEnds
<1>2. details = CloseGaps(b).gaps
  BY DEF ParseLcovDetails, GapEnd, GapStep, GapStart
<1>3. report.files = ClosedFiles(a)
  BY <1>1, LcovReportIs
<1> HIDE DEF a, b
<1>4. details = ClosedGaps(b)
  <2>1. CloseGaps(b) = [gaps |-> ClosedGaps(b), current |-> Null]
    BY <1>1, GapsClosed
  <2> QED BY <1>2, <2>1
<1> HIDE DEF details
<1>5. GapsHeld(report.files, details)
  BY <1>1, <1>3, <1>4, PairCloses
<1>6. PICK i \in 1 .. Len(report.files) :
        /\ report.files[i].path = p
        /\ Cardinality(Spanned(details[p].lines)) <= report.files[i].metrics["lines"].total - report.files[i].metrics["lines"].covered
  BY <1>5 DEF GapsHeld, details
<1>7. report.files[i] \in Range(report.files)
  <2>1. report.files \in Seq(LcovFile)
    BY <1>1, <1>3, ClosedTyped
  <2> QED BY <2>1 DEF Range
<1> QED BY <1>6, <1>7 DEF details

-----------------------------------------------------------------------------
(* Names of reports                                                        *)

FileNames == {Summary, Detailed, Lcov, Results}

\* What a path is made of; the provers take no literal for a string.
Segments == STRING \cup FileNames \cup {"coverage"}

LEMMA PlacesTyped ==
  /\ Directory \in Seq(Segments) /\ Places \subseteq Seq(Segments)
  /\ FileNames \subseteq Segments /\ "coverage" \in Segments
  /\ \A p \in Seq(STRING) : p \in Seq(Segments)
<1>1. FileNames \subseteq Segments /\ "coverage" \in Segments /\ STRING \subseteq Segments
  BY DEF Segments
<1>2. \A p \in Seq(STRING) : p \in Seq(Segments)
  <2> TAKE p \in Seq(STRING)
  <2> QED BY <1>1, SeqMonotonic
<1> QED BY <1>1, <1>2, AppReportsAssumption

LEMMA NamesDiffer ==
  /\ Summary # Detailed /\ Summary # Lcov /\ Summary # Results
  /\ Detailed # Lcov /\ Detailed # Results /\ Lcov # Results
  BY DEF FileNames, Summary, Detailed, Lcov, Results

LEMMA EndOf ==
  ASSUME NEW a \in Seq(Segments), NEW b \in Seq(Segments) \ {<<>>}
  PROVE  a \o b \in Seq(Segments) \ {<<>>} /\ Last(a \o b) = Last(b)
<1>1. Len(a) \in Nat /\ Len(b) \in Nat /\ Len(b) > 0
  OBVIOUS
<1>2. a \o b \in Seq(Segments) /\ Len(a \o b) = Len(a) + Len(b) /\ Len(a \o b) > 0
  BY <1>1
<1>3. (a \o b)[Len(a) + Len(b)] = b[Len(b)]
  BY <1>1
<1> QED BY <1>2, <1>3 DEF Last

LEMMA InDirectory ==
  ASSUME NEW dir \in Seq(Segments), NEW name \in FileNames
  PROVE  /\ Append(dir, name) \in Seq(Segments) \ {<<>>} /\ Last(Append(dir, name)) = name
         /\ \A other : Beside(Append(dir, name), other) = Append(dir, other)
         /\ dir \o <<name>> = Append(dir, name)
<1>1. name \in Segments /\ dir \in Seq(Segments)
  BY PlacesTyped
<1> DEFINE p == Append(dir, name)
<1>2. p \in Seq(Segments) /\ Len(p) = Len(dir) + 1 /\ p[Len(dir) + 1] = name /\ Len(dir) \in Nat
  BY <1>1
<1>3. SubSeq(p, 1, Len(dir)) = dir
  BY <1>1
<1>4. Front(p) = dir
  BY <1>2, <1>3 DEF Front
<1>5. dir \o <<name>> = p
  BY <1>1, AppendIsConcat
<1> HIDE DEF p
<1>6. p # <<>> /\ Last(p) = name
  BY <1>2 DEF Last
<1>7. \A other : Beside(p, other) = Append(dir, other)
  BY <1>4 DEF Beside
<1> QED BY <1>2, <1>5, <1>6, <1>7 DEF p

\* A path of a summary.
SummaryPath(p) == p \in Seq(Segments) \ {<<>>} /\ Last(p) = Summary

\* The report of a detected app is a summary.
LEMMA DetectedPath ==
  ASSUME NEW m \in Manifests
  PROVE  SummaryPath(Detected(m).coveragePath)
<1> DEFINE manifests == [w \in {Directory} |-> m]
           all == DetectPnpmWorkspaceApps(<<Directory>>, manifests, {}, {})
           conventional == Directory \o <<"coverage", Summary>>
           configured == ConfiguredJestCoveragePath(m, Directory)
           apps == {d \in Range(<<Directory>>) : d \in Candidates(manifests, {}) \ {} /\ TestCommand(manifests[d]) # Null}
<1>1. DOMAIN manifests = {Directory} /\ manifests[Directory] = m
  OBVIOUS
<1>2. TestCommand(m) # Null /\ (m.jest # Null => m.jest.up \in Nat /\ m.jest.segs \in Seq(Segments))
  <2>1. TestCommand(m) # Null /\ (m.jest # Null => m.jest.up \in Nat /\ m.jest.segs \in Seq(STRING))
    BY ReportersAssumption
  <2> QED BY <2>1, PlacesTyped
<1>3. Directory \in Seq(Segments)
  BY PlacesTyped
<1> HIDE DEF manifests
<1>4. Range(<<Directory>>) = {Directory}
  BY DEF Range
<1>5. Candidates(manifests, {}) = {Directory}
  BY <1>1 DEF Candidates
<1>6. apps = {Directory}
  BY <1>1, <1>2, <1>4, <1>5
<1>7. all.apps[Directory].coveragePath =
        IF ConfiguredJestCoveragePath(manifests[Directory], Directory) = Null THEN conventional
        ELSE ConfiguredJestCoveragePath(manifests[Directory], Directory)
  BY <1>6 DEF DetectPnpmWorkspaceApps
<1> HIDE DEF all
<1>8. all.apps[Directory].coveragePath = IF configured = Null THEN conventional ELSE configured
  BY <1>1, <1>7
<1>9. "coverage" \in Segments /\ Summary \in Segments
  BY PlacesTyped DEF FileNames
<1>10. SummaryPath(conventional)
  <2>1. <<"coverage", Summary>> \in Seq(Segments) \ {<<>>} /\ Last(<<"coverage", Summary>>) = Summary
    BY <1>9 DEF Last
  <2> QED BY <1>3, <2>1, EndOf DEF SummaryPath
<1>11. configured # Null => SummaryPath(configured)
  <2> HAVE configured # Null
  <2>1. m.jest # Null /\ ~(m.jest.up > Len(Directory))
    BY DEF ConfiguredJestCoveragePath
  <2> DEFINE a == SubSeq(Directory, 1, Len(Directory) - m.jest.up)
  <2>2. configured = a \o m.jest.segs \o <<Summary>>
    BY <2>1 DEF ConfiguredJestCoveragePath
  <2>3. m.jest.up \in Nat /\ m.jest.segs \in Seq(Segments)
    BY <1>2, <2>1
  <2>4. a \in Seq(Segments)
    BY <1>3, <2>1, <2>3
  <2> HIDE DEF a, configured
  <2>5. a \o m.jest.segs \in Seq(Segments)
    BY <2>3, <2>4
  <2>6. <<Summary>> \in Seq(Segments) \ {<<>>} /\ Last(<<Summary>>) = Summary
    BY <1>9 DEF Last
  <2> QED BY <2>2, <2>5, <2>6, EndOf DEF SummaryPath
<1> HIDE DEF conventional, configured
<1>12. Detected(m).coveragePath = all.apps[Directory].coveragePath
  BY DEF Detected, all, manifests
<1> QED BY <1>8, <1>10, <1>11, <1>12

\* A candidate of a detected app is named for its format.
Named(c) ==
  c.path \in Seq(Segments) \ {<<>>} /\ c.lcov \in BOOLEAN /\ Last(c.path) = IF c.lcov THEN Lcov ELSE Summary

LEMMA CandidateNames ==
  ASSUME NEW path, SummaryPath(path), NEW c \in Range(CoverageCandidates(Directory, path))
  PROVE  Named(c)
<1> DEFINE T == {x \in [path : Seq(Segments) \ {<<>>}, lcov : BOOLEAN] : Named(x)}
           json(p) == [path |-> p, lcov |-> FALSE]
           lcov(p) == [path |-> p, lcov |-> TRUE]
           one == IF path = Null THEN <<>> ELSE <<json(path), lcov(Beside(path, Lcov))>>
           two == <<json(Directory \o <<"coverage", Summary>>), json(Directory \o <<Summary>>),
                    lcov(Directory \o <<"coverage", Lcov>>), lcov(Directory \o <<Lcov>>),
                    json(<<"coverage">> \o Directory \o <<Summary>>), lcov(<<"coverage">> \o Directory \o <<Lcov>>)>>
           cs == CoverageCandidates(Directory, path)
<1>1. cs = one \o two
  BY DEF CoverageCandidates
<1>2. Directory \in Seq(Segments) /\ "coverage" \in Segments /\ Summary \in Segments /\ Lcov \in Segments
  BY PlacesTyped DEF FileNames
<1>3. ASSUME NEW p \in Seq(Segments) \ {<<>>}, Last(p) = Summary PROVE json(p) \in T
  BY <1>3 DEF Named
<1>4. ASSUME NEW p \in Seq(Segments) \ {<<>>}, Last(p) = Lcov PROVE lcov(p) \in T
  BY <1>4 DEF Named
<1>5. \A name \in {Summary, Lcov} :
        /\ <<"coverage", name>> \in Seq(Segments) \ {<<>>} /\ Last(<<"coverage", name>>) = name
        /\ <<name>> \in Seq(Segments) \ {<<>>} /\ Last(<<name>>) = name
  BY <1>2 DEF Last
<1>6. <<"coverage">> \o Directory \in Seq(Segments)
  BY <1>2
<1>7. ASSUME NEW name \in {Summary, Lcov}
      PROVE  \A p \in {Directory \o <<"coverage", name>>, Directory \o <<name>>, <<"coverage">> \o Directory \o <<name>>} :
               p \in Seq(Segments) \ {<<>>} /\ Last(p) = name
  <2>1. Directory \o <<"coverage", name>> \in Seq(Segments) \ {<<>>} /\ Last(Directory \o <<"coverage", name>>) = name
    BY <1>2, <1>5, EndOf
  <2>2. Directory \o <<name>> \in Seq(Segments) \ {<<>>} /\ Last(Directory \o <<name>>) = name
    BY <1>2, <1>5, EndOf
  <2>3. /\ <<"coverage">> \o Directory \o <<name>> \in Seq(Segments) \ {<<>>}
        /\ Last(<<"coverage">> \o Directory \o <<name>>) = name
    BY <1>5, <1>6, EndOf
  <2> QED BY <2>1, <2>2, <2>3
<1>8. Beside(path, Lcov) \in Seq(Segments) \ {<<>>} /\ Last(Beside(path, Lcov)) = Lcov
  <2>1. Front(path) \in Seq(Segments)
    <3>1. path \in Seq(Segments) /\ Len(path) > 0 /\ Len(path) \in Nat
      BY DEF SummaryPath
    <3>2. SubSeq(path, 1, Len(path) - 1) \in Seq(Segments)
      BY <3>1
    <3> QED BY <3>2 DEF Front
  <2>2. Lcov \in FileNames
    BY DEF FileNames
  <2> QED BY <2>1, <2>2, InDirectory DEF Beside
<1> HIDE DEF T, json, lcov
<1>9. one \in Seq(T)
  <2>1. json(path) \in T /\ lcov(Beside(path, Lcov)) \in T
    BY <1>3, <1>4, <1>8 DEF SummaryPath
  <2> QED BY <2>1
<1>10. two \in Seq(T)
  <2>1. json(Directory \o <<"coverage", Summary>>) \in T /\ json(Directory \o <<Summary>>) \in T
    BY <1>3, <1>7
  <2>2. lcov(Directory \o <<"coverage", Lcov>>) \in T /\ lcov(Directory \o <<Lcov>>) \in T
    BY <1>4, <1>7
  <2>3. json(<<"coverage">> \o Directory \o <<Summary>>) \in T
    BY <1>3, <1>7
  <2>4. lcov(<<"coverage">> \o Directory \o <<Lcov>>) \in T
    BY <1>4, <1>7
  <2> QED BY <2>1, <2>2, <2>3, <2>4
<1> HIDE DEF one, two
<1>11. cs \in Seq(T)
  BY <1>1, <1>9, <1>10
<1>12. c \in T
  <2> HIDE DEF cs
  <2>1. \A i \in DOMAIN cs : cs[i] \in T
    BY <1>11
  <2>2. c \in Range(cs)
    BY DEF cs
  <2> QED BY <2>1, <2>2 DEF Range
<1> QED BY <1>12 DEF T

-----------------------------------------------------------------------------
(* What the reports hold                                                   *)

\* A report that the command wrote, at p of the disk d.
By(d, p) == p \in DOMAIN d /\ d[p].by = "command"

\* Each of its reports is what the reporter of that name writes: a detailed
\* report is the records of the summary beside it.
Content(d, p) ==
  \/ p = Append(place, Summary) /\ \E records \in Records : d[p].body = SummaryOf(records)
  \/ /\ p = Append(place, Detailed) /\ d[p].body \in Records
     /\ By(d, Append(place, Summary)) /\ d[Append(place, Summary)].body = SummaryOf(d[p].body)
  \/ p = Append(place, Lcov) /\ d[p].body \in Seq(LcovLines)
  \/ p = Directory \o <<Results>>

Contents ==
  /\ place \in Places /\ app \in {Detected(m) : m \in Manifests} \cup ConfiguredApps
  /\ phase = "clear" => \A p \in DOMAIN disk : disk[p].by # "command"
  /\ \A p : By(disk, p) => Content(disk, p)

\* The names keep the reports apart.
LEMMA PathsDiffer ==
  ASSUME place \in Places
  PROVE  /\ Last(Append(place, Summary)) = Summary /\ Last(Append(place, Detailed)) = Detailed
         /\ Last(Append(place, Lcov)) = Lcov /\ Last(Directory \o <<Results>>) = Results
         /\ Append(place, Summary) # Append(place, Detailed) /\ Append(place, Summary) # Append(place, Lcov)
         /\ Append(place, Summary) # Directory \o <<Results>>
         /\ Append(place, Detailed) # Append(place, Lcov) /\ Append(place, Detailed) # Directory \o <<Results>>
         /\ Append(place, Lcov) # Directory \o <<Results>>
         /\ Beside(Append(place, Summary), Detailed) = Append(place, Detailed)
<1>1. place \in Seq(Segments) /\ Directory \in Seq(Segments)
  BY PlacesTyped
<1>2. \A name \in FileNames : Last(Append(place, name)) = name
  BY <1>1, InDirectory
<1>3. Last(Directory \o <<Results>>) = Results
  <2>1. Results \in FileNames
    BY DEF FileNames
  <2> QED BY <1>1, <2>1, InDirectory
<1>4. Beside(Append(place, Summary), Detailed) = Append(place, Detailed)
  <2>1. Summary \in FileNames
    BY DEF FileNames
  <2> QED BY <1>1, <2>1, InDirectory
<1>5. Last(Append(place, Summary)) = Summary /\ Last(Append(place, Detailed)) = Detailed /\ Last(Append(place, Lcov)) = Lcov
  BY <1>2 DEF FileNames
<1> QED BY <1>3, <1>4, <1>5, NamesDiffer

LEMMA InitContents == Init => Contents
<1> SUFFICES ASSUME Init PROVE Contents
  OBVIOUS
<1>1. place \in Places /\ app \in {Detected(m) : m \in Manifests} \cup ConfiguredApps
  BY DEF Init
<1>2. \A p \in DOMAIN disk : disk[p].by # "command"
  BY DEF Init
<1> QED BY <1>1, <1>2 DEF Contents, By

\* A report is written: the others stay what they are, the summary too.
LEMMA WriteContents ==
  ASSUME NEW name, NEW path, NEW body, Write(name, path, body), Contents,
         path = Append(place, Summary) => ~By(disk, path), Content(disk', path)
  PROVE  Contents'
<1>1. phase = "run" /\ phase' = "run" /\ app' = app /\ place' = place
  BY DEF Write, command
<1>2. /\ DOMAIN disk' = DOMAIN disk \cup {path}
      /\ \A p \in DOMAIN disk : p # path => disk'[p] = disk[p]
  BY DEF Write, Put
<1> DEFINE summary == Append(place, Summary)
           detailed == Append(place, Detailed)
<1>3. ASSUME NEW p, By(disk', p) PROVE Content(disk', p)
  <2>1. CASE p = path
    BY <2>1
  <2>2. CASE p # path
    <3>1. By(disk, p) /\ disk'[p] = disk[p]
      BY <1>2, <1>3, <2>2 DEF By
    <3>2. Content(disk, p)
      BY <3>1 DEF Contents
    <3>3. ASSUME By(disk, summary) PROVE By(disk', summary) /\ disk'[summary] = disk[summary]
      <4>1. summary # path
        BY <3>3
      <4> HIDE DEF summary
      <4> QED BY <1>2, <3>3, <4>1 DEF By
    <3>4. CASE p = detailed /\ disk[p].body \in Records /\ By(disk, summary) /\ disk[summary].body = SummaryOf(disk[p].body)
      BY <3>1, <3>3, <3>4 DEF Content
    <3>5. CASE ~(p = detailed /\ disk[p].body \in Records /\ By(disk, summary) /\ disk[summary].body = SummaryOf(disk[p].body))
      BY <3>1, <3>2, <3>5 DEF Content
    <3> QED BY <3>4, <3>5
  <2> QED BY <2>1, <2>2
<1>4. (\A p : By(disk, p) => Content(disk, p))'
  BY <1>1, <1>3 DEF Content, By
<1>5. (phase = "clear" => \A p \in DOMAIN disk : disk[p].by # "command")'
  BY <1>1
<1>6. (place \in Places /\ app \in {Detected(m) : m \in Manifests} \cup ConfiguredApps)'
  BY <1>1 DEF Contents
<1> QED BY <1>4, <1>5, <1>6 DEF Contents

LEMMA SummaryContents ==
  ASSUME NEW records \in Records, WriteSummary(records), Contents
  PROVE  Contents'
<1>1. PICK path : path = Append(place, Summary)
  OBVIOUS
<1>2. PICK body : body = SummaryOf(records)
  OBVIOUS
<1>3. Write(Summary, path, body) /\ ~By(disk, path)
  BY <1>1, <1>2 DEF WriteSummary, Wrote, By
<1>4. disk'[path].body = body
  BY <1>3 DEF Write, Put
<1>5. Content(disk', path)
  BY <1>1, <1>2, <1>4 DEF Content
<1> QED BY <1>3, <1>5, WriteContents

LEMMA DetailedContents ==
  ASSUME WriteDetailed, Contents
  PROVE  Contents'
<1>1. PICK path : path = Append(place, Detailed)
  OBVIOUS
<1>2. PICK summary : summary = Append(place, Summary)
  OBVIOUS
<1>3. PICK body : body = disk[summary].body.records
  OBVIOUS
<1>4. Write(Detailed, path, body) /\ By(disk, summary)
  BY <1>1, <1>2, <1>3 DEF WriteDetailed, Wrote, By
<1>5. path # summary /\ place \in Places
  BY <1>1, <1>2, PathsDiffer DEF Contents
<1>6. disk'[path].body = body /\ By(disk', summary) /\ disk'[summary] = disk[summary]
  BY <1>4, <1>5 DEF Write, Put, By
<1>7. PICK records \in Records : disk[summary].body = SummaryOf(records)
  <2>1. Content(disk, summary)
    BY <1>4 DEF Contents
  <2> QED BY <1>2, <1>5, <2>1, PathsDiffer DEF Content
<1>8. body = records
  BY <1>3, <1>7 DEF SummaryOf
<1>9. Content(disk', path)
  BY <1>1, <1>2, <1>6, <1>7, <1>8 DEF Content
<1>10. path # Append(place, Summary)
  BY <1>2, <1>5
<1> QED BY <1>4, <1>9, <1>10, WriteContents

LEMMA LineContents ==
  ASSUME NEW t \in LcovLines, PrintLine(t), Contents
  PROVE  Contents'
<1>1. PICK path : path = Append(place, Lcov)
  OBVIOUS
<1>2. PICK text : text = IF Wrote(path) THEN disk[path].body ELSE <<>>
  OBVIOUS
<1>3. PICK body : body = Append(text, t)
  OBVIOUS
<1>4. Write(Lcov, path, body)
  BY <1>1, <1>2, <1>3 DEF PrintLine
<1>5. place \in Places
  BY DEF Contents
<1>6. text \in Seq(LcovLines)
  <2>1. CASE Wrote(path)
    <3>1. Content(disk, path)
      BY <2>1 DEF Contents, Wrote, By
    <3>2. disk[path].body \in Seq(LcovLines)
      BY <1>1, <1>5, <3>1, PathsDiffer DEF Content
    <3> QED BY <1>2, <2>1, <3>2
  <2>2. CASE ~Wrote(path)
    BY <1>2, <2>2
  <2> QED BY <2>1, <2>2
<1>7. disk'[path].body = body /\ body \in Seq(LcovLines)
  <2>1. disk'[path].body = body
    BY <1>4 DEF Write, Put
  <2> QED BY <1>3, <1>6, <2>1
<1>8. Content(disk', path)
  BY <1>1, <1>7 DEF Content
<1>9. path # Append(place, Summary)
  BY <1>1, <1>5, PathsDiffer
<1> QED BY <1>4, <1>8, <1>9, WriteContents

LEMMA ResultContents ==
  ASSUME NEW suites \in SeqOf(Suites, MaxSuites), WriteResults(suites), Contents
  PROVE  Contents'
<1>1. PICK path : path = Directory \o <<Results>>
  OBVIOUS
<1>2. Write(Results, path, suites)
  BY <1>1 DEF WriteResults
<1>3. Content(disk', path)
  BY <1>1 DEF Content
<1>4. path # Append(place, Summary)
  BY <1>1, PathsDiffer DEF Contents
<1> QED BY <1>2, <1>3, <1>4, WriteContents

LEMMA NextContents == Contents /\ [Next]_vars => Contents'
<1> SUFFICES ASSUME Contents, [Next]_vars PROVE Contents'
  OBVIOUS
<1>1. CASE Clear
  <2>1. place' = place /\ app' = app /\ phase' = "run" /\ phase = "clear"
    BY <1>1 DEF Clear, command
  <2>2. \A p \in DOMAIN disk' : p \in DOMAIN disk /\ disk'[p] = disk[p]
    BY <1>1 DEF Clear
  <2>3. \A p \in DOMAIN disk' : disk'[p].by # "command"
    BY <2>1, <2>2 DEF Contents
  <2> QED BY <2>1, <2>3 DEF Contents, By
<1>2. ASSUME UNCHANGED <<app, place, disk>>, phase' # "clear" PROVE Contents'
  BY <1>2 DEF Contents, Content, By
<1>3. CASE CutShort
  BY <1>2, <1>3 DEF CutShort, command
<1>4. CASE Read
  BY <1>2, <1>4 DEF Read, command
<1>5. ASSUME NEW records \in Records, WriteSummary(records) PROVE Contents'
  BY <1>5, SummaryContents
<1>6. CASE WriteDetailed
  BY <1>6, DetailedContents
<1>7. ASSUME NEW t \in LcovLines, PrintLine(t) PROVE Contents'
  BY <1>7, LineContents
<1>8. ASSUME NEW suites \in SeqOf(Suites, MaxSuites), WriteResults(suites) PROVE Contents'
  BY <1>8, ResultContents
<1>9. ASSUME NEW code \in {0, 1}, NEW took \in Times, Exit(code, took) PROVE Contents'
  BY <1>2, <1>9 DEF Exit, command
<1>10. CASE UNCHANGED vars
  BY <1>10 DEF vars, command, Contents, Content, By
<1> QED BY <1>1, <1>3, <1>4, <1>5, <1>6, <1>7, <1>8, <1>9, <1>10 DEF Next

-----------------------------------------------------------------------------
(* What is read adds up                                                    *)

Alone(f, o) == \A g \in o.files : g.file.path = f.file.path => g = f
GapsAddUp(o) ==
  \A f \in o.files : f.details # Null /\ Alone(f, o) =>
    LET lines == Spanned(f.details.lines)
    IN /\ Cardinality(lines) <= MissedOf(f, "lines")
       /\ ~o.from.lcov /\ Len(f.details.lines) < DetailLimit => Cardinality(lines) = MissedOf(f, "lines")
       /\ ~o.from.lcov /\ Len(f.details.functions) < DetailLimit =>
            Len(f.details.functions) = MissedOf(f, "functions")
       /\ ~o.from.lcov /\ Len(f.details.branches) < DetailLimit =>
            /\ Len(f.details.branches) <= MissedOf(f, "branches")
            /\ f.details.branches = <<>> => MissedOf(f, "branches") = 0
GapsFound(o) == \A f \in o.files : ~o.from.lcov /\ f.source # Null => f.details # Null
TotalsHold(o) ==
  o.coverage # Null =>
    LET sum == SumCoverage({f.file : f \in {g \in o.files : Alone(g, o)}})
    IN \A m \in Metrics :
         sum[m] # Null => sum[m].total <= o.coverage[m].total /\ sum[m].covered <= o.coverage[m].covered
OutcomeAddsUp(o) == GapsAddUp(o) /\ GapsFound(o) /\ TotalsHold(o)

LEMMA AddsUpMeans == (Done => OutcomeAddsUp(outcome)) => ReportAddsUp
  BY DEF Done, OutcomeAddsUp, GapsAddUp, GapsFound, TotalsHold, Alone, ReportAddsUp, OnlyOne

\* A path that one file has is not another's.
LEMMA AloneIs ==
  ASSUME NEW o, NEW files, {f.file : f \in o.files} = files, NEW f \in o.files, Alone(f, o),
         NEW g \in files, g.path = f.file.path
  PROVE  g = f.file
<1>1. PICK h \in o.files : h.file = g
  OBVIOUS
<1> QED BY <1>1 DEF Alone

\* What is read of a summary and of the detailed report beside it.
LEMMA IstanbulAddsUp ==
  ASSUME NEW records \in Records, NEW report, report = ParseIstanbulReport(SummaryOf(records), Root, Directory),
         report # Null, NEW o, ~o.from.lcov, o.coverage = report.summary,
         {f.file : f \in o.files} = report.files,
         \A f \in o.files : /\ f.details \in {Null, Gaps(IstanbulDetails(records), f.file.path)}
                            /\ f.source # Null => f.details = Gaps(IstanbulDetails(records), f.file.path)
  PROVE  OutcomeAddsUp(o)
<1>1. ASSUME NEW f \in o.files
      PROVE  \E r \in records : /\ Gaps(IstanbulDetails(records), f.file.path) = IstanbulGaps(r)
                                /\ Entry(r) \in report.files /\ Entry(r).path = f.file.path
  <2>1. f.file \in report.files
    OBVIOUS
  <2> QED BY <2>1, DetailsAre DEF Gaps
<1>2. ASSUME NEW r \in records PROVE IstanbulGaps(r) # Null /\ IsRecord(r)
  BY NullIsApart, ReportersAssumption DEF IsRecord
<1>3. ASSUME NEW f \in o.files, f.details # Null, Alone(f, o)
      PROVE  LET lines == Spanned(f.details.lines)
             IN /\ Cardinality(lines) <= MissedOf(f, "lines")
                /\ Len(f.details.lines) < DetailLimit => Cardinality(lines) = MissedOf(f, "lines")
                /\ Len(f.details.functions) < DetailLimit => Len(f.details.functions) = MissedOf(f, "functions")
                /\ Len(f.details.branches) < DetailLimit =>
                     /\ Len(f.details.branches) <= MissedOf(f, "branches")
                     /\ f.details.branches = <<>> => MissedOf(f, "branches") = 0
  <2>1. PICK r \in records : /\ f.details = IstanbulGaps(r)
                             /\ Entry(r) \in report.files /\ Entry(r).path = f.file.path
    BY <1>1, <1>3
  <2>2. Entry(r) = f.file
    BY <1>3, <2>1, AloneIs
  <2>3. IsRecord(r)
    BY <1>2
  <2> QED BY <2>1, <2>2, <2>3, RecordGaps DEF MissedOf
<1>4. GapsAddUp(o)
  BY <1>3 DEF GapsAddUp
<1>5. GapsFound(o)
  BY <1>1, <1>2 DEF GapsFound
<1>6. TotalsHold(o)
  <2> DEFINE F == {f.file : f \in {g \in o.files : Alone(g, o)}}
  <2>1. F \in SUBSET report.files
    OBVIOUS
  <2> HIDE DEF F
  <2>2. ASSUME NEW m \in Metrics, SumCoverage(F)[m] # Null
        PROVE  SumCoverage(F)[m].total <= o.coverage[m].total /\ SumCoverage(F)[m].covered <= o.coverage[m].covered
    BY <2>1, <2>2, SummaryHolds
  <2> QED BY <2>2 DEF TotalsHold, F
<1> QED BY <1>4, <1>5, <1>6 DEF OutcomeAddsUp

\* What is read of an LCOV report.
LEMMA LcovAddsUp ==
  ASSUME NEW text \in Seq(LcovLines), NEW report, report = ParseLcovReport(text, Root, Directory),
         report # Null, NEW o, o.from.lcov, o.coverage = report.summary,
         {f.file : f \in o.files} = Range(report.files),
         \A f \in o.files : f.details = Gaps(ParseLcovDetails(text, Root, Directory), f.file.path)
  PROVE  OutcomeAddsUp(o)
<1>1. ASSUME NEW f \in o.files, f.details # Null, Alone(f, o)
      PROVE  Cardinality(Spanned(f.details.lines)) <= MissedOf(f, "lines")
  <2> DEFINE details == ParseLcovDetails(text, Root, Directory)
             p == f.file.path
  <2>1. p \in DOMAIN details /\ f.details = details[p]
    BY <1>1 DEF Gaps
  <2>2. PICK g \in Range(report.files) :
          /\ g.path = p
          /\ Cardinality(Spanned(details[p].lines)) <= g.metrics["lines"].total - g.metrics["lines"].covered
    BY <2>1, LcovGaps
  <2>3. g = f.file
    BY <1>1, <2>2, AloneIs
  <2> QED BY <2>1, <2>2, <2>3 DEF MissedOf
<1>2. GapsAddUp(o)
  BY <1>1 DEF GapsAddUp
<1>3. GapsFound(o)
  BY DEF GapsFound
<1>4. TotalsHold(o)
  <2> DEFINE F == {f.file : f \in {g \in o.files : Alone(g, o)}}
  <2>1. F \in SUBSET Range(report.files)
    OBVIOUS
  <2> HIDE DEF F
  <2>2. ASSUME NEW m \in Metrics, SumCoverage(F)[m] # Null
        PROVE  SumCoverage(F)[m].total <= o.coverage[m].total /\ SumCoverage(F)[m].covered <= o.coverage[m].covered
    BY <2>1, <2>2, LcovHolds
  <2> QED BY <2>2 DEF TotalsHold, F
<1> QED BY <1>2, <1>3, <1>4 DEF OutcomeAddsUp

\* Where the worker looks for the app's coverage.
Found == IF app.auto THEN Discovered(Directory, app.coveragePath, Exists)
         ELSE Configured(app.coveragePath, app.lcov, Exists)

\* It finds a report of the format its name says, which the command wrote.
LEMMA FoundNamed ==
  ASSUME Contents, NEW found, found = Found, found # Null
  PROVE  found.lcov \in BOOLEAN /\ Last(found.path) \notin FileNames \ {IF found.lcov THEN Lcov ELSE Summary}
<1>1. CASE app \in {Detected(m) : m \in Manifests}
  <2>1. PICK m \in Manifests : app = Detected(m)
    BY <1>1
  <2>2. app.auto /\ SummaryPath(app.coveragePath)
    <3>1. SummaryPath(app.coveragePath)
      BY <2>1, DetectedPath
    <3> QED BY <2>1, <3>1 DEF Detected
  <2>3. found = Discovered(Directory, app.coveragePath, Exists)
    BY <2>2 DEF Found
  <2>4. found \in Range(CoverageCandidates(Directory, app.coveragePath))
    BY <2>3, DiscoveredIsCandidate
  <2>5. Named(found)
    BY <2>2, <2>4, CandidateNames
  <2> QED BY <2>5 DEF Named
<1>2. CASE app \in ConfiguredApps
  <2>1. /\ ~app.auto /\ app.lcov \in BOOLEAN
        /\ Last(app.coveragePath) \notin FileNames \ {IF app.lcov THEN Lcov ELSE Summary}
    BY <1>2, ReportersAssumption DEF FileNames
  <2>2. found = [path |-> app.coveragePath, lcov |-> app.lcov]
    BY <2>1 DEF Found, Configured
  <2> QED BY <2>1, <2>2
<1> QED BY <1>1, <1>2 DEF Contents

LEMMA FoundIs ==
  ASSUME IInv, Contents, phase = "read", NEW found, found = Found, found # Null
  PROVE  /\ found.path \in Exists /\ found.lcov \in BOOLEAN
         /\ found.lcov => Body(found.path) \in Seq(LcovLines)
         /\ ~found.lcov =>
              \E records \in Records :
                /\ Body(found.path) = SummaryOf(records)
                /\ Beside(found.path, Detailed) \in Exists => Body(Beside(found.path, Detailed)) = records
<1> DEFINE cleared == Cleared(Directory, app.coveragePath)
           p == found.path
<1>1. found.lcov \in BOOLEAN /\ Last(p) \notin FileNames \ {IF found.lcov THEN Lcov ELSE Summary}
  BY FoundNamed
<1>2. p \in cleared \cap Exists /\ (~found.lcov => Beside(p, Detailed) \in cleared)
  BY ReadsWhatWasCleared DEF IInv, Found
<1>3. \A q \in cleared : q \in Exists => By(disk, q) /\ Content(disk, q)
  BY DEF IInv, FromCommand, Exists, By, Contents
<1> HIDE DEF cleared
<1>4. place \in Places
  BY DEF Contents
<1>5. Content(disk, p)
  BY <1>2, <1>3
<1>6. Last(p) = IF found.lcov THEN Lcov ELSE Summary
  <2>1. Last(p) \in FileNames
    BY <1>4, <1>5, PathsDiffer DEF Content, FileNames
  <2> QED BY <1>1, <2>1
<1>7. CASE found.lcov
  <2>1. Last(p) = Lcov
    BY <1>6, <1>7
  <2>2. disk[p].body \in Seq(LcovLines)
    BY <1>4, <1>5, <2>1, PathsDiffer, NamesDiffer DEF Content
  <2> QED BY <1>1, <1>2, <1>7, <2>2 DEF Body
<1>8. CASE ~found.lcov
  <2>1. Last(p) = Summary
    BY <1>6, <1>8
  <2>2. PICK records \in Records : p = Append(place, Summary) /\ disk[p].body = SummaryOf(records)
    BY <1>4, <1>5, <2>1, PathsDiffer, NamesDiffer DEF Content
  <2>3. ASSUME Beside(p, Detailed) \in Exists PROVE disk[Beside(p, Detailed)].body = records
    <3>1. Beside(p, Detailed) = Append(place, Detailed)
      BY <1>4, <2>2, PathsDiffer
    <3> DEFINE q == Append(place, Detailed)
    <3>2. Content(disk, q)
      BY <1>2, <1>3, <1>8, <2>3, <3>1
    <3>3. disk[p].body = SummaryOf(disk[q].body)
      BY <1>4, <2>2, <3>2, PathsDiffer DEF Content
    <3>4. SummaryOf(disk[q].body).records = disk[q].body /\ SummaryOf(records).records = records
      BY DEF SummaryOf
    <3> QED BY <2>2, <3>1, <3>3, <3>4
  <2> QED BY <1>1, <1>2, <1>8, <2>2, <2>3 DEF Body
<1> QED BY <1>1, <1>7, <1>8

\* The worker reads the gaps and the counts out of the same reports.
LEMMA ReadAddsUp ==
  ASSUME IInv, Contents, Read
  PROVE  ReportAddsUp'
<1>1. PICK found : found = Found
  OBVIOUS
<1>2. PICK report : report = Report(found)
  OBVIOUS
<1>3. PICK o : o = outcome'
  OBVIOUS
<1> DEFINE files == IF found.lcov THEN Range(report.files) ELSE report.files
           detailed == IF found.lcov THEN found.path ELSE Beside(found.path, Detailed)
           readable == detailed \in Exists /\ Body(detailed) # Null
           details == IF ~readable THEN <<>>
                      ELSE IF found.lcov THEN ParseLcovDetails(Body(detailed), Root, Directory)
                      ELSE IstanbulDetails(Body(detailed))
           source == IF detailed \in Exists THEN detailed ELSE Null
           Of(f) == [file |-> f, details |-> Gaps(details, f.path), source |-> source]
<1>4. /\ phase = "read" /\ phase' = "done"
      /\ o.coverage = (IF report = Null THEN Null ELSE report.summary)
      /\ o.from = (IF report = Null THEN Null ELSE found)
      /\ o.files = (IF report = Null THEN {} ELSE {Of(f) : f \in files})
  <2>1. WithDetails(found, files) = {Of(f) : f \in files}
    BY DEF WithDetails
  <2>2. /\ phase = "read" /\ phase' = "done"
        /\ outcome'.coverage = (IF report = Null THEN Null ELSE report.summary)
        /\ outcome'.from = (IF report = Null THEN Null ELSE found)
        /\ outcome'.files = (IF report = Null THEN {} ELSE WithDetails(found, files))
    BY <1>1, <1>2 DEF Read, Found
  <2> HIDE DEF files, Of
  <2> QED BY <1>3, <2>1, <2>2
<1>5. SUFFICES OutcomeAddsUp(o)
  <2>1. (OutcomeAddsUp(outcome))'
    BY <1>3, <1>5 DEF OutcomeAddsUp, GapsAddUp, GapsFound, TotalsHold, Alone, MissedOf
  <2>2. (ReportAddsUp)'
    BY <2>1, AddsUpMeans, PTL
  <2> QED BY <2>2
<1>6. CASE report = Null
  <2>1. o.coverage = Null /\ o.files = {}
    BY <1>4, <1>6
  <2> QED BY <2>1 DEF OutcomeAddsUp, GapsAddUp, GapsFound, TotalsHold
<1>7. CASE report # Null
  <2>1. found # Null /\ Body(found.path) # Null
    BY <1>2, <1>7 DEF Report
  <2>2. /\ found.path \in Exists /\ found.lcov \in BOOLEAN
        /\ found.lcov => Body(found.path) \in Seq(LcovLines)
        /\ ~found.lcov =>
             \E records \in Records :
               /\ Body(found.path) = SummaryOf(records)
               /\ Beside(found.path, Detailed) \in Exists => Body(Beside(found.path, Detailed)) = records
    BY <1>1, <1>4, <2>1, FoundIs
  <2>3. o.coverage = report.summary /\ o.from = found /\ o.files = {Of(f) : f \in files}
    BY <1>4, <1>7
  <2>4. /\ {f.file : f \in o.files} = files
        /\ \A f \in o.files : f.details = Gaps(details, f.file.path) /\ f.source = source
    <3> HIDE DEF files, details, source
    <3>1. \A f \in files : /\ Of(f).file = f
                          /\ Of(f).details = Gaps(details, f.path)
                          /\ Of(f).source = source
      OBVIOUS
    <3>2. o.files = {Of(f) : f \in files}
      BY <2>3
    <3> HIDE DEF Of
    <3>3. \A g \in o.files : \E f \in files : g = Of(f)
      BY <3>2
    <3>4. \A f \in files : Of(f) \in o.files
      BY <3>2
    <3>5. ASSUME NEW g \in o.files
          PROVE  /\ g.file \in files
                 /\ g.details = Gaps(details, g.file.path)
                 /\ g.source = source
      <4>1. PICK f \in files : g = Of(f)
        BY <3>3
      <4> QED BY <3>1, <4>1
    <3>6. {g.file : g \in o.files} \subseteq files
      BY <3>5
    <3>7. files \subseteq {g.file : g \in o.files}
      BY <3>1, <3>4
    <3>8. {g.file : g \in o.files} = files
      BY <3>6, <3>7
    <3> QED BY <3>5, <3>8
  <2>5. CASE found.lcov
    <3>1. PICK text \in Seq(LcovLines) : text = Body(found.path)
      BY <2>2, <2>5
    <3>2. report = ParseLcovReport(text, Root, Directory)
      BY <1>2, <2>1, <2>5, <3>1 DEF Report
    <3>3. details = ParseLcovDetails(text, Root, Directory)
      BY <2>1, <2>2, <2>5, <3>1
    <3>4. files = Range(report.files)
      BY <2>5
    <3> HIDE DEF files, details, source
    <3> QED BY <1>7, <2>3, <2>4, <2>5, <3>2, <3>3, <3>4, LcovAddsUp
  <2>6. CASE ~found.lcov
    <3>1. PICK records \in Records :
            /\ Body(found.path) = SummaryOf(records)
            /\ Beside(found.path, Detailed) \in Exists => Body(Beside(found.path, Detailed)) = records
      BY <2>2, <2>6
    <3>2. report = ParseIstanbulReport(SummaryOf(records), Root, Directory)
      BY <1>2, <2>1, <2>6, <3>1 DEF Report
    <3>3. detailed \in Exists => details = IstanbulDetails(records)
      <4>1. records # Null
        BY NullIsApart
      <4> QED BY <2>6, <3>1, <4>1
    <3>4. detailed \notin Exists => details = <<>> /\ source = Null
      OBVIOUS
    <3>5. \A path : Gaps(<<>>, path) = Null
      BY DEF Gaps
    <3>6. files = report.files
      BY <2>6
    <3> HIDE DEF files, details, source, detailed
    <3>7. \A f \in o.files : /\ f.details \in {Null, Gaps(IstanbulDetails(records), f.file.path)}
                             /\ f.source # Null => f.details = Gaps(IstanbulDetails(records), f.file.path)
      BY <2>4, <3>3, <3>4, <3>5
    <3> QED BY <1>7, <2>3, <2>4, <2>6, <3>2, <3>6, <3>7, IstanbulAddsUp
  <2> QED BY <2>2, <2>5, <2>6
<1> QED BY <1>6, <1>7

LEMMA NextAddsUp == IInv /\ Contents /\ ReportAddsUp /\ [Next]_vars => ReportAddsUp'
<1> SUFFICES ASSUME IInv, Contents, ReportAddsUp, [Next]_vars PROVE ReportAddsUp'
  OBVIOUS
<1>1. CASE Read
  BY <1>1, ReadAddsUp
<1>2. CASE CutShort
  <2>1. outcome'.coverage = Null /\ outcome'.files = {}
    BY <1>2 DEF CutShort
  <2> QED BY <2>1 DEF ReportAddsUp
<1>3. ASSUME phase' # "done" PROVE ReportAddsUp'
  BY <1>3 DEF ReportAddsUp, Done
<1>4. CASE Clear
  BY <1>3, <1>4 DEF Clear
<1>5. ASSUME NEW records \in Records, WriteSummary(records) PROVE ReportAddsUp'
  BY <1>3, <1>5 DEF WriteSummary, Write, command
<1>6. CASE WriteDetailed
  BY <1>3, <1>6 DEF WriteDetailed, Write, command
<1>7. ASSUME NEW t \in LcovLines, PrintLine(t) PROVE ReportAddsUp'
  BY <1>3, <1>7 DEF PrintLine, Write, command
<1>8. ASSUME NEW suites \in SeqOf(Suites, MaxSuites), WriteResults(suites) PROVE ReportAddsUp'
  BY <1>3, <1>8 DEF WriteResults, Write, command
<1>9. ASSUME NEW code \in {0, 1}, NEW took \in Times, Exit(code, took) PROVE ReportAddsUp'
  BY <1>3, <1>9 DEF Exit
<1>10. CASE UNCHANGED vars
  BY <1>10 DEF vars, ReportAddsUp, Done, OnlyOne
<1> QED BY <1>1, <1>2, <1>4, <1>5, <1>6, <1>7, <1>8, <1>9, <1>10 DEF Next

-----------------------------------------------------------------------------
(* Theorems                                                                *)

\* IInv holds of every run of an app, whatever its command does.
THEOREM Invariance == Spec => []IInv
<1> QED BY InitIsFresh, NextIsFresh, PTL DEF Spec

\* Nothing that an app's row, coverage or tests come from was there before
\* its command ran, whatever the command writes, and wherever
\* (worker.ts:451, 463-491).
THEOREM ReportsAreFresh == Spec => []FreshReports
<1>1. IInv => FreshReports
  BY DEF IInv
<1> QED BY Invariance, <1>1, PTL

\* An app is cut only after three times what any of its recent passes took,
\* and never before the floor (timeouts.ts:31-44, database.ts:1403-1426).
THEOREM SlowAppsAreSpared == Spec => []SparesSlowApps
<1> QED BY Invariance, HistorySparesSlowApps, PTL

\* However many suites and tests an app has, one that failed is counted,
\* unless the test case limit came first, and an app is never skipped
\* when a suite of it failed to load (worker.ts:505-522).
THEOREM FailuresAreCounted == Spec => []FailureIsCounted
<1>1. Spec => []TestsAsWritten
  BY InitAsWritten, NextAsWritten, PTL DEF Spec
<1> QED BY <1>1, WrittenIsCounted, PTL

\* The gaps that are stored of a file are no more than the lines its report
\* counts as missed, and exactly them in an Istanbul report whose lists are
\* not cut short; a detailed report that lies there says the gaps of every
\* file; and no files sum up to more than the app's totals
\* (coverage.ts:96-414, detection.ts:304-324, worker.ts:463-491).
THEOREM ReportsAddUp == Spec => []ReportAddsUp
<1>1. Init => ReportAddsUp
  BY DEF Init, ReportAddsUp, Done
<1>2. IInv /\ Contents /\ ReportAddsUp /\ [Next]_vars => (IInv /\ Contents /\ ReportAddsUp)'
  BY NextIsFresh, NextContents, NextAddsUp
<1> QED BY <1>1, <1>2, InitIsFresh, InitContents, PTL DEF Spec
=============================================================================
