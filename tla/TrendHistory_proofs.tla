------------------------ MODULE TrendHistory_proofs -------------------------
(***************************************************************************)
(* Machine-checked proofs about TrendHistory, for any number of apps,      *)
(* slices, runs and builds and reports of any shape.  IInv is the          *)
(* inductive invariant: each record of a run is well formed, dated within  *)
(* the run and the only one of its app or slice.  The sums the properties  *)
(* speak of are folds over sets; the lemmas of the second part make them   *)
(* independent of the order in which the elements are taken.  The last     *)
(* part is about the trend drawn from the records, which is a function of  *)
(* them: sets in an order, what is known after each run, the points, a     *)
(* window of them and what moved in it.                                    *)
(***************************************************************************)
EXTENDS TrendHistory, FiniteSetTheorems, WellFoundedInduction, TLAPS

-----------------------------------------------------------------------------
(* Induction and folds                                                     *)

\* Induction over a set of numbers in place of a predicate.
LEMMA NatInduct ==
  ASSUME NEW T, 0 \in T, \A n \in Nat : n \in T => n + 1 \in T
  PROVE  Nat \subseteq T
<1> DEFINE Less == OpToRel(<, Nat)
           Bad == {n \in Nat : n \notin T}
<1>1. IsWellFoundedOn(Less, Nat)
  BY NatLessThanWellFounded
<1>2. \A x, y \in Nat : x < y => <<x, y>> \in Less
  BY DEF OpToRel
<1>3. SUFFICES ASSUME Bad # {} PROVE FALSE
  OBVIOUS
<1> HIDE DEF Less
<1>4. PICK n \in Bad : \A m \in Bad : ~(<<m, n>> \in Less)
  <2>1. Bad \subseteq Nat
    OBVIOUS
  <2> HIDE DEF Bad
  <2> QED BY <1>1, <1>3, <2>1, WFMin
<1>5. n - 1 \in Nat /\ n - 1 \notin Bad
  <2>1. n \in Nat /\ n # 0
    OBVIOUS
  <2>2. n - 1 \in Nat /\ n - 1 < n
    BY <2>1
  <2> QED BY <1>2, <1>4, <2>1, <2>2
<1>6. n \in T
  BY <1>5
<1> QED BY <1>6

\* A set of numbers has a least one, a finite set a greatest one as well.
LEMMA LeastExists ==
  ASSUME NEW S \in SUBSET Nat, S # {}
  PROVE  Min(S) \in S /\ \A n \in S : Min(S) <= n
<1> DEFINE T == {n \in Nat : (\E m \in S : m <= n) => \E l \in S : \A m \in S : l <= m}
<1>1. 0 \in T
  OBVIOUS
<1>2. ASSUME NEW n \in Nat, n \in T PROVE n + 1 \in T
  <2>1. CASE \E m \in S : m <= n
    BY <1>2, <2>1
  <2>2. CASE \A m \in S : m > n
    <3>1. \A m \in S : m >= n + 1
      BY <2>2
    <3>2. (\E m \in S : m <= n + 1) => n + 1 \in S
      BY <3>1
    <3> QED BY <3>1, <3>2
  <2>3. \A m \in S : m <= n \/ m > n
    OBVIOUS
  <2> QED BY <2>1, <2>2, <2>3
<1>3. Nat \subseteq T
  <2> HIDE DEF T
  <2> QED BY <1>1, <1>2, NatInduct
<1>4. PICK l \in S : \A m \in S : l <= m
  <2>1. PICK n \in S : TRUE
    OBVIOUS
  <2>2. n \in T /\ n <= n
    BY <1>3
  <2> QED BY <2>2
<1> QED BY <1>4 DEF Min

\* A step F over the elements of S, taken in the order of c.
Folding(S, V, base, F, c) ==
  /\ IsFiniteSet(S) /\ base \in V /\ F \in [V \X S -> V]
  /\ \A s \in SUBSET S : s # {} => c[s] \in s

\* g is the fold of every part of S.
IsFold(g, S, V, base, F, c) ==
  /\ g \in [SUBSET S -> V]
  /\ \A s \in SUBSET S : g[s] = IF s = {} THEN base ELSE F[<<g[s \ {c[s]}], c[s]>>]

\* A fold over a finite set follows its recursive equation, whichever
\* element c takes next: the function is built up by the size of the sets.
LEMMA FoldExists ==
  ASSUME NEW S, NEW V, NEW base, NEW F, NEW c, Folding(S, V, base, F, c)
  PROVE  \E g : IsFold(g, S, V, base, F, c)
<1> USE DEF Folding
<1> DEFINE D(k) == {s \in SUBSET S : Cardinality(s) <= k}
           Good(g, k) == /\ g \in [D(k) -> V]
                         /\ \A s \in D(k) : g[s] = IF s = {} THEN base ELSE F[<<g[s \ {c[s]}], c[s]>>]
           T == {k \in Nat : \E g : Good(g, k)}
<1>1. \A s \in SUBSET S : IsFiniteSet(s) /\ Cardinality(s) \in Nat
  BY FS_Subset, FS_CardinalityType
<1>2. 0 \in T
  <2> DEFINE g == [s \in D(0) |-> base]
  <2>1. ASSUME NEW s \in D(0) PROVE s = {}
    BY <1>1, FS_EmptySet
  <2>2. Good(g, 0)
    BY <2>1
  <2> QED BY <2>2
<1>3. ASSUME NEW k \in Nat, k \in T PROVE k + 1 \in T
  <2>1. PICK g : Good(g, k)
    BY <1>3
  <2> DEFINE h == [s \in D(k + 1) |-> IF s = {} THEN base ELSE F[<<g[s \ {c[s]}], c[s]>>]]
  <2>2. ASSUME NEW s \in D(k + 1), s # {} PROVE c[s] \in S /\ s \ {c[s]} \in D(k)
    <3>1. c[s] \in s /\ s \ {c[s]} \in SUBSET S
      <4>1. s \in SUBSET S
        OBVIOUS
      <4> QED BY <2>2, <4>1
    <3>2. Cardinality(s \ {c[s]}) = Cardinality(s) - 1
      BY <1>1, <3>1, FS_RemoveElement
    <3> QED BY <1>1, <3>1, <3>2
  <2>3. D(k) \subseteq D(k + 1)
    BY <1>1
  <2>4. \A t \in D(k) : h[t] = g[t]
    BY <2>1, <2>3
  <2>5. h \in [D(k + 1) -> V]
    <3>1. ASSUME NEW s \in D(k + 1) PROVE (IF s = {} THEN base ELSE F[<<g[s \ {c[s]}], c[s]>>]) \in V
      <4>1. CASE s = {}
        BY <4>1
      <4>2. CASE s # {}
        <5>1. g[s \ {c[s]}] \in V /\ c[s] \in S
          BY <2>1, <2>2, <4>2
        <5> HIDE DEF D, Good
        <5> QED BY <4>2, <5>1
      <4> QED BY <4>1, <4>2
    <3> HIDE DEF D, Good
    <3> QED BY <3>1
  <2>6. \A s \in D(k + 1) : h[s] = IF s = {} THEN base ELSE F[<<h[s \ {c[s]}], c[s]>>]
    <3> HIDE DEF D, Good
    <3> QED BY <2>2, <2>4
  <2>7. Good(h, k + 1)
    BY <2>5, <2>6
  <2> HIDE DEF h, Good
  <2> QED BY <2>7
<1>4. Cardinality(S) \in T
  <2> HIDE DEF T
  <2> QED BY <1>1, <1>2, <1>3, NatInduct
<1>5. D(Cardinality(S)) = SUBSET S
  BY <1>1, FS_Subset
<1>6. PICK g : Good(g, Cardinality(S))
  BY <1>4
<1> HIDE DEF D
<1> QED BY <1>5, <1>6 DEF IsFold

-----------------------------------------------------------------------------
(* Sums over finite sets                                                   *)

\* g sums f over the parts of S, whichever element is taken first.
Summing(g, S, f) ==
  /\ g \in [SUBSET S -> Int] /\ g[{}] = 0
  /\ \A s \in SUBSET S : \A x \in s : g[s] = g[s \ {x}] + f[x]

\* A sum that takes its elements in the order of c.
IsSum(g, S, f, c) ==
  g = [s \in SUBSET S |-> IF s = {} THEN 0 ELSE g[s \ {c[s]}] + f[c[s]]]

\* Addition commutes: a sum taken in one order satisfies the equation of
\* every order.
LEMMA AnyOrder ==
  ASSUME NEW S, IsFiniteSet(S), NEW f \in [S -> Int], NEW c, NEW g \in [SUBSET S -> Int],
         \A s \in SUBSET S : s # {} => c[s] \in s, IsSum(g, S, f, c)
  PROVE  Summing(g, S, f)
<1>1. \A s \in SUBSET S : IsFiniteSet(s) /\ Cardinality(s) \in Nat
  BY FS_Subset, FS_CardinalityType
<1>2. /\ g[{}] = 0
      /\ \A s \in SUBSET S : s # {} => g[s] = g[s \ {c[s]}] + f[c[s]]
  <2>1. {} \in SUBSET S
    OBVIOUS
  <2> QED BY <2>1 DEF IsSum
<1> DEFINE Good(s) == \A x \in s : g[s] = g[s \ {x}] + f[x]
           T == {n \in Nat : \A s \in SUBSET S : Cardinality(s) <= n => Good(s)}
<1>3. 0 \in T
  <2>1. ASSUME NEW s \in SUBSET S, Cardinality(s) <= 0 PROVE s = {}
    <3>1. Cardinality(s) = 0
      BY <1>1, <2>1
    <3> QED BY <1>1, <3>1, FS_EmptySet
  <2> QED BY <2>1
<1>4. ASSUME NEW n \in Nat, n \in T PROVE n + 1 \in T
  <2>1. SUFFICES ASSUME NEW s \in SUBSET S, Cardinality(s) <= n + 1, NEW x \in s
                 PROVE  g[s] = g[s \ {x}] + f[x]
    OBVIOUS
  <2> DEFINE y == c[s]
  <2>2. y \in s /\ g[s] = g[s \ {y}] + f[y]
    BY <1>2, <2>1
  <2>3. CASE x = y
    BY <2>2, <2>3
  <2>4. CASE x # y
    <3>1. Cardinality(s \ {x}) = Cardinality(s) - 1 /\ Cardinality(s \ {y}) = Cardinality(s) - 1
      <4>1. IsFiniteSet(s) /\ x \in s /\ y \in s
        BY <1>1, <2>1, <2>2
      <4> HIDE DEF y
      <4> QED BY <4>1, FS_RemoveElement
    <3>2. Cardinality(s \ {x}) <= n /\ Cardinality(s \ {y}) <= n
      BY <1>1, <2>1, <3>1
    <3>3. s \ {x} \in SUBSET S /\ s \ {y} \in SUBSET S /\ (s \ {x}) \ {y} \in SUBSET S
      OBVIOUS
    <3>4. g[s \ {y}] = g[(s \ {y}) \ {x}] + f[x] /\ g[s \ {x}] = g[(s \ {x}) \ {y}] + f[y]
      <4>1. x \in s \ {y} /\ y \in s \ {x}
        BY <2>1, <2>2, <2>4
      <4>2. Good(s \ {x}) /\ Good(s \ {y})
        BY <1>4, <3>2, <3>3
      <4> HIDE DEF y
      <4> QED BY <4>1, <4>2
    <3>5. (s \ {y}) \ {x} = (s \ {x}) \ {y}
      OBVIOUS
    <3>6. {g[s \ {x}], g[s \ {y}], g[(s \ {x}) \ {y}], f[x], f[y]} \subseteq Int
      <4>1. x \in S /\ y \in S
        BY <2>1, <2>2
      <4> HIDE DEF y
      <4> QED BY <3>3, <4>1
    <3>7. \A i, j, k \in Int : (i + j) + k = (i + k) + j
      OBVIOUS
    <3> DEFINE z == g[(s \ {x}) \ {y}]
    <3>8. g[s \ {y}] = z + f[x] /\ g[s \ {x}] = z + f[y]
      BY <3>4, <3>5
    <3> HIDE DEF y, z
    <3>9. z \in Int /\ f[x] \in Int /\ f[y] \in Int
      BY <3>6 DEF z
    <3> QED BY <2>2, <3>7, <3>8, <3>9
  <2> QED BY <2>3, <2>4
<1>5. Nat \subseteq T
  <2> HIDE DEF T
  <2> QED BY <1>3, <1>4, NatInduct
<1>6. ASSUME NEW s \in SUBSET S PROVE Good(s)
  <2>1. Cardinality(s) \in T
    BY <1>1, <1>5
  <2> QED BY <1>1, <2>1
<1> QED BY <1>2, <1>6 DEF Summing

\* Every order of the elements has a sum.
LEMMA SumExists ==
  ASSUME NEW S, IsFiniteSet(S), NEW f \in [S -> Int], NEW c,
         \A s \in SUBSET S : s # {} => c[s] \in s
  PROVE  \E g : g \in [SUBSET S -> Int] /\ IsSum(g, S, f, c)
<1> DEFINE F == [p \in Int \X S |-> p[1] + f[p[2]]]
<1>1. Folding(S, Int, 0, F, c)
  BY DEF Folding
<1> HIDE DEF F
<1>2. PICK g : IsFold(g, S, Int, 0, F, c)
  BY <1>1, FoldExists
<1>3. g \in [SUBSET S -> Int]
  BY <1>2 DEF IsFold
<1>4. ASSUME NEW s \in SUBSET S PROVE g[s] = IF s = {} THEN 0 ELSE g[s \ {c[s]}] + f[c[s]]
  <2>1. CASE s = {}
    BY <1>2, <2>1 DEF IsFold
  <2>2. CASE s # {}
    <3>1. c[s] \in S /\ s \ {c[s]} \in SUBSET S
      BY <2>2
    <3>2. g[s] = F[<<g[s \ {c[s]}], c[s]>>]
      BY <1>2, <2>2 DEF IsFold
    <3>3. F[<<g[s \ {c[s]}], c[s]>>] = g[s \ {c[s]}] + f[c[s]]
      BY <1>3, <3>1 DEF F
    <3> QED BY <2>2, <3>2, <3>3
  <2> QED BY <2>1, <2>2
<1>5. IsSum(g, S, f, c)
  BY <1>3, <1>4 DEF IsSum
<1> QED BY <1>3, <1>5

\* Induction over the parts of a finite set: G has the empty set, and a set
\* when it has that set without each one of its elements.
LEMMA SetInduct ==
  ASSUME NEW S, IsFiniteSet(S), NEW G, {} \in G,
         \A s \in SUBSET S : s # {} /\ (\A x \in s : s \ {x} \in G) => s \in G
  PROVE  SUBSET S \subseteq G
<1>1. \A s \in SUBSET S : IsFiniteSet(s) /\ Cardinality(s) \in Nat
  BY FS_Subset, FS_CardinalityType
<1> DEFINE T == {n \in Nat : \A s \in SUBSET S : Cardinality(s) <= n => s \in G}
<1>2. ASSUME NEW s \in SUBSET S, s \notin G PROVE \E x \in s : s \ {x} \in SUBSET S /\ s \ {x} \notin G
  <2>1. s # {}
    BY <1>2
  <2> QED BY <1>2, <2>1
<1>3. 0 \in T
  <2>1. ASSUME NEW s \in SUBSET S, Cardinality(s) <= 0 PROVE s = {}
    <3>1. Cardinality(s) = 0
      BY <1>1, <2>1
    <3> QED BY <1>1, <3>1, FS_EmptySet
  <2> QED BY <2>1
<1>4. ASSUME NEW n \in Nat, n \in T PROVE n + 1 \in T
  <2>1. SUFFICES ASSUME NEW s \in SUBSET S, Cardinality(s) <= n + 1, s \notin G PROVE FALSE
    OBVIOUS
  <2>2. PICK x \in s : s \ {x} \in SUBSET S /\ s \ {x} \notin G
    BY <1>2, <2>1
  <2>3. Cardinality(s \ {x}) = Cardinality(s) - 1
    <3>1. IsFiniteSet(s) /\ x \in s
      BY <1>1
    <3> QED BY <3>1, FS_RemoveElement
  <2>4. Cardinality(s \ {x}) <= n
    BY <1>1, <2>1, <2>3
  <2> QED BY <1>4, <2>2, <2>4
<1>5. Nat \subseteq T
  <2> HIDE DEF T
  <2> QED BY <1>3, <1>4, NatInduct
<1>6. ASSUME NEW s \in SUBSET S PROVE s \in G
  <2>1. Cardinality(s) \in T
    BY <1>1, <1>5
  <2> QED BY <1>1, <2>1
<1> QED BY <1>6

\* A sum goes over to another set along an injection that keeps the terms.
LEMMA SumMoves ==
  ASSUME NEW S, IsFiniteSet(S), NEW R, NEW f, NEW k, NEW g, NEW h,
         Summing(g, S, f), Summing(h, R, k), NEW b \in [S -> R],
         \A x, y \in S : b[x] = b[y] => x = y, \A x \in S : k[b[x]] = f[x]
  PROVE  \A s \in SUBSET S : g[s] = h[{b[x] : x \in s}]
<1> DEFINE G == {s \in SUBSET S : g[s] = h[{b[x] : x \in s}]}
<1>1. {} \in G
  <2>1. {b[x] : x \in {}} = {}
    OBVIOUS
  <2> QED BY <2>1 DEF Summing
<1>2. ASSUME NEW s \in SUBSET S, NEW x \in s, s \ {x} \in G PROVE s \in G
  <2> DEFINE B(t) == {b[y] : y \in t}
  <2>1. B(s) \in SUBSET R /\ b[x] \in B(s)
    OBVIOUS
  <2>2. B(s \ {x}) = B(s) \ {b[x]}
    <3>1. \A y \in s : b[y] = b[x] => y = x
      OBVIOUS
    <3>2. B(s \ {x}) \subseteq B(s) \ {b[x]}
      BY <3>1
    <3>3. B(s) \ {b[x]} \subseteq B(s \ {x})
      OBVIOUS
    <3> QED BY <3>2, <3>3
  <2>3. h[B(s)] = h[B(s) \ {b[x]}] + k[b[x]]
    <3> HIDE DEF B
    <3> QED BY <2>1 DEF Summing
  <2>4. g[s] = g[s \ {x}] + f[x]
    BY DEF Summing
  <2>5. g[s \ {x}] = h[B(s \ {x})]
    BY <1>2
  <2>6. k[b[x]] = f[x]
    OBVIOUS
  <2>7. g[s] = h[B(s)]
    <3> HIDE DEF B, G
    <3> QED BY <2>2, <2>3, <2>4, <2>5, <2>6
  <2> QED BY <2>7
<1>3. SUBSET S \subseteq G
  <2> HIDE DEF G
  <2>1. ASSUME NEW s \in SUBSET S, s # {}, \A x \in s : s \ {x} \in G PROVE s \in G
    BY <1>2, <2>1
  <2> QED BY <1>1, <2>1, SetInduct
<1> QED BY <1>3

\* Larger terms have no smaller sum.
LEMMA SumGrows ==
  ASSUME NEW S, IsFiniteSet(S), NEW f \in [S -> Int], NEW k \in [S -> Int], NEW g, NEW h,
         Summing(g, S, f), Summing(h, S, k), \A x \in S : f[x] <= k[x]
  PROVE  g[S] <= h[S]
<1> DEFINE G == {s \in SUBSET S : g[s] <= h[s]}
<1>1. {} \in G
  BY DEF Summing
<1>2. ASSUME NEW s \in SUBSET S, NEW x \in s, s \ {x} \in G PROVE s \in G
  <2>1. g[s] = g[s \ {x}] + f[x] /\ h[s] = h[s \ {x}] + k[x]
    BY DEF Summing
  <2>2. {g[s \ {x}], h[s \ {x}], f[x], k[x]} \subseteq Int
    <3>1. s \ {x} \in SUBSET S /\ x \in S
      OBVIOUS
    <3> QED BY <3>1 DEF Summing
  <2>3. g[s \ {x}] <= h[s \ {x}] /\ f[x] <= k[x]
    BY <1>2
  <2>4. g[s] <= h[s]
    <3> HIDE DEF G
    <3> QED BY <2>1, <2>2, <2>3
  <2> QED BY <2>4
<1>3. SUBSET S \subseteq G
  <2> HIDE DEF G
  <2>1. ASSUME NEW s \in SUBSET S, s # {}, \A x \in s : s \ {x} \in G PROVE s \in G
    BY <1>2, <2>1
  <2> QED BY <1>1, <2>1, SetInduct
<1> QED BY <1>3

\* A sum of counts is a count, and zero when each of them is.
LEMMA SumCounts ==
  ASSUME NEW S, IsFiniteSet(S), NEW f \in [S -> Nat], NEW g, Summing(g, S, f)
  PROVE  g[S] \in Nat /\ (g[S] = 0 <=> \A x \in S : f[x] = 0)
<1> DEFINE G == {s \in SUBSET S : g[s] \in Nat /\ (g[s] = 0 <=> \A x \in s : f[x] = 0)}
<1>1. {} \in G
  BY DEF Summing
<1>2. ASSUME NEW s \in SUBSET S, NEW x \in s, s \ {x} \in G PROVE s \in G
  <2>1. g[s] = g[s \ {x}] + f[x]
    BY DEF Summing
  <2>2. f[x] \in Nat /\ g[s \ {x}] \in Nat
    BY <1>2
  <2>3. g[s] \in Nat /\ (g[s] = 0 <=> g[s \ {x}] = 0 /\ f[x] = 0)
    <3> HIDE DEF G
    <3> QED BY <2>1, <2>2
  <2>4. (\A y \in s : f[y] = 0) <=> f[x] = 0 /\ \A y \in s \ {x} : f[y] = 0
    OBVIOUS
  <2> QED BY <1>2, <2>3, <2>4
<1>3. SUBSET S \subseteq G
  <2> HIDE DEF G
  <2>1. ASSUME NEW s \in SUBSET S, s # {}, \A x \in s : s \ {x} \in G PROVE s \in G
    BY <1>2, <2>1
  <2> QED BY <1>1, <2>1, SetInduct
<1> QED BY <1>3

\* SumFunction is such a sum, in the order CHOOSE takes the elements.
LEMMA SumOf ==
  ASSUME NEW S, IsFiniteSet(S), NEW f \in [S -> Int]
  PROVE  \E g : Summing(g, S, f) /\ SumFunction(f) = g[S]
<1> DEFINE c == [s \in SUBSET S |-> CHOOSE x \in s : TRUE]
           Unfold(h, s) == IF s = {} THEN 0 ELSE f[CHOOSE x \in s : TRUE] + h[s \ {CHOOSE x \in s : TRUE}]
           it == CHOOSE h : h = [s \in SUBSET S |-> Unfold(h, s)]
<1>1. \A s \in SUBSET S : s # {} => c[s] \in s
  OBVIOUS
<1>2. PICK g : g \in [SUBSET S -> Int] /\ IsSum(g, S, f, c)
  <2> HIDE DEF c
  <2> QED BY <1>1, SumExists
<1>3. g = [s \in SUBSET S |-> Unfold(g, s)]
  <2>1. ASSUME NEW s \in SUBSET S PROVE g[s] = Unfold(g, s)
    <3>1. CASE s = {}
      BY <1>2, <3>1 DEF IsSum
    <3>2. CASE s # {}
      <4>1. c[s] = (CHOOSE x \in s : TRUE) /\ c[s] \in S /\ s \ {c[s]} \in SUBSET S
        BY <3>2
      <4>2. g[s] = g[s \ {c[s]}] + f[c[s]]
        BY <1>2, <3>2 DEF IsSum
      <4>3. g[s \ {c[s]}] + f[c[s]] = f[c[s]] + g[s \ {c[s]}]
        BY <1>2, <4>1
      <4> HIDE DEF c
      <4> QED BY <3>2, <4>1, <4>2, <4>3
    <3> QED BY <3>1, <3>2
  <2> HIDE DEF Unfold
  <2> QED BY <1>2, <2>1
<1>4. it = [s \in SUBSET S |-> Unfold(it, s)]
  <2> HIDE DEF Unfold
  <2> QED BY <1>3
<1>5. SumFunction(f) = it[S]
  <2>1. DOMAIN f = S
    OBVIOUS
  <2>2. SumFunction(f) = SumFunctionOnSet(f, S)
    BY <2>1 DEF SumFunction
  <2> QED BY <2>2 DEF SumFunctionOnSet, FoldFunctionOnSet, MapThenFoldSet
<1>6. SUBSET S \subseteq {s \in SUBSET S : it[s] = g[s]}
  <2> DEFINE G == {s \in SUBSET S : it[s] = g[s]}
  <2>1. \A s \in SUBSET S : it[s] = Unfold(it, s) /\ g[s] = Unfold(g, s)
    <3> HIDE DEF Unfold, it
    <3> QED BY <1>3, <1>4
  <2>2. {} \in G
    <3>1. {} \in SUBSET S
      OBVIOUS
    <3> HIDE DEF it
    <3> QED BY <2>1, <3>1
  <2>3. ASSUME NEW s \in SUBSET S, s # {}, \A x \in s : s \ {x} \in G PROVE s \in G
    <3>1. (CHOOSE x \in s : TRUE) \in s
      BY <2>3
    <3> HIDE DEF it
    <3>2. it[s \ {CHOOSE x \in s : TRUE}] = g[s \ {CHOOSE x \in s : TRUE}]
      BY <2>3, <3>1
    <3> QED BY <2>1, <2>3, <3>2
  <2> HIDE DEF G
  <2>4. SUBSET S \subseteq G
    BY <2>2, <2>3, SetInduct
  <2> QED BY <2>4 DEF G
<1>7. Summing(g, S, f)
  <2> HIDE DEF c
  <2> QED BY <1>1, <1>2, AnyOrder
<1>8. SumFunction(f) = g[S]
  <2> HIDE DEF it
  <2> QED BY <1>5, <1>6
<1> QED BY <1>7, <1>8

\* A sum of counts is a count, and zero when each of them is.
LEMMA CountsAdd ==
  ASSUME NEW S, IsFiniteSet(S), NEW f \in [S -> Nat]
  PROVE  SumFunction(f) \in Nat /\ (SumFunction(f) = 0 <=> \A x \in S : f[x] = 0)
<1>1. f \in [S -> Int]
  OBVIOUS
<1>2. PICK g : Summing(g, S, f) /\ SumFunction(f) = g[S]
  BY <1>1, SumOf
<1> QED BY <1>2, SumCounts

\* A sum goes over to another set along a bijection that keeps the terms.
LEMMA SumAlong ==
  ASSUME NEW S, IsFiniteSet(S), NEW R, IsFiniteSet(R), NEW f \in [S -> Int], NEW k \in [R -> Int],
         NEW b \in [S -> R], \A x, y \in S : b[x] = b[y] => x = y, {b[x] : x \in S} = R,
         \A x \in S : k[b[x]] = f[x]
  PROVE  SumFunction(f) = SumFunction(k)
<1>1. PICK g : Summing(g, S, f) /\ SumFunction(f) = g[S]
  BY SumOf
<1>2. PICK h : Summing(h, R, k) /\ SumFunction(k) = h[R]
  BY SumOf
<1>3. \A s \in SUBSET S : g[s] = h[{b[x] : x \in s}]
  BY <1>1, <1>2, SumMoves
<1>4. g[S] = h[{b[x] : x \in S}]
  BY <1>3
<1> QED BY <1>1, <1>2, <1>4

-----------------------------------------------------------------------------
(* Coverage sums                                                           *)

LEMMA Division ==
  ASSUME NEW n \in Nat, NEW d \in Nat, d > 0
  PROVE  n \div d \in Int /\ d * (n \div d) <= n /\ n < d * (n \div d) + d
OBVIOUS

\* The parts of a metric.
LEMMA MetricParts ==
  ASSUME NEW v \in MetricType
  PROVE  v["covered"] \in Nat /\ v["total"] \in Nat /\ v["covered"] <= v["total"]
BY DEF MetricType

\* What is covered of a total is a metric: its percentage rounds to no more
\* than 100%.
LEMMA MetricTyped ==
  ASSUME NEW c \in Nat, NEW t \in Nat, c <= t
  PROVE  Metric(c, t) \in MetricType
<1> DEFINE q == (2000 * c + t) \div (2 * t)
<1>1. t # 0 => q \in 0 .. 1000
  <2> SUFFICES ASSUME t # 0 PROVE q \in 0 .. 1000
    OBVIOUS
  <2> DEFINE n == 2000 * c + t
             d == 2 * t
  <2>1. n \in Nat /\ d \in Nat /\ d > 0 /\ n <= 2001 * t /\ d * 1001 = 2002 * t
    OBVIOUS
  <2>2. q = n \div d
    OBVIOUS
  <2> HIDE DEF n, d, q
  <2>3. q \in Int /\ d * q <= n /\ n < d * q + d
    BY <2>1, <2>2, Division
  <2>4. q >= 0
    BY <2>1, <2>3
  <2>5. ASSUME q > 1000 PROVE FALSE
    <3>1. d * 1001 <= d * q
      BY <2>1, <2>3, <2>5
    <3>2. 2002 * t <= 2001 * t
      <4>1. {d * 1001, d * q, n} \subseteq Int
        BY <2>1, <2>3
      <4> HIDE DEF d
      <4> QED BY <2>1, <2>3, <3>1, <4>1
    <3> QED BY <3>2
  <2> QED BY <2>3, <2>4, <2>5
<1> HIDE DEF q
<1>2. Metric(c, t) = [covered |-> c, total |-> t, percent |-> IF t = 0 THEN Null ELSE q]
  BY DEF Metric, q
<1> DEFINE v == Metric(c, t)
<1>3. v.covered = c /\ v.total = t /\ v \in [covered : Nat, total : Nat, percent : {Null} \cup 0 .. 1000]
  BY <1>1, <1>2
<1> HIDE DEF v
<1>4. v = Metric(v.covered, v.total)
  BY <1>3 DEF v
<1> QED BY <1>3, <1>4 DEF MetricType, v

LEMMA SumTyped ==
  ASSUME NEW F, Files(F)
  PROVE  SumCoverage(F) \in CoverageType
<1> SUFFICES ASSUME NEW m \in Metrics PROVE SumCoverage(F)[m] \in {Null} \cup MetricType
  BY DEF SumCoverage, CoverageType
<1> DEFINE reported == {f \in F : f.metrics[m] # Null}
<1>1. IsFiniteSet(reported)
  BY FS_Subset DEF Files
<1>2. \A f \in reported : f.metrics[m] \in MetricType
  BY DEF Files, CoverageType
<1>3. \A f \in reported : f.metrics[m]["covered"] \in Nat /\ f.metrics[m]["total"] \in Nat
                          /\ f.metrics[m]["covered"] <= f.metrics[m]["total"]
  BY <1>2, MetricParts
<1> DEFINE c == [x \in reported |-> x.metrics[m]["covered"]]
           t == [x \in reported |-> x.metrics[m]["total"]]
<1>4. c \in [reported -> Nat] /\ t \in [reported -> Nat] /\ \A x \in reported : c[x] <= t[x]
  <2> HIDE DEF reported
  <2> QED BY <1>3
<1>5. c \in [reported -> Int] /\ t \in [reported -> Int]
  <2> HIDE DEF reported
  <2> QED BY <1>3
<1>6. SumCoverage(F)[m] = IF reported = {} THEN Null ELSE Metric(SumFunction(c), SumFunction(t))
  BY DEF SumCoverage
<1> HIDE DEF reported, c, t
<1>7. SumFunction(c) \in Nat /\ SumFunction(t) \in Nat
  BY <1>1, <1>4, CountsAdd
<1>8. SumFunction(c) <= SumFunction(t)
  <2>1. PICK g : Summing(g, reported, c) /\ SumFunction(c) = g[reported]
    BY <1>1, <1>5, SumOf
  <2>2. PICK h : Summing(h, reported, t) /\ SumFunction(t) = h[reported]
    BY <1>1, <1>5, SumOf
  <2> QED BY <1>1, <1>4, <1>5, <2>1, <2>2, SumGrows
<1> QED BY <1>6, <1>7, <1>8, MetricTyped

-----------------------------------------------------------------------------
(* The inductive invariant                                                 *)

RowType(r) ==
  /\ r.run \in 1 .. runs /\ r.at = At(r.run, LastStep)
  /\ r.app \in Apps /\ r.coverage \in CoverageType
  /\ r.tests # Null => {r.tests.total, r.tests.passed, r.tests.failed} \subseteq Nat
PointType(p) ==
  /\ p.run \in 1 .. runs /\ p.at \in At(p.run, 1) .. At(p.run, LastStep)
  /\ p.app \in SliceNames /\ p.coverage \in CoverageType /\ p.tests = Null
Unique(set) == \A x, y \in set : x.run = y.run /\ x.app = y.app => x = y

Stored ==
  /\ runs \in 0 .. MaxRuns /\ builds \in 0 .. MaxBuilds
  /\ DOMAIN slices = SliceNames /\ \A s \in SliceNames : IsFiniteSet(slices[s])
  /\ snapshots = [a \in Apps |-> snapshots[a]]
  /\ \A a \in Apps : snapshots[a] # Null => snapshots[a].run \in 1 .. runs /\ Files(snapshots[a].files)

\* A run writes its rows once, with its verdict.
RowsHold ==
  /\ IsFiniteSet(rows) /\ Unique(rows) /\ \A r \in rows : RowType(r)
  /\ live # Null => live.over \/ \A r \in rows : r.run < runs
PointsHold == IsFiniteSet(points) /\ Unique(points) /\ \A p \in points : PointType(p)

\* What the worker holds of a run.
Living ==
  live # Null =>
    /\ live = [local |-> live.local, todo |-> live.todo, got |-> live.got,
               results |-> live.results, over |-> live.over]
    /\ runs > 0 /\ live.todo \subseteq Apps /\ DOMAIN live.got \subseteq {DirOf[a] : a \in Apps}
    /\ \A d \in DOMAIN live.got : Files(live.got[d])
    /\ IsFiniteSet(live.results) /\ Unique(live.results)
    /\ \A r \in live.results : RowType(r) /\ r.run = runs /\ r.app \notin live.todo

IInv == Stored /\ RowsHold /\ PointsHold /\ Living

LEMMA FiniteImage ==
  ASSUME NEW B, IsFiniteSet(B), NEW f
  PROVE  IsFiniteSet({f[x] : x \in B})
<1> DEFINE g == [x \in B |-> f[x]]
<1>1. g \in Surjection(B, {f[x] : x \in B})
  BY DEF Surjection
<1> HIDE DEF g
<1> QED BY <1>1, FS_Surjection

\* The files of any slice's current coverage are files of snapshots.
LEMMA ListedFiles ==
  ASSUME Stored, NEW paths
  PROVE  /\ Files(Listed(paths))
         /\ \A f \in Listed(paths) :
              /\ f.app \in Apps /\ snapshots[f.app] # Null /\ f.path \in paths
              /\ \E g \in snapshots[f.app].files : g.path = f.path /\ g.metrics = f.metrics
<1> DEFINE B == {b \in Apps : snapshots[b] # Null}
           G(a) == {g \in snapshots[a].files : g.path \in paths}
           L(a) == {[app |-> a, path |-> f.path, metrics |-> f.metrics] : f \in G(a)}
<1>1. Listed(paths) = UNION {L(a) : a \in B}
  BY DEF Listed
<1>2. ASSUME NEW a \in B PROVE IsFiniteSet(L(a))
  <2>1. IsFiniteSet(G(a))
    BY FS_Subset DEF Stored, Files
  <2> DEFINE h == [f \in G(a) |-> [app |-> a, path |-> f.path, metrics |-> f.metrics]]
  <2>2. L(a) = {h[f] : f \in G(a)}
    OBVIOUS
  <2> HIDE DEF h, G, L
  <2> QED BY <2>1, <2>2, FiniteImage
<1>3. IsFiniteSet({L(a) : a \in B})
  <2>1. IsFiniteSet(B)
    BY TrendHistoryAssumption, FS_Subset
  <2> DEFINE h == [a \in B |-> L(a)]
  <2>2. {L(a) : a \in B} = {h[a] : a \in B}
    OBVIOUS
  <2> HIDE DEF h, B, L
  <2> QED BY <2>1, <2>2, FiniteImage
<1>4. IsFiniteSet(Listed(paths))
  <2> DEFINE U == {L(a) : a \in B}
  <2>1. \A u \in U : IsFiniteSet(u)
    BY <1>2
  <2>2. IsFiniteSet(UNION U)
    <3> HIDE DEF U
    <3> QED BY <1>3, <2>1, FS_UNION DEF U
  <2> QED BY <1>1, <2>2
<1>5. ASSUME NEW f \in Listed(paths)
      PROVE  /\ f.app \in Apps /\ snapshots[f.app] # Null /\ f.path \in paths
             /\ \E g \in snapshots[f.app].files : g.path = f.path /\ g.metrics = f.metrics
  <2>1. PICK a \in B : f \in L(a)
    BY <1>1
  <2>2. PICK g \in G(a) : f = [app |-> a, path |-> g.path, metrics |-> g.metrics]
    BY <2>1
  <2> QED BY <2>2
<1>6. \A f \in Listed(paths) : f.metrics \in CoverageType
  BY <1>5 DEF Stored, Files
<1> QED BY <1>4, <1>5, <1>6 DEF Files

\* So are the files a run makes a point of.
LEMMA MeasuredFiles ==
  ASSUME Stored, Living, live # Null, NEW s \in SliceNames
  PROVE  Files(Measured(s))
<1> DEFINE Own(p) == {f \in live.got[p[1]] : f.path = p}
           Kept(p) == {[path |-> p, metrics |-> (CHOOSE f \in Listed({q}) : TRUE).metrics] :
                         q \in {r \in {p} : Listed({r}) # {}}}
           LookUp(p) == IF p[1] \in DOMAIN live.got THEN Own(p) ELSE Kept(p)
<1>1. Measured(s) = UNION {LookUp(p) : p \in slices[s]}
  BY DEF Measured
<1>2. ASSUME NEW p \in slices[s] PROVE Files(LookUp(p))
  <2>1. CASE p[1] \in DOMAIN live.got
    <3>1. Files(live.got[p[1]])
      BY <2>1 DEF Living
    <3>2. Files(Own(p))
      BY <3>1, FS_Subset DEF Files
    <3> QED BY <2>1, <3>2
  <2>2. CASE p[1] \notin DOMAIN live.got
    <3>1. CASE Listed({p}) = {}
      <4>1. Kept(p) = {}
        BY <3>1
      <4> QED BY <2>2, <4>1, FS_EmptySet DEF Files
    <3>2. CASE Listed({p}) # {}
      <4> DEFINE m == (CHOOSE f \in Listed({p}) : TRUE).metrics
                 e == [path |-> p, metrics |-> m]
      <4>1. Kept(p) = {e}
        BY <3>2
      <4>2. (CHOOSE f \in Listed({p}) : TRUE) \in Listed({p})
        BY <3>2
      <4>3. m \in CoverageType
        BY <4>2, ListedFiles DEF Files
      <4>4. IsFiniteSet({e})
        BY FS_Singleton
      <4>5. Files({e})
        <5> HIDE DEF m
        <5> QED BY <4>3, <4>4 DEF Files
      <4> HIDE DEF e, Kept, Own
      <4> QED BY <2>2, <4>1, <4>5
    <3> QED BY <3>1, <3>2
  <2> QED BY <2>1, <2>2
<1> HIDE DEF LookUp
<1> DEFINE U == {LookUp(p) : p \in slices[s]}
<1>3. IsFiniteSet(U)
  <2> DEFINE h == [p \in slices[s] |-> LookUp(p)]
  <2>1. U = {h[p] : p \in slices[s]}
    OBVIOUS
  <2>2. IsFiniteSet(slices[s])
    BY DEF Stored
  <2> HIDE DEF h, U
  <2> QED BY <2>1, <2>2, FiniteImage
<1>4. \A u \in U : IsFiniteSet(u)
  BY <1>2 DEF Files
<1>5. IsFiniteSet(UNION U)
  <2> HIDE DEF U
  <2> QED BY <1>3, <1>4, FS_UNION
<1>6. \A f \in Measured(s) : f.metrics \in CoverageType
  BY <1>1, <1>2 DEF Files
<1> QED BY <1>1, <1>5, <1>6 DEF Files

LEMMA Times ==
  ASSUME Stored
  PROVE  /\ LastStep \in Nat /\ LastStep > 0 /\ runs \in Nat
         /\ \A a \in Apps : a \in Nat /\ 1 <= a /\ a < LastStep
         /\ \A r \in Nat : /\ At(r, LastStep) \in At(r, 1) .. At(r, LastStep)
                           /\ \A a \in Apps : At(r, a) \in At(r, 1) .. At(r, LastStep)
<1>1. Cardinality(Apps) \in Nat /\ Apps = 1 .. Cardinality(Apps)
  BY TrendHistoryAssumption, FS_CardinalityType
<1>2. /\ LastStep \in Nat /\ LastStep > 0 /\ runs \in Nat
      /\ \A a \in Apps : a \in Nat /\ 1 <= a /\ a < LastStep
  BY <1>1, TrendHistoryAssumption DEF LastStep, Stored
<1>3. ASSUME NEW r \in Nat, NEW a \in Nat, 1 <= a, a <= LastStep
      PROVE  At(r, a) \in At(r, 1) .. At(r, LastStep)
  <2>1. r * LastStep \in Nat
    BY <1>2
  <2> QED BY <1>2, <1>3, <2>1 DEF At
<1> QED BY <1>2, <1>3

LEMMA InitHolds == Init => IInv
<1> SUFFICES ASSUME Init PROVE IInv
  OBVIOUS
<1>1. IsFiniteSet({})
  BY FS_EmptySet
<1>2. DOMAIN slices = SliceNames /\ \A s \in SliceNames : IsFiniteSet(slices[s])
  <2>1. CASE slices = [s \in SliceNames |-> {}]
    BY <1>1, <2>1
  <2>2. CASE slices \in Shapes
    BY <2>2, TrendHistoryAssumption
  <2> QED BY <2>1, <2>2 DEF Init
<1>3. 0 \in 0 .. MaxRuns /\ 0 \in 0 .. MaxBuilds
  BY TrendHistoryAssumption
<1> QED BY <1>1, <1>2, <1>3 DEF Init, IInv, Stored, RowsHold, PointsHold, Living, Unique

\* A later run or another slice build leaves the records well formed.
LEMMA TypesKept ==
  ASSUME Stored, runs' \in Nat, runs <= runs'
  PROVE  /\ \A r : RowType(r) => RowType(r)'
         /\ \A p : PointType(p) => PointType(p)'
BY Times DEF RowType, PointType, Stored, At

LEMMA StartHolds ==
  ASSUME IInv, NEW local \in BOOLEAN, NEW todo \in SUBSET Apps \ {{}}, StartRun(local, todo)
  PROVE  IInv'
<1> USE DEF IInv, StartRun
<1>1. runs' \in 1 .. MaxRuns /\ runs' \in Nat /\ runs <= runs' /\ runs < runs'
  BY TrendHistoryAssumption DEF Stored
<1>2. /\ \A r : RowType(r) => RowType(r)'
      /\ \A p : PointType(p) => PointType(p)'
  BY <1>1, TypesKept
<1>3. Stored'
  BY <1>1 DEF Stored
<1>4. RowsHold'
  <2>1. \A r \in rows : r.run < runs'
    BY <1>1 DEF RowsHold, RowType, Stored
  <2> QED BY <1>2, <2>1 DEF RowsHold, Unique
<1>5. PointsHold'
  BY <1>2 DEF PointsHold, Unique
<1>6. Living'
  <2>1. IsFiniteSet({})
    BY FS_EmptySet
  <2> QED BY <1>1, <2>1 DEF Living, Unique
<1> QED BY <1>3, <1>4, <1>5, <1>6

LEMMA TestHolds ==
  ASSUME IInv, NEW a \in Apps, NEW report \in Reports[a], TestApp(a, report)
  PROVE  IInv'
<1> USE DEF IInv
<1>1. Report(report)
  BY TrendHistoryAssumption
<1>2. live # Null /\ ~live.over /\ a \in live.todo
  <2>1. live # Null /\ ~live.over /\ live.todo # {} /\ a = Min(live.todo)
    BY DEF TestApp
  <2>2. live.todo \subseteq Nat
    BY <2>1, Times DEF Living
  <2> QED BY <2>1, <2>2, LeastExists
<1>3. /\ \A r \in rows : r.run < runs
      /\ runs \in 1 .. runs /\ runs \in 0 .. MaxRuns
  BY <1>2 DEF RowsHold, Living, Stored
<1>4. /\ live' = [local |-> live.local, todo |-> live'.todo, got |-> live'.got,
                  results |-> live'.results, over |-> live.over]
      /\ live'.todo = live.todo \ {a}
      /\ live'.got = IF report.files = {} THEN live.got ELSE Put(live.got, DirOf[a], report.files)
      /\ live'.results = live.results \cup Row(a, report)
  BY <1>2 DEF TestApp, Living
<1>5. /\ UNCHANGED <<rows, slices, points, runs, builds>>
      /\ snapshots' = [b \in Apps |-> snapshots'[b]]
      /\ \A b \in Apps : \/ snapshots'[b] = snapshots[b]
                        \/ snapshots'[b] = [run |-> runs, files |-> report.files]
  BY DEF TestApp, Stored
<1>6. Stored'
  <2>1. \A b \in Apps : snapshots'[b] # Null => snapshots'[b].run \in 1 .. runs /\ Files(snapshots'[b].files)
    BY <1>1, <1>3, <1>5 DEF Stored, Report
  <2> QED BY <1>5, <2>1 DEF Stored
<1>7. RowsHold' /\ PointsHold'
  BY <1>3, <1>5 DEF RowsHold, PointsHold, RowType, PointType, Unique
<1>8. ASSUME NEW r \in Row(a, report) PROVE RowType(r) /\ r.run = runs /\ r.app = a
  <2>1. r = [run |-> runs, at |-> At(runs, LastStep), app |-> a, tests |-> report.tests,
             coverage |-> IF report.coverage = Null THEN [m \in Metrics |-> Null] ELSE report.coverage]
    BY DEF Row
  <2>2. [m \in Metrics |-> Null] \in CoverageType
    BY DEF CoverageType
  <2> QED BY <1>1, <1>3, <2>1, <2>2 DEF RowType, Report
<1>9. IsFiniteSet(Row(a, report)) /\ \A r, q \in Row(a, report) : r = q
  <2> DEFINE e == [run |-> runs, at |-> At(runs, LastStep), app |-> a, tests |-> report.tests,
                   coverage |-> IF report.coverage = Null THEN [m \in Metrics |-> Null] ELSE report.coverage]
  <2>1. Row(a, report) \subseteq {e}
    BY DEF Row
  <2>2. IsFiniteSet({e})
    BY FS_Singleton
  <2> HIDE DEF e
  <2> QED BY <2>1, <2>2, FS_Subset
<1>10. Living'
  <2>1. DOMAIN live'.got \subseteq {DirOf[b] : b \in Apps} /\ \A d \in DOMAIN live'.got : Files(live'.got[d])
    BY <1>1, <1>2, <1>4 DEF Living, Put, Report
  <2>2. IsFiniteSet(live'.results)
    <3>1. IsFiniteSet(live.results) /\ IsFiniteSet(Row(a, report))
      BY <1>2, <1>9 DEF Living
    <3>2. IsFiniteSet(live.results \cup Row(a, report))
      BY ONLY <3>1, FS_Union
    <3> QED BY <1>4, <3>2
  <2>3. Unique(live'.results)
    BY <1>2, <1>4, <1>8, <1>9 DEF Living, Unique
  <2>4. \A r \in live'.results : RowType(r) /\ r.run = runs /\ r.app \notin live'.todo
    BY <1>2, <1>4, <1>8 DEF Living
  <2>5. \A r : RowType(r) => RowType(r)'
    BY <1>5 DEF RowType
  <2>6. live'.todo \subseteq Apps /\ runs > 0
    BY <1>2, <1>4 DEF Living
  <2> QED BY <1>4, <1>5, <2>1, <2>2, <2>3, <2>4, <2>5, <2>6 DEF Living, Unique
<1> QED BY <1>6, <1>7, <1>10

LEMMA EndHolds ==
  ASSUME IInv, Verdict \/ Cut \/ Crash
  PROVE  IInv'
<1> USE DEF IInv
<1>1. CASE Verdict
  <2> USE DEF Verdict
  <2>1. /\ live # Null /\ UNCHANGED <<snapshots, slices, points, runs, builds>>
        /\ rows' = rows \cup live.results
    BY <1>1
  <2>2. live' = [local |-> live.local, todo |-> live.todo, got |-> live.got,
                 results |-> live.results, over |-> TRUE]
    BY <1>1 DEF Living
  <2>3. IsFiniteSet(rows')
    <3>1. IsFiniteSet(live.results) /\ IsFiniteSet(rows)
      BY <2>1 DEF Living, RowsHold
    <3>2. IsFiniteSet(rows \cup live.results)
      BY ONLY <3>1, FS_Union
    <3> QED BY <2>1, <3>2
  <2>4. Unique(rows') /\ \A r \in rows' : RowType(r)
    <3>1. \A r \in rows : r.run < runs /\ RowType(r)
      BY <1>1 DEF RowsHold
    <3>2. \A r \in live.results : r.run = runs /\ RowType(r)
      BY <2>1 DEF Living
    <3>3. \A r \in rows, q \in live.results : r.run # q.run
      BY <3>1, <3>2, Times DEF RowType
    <3> QED BY <2>1, <3>1, <3>2, <3>3 DEF RowsHold, Living, Unique
  <2>5. RowsHold'
    BY <2>1, <2>2, <2>3, <2>4 DEF RowsHold, RowType, Unique
  <2>6. Stored' /\ PointsHold'
    BY <2>1 DEF Stored, PointsHold, PointType, Unique
  <2>7. Living'
    BY <2>1, <2>2 DEF Living, RowType, Unique
  <2> QED BY <2>5, <2>6, <2>7
<1>2. CASE Cut
  <2>1. live # Null /\ UNCHANGED <<rows, snapshots, slices, points, runs, builds>>
    BY <1>2 DEF Cut
  <2>2. live' = [local |-> live.local, todo |-> live.todo, got |-> live.got,
                 results |-> live.results, over |-> TRUE]
    BY <1>2 DEF Living, Cut
  <2> QED BY <2>1, <2>2 DEF Stored, RowsHold, PointsHold, Living, RowType, PointType, Unique
<1>3. CASE Crash
  <2>1. live' = Null /\ UNCHANGED <<rows, snapshots, slices, points, runs, builds>>
    BY <1>3 DEF Crash
  <2> QED BY <2>1 DEF Stored, RowsHold, PointsHold, Living, RowType, PointType, Unique
<1> QED BY <1>1, <1>2, <1>3

\* The slices a run's points are of, and the point of one.
Reached == {s \in SliceNames : (\E p \in slices[s] : p[1] \in DOMAIN live.got) /\ Measured(s) # {}}
RunPoint(s) ==
  [run |-> runs, at |-> At(runs, LastStep), app |-> s, tests |-> Null,
   coverage |-> SumCoverage(Measured(s)), measured |-> Cardinality(Measured(s))]

LEMMA RecordAdds ==
  ASSUME Record
  PROVE  /\ live # Null /\ live' = Null /\ UNCHANGED <<rows, snapshots, slices, runs, builds>>
         /\ points' = {p \in points : p.run # runs \/ p.app \notin Reached} \cup {RunPoint(s) : s \in Reached}
BY DEF Record, Reached, RunPoint

LEMMA RecordHolds ==
  ASSUME IInv, Record
  PROVE  IInv'
<1> USE DEF IInv
<1>1. /\ live # Null /\ live' = Null /\ UNCHANGED <<rows, snapshots, slices, runs, builds>>
      /\ points' = {p \in points : p.run # runs \/ p.app \notin Reached} \cup {RunPoint(s) : s \in Reached}
  BY RecordAdds
<1> DEFINE old == {p \in points : p.run # runs \/ p.app \notin Reached}
           new == {RunPoint(s) : s \in Reached}
<1>2. Stored' /\ RowsHold' /\ Living'
  BY <1>1 DEF Stored, RowsHold, Living, RowType, Unique
<1>3. IsFiniteSet(points')
  <2>1. IsFiniteSet(old)
    BY FS_Subset DEF PointsHold
  <2>2. IsFiniteSet(new)
    <3> DEFINE h == [s \in Reached |-> RunPoint(s)]
    <3>1. new = {h[s] : s \in Reached}
      OBVIOUS
    <3>2. IsFiniteSet(Reached)
      BY FS_Subset, TrendHistoryAssumption DEF Reached
    <3> HIDE DEF h, new
    <3> QED BY <3>1, <3>2, FiniteImage
  <2>3. IsFiniteSet(old \cup new)
    <3> HIDE DEF old, new
    <3> QED BY <2>1, <2>2, FS_Union
  <2> QED BY <1>1, <2>3
<1>4. ASSUME NEW s \in Reached
      PROVE  PointType(RunPoint(s)) /\ RunPoint(s).run = runs /\ RunPoint(s).app = s
  <2>1. s \in SliceNames /\ Files(Measured(s))
    BY <1>1, MeasuredFiles DEF Reached
  <2>2. SumCoverage(Measured(s)) \in CoverageType
    BY <2>1, SumTyped
  <2>3. runs \in 1 .. runs /\ At(runs, LastStep) \in At(runs, 1) .. At(runs, LastStep)
    BY <1>1, Times DEF Living
  <2> QED BY <2>1, <2>2, <2>3 DEF PointType, RunPoint
<1>5. \A p \in points' : PointType(p)'
  <2>1. \A p \in points' : PointType(p)
    BY <1>1, <1>4 DEF PointsHold
  <2> QED BY <1>1, <2>1 DEF PointType
<1>6. Unique(points')
  <2>1. \A p, q \in old : p.run = q.run /\ p.app = q.app => p = q
    BY DEF PointsHold, Unique
  <2>2. \A p, q \in new : p.run = q.run /\ p.app = q.app => p = q
    BY <1>4
  <2>3. \A p \in old, q \in new : ~(p.run = q.run /\ p.app = q.app)
    BY <1>4
  <2> HIDE DEF old, new
  <2> QED BY <1>1, <2>1, <2>2, <2>3 DEF Unique, old, new
<1> QED BY <1>2, <1>3, <1>5, <1>6 DEF PointsHold, Unique

\* A finite set has an element of the greatest value.
LEMMA GreatestOf ==
  ASSUME NEW B, IsFiniteSet(B), B # {}, NEW f, \A b \in B : f[b] \in Int
  PROVE  \E a \in B : \A b \in B : f[b] <= f[a]
<1> DEFINE G == {s \in SUBSET B : s # {} => \E a \in s : \A b \in s : f[b] <= f[a]}
<1>1. {} \in G
  OBVIOUS
<1>2. ASSUME NEW s \in SUBSET B, s # {}, \A x \in s : s \ {x} \in G PROVE s \in G
  <2>1. PICK x \in s : TRUE
    BY <1>2
  <2>2. CASE s \ {x} = {}
    BY <2>1, <2>2
  <2>3. CASE s \ {x} # {}
    <3>1. PICK a \in s \ {x} : \A b \in s \ {x} : f[b] <= f[a]
      BY <1>2, <2>1, <2>3
    <3>2. CASE f[x] <= f[a]
      BY <3>1, <3>2
    <3>3. CASE f[a] <= f[x]
      BY <3>1, <3>3
    <3>4. f[a] \in Int /\ f[x] \in Int
      OBVIOUS
    <3> QED BY <3>2, <3>3, <3>4
  <2> QED BY <2>2, <2>3
<1>3. SUBSET B \subseteq G
  <2> HIDE DEF G
  <2> QED BY <1>1, <1>2, SetInduct
<1> QED BY <1>3

Newest(sources) ==
  CHOOSE a \in sources : \A b \in sources : At(snapshots[b].run, b) <= At(snapshots[a].run, a)

\* Time within and between runs: a later snapshot is of no earlier run.
LEMMA LaterRun ==
  ASSUME Stored, NEW r \in Nat, NEW q \in Nat, NEW a \in Apps, NEW b \in Apps, At(r, a) <= At(q, b)
  PROVE  r <= q
<1>1. /\ LastStep \in Nat /\ a \in Nat /\ b \in Nat /\ 1 <= a /\ b < LastStep
  BY Times
<1>2. SUFFICES ASSUME q + 1 <= r PROVE FALSE
  OBVIOUS
<1>3. (q + 1) * LastStep <= r * LastStep /\ (q + 1) * LastStep = q * LastStep + LastStep
  BY <1>1, <1>2
<1>4. r * LastStep \in Nat /\ q * LastStep \in Nat
  BY <1>1
<1> QED BY <1>1, <1>3, <1>4 DEF At

\* A measured slice has a source, and a newest one.
LEMMA NewestSource ==
  ASSUME Stored, NEW paths, Current(paths).measured > 0
  PROVE  LET a == Newest(Current(paths).sources)
         IN /\ a \in Apps /\ snapshots[a].run \in 1 .. runs
            /\ Current(paths).sources \subseteq Apps
            /\ \A b \in Current(paths).sources : snapshots[b].run \in Nat /\ snapshots[b].run <= snapshots[a].run
<1> DEFINE B == Current(paths).sources
           f == [b \in B |-> At(snapshots[b].run, b)]
<1>1. Current(paths).measured = Cardinality(Listed(paths)) /\ B = {x.app : x \in Listed(paths)}
  BY DEF Current
<1>2. B # {}
  <2>1. Listed(paths) # {}
    BY <1>1, FS_EmptySet
  <2> QED BY <1>1, <2>1
<1>3. B \subseteq Apps /\ IsFiniteSet(B)
  <2>1. B \subseteq Apps
    BY <1>1, ListedFiles
  <2> HIDE DEF B
  <2> QED BY <2>1, FS_Subset, TrendHistoryAssumption
<1>4. \A b \in B : snapshots[b].run \in 1 .. runs
  BY <1>1, ListedFiles DEF Stored
<1>5. \A b \in B : snapshots[b].run \in Nat /\ b \in Nat /\ LastStep \in Nat
  BY <1>3, <1>4, Times
<1>6. \A b \in B : f[b] \in Int
  <2> HIDE DEF B
  <2> QED BY <1>5 DEF At
<1>7. PICK a \in B : \A b \in B : At(snapshots[b].run, b) <= At(snapshots[a].run, a)
  <2> HIDE DEF B
  <2>1. PICK a \in B : \A b \in B : f[b] <= f[a]
    <3> HIDE DEF f
    <3> QED BY <1>2, <1>3, <1>6, GreatestOf
  <2> QED BY <2>1
<1> DEFINE n == Newest(B)
<1>8. n \in B /\ \A b \in B : At(snapshots[b].run, b) <= At(snapshots[n].run, n)
  <2> HIDE DEF B
  <2> QED BY <1>7 DEF Newest
<1> HIDE DEF B, n
<1>9. \A b \in B : snapshots[b].run <= snapshots[n].run
  BY <1>3, <1>5, <1>8, LaterRun
<1> QED BY <1>3, <1>4, <1>5, <1>8, <1>9 DEF B, n

\* The slices a build seeds, and its seeds.
Seeds(shape) ==
  {Seed(s, Current(shape[s])) : s \in {t \in SliceNames : Current(shape[t]).measured > 0}}

LEMMA SeedIs ==
  ASSUME Stored, NEW shape, NEW s \in SliceNames, Current(shape[s]).measured > 0
  PROVE  LET p == Seed(s, Current(shape[s]))
             a == Newest(Current(shape[s]).sources)
         IN PointType(p) /\ p.app = s /\ p.run = snapshots[a].run
<1> DEFINE a == Newest(Current(shape[s]).sources)
           p == Seed(s, Current(shape[s]))
<1>1. a \in Apps /\ snapshots[a].run \in 1 .. runs
  BY NewestSource
<1>2. p = [run |-> snapshots[a].run, at |-> At(snapshots[a].run, a), app |-> s, tests |-> Null,
           coverage |-> Current(shape[s]).coverage, measured |-> Current(shape[s]).measured]
  BY DEF Seed, Newest
<1>3. Current(shape[s]).coverage \in CoverageType
  BY ListedFiles, SumTyped DEF Current
<1> HIDE DEF a, p
<1>4. At(snapshots[a].run, a) \in At(snapshots[a].run, 1) .. At(snapshots[a].run, LastStep)
  BY <1>1, Times
<1> QED BY <1>1, <1>2, <1>3, <1>4 DEF PointType, a, p

LEMMA BuildAdds ==
  ASSUME NEW shape \in Shapes, Build(shape)
  PROVE  /\ live = Null /\ builds' = builds + 1 /\ builds < MaxBuilds /\ slices' = shape
         /\ UNCHANGED <<rows, snapshots, runs, live>>
         /\ points' = points \cup {p \in Seeds(shape) : ~Taken(p, points)}
BY DEF Build, Seeds, Seeded

LEMMA BuildHolds ==
  ASSUME IInv, NEW shape \in Shapes, Build(shape)
  PROVE  IInv'
<1> USE DEF IInv
<1>1. /\ live = Null /\ builds' = builds + 1 /\ builds < MaxBuilds /\ slices' = shape
      /\ UNCHANGED <<rows, snapshots, runs, live>>
      /\ points' = points \cup {p \in Seeds(shape) : ~Taken(p, points)}
  BY BuildAdds
<1>2. Stored'
  BY <1>1, TrendHistoryAssumption DEF Stored
<1>3. RowsHold' /\ Living'
  BY <1>1 DEF RowsHold, Living, RowType, Unique
<1> DEFINE M == {t \in SliceNames : Current(shape[t]).measured > 0}
<1>4. IsFiniteSet(points')
  <2>1. IsFiniteSet(Seeds(shape))
    <3> DEFINE h == [s \in M |-> Seed(s, Current(shape[s]))]
    <3>1. Seeds(shape) = {h[s] : s \in M}
      BY DEF Seeds
    <3>2. IsFiniteSet(M)
      BY FS_Subset, TrendHistoryAssumption
    <3> HIDE DEF h, M
    <3> QED BY <3>1, <3>2, FiniteImage
  <2>2. IsFiniteSet({p \in Seeds(shape) : ~Taken(p, points)}) /\ IsFiniteSet(points)
    BY <2>1, FS_Subset DEF PointsHold
  <2>3. IsFiniteSet(points \cup {p \in Seeds(shape) : ~Taken(p, points)})
    BY ONLY <2>2, FS_Union
  <2> QED BY <1>1, <2>3
<1>5. \A p \in Seeds(shape) : PointType(p)
  BY SeedIs DEF Seeds
<1>6. \A p, q \in Seeds(shape) : p.app = q.app => p = q
  BY SeedIs DEF Seeds
<1>7. \A p \in points' : PointType(p)'
  BY <1>1, <1>5 DEF PointsHold, PointType
<1>8. Unique(points')
  BY <1>1, <1>6 DEF PointsHold, Unique, Taken
<1> QED BY <1>2, <1>3, <1>4, <1>7, <1>8 DEF PointsHold, Unique

LEMMA NextHolds == IInv /\ [Next]_vars => IInv'
<1> SUFFICES ASSUME IInv, [Next]_vars PROVE IInv'
  OBVIOUS
<1>1. CASE Next
  BY <1>1, StartHolds, TestHolds, EndHolds, RecordHolds, BuildHolds DEF Next
<1>2. CASE UNCHANGED vars
  BY <1>2 DEF vars, IInv, Stored, RowsHold, PointsHold, Living, RowType, PointType, Unique
<1> QED BY <1>1, <1>2

\* A seed comes from the newest snapshot in its slice, and is left out only
\* where its run has a point already.
LEMMA BuildFillsGaps ==
  ASSUME IInv, NEW shape \in Shapes, Build(shape)
  PROVE  /\ points \subseteq points'
         /\ \A s \in SliceNames : Current(slices'[s]).measured > 0 =>
              \E p \in points' : /\ p.app = s
                                 /\ \A a \in Current(slices'[s]).sources : snapshots[a].run <= p.run
<1>1. /\ slices' = shape /\ Stored
      /\ points' = points \cup {p \in Seeds(shape) : ~Taken(p, points)}
  BY BuildAdds DEF IInv
<1>2. SUFFICES ASSUME NEW s \in SliceNames, Current(shape[s]).measured > 0
               PROVE  \E p \in points' : /\ p.app = s
                                         /\ \A a \in Current(shape[s]).sources : snapshots[a].run <= p.run
  BY <1>1
<1> DEFINE p == Seed(s, Current(shape[s]))
<1>3. p.app = s /\ p \in Seeds(shape) /\ \A a \in Current(shape[s]).sources : snapshots[a].run <= p.run
  BY <1>1, <1>2, SeedIs, NewestSource DEF Seeds
<1>4. PICK q \in points' : q.app = p.app /\ q.run = p.run
  <2> HIDE DEF p
  <2>1. CASE Taken(p, points)
    BY <1>1, <2>1 DEF Taken
  <2>2. CASE ~Taken(p, points)
    BY <1>1, <1>3, <2>2
  <2> QED BY <2>1, <2>2
<1> HIDE DEF p
<1> QED BY <1>3, <1>4

LEMMA StepFillsGaps == IInv /\ [Next]_vars => [builds' # builds =>
       /\ points \subseteq points'
       /\ \A s \in SliceNames : Current(slices'[s]).measured > 0 =>
            \E p \in points' : /\ p.app = s
                               /\ \A a \in Current(slices'[s]).sources : snapshots[a].run <= p.run]_vars
<1> SUFFICES ASSUME IInv, [Next]_vars, builds' # builds
             PROVE /\ points \subseteq points'
                   /\ \A s \in SliceNames : Current(slices'[s]).measured > 0 =>
                        \E p \in points' : /\ p.app = s
                                           /\ \A a \in Current(slices'[s]).sources : snapshots[a].run <= p.run
  OBVIOUS
<1>1. PICK shape \in Shapes : Build(shape)
  BY DEF Next, vars, StartRun, TestApp, Verdict, Cut, Record, Crash
<1> QED BY <1>1, BuildFillsGaps

-----------------------------------------------------------------------------
(* A slice's point and its current coverage                                *)

\* F and G are the same files under other names.
Renames(b, F, G) ==
  /\ b \in [F -> G] /\ \A x, y \in F : b[x] = b[y] => x = y
  /\ \A y \in G : \E x \in F : b[x] = y
  /\ \A x \in F : b[x].metrics = x.metrics

LEMMA SameSums ==
  ASSUME NEW F, NEW G, Files(F), Files(G), NEW b, Renames(b, F, G)
  PROVE  SumCoverage(F) = SumCoverage(G) /\ Cardinality(F) = Cardinality(G)
<1> USE DEF Renames
<1>1. Cardinality(F) = Cardinality(G)
  <2>1. b \in Bijection(F, G)
    BY DEF Bijection, Injection, Surjection, IsInjective
  <2>2. IsFiniteSet(F) /\ IsFiniteSet(G) /\ ExistsBijection(F, G)
    BY <2>1 DEF Files, ExistsBijection
  <2> QED BY <2>2, FS_Bijection
<1>2. ASSUME NEW m \in Metrics PROVE SumCoverage(F)[m] = SumCoverage(G)[m]
  <2> DEFINE R == {x \in F : x.metrics[m] # Null}
             S == {x \in G : x.metrics[m] # Null}
             c == [x \in R |-> b[x]]
  <2>1. c \in [R -> S] /\ (\A x, y \in R : c[x] = c[y] => x = y) /\ {c[x] : x \in R} = S
    <3>1. \A x \in R : c[x] = b[x] /\ b[x] \in S
      OBVIOUS
    <3>2. \A y \in S : \E x \in R : b[x] = y
      OBVIOUS
    <3>3. \A x, y \in R : b[x] = b[y] => x = y
      OBVIOUS
    <3>4. c \in [R -> S]
      BY <3>1
    <3> HIDE DEF S, R
    <3> QED BY <3>1, <3>2, <3>3, <3>4
  <2> DEFINE Terms(set, part) == [x \in set |-> x.metrics[m][part]]
  <2>2. /\ SumCoverage(F)[m] = IF R = {} THEN Null
                              ELSE Metric(SumFunction(Terms(R, "covered")), SumFunction(Terms(R, "total")))
        /\ SumCoverage(G)[m] = IF S = {} THEN Null
                              ELSE Metric(SumFunction(Terms(S, "covered")), SumFunction(Terms(S, "total")))
    BY DEF SumCoverage
  <2>3. R = {} <=> S = {}
    BY <2>1
  <2>4. \A x \in R : c[x].metrics = x.metrics
    OBVIOUS
  <2>5. IsFiniteSet(R) /\ IsFiniteSet(S)
    BY FS_Subset DEF Files
  <2>6. \A x \in R \cup S : x.metrics[m] \in MetricType
    BY DEF Files, CoverageType
  <2>7. ASSUME NEW part \in {"covered", "total"}
        PROVE  SumFunction(Terms(R, part)) = SumFunction(Terms(S, part))
    <3>1. \A x \in R \cup S : x.metrics[m][part] \in Int
      <4>1. \A x \in R \cup S : x.metrics[m]["covered"] \in Int /\ x.metrics[m]["total"] \in Int
        BY <2>6, MetricParts
      <4> QED BY <2>7, <4>1
    <3> HIDE DEF R, S, c
    <3>2. Terms(R, part) \in [R -> Int] /\ Terms(S, part) \in [S -> Int]
      BY <3>1
    <3>3. \A x \in R : Terms(S, part)[c[x]] = Terms(R, part)[x]
      BY <2>1, <2>4
    <3> HIDE DEF Terms
    <3> QED BY <2>1, <2>5, <3>2, <3>3, SumAlong
  <2> HIDE DEF R, S, Terms
  <2> QED BY <2>2, <2>3, <2>7
<1>3. SumCoverage(F) = [m \in Metrics |-> SumCoverage(F)[m]] /\ SumCoverage(G) = [m \in Metrics |-> SumCoverage(G)[m]]
  BY DEF SumCoverage
<1> QED BY <1>1, <1>2, <1>3

\* What the conditions on paths make of the records: a snapshot lists files
\* of its app's directory, each once, and what a run of a remote ref has in
\* memory of a directory is the snapshot of its app.
OwnFiles(a, files) ==
  \A f \in files : f.path[1] = DirOf[a] /\ \A g \in files : g.path = f.path => g = f
OwnRecords ==
  /\ \A a \in Apps : snapshots[a] # Null => OwnFiles(a, snapshots[a].files)
  /\ live # Null /\ ~live.local =>
       \A a \in Apps : DirOf[a] \in DOMAIN live.got =>
         snapshots[a] # Null /\ live.got[DirOf[a]] = snapshots[a].files

LEMMA OwnTest ==
  ASSUME OwnPaths, IInv, OwnRecords, NEW a \in Apps, NEW report \in Reports[a], TestApp(a, report)
  PROVE  OwnRecords'
<1> USE DEF IInv
<1>1. Report(report) /\ OwnFiles(a, report.files)
  BY TrendHistoryAssumption DEF OwnPaths, OwnFiles
<1>2. /\ live # Null
      /\ live'.local = live.local
      /\ live'.got = IF report.files = {} THEN live.got ELSE Put(live.got, DirOf[a], report.files)
  BY DEF TestApp, Living
<1>3. [run |-> runs, files |-> report.files] # Null
  <2>1. runs \in 0 .. MaxRuns /\ runs > 0
    BY <1>2 DEF Living, Stored
  <2>2. runs \in 1 .. MaxRuns
    BY <2>1
  <2>3. \A n \in 1 .. MaxRuns : [run |-> n, files |-> report.files] # Null
    BY NullIsApart
  <2> QED BY <2>2, <2>3
<1>4. CASE live.local \/ report.coverage = Null \/ report.files = {}
  <2>1. snapshots' = snapshots
    BY <1>4 DEF TestApp
  <2>2. live.local \/ live'.got = live.got
    BY <1>1, <1>2, <1>4 DEF Report
  <2> QED BY <1>2, <2>1, <2>2 DEF OwnRecords, OwnFiles
<1>5. CASE ~(live.local \/ report.coverage = Null \/ report.files = {})
  <2>1. snapshots' = [snapshots EXCEPT ![a] = [run |-> runs, files |-> report.files]]
    BY <1>5 DEF TestApp
  <2>2. /\ snapshots'[a] = [run |-> runs, files |-> report.files]
        /\ \A b \in Apps \ {a} : snapshots'[b] = snapshots[b]
    BY <2>1 DEF Stored
  <2>3. \A b \in Apps : snapshots'[b] # Null => OwnFiles(b, snapshots'[b].files)
    BY <1>1, <2>2 DEF OwnRecords
  <2>4. live'.got = Put(live.got, DirOf[a], report.files)
    BY <1>2, <1>5
  <2>5. live'.got[DirOf[a]] = report.files
    BY <2>4 DEF Put
  <2>6. ASSUME ~live.local, NEW b \in Apps \ {a}, DirOf[b] \in DOMAIN live'.got
        PROVE  snapshots[b] # Null /\ live'.got[DirOf[b]] = snapshots[b].files
    <3>1. DirOf[b] # DirOf[a]
      BY DEF OwnPaths
    <3>2. DirOf[b] \in DOMAIN live.got /\ live'.got[DirOf[b]] = live.got[DirOf[b]]
      BY <2>4, <2>6, <3>1 DEF Put
    <3> QED BY <1>2, <2>6, <3>2 DEF OwnRecords
  <2>7. ASSUME ~live.local, NEW b \in Apps, DirOf[b] \in DOMAIN live'.got
        PROVE  snapshots'[b] # Null /\ live'.got[DirOf[b]] = snapshots'[b].files
    <3>1. CASE b = a
      BY <1>3, <2>2, <2>5, <3>1
    <3>2. CASE b # a
      BY <2>2, <2>6, <2>7, <3>2
    <3> QED BY <3>1, <3>2
  <2> QED BY <1>2, <2>3, <2>7 DEF OwnRecords, OwnFiles
<1> QED BY <1>4, <1>5

LEMMA OwnNext == OwnPaths /\ IInv /\ OwnRecords /\ [Next]_vars => OwnRecords'
<1> SUFFICES ASSUME OwnPaths, IInv, OwnRecords, [Next]_vars PROVE OwnRecords'
  OBVIOUS
<1>1. ASSUME NEW local \in BOOLEAN, NEW todo \in SUBSET Apps \ {{}}, StartRun(local, todo) PROVE OwnRecords'
  <2>1. live'.got = <<>> /\ snapshots' = snapshots
    BY <1>1 DEF StartRun
  <2> QED BY <2>1 DEF OwnRecords, OwnFiles
<1>2. CASE Verdict \/ Cut
  <2>1. live # Null /\ live'.got = live.got /\ live'.local = live.local /\ snapshots' = snapshots
    BY <1>2 DEF Verdict, Cut, IInv, Living
  <2> QED BY <2>1 DEF OwnRecords, OwnFiles
<1>3. CASE Crash \/ Record
  <2>1. live' = Null /\ snapshots' = snapshots
    BY <1>3 DEF Crash, Record
  <2> QED BY <2>1 DEF OwnRecords, OwnFiles
<1>4. ASSUME NEW shape \in Shapes, Build(shape) PROVE OwnRecords'
  <2>1. live' = live /\ snapshots' = snapshots
    BY <1>4 DEF Build
  <2> QED BY <2>1 DEF OwnRecords, OwnFiles
<1>5. CASE UNCHANGED vars
  BY <1>5 DEF vars, OwnRecords, OwnFiles
<1> QED BY <1>1, <1>2, <1>3, <1>4, <1>5, OwnTest DEF Next

LEMMA OwnInit == Init => OwnRecords
BY DEF Init, OwnRecords

\* An entry of a slice's current coverage is the file of the app whose
\* directory its path is in, and the only one of that path.
LEMMA ListedOnce ==
  ASSUME OwnPaths, IInv, OwnRecords, NEW paths
  PROVE  /\ \A x, y \in Listed(paths) : x.path = y.path => x = y
         /\ \A x \in Listed(paths) : x.path[1] = DirOf[x.app]
<1>1. ASSUME NEW x \in Listed(paths)
      PROVE  /\ x = [app |-> x.app, path |-> x.path, metrics |-> x.metrics]
             /\ x.app \in Apps /\ OwnFiles(x.app, snapshots[x.app].files)
             /\ \E f \in snapshots[x.app].files : f.path = x.path /\ f.metrics = x.metrics
  <2>1. x = [app |-> x.app, path |-> x.path, metrics |-> x.metrics]
    BY DEF Listed
  <2> QED BY <2>1, ListedFiles DEF IInv, OwnRecords
<1>2. \A x \in Listed(paths) : x.path[1] = DirOf[x.app]
  BY <1>1 DEF OwnFiles
<1>3. ASSUME NEW x \in Listed(paths), NEW y \in Listed(paths), x.path = y.path PROVE x = y
  <2>1. x.app = y.app
    BY <1>1, <1>2, <1>3 DEF OwnPaths
  <2>2. x.metrics = y.metrics
    BY <1>1, <1>3, <2>1 DEF OwnFiles
  <2> QED BY <1>1, <1>3, <2>1, <2>2
<1> QED BY <1>2, <1>3

\* The entries of one path.
LEMMA ListedOfPath ==
  ASSUME NEW paths, NEW p \in paths
  PROVE  \A x : x \in Listed({p}) <=> x \in Listed(paths) /\ x.path = p
BY DEF Listed

\* The files a run makes a point of are those of the slice's current coverage.
LEMMA MeasuredIsListed ==
  ASSUME OwnPaths, IInv, OwnRecords, live # Null, ~live.local, NEW s \in SliceNames
  PROVE  /\ \A f, h \in Measured(s) : f.path = h.path => f = h
         /\ \A f \in Measured(s) : \E x \in Listed(slices[s]) : x.path = f.path /\ x.metrics = f.metrics
         /\ \A x \in Listed(slices[s]) : \E f \in Measured(s) : x.path = f.path /\ x.metrics = f.metrics
<1> DEFINE Own(p) == {f \in live.got[p[1]] : f.path = p}
           Kept(p) == {[path |-> p, metrics |-> (CHOOSE f \in Listed({q}) : TRUE).metrics] :
                         q \in {r \in {p} : Listed({r}) # {}}}
           LookUp(p) == IF p[1] \in DOMAIN live.got THEN Own(p) ELSE Kept(p)
<1>1. Measured(s) = UNION {LookUp(p) : p \in slices[s]}
  BY DEF Measured
<1>2. ASSUME NEW a \in Apps, DirOf[a] \in DOMAIN live.got
      PROVE  /\ snapshots[a] # Null /\ live.got[DirOf[a]] = snapshots[a].files
             /\ OwnFiles(a, snapshots[a].files)
  BY <1>2 DEF OwnRecords
<1>3. ASSUME NEW p \in slices[s], NEW f \in LookUp(p)
      PROVE  /\ f.path = p /\ \A h \in LookUp(p) : h = f
             /\ \E x \in Listed(slices[s]) : x.path = f.path /\ x.metrics = f.metrics
  <2>1. CASE p[1] \in DOMAIN live.got
    <3>1. PICK a \in Apps : p[1] = DirOf[a]
      BY <2>1 DEF IInv, Living
    <3>2. f \in snapshots[a].files /\ f.path = p /\ LookUp(p) = {h \in snapshots[a].files : h.path = p}
      BY <1>2, <1>3, <2>1, <3>1
    <3>3. \A h \in LookUp(p) : h = f
      BY <1>2, <2>1, <3>1, <3>2 DEF OwnFiles
    <3> DEFINE x == [app |-> a, path |-> f.path, metrics |-> f.metrics]
    <3>4. x \in Listed(slices[s])
      BY <1>2, <2>1, <3>1, <3>2 DEF Listed
    <3> HIDE DEF LookUp
    <3> QED BY <3>2, <3>3, <3>4
  <2>2. CASE p[1] \notin DOMAIN live.got
    <3> DEFINE y == CHOOSE x \in Listed({p}) : TRUE
    <3>1. Listed({p}) # {} /\ Kept(p) = {[path |-> p, metrics |-> y.metrics]}
      BY <1>3, <2>2
    <3>2. y \in Listed({p})
      BY <3>1
    <3>3. y \in Listed(slices[s]) /\ y.path = p
      BY <3>2, ListedOfPath
    <3> HIDE DEF y, Kept
    <3> QED BY <1>3, <2>2, <3>1, <3>3
  <2> QED BY <2>1, <2>2
<1>4. ASSUME NEW x \in Listed(slices[s])
      PROVE  \E f \in LookUp(x.path) : x.path = f.path /\ x.metrics = f.metrics
  <2> DEFINE p == x.path
  <2>1. x.app \in Apps /\ p \in slices[s] /\ p[1] = DirOf[x.app]
    BY ListedFiles, ListedOnce DEF IInv
  <2>2. PICK g \in snapshots[x.app].files : g.path = p /\ g.metrics = x.metrics
    BY ListedFiles DEF IInv
  <2>3. CASE p[1] \in DOMAIN live.got
    <3>1. g \in Own(p)
      BY <1>2, <2>1, <2>2, <2>3
    <3> QED BY <2>2, <2>3, <3>1
  <2>4. CASE p[1] \notin DOMAIN live.got
    <3>1. x \in Listed({p})
      BY <2>1, ListedOfPath
    <3>2. \A y \in Listed({p}) : y = x
      BY <2>1, <3>1, ListedOnce, ListedOfPath
    <3>3. (CHOOSE y \in Listed({p}) : TRUE) = x
      BY <3>1, <3>2
    <3>4. Kept(p) = {[path |-> p, metrics |-> x.metrics]}
      BY <3>1, <3>3
    <3> DEFINE e == [path |-> p, metrics |-> x.metrics]
    <3>5. e.path = x.path /\ e.metrics = x.metrics
      OBVIOUS
    <3>6. e \in LookUp(p)
      <4> HIDE DEF Kept
      <4> QED BY <2>4, <3>4
    <3> HIDE DEF e, LookUp
    <3> QED BY <3>5, <3>6
  <2> QED BY <2>3, <2>4
<1>5. \A x \in Listed(slices[s]) : x.path \in slices[s]
  BY ListedFiles DEF IInv
<1> HIDE DEF LookUp
<1>6. \A f, h \in Measured(s) : f.path = h.path => f = h
  BY <1>1, <1>3
<1>7. \A f \in Measured(s) : \E x \in Listed(slices[s]) : x.path = f.path /\ x.metrics = f.metrics
  BY <1>1, <1>3
<1>8. ASSUME NEW x \in Listed(slices[s])
      PROVE  \E f \in Measured(s) : x.path = f.path /\ x.metrics = f.metrics
  <2>1. PICK f \in LookUp(x.path) : x.path = f.path /\ x.metrics = f.metrics
    BY <1>4
  <2> QED BY <1>1, <1>5, <2>1
<1> QED BY <1>6, <1>7, <1>8

LEMMA PointMatches ==
  ASSUME OwnPaths, IInv, OwnRecords, live # Null, ~live.local, NEW s \in SliceNames
  PROVE  /\ SumCoverage(Measured(s)) = Current(slices[s]).coverage
         /\ Cardinality(Measured(s)) = Current(slices[s]).measured
<1> DEFINE L == Listed(slices[s])
           M == Measured(s)
           b == [x \in L |-> CHOOSE f \in M : f.path = x.path]
<1>1. /\ \A f, h \in M : f.path = h.path => f = h
      /\ \A f \in M : \E x \in L : x.path = f.path /\ x.metrics = f.metrics
      /\ \A x \in L : \E f \in M : x.path = f.path /\ x.metrics = f.metrics
      /\ \A x, y \in L : x.path = y.path => x = y
      /\ Files(L) /\ Files(M)
  BY MeasuredIsListed, MeasuredFiles, ListedFiles, ListedOnce DEF IInv
<1>2. Current(slices[s]).coverage = SumCoverage(L) /\ Current(slices[s]).measured = Cardinality(L)
  BY DEF Current
<1> HIDE DEF L, M
<1>3. \A x \in L : b[x] \in M /\ b[x].path = x.path /\ b[x].metrics = x.metrics
  BY <1>1
<1>4. Renames(b, L, M)
  <2>1. b \in [L -> M]
    BY <1>3
  <2>2. \A f \in M : \E x \in L : b[x] = f
    BY <1>1, <1>3
  <2>3. \A x, y \in L : b[x] = b[y] => x = y
    BY <1>1, <1>3
  <2> HIDE DEF b
  <2> QED BY <1>3, <2>1, <2>2, <2>3 DEF Renames
<1> HIDE DEF b
<1> QED BY <1>1, <1>2, <1>4, SameSums DEF M

LEMMA StepIsCurrent ==
  OwnPaths /\ IInv /\ OwnRecords /\ [Next]_vars =>
    [\A p \in points' : live # Null /\ live' = Null /\ ~live.local /\ p \notin points =>
       LET Same(c) == p.coverage = c.coverage /\ p.measured = c.measured
       IN Same(Current(slices[p.app]))]_vars
<1> SUFFICES ASSUME OwnPaths, IInv, OwnRecords, [Next]_vars, NEW p \in points',
                    live # Null, ~live.local, p \notin points
             PROVE  p.coverage = Current(slices[p.app]).coverage /\ p.measured = Current(slices[p.app]).measured
  OBVIOUS
<1>1. Record
  BY DEF Next, vars, StartRun, TestApp, Verdict, Cut, Crash, Build
<1>2. PICK s \in Reached : p = RunPoint(s)
  BY <1>1, RecordAdds
<1> QED BY <1>2, PointMatches DEF RunPoint, Reached

-----------------------------------------------------------------------------
(* Sets in an order                                                        *)

\* R orders the elements of S, and none before itself.
Orders(R, S) ==
  /\ \A x \in S : <<x, x>> \notin R
  /\ \A x, y \in S : x # y => <<x, y>> \in R \/ <<y, x>> \in R
  /\ \A x, y, z \in S : <<x, y>> \in R /\ <<y, z>> \in R => <<x, z>> \in R

\* The number of elements of S before each.
Rank(S, R) == [x \in S |-> Cardinality({y \in S : <<y, x>> \in R})]

\* It is an injection into 0 .. n - 1 where S has n elements, and so meets
\* each of these numbers.
LEMMA RankOrders ==
  ASSUME NEW S, IsFiniteSet(S), NEW R, Orders(R, S)
  PROVE  /\ Cardinality(S) \in Nat
         /\ \A x \in S : Rank(S, R)[x] \in Nat
         /\ \A x, y \in S : Rank(S, R)[x] < Rank(S, R)[y] <=> <<x, y>> \in R
         /\ \A x, y \in S : Rank(S, R)[x] = Rank(S, R)[y] => x = y
         /\ \A x \in S : \E i \in 1 .. Cardinality(S) : Rank(S, R)[x] = i - 1
         /\ \A i \in 1 .. Cardinality(S) : \E x \in S : Rank(S, R)[x] = i - 1
<1> DEFINE n == Cardinality(S)
           Below(x) == {y \in S : <<y, x>> \in R}
           rank == [x \in S |-> Cardinality(Below(x))]
<1>1. n \in Nat
  BY FS_CardinalityType
<1>2. ASSUME NEW x \in S PROVE IsFiniteSet(Below(x)) /\ rank[x] \in 0 .. n - 1
  <2>1. Below(x) \in SUBSET S /\ Below(x) # S
    BY DEF Orders
  <2>2. IsFiniteSet(Below(x)) /\ Cardinality(Below(x)) <= n /\ Cardinality(Below(x)) # n
    <3> HIDE DEF Below
    <3> QED BY <2>1, FS_Subset
  <2>3. Cardinality(Below(x)) \in Nat
    BY <2>2, FS_CardinalityType
  <2> HIDE DEF Below, n
  <2> QED BY <1>1, <2>2, <2>3
<1>3. \A x \in S : rank[x] \in Nat
  <2> SUFFICES ASSUME NEW x \in S PROVE rank[x] \in Nat
    OBVIOUS
  <2>1. rank[x] \in 0 .. n - 1
    BY <1>2
  <2> HIDE DEF rank, n
  <2> QED BY <2>1
<1>4. ASSUME NEW x \in S, NEW y \in S, <<x, y>> \in R PROVE rank[x] < rank[y]
  <2>1. Below(x) \in SUBSET Below(y) /\ Below(x) # Below(y)
    BY <1>4 DEF Orders
  <2>2. IsFiniteSet(Below(y))
    BY <1>2
  <2>3. Cardinality(Below(x)) <= Cardinality(Below(y)) /\ Cardinality(Below(x)) # Cardinality(Below(y))
    <3> HIDE DEF Below
    <3> QED BY <2>1, <2>2, FS_Subset
  <2>4. rank[x] = Cardinality(Below(x)) /\ rank[y] = Cardinality(Below(y))
    OBVIOUS
  <2> HIDE DEF rank, Below
  <2> QED BY <1>3, <2>3, <2>4
<1> DEFINE P == 0 .. n - 1
<1>5. /\ \A x, y \in S : rank[x] < rank[y] <=> <<x, y>> \in R
      /\ \A x, y \in S : rank[x] = rank[y] => x = y
  <2> SUFFICES ASSUME NEW x \in S, NEW y \in S
               PROVE  (rank[x] < rank[y] <=> <<x, y>> \in R) /\ (rank[x] = rank[y] => x = y)
    OBVIOUS
  <2>1. (<<x, y>> \in R => rank[x] < rank[y]) /\ (<<y, x>> \in R => rank[y] < rank[x])
    BY <1>4
  <2>2. x = y \/ <<x, y>> \in R \/ <<y, x>> \in R
    BY DEF Orders
  <2>3. rank[x] \in Nat /\ rank[y] \in Nat
    BY <1>3
  <2> HIDE DEF rank
  <2> QED BY <2>1, <2>2, <2>3
<1>6. \A k \in P : \E x \in S : rank[x] = k
  <2>1. rank \in [S -> P]
    BY <1>2
  <2>2. rank \in Injection(S, P)
    <3> HIDE DEF rank, P
    <3> QED BY <1>5, <2>1 DEF Injection, IsInjective
  <2>3. IsFiniteSet(P) /\ Cardinality(P) = n
    <3> HIDE DEF n
    <3> QED BY <1>1, FS_Interval
  <2>4. rank \in Surjection(S, P)
    <3> HIDE DEF rank, P
    <3> QED BY <2>2, <2>3, FS_Injection
  <2> HIDE DEF rank, P
  <2> QED BY <2>4 DEF Surjection
<1>7. rank = Rank(S, R)
  BY DEF Rank
<1> HIDE DEF rank
<1>8. \A i \in 1 .. n : \E x \in S : rank[x] = i - 1
  <2>1. \A i \in 1 .. n : i - 1 \in P
    <3> HIDE DEF n
    <3> QED BY <1>1
  <2> HIDE DEF P, n
  <2> QED BY <1>6, <2>1
<1>9. \A x \in S : \E i \in 1 .. n : rank[x] = i - 1
  <2> SUFFICES ASSUME NEW x \in S PROVE \E i \in 1 .. n : rank[x] = i - 1
    OBVIOUS
  <2>1. rank[x] + 1 \in 1 .. n /\ (rank[x] + 1) - 1 = rank[x]
    <3>1. rank[x] \in 0 .. n - 1
      BY <1>2
    <3> HIDE DEF n
    <3> QED BY <1>1, <3>1
  <2> HIDE DEF n
  <2> QED BY <2>1
<1> QED BY <1>1, <1>3, <1>5, <1>7, <1>8, <1>9

\* q gives the elements of S, each at the place of its rank: in the order R,
\* and each once.
LEMMA Sorted ==
  ASSUME NEW S, IsFiniteSet(S), NEW R, Orders(R, S), NEW q,
         \A i \in 1 .. Cardinality(S) : q[i] \in S /\ Rank(S, R)[q[i]] = i - 1
  PROVE  /\ \A x \in S : \E i \in 1 .. Cardinality(S) : q[i] = x
         /\ \A i, j \in 1 .. Cardinality(S) : i < j <=> <<q[i], q[j]>> \in R
<1> DEFINE n == Cardinality(S)
           rank == Rank(S, R)
<1>1. /\ n \in Nat
      /\ \A x, y \in S : rank[x] < rank[y] <=> <<x, y>> \in R
      /\ \A x, y \in S : rank[x] = rank[y] => x = y
      /\ \A x \in S : \E i \in 1 .. n : rank[x] = i - 1
  BY RankOrders
<1>2. \A i \in 1 .. n : q[i] \in S /\ rank[q[i]] = i - 1
  OBVIOUS
<1> HIDE DEF n, rank
<1>3. ASSUME NEW x \in S PROVE \E i \in 1 .. n : q[i] = x
  <2>1. PICK i \in 1 .. n : rank[x] = i - 1
    BY <1>1
  <2>2. q[i] = x
    BY <1>1, <1>2, <2>1
  <2> QED BY <2>2
<1>4. ASSUME NEW i \in 1 .. n, NEW j \in 1 .. n PROVE i < j <=> <<q[i], q[j]>> \in R
  <2>1. i < j <=> rank[q[i]] < rank[q[j]]
    BY <1>1, <1>2
  <2> QED BY <1>1, <1>2, <2>1
<1> QED BY <1>3, <1>4 DEF n

-----------------------------------------------------------------------------
(* The runs of a history, in order                                         *)

\* Rows or points of runs: one at most of an app in a run, a later run dated
\* later.
History(H) ==
  /\ IsFiniteSet(H) /\ Unique(H)
  /\ \A r \in H : r.run \in 1 .. MaxRuns /\ r.at \in Int /\ r.coverage \in CoverageType
  /\ \A r, q \in H : r.run < q.run => r.at < q.at

RunOf(g) == (CHOOSE r \in g : TRUE).run

\* q lists the runs of H, oldest first, each as the set of its rows.
Timeline(H, q, n) ==
  /\ n \in Nat /\ DOMAIN q = 1 .. n
  /\ \A i \in 1 .. n : q[i] # {} /\ q[i] = {r \in H : r.run = RunOf(q[i])} /\ RunOf(q[i]) \in 1 .. MaxRuns
  /\ \A i, j \in 1 .. n : i < j <=> RunOf(q[i]) < RunOf(q[j])
  /\ \A r \in H : \E i \in 1 .. n : r \in q[i]

InScope(set, scope) == {r \in set : scope = Null \/ r.app \in scope}

LEMMA RunsInOrder ==
  ASSUME NEW set, NEW scope, History(InScope(set, scope))
  PROVE  \E n : Timeline(InScope(set, scope), RunRows(set, scope), n)
<1> DEFINE H == InScope(set, scope)
           Group(id) == {r \in H : r.run = id}
           S == {Group(id) : id \in {r.run : r \in H}}
           When(g) == (CHOOSE r \in g : TRUE).at
           R == {p \in S \X S : When(p[1]) < When(p[2])}
           q == RunRows(set, scope)
           n == Cardinality(S)
<1>1. /\ q = [i \in 1 .. n |-> CHOOSE g \in S : Cardinality({y \in S : When(y) < When(g)}) = i - 1]
  BY DEF RunRows, InOrder, InScope
<1>2. IsFiniteSet(S)
  <2> DEFINE h == [r \in H |-> Group(r.run)]
  <2>1. S = {h[r] : r \in H}
    OBVIOUS
  <2>2. IsFiniteSet(H)
    BY DEF History
  <2> HIDE DEF h, H, S
  <2> QED BY <2>1, <2>2, FiniteImage
<1>3. ASSUME NEW g \in S
      PROVE  /\ g # {} /\ g = Group(RunOf(g)) /\ RunOf(g) \in 1 .. MaxRuns
             /\ \E r \in g : r \in H /\ r.run = RunOf(g) /\ r.at = When(g)
  <2>1. PICK r \in H : g = Group(r.run)
    OBVIOUS
  <2>2. r \in g
    BY <2>1
  <2> DEFINE c == CHOOSE x \in g : TRUE
  <2>3. c \in g
    BY <2>2
  <2>4. c \in H /\ c.run = r.run /\ c.run = RunOf(g) /\ c.at = When(g)
    BY <2>1, <2>3 DEF RunOf
  <2>5. RunOf(g) \in 1 .. MaxRuns
    BY <2>4 DEF History
  <2> HIDE DEF c
  <2> QED BY <2>1, <2>2, <2>3, <2>4, <2>5
<1> HIDE DEF H, Group, S, When, q
<1>4. ASSUME NEW g \in S, NEW h \in S
      PROVE  (When(g) < When(h) <=> RunOf(g) < RunOf(h)) /\ (RunOf(g) = RunOf(h) => g = h)
  <2>1. RunOf(g) = RunOf(h) => g = h
    BY <1>3
  <2>2. PICK r \in g : r \in H /\ r.run = RunOf(g) /\ r.at = When(g)
    BY <1>3
  <2>3. PICK s \in h : s \in H /\ s.run = RunOf(h) /\ s.at = When(h)
    BY <1>3
  <2>4. /\ r.run \in Int /\ s.run \in Int /\ r.at \in Int /\ s.at \in Int
        /\ (r.run < s.run => r.at < s.at) /\ (s.run < r.run => s.at < r.at)
    BY <2>2, <2>3 DEF History, H
  <2>5. RunOf(g) < RunOf(h) => When(g) < When(h)
    BY <2>2, <2>3, <2>4
  <2>6. RunOf(h) < RunOf(g) => When(h) < When(g)
    BY <2>2, <2>3, <2>4
  <2>7. RunOf(g) \in Int /\ RunOf(h) \in Int /\ When(g) \in Int /\ When(h) \in Int
    BY <2>2, <2>3, <2>4
  <2> QED BY <2>1, <2>5, <2>6, <2>7
<1>5. \A g \in S : RunOf(g) \in Int
  BY <1>3
<1>6. Orders(R, S)
  <2>1. \A g, h \in S : <<g, h>> \in R <=> RunOf(g) < RunOf(h)
    BY <1>4
  <2> HIDE DEF R
  <2> QED BY <1>4, <1>5, <2>1 DEF Orders
<1>7. \A g \in S : Rank(S, R)[g] = Cardinality({y \in S : When(y) < When(g)})
  <2> SUFFICES ASSUME NEW g \in S PROVE {y \in S : <<y, g>> \in R} = {y \in S : When(y) < When(g)}
    BY DEF Rank
  <2> QED OBVIOUS
<1>8. n \in Nat /\ \A i \in 1 .. n : \E g \in S : Rank(S, R)[g] = i - 1
  <2> HIDE DEF R
  <2> QED BY <1>2, <1>6, RankOrders
<1>9. \A i \in 1 .. n : q[i] \in S /\ Rank(S, R)[q[i]] = i - 1
  <2> SUFFICES ASSUME NEW i \in 1 .. n PROVE q[i] \in S /\ Rank(S, R)[q[i]] = i - 1
    OBVIOUS
  <2>1. q[i] = CHOOSE g \in S : Cardinality({y \in S : When(y) < When(g)}) = i - 1
    BY <1>1
  <2>2. \E g \in S : Cardinality({y \in S : When(y) < When(g)}) = i - 1
    BY <1>7, <1>8
  <2>3. q[i] \in S /\ Cardinality({y \in S : When(y) < When(q[i])}) = i - 1
    BY <2>1, <2>2
  <2> QED BY <1>7, <2>3
<1>10. /\ \A g \in S : \E i \in 1 .. n : q[i] = g
       /\ \A i, j \in 1 .. n : i < j <=> <<q[i], q[j]>> \in R
  <2> HIDE DEF R
  <2> QED BY <1>2, <1>6, <1>9, Sorted
<1>11. \A i, j \in 1 .. n : i < j <=> RunOf(q[i]) < RunOf(q[j])
  BY <1>4, <1>9, <1>10
<1>12. \A r \in H : \E i \in 1 .. n : r \in q[i]
  <2> SUFFICES ASSUME NEW r \in H PROVE \E i \in 1 .. n : r \in q[i]
    OBVIOUS
  <2>1. Group(r.run) \in S /\ r \in Group(r.run)
    BY DEF S, Group
  <2> QED BY <1>10, <2>1
<1>13. \A i \in 1 .. n : q[i] # {} /\ q[i] = {r \in H : r.run = RunOf(q[i])} /\ RunOf(q[i]) \in 1 .. MaxRuns
  BY <1>3, <1>9 DEF Group
<1>14. DOMAIN q = 1 .. n
  BY <1>1
<1> HIDE DEF n
<1> QED BY <1>8, <1>11, <1>12, <1>13, <1>14 DEF Timeline, H, q

-----------------------------------------------------------------------------
(* What is known after each run                                            *)

\* The value of the newest of the rows U of an app that has one.
WithValue(U, V, a) == {r \in U : r.app = a /\ V[r] # Null}
LastValue(U, V, a) == IF WithValue(U, V, a) = {} THEN Null ELSE V[NewestRow(WithValue(U, V, a))]

OfApp(U, a) == {r \in U : r.app = a}

\* latest knows of every app in U its last value and its last row's tests.
Knows(latest, U, V) ==
  /\ DOMAIN latest = {r.app : r \in U}
  /\ \A a \in DOMAIN latest : /\ latest[a].value = LastValue(U, V, a)
                             /\ latest[a].tests = NewestRow(OfApp(U, a)).tests

LEMMA NewestIs ==
  ASSUME NEW K, NEW x \in K, \A r \in K : r.run \in Int /\ (r = x \/ r.run < x.run)
  PROVE  NewestRow(K) = x
<1>1. \A q \in K : q.run <= x.run
  OBVIOUS
<1>2. ASSUME NEW r \in K, \A q \in K : q.run <= r.run PROVE r = x
  <2>1. x.run <= r.run /\ x.run \in Int /\ r.run \in Int
    BY <1>2
  <2>2. ~(r.run < x.run)
    BY <2>1
  <2> QED BY <2>2
<1> QED BY <1>1, <1>2 DEF NewestRow

\* A run's rows leave the last value of an app that got none.
LEMMA LatestKnows ==
  ASSUME NEW U, NEW g, NEW V, NEW latest, NEW metric, NEW n \in Int,
         \A r \in U : r.run \in Int /\ r.run < n, \A r \in g : r.run = n, Unique(g),
         \A r \in g : V[r] = ResolveTrendValue(r.coverage, metric), Knows(latest, U, V)
  PROVE  Knows(Latest(latest, g, metric), U \cup g, V)
<1> DEFINE ran == {r.app : r \in g}
           new == Latest(latest, g, metric)
           Of(a) == CHOOSE x \in g : x.app = a
           Own(a) == ResolveTrendValue(Of(a).coverage, metric)
<1>1. /\ DOMAIN new = DOMAIN latest \cup ran
      /\ \A a \in ran : new[a].value = IF Own(a) = Null /\ a \in DOMAIN latest THEN latest[a].value ELSE Own(a)
      /\ \A a \in ran : new[a].tests = Of(a).tests
      /\ \A a \in DOMAIN latest \ ran : new[a] = latest[a]
  BY DEF Latest
<1>2. DOMAIN new = {r.app : r \in U \cup g}
  BY <1>1 DEF Knows
<1>3. ASSUME NEW a \in ran
      PROVE  Of(a) \in g /\ Of(a).app = a /\ Own(a) = V[Of(a)] /\ \A x \in g : x.app = a => x = Of(a)
  <2>1. Of(a) \in g /\ Of(a).app = a
    OBVIOUS
  <2> HIDE DEF Of
  <2> QED BY <2>1 DEF Unique
<1> HIDE DEF new, Own, Of
<1>4. ASSUME NEW a \in DOMAIN new, a \notin ran PROVE new[a].value = LastValue(U \cup g, V, a)
  <2>1. new[a].value = LastValue(U, V, a)
    BY <1>1, <1>4 DEF Knows
  <2>2. WithValue(U \cup g, V, a) = WithValue(U, V, a)
    BY <1>4 DEF WithValue
  <2> QED BY <2>1, <2>2 DEF LastValue
<1>5. ASSUME NEW a \in ran PROVE new[a].value = LastValue(U \cup g, V, a)
  <2> DEFINE x == Of(a)
             K == WithValue(U \cup g, V, a)
  <2>1. x \in g /\ x.app = a /\ Own(a) = V[x] /\ \A y \in g : y.app = a => y = x
    BY <1>3
  <2> HIDE DEF x
  <2>2. CASE V[x] = Null
    <3>1. K = WithValue(U, V, a)
      BY <2>1, <2>2 DEF WithValue
    <3>2. CASE a \in DOMAIN latest
      <4>1. new[a].value = latest[a].value
        BY <1>1, <2>1, <2>2, <3>2
      <4> QED BY <3>1, <3>2, <4>1 DEF LastValue, Knows
    <3>3. CASE a \notin DOMAIN latest
      <4>1. new[a].value = Null
        BY <1>1, <2>1, <2>2, <3>3
      <4>2. WithValue(U, V, a) = {}
        BY <3>3 DEF WithValue, Knows
      <4> QED BY <3>1, <4>1, <4>2 DEF LastValue
    <3> QED BY <3>2, <3>3
  <2>3. CASE V[x] # Null
    <3>1. x \in K
      BY <2>1, <2>3 DEF WithValue
    <3>2. \A r \in K : r = x \/ r.run < n
      BY <2>1 DEF WithValue
    <3>3. \A r \in K : r.run <= n /\ r.run \in Int
      BY DEF WithValue
    <3>4. x.run = n
      BY <2>1
    <3>5. NewestRow(K) = x
      <4>1. \A r \in K : r.run \in Int /\ (r = x \/ r.run < x.run)
        BY <3>2, <3>3, <3>4
      <4> HIDE DEF K
      <4> QED BY <3>1, <4>1, NewestIs
    <3>6. new[a].value = V[x]
      BY <1>1, <2>1, <2>3
    <3> QED BY <3>1, <3>5, <3>6 DEF LastValue
  <2> QED BY <2>2, <2>3
<1>6. ASSUME NEW a \in DOMAIN new, a \notin ran PROVE new[a].tests = NewestRow(OfApp(U \cup g, a)).tests
  <2>1. new[a].tests = NewestRow(OfApp(U, a)).tests
    BY <1>1, <1>6 DEF Knows
  <2>2. OfApp(U \cup g, a) = OfApp(U, a)
    BY <1>6 DEF OfApp
  <2> QED BY <2>1, <2>2
<1>7. ASSUME NEW a \in ran PROVE new[a].tests = NewestRow(OfApp(U \cup g, a)).tests
  <2> DEFINE x == Of(a)
             K == OfApp(U \cup g, a)
  <2>1. x \in g /\ x.app = a /\ x.run = n /\ \A y \in g : y.app = a => y = x
    BY <1>3
  <2> HIDE DEF x
  <2>2. x \in K /\ \A r \in K : r.run \in Int /\ (r = x \/ r.run < x.run)
    BY <2>1 DEF OfApp
  <2> HIDE DEF K
  <2>3. NewestRow(K) = x
    BY <2>2, NewestIs
  <2> QED BY <1>1, <2>3 DEF x, K
<1> QED BY <1>1, <1>2, <1>4, <1>5, <1>6, <1>7 DEF Knows, new

\* After's recursive function exists for any runs, and satisfies its equation.
LEMMA AfterIs ==
  ASSUME NEW q, NEW n \in Nat, DOMAIN q = 1 .. n, NEW metric
  PROVE  \E k : /\ k[0] = <<>> /\ \A i \in 1 .. n : k[i] = Latest(k[i - 1], q[i], metric)
               /\ After(q, metric) = [i \in 1 .. n |-> k[i]]
<1> DEFINE Step(k, i) == IF i = 0 THEN <<>> ELSE Latest(k[i - 1], q[i], metric)
           D == {0} \cup DOMAIN q
           T == {m \in Nat : \E k : k = [i \in 0 .. m |-> Step(k, i)]}
<1>1. 0 \in T
  <2> DEFINE k == [i \in 0 .. 0 |-> <<>>]
  <2>1. k = [i \in 0 .. 0 |-> Step(k, i)]
    OBVIOUS
  <2> HIDE DEF k, Step
  <2> QED BY <2>1
<1>2. ASSUME NEW m \in Nat, m \in T PROVE m + 1 \in T
  <2>1. PICK g : g = [i \in 0 .. m |-> Step(g, i)]
    BY <1>2
  <2> DEFINE k == [i \in 0 .. m + 1 |-> IF i = m + 1 THEN Step(g, m + 1) ELSE g[i]]
  <2>2. ASSUME NEW i \in 0 .. m + 1 PROVE k[i] = Step(k, i)
    <3>1. CASE i = 0
      <4>1. k[i] = g[0] /\ g[0] = Step(g, 0)
        BY <2>1, <3>1
      <4> QED BY <3>1, <4>1
    <3>2. CASE i # 0
      <4>1. i - 1 \in 0 .. m /\ i - 1 # m + 1 /\ i - 1 \in 0 .. m + 1
        BY <3>2
      <4>2. k[i - 1] = g[i - 1]
        BY <4>1
      <4>3. k[i] = Step(g, i)
        <5>1. CASE i = m + 1
          BY <5>1
        <5>2. CASE i # m + 1
          <6>1. i \in 0 .. m
            BY <5>2
          <6>2. k[i] = g[i]
            BY <5>2
          <6>3. g[i] = Step(g, i)
            <7> HIDE DEF Step
            <7> QED BY <2>1, <6>1
          <6> QED BY <6>2, <6>3
        <5> QED BY <5>1, <5>2
      <4>4. Step(g, i) = Step(k, i)
        BY <4>2
      <4> QED BY <4>3, <4>4
    <3> QED BY <3>1, <3>2
  <2>3. k = [i \in 0 .. m + 1 |-> Step(k, i)]
    <3>1. k = [i \in 0 .. m + 1 |-> k[i]]
      OBVIOUS
    <3> HIDE DEF k, Step
    <3> QED BY <2>2, <3>1
  <2> HIDE DEF k, Step
  <2> QED BY <2>3
<1>3. n \in T
  <2> HIDE DEF T
  <2> QED BY <1>1, <1>2, NatInduct
<1>4. D = 0 .. n
  OBVIOUS
<1> DEFINE known == CHOOSE k : k = [i \in D |-> Step(k, i)]
<1>5. known = [i \in D |-> Step(known, i)]
  <2> HIDE DEF Step, D
  <2> QED BY <1>3, <1>4
<1>6. After(q, metric) = [i \in 1 .. n |-> known[i]]
  BY DEF After
<1> HIDE DEF known
<1>7. \A i \in D : known[i] = Step(known, i)
  <2> HIDE DEF Step, D
  <2> QED BY <1>5
<1>8. known[0] = <<>> /\ \A i \in 1 .. n : known[i] = Latest(known[i - 1], q[i], metric)
  BY <1>4, <1>7
<1> QED BY <1>6, <1>8

\* The rows of the first i runs.
UpTo(q, i) == UNION {q[j] : j \in 1 .. i}

\* What After knows after the i-th run are the last values in the rows of the
\* runs up to it.
LEMMA AfterKnows ==
  ASSUME NEW H, History(H), NEW q, NEW n, Timeline(H, q, n), NEW metric, NEW V,
         \A r \in H : V[r] = ResolveTrendValue(r.coverage, metric)
  PROVE  \A i \in 1 .. n : Knows(After(q, metric)[i], UpTo(q, i), V)
<1>1. n \in Nat /\ DOMAIN q = 1 .. n
  BY DEF Timeline
<1>2. PICK k : /\ k[0] = <<>> /\ \A i \in 1 .. n : k[i] = Latest(k[i - 1], q[i], metric)
               /\ After(q, metric) = [i \in 1 .. n |-> k[i]]
  BY <1>1, AfterIs
<1> DEFINE T == {i \in Nat : i <= n => Knows(k[i], UpTo(q, i), V)}
<1>3. 0 \in T
  <2>1. UpTo(q, 0) = {}
    BY DEF UpTo
  <2>2. DOMAIN k[0] = {}
    BY <1>2
  <2>3. Knows(k[0], UpTo(q, 0), V)
    BY <2>1, <2>2 DEF Knows
  <2> QED BY <2>3
<1>4. ASSUME NEW i \in Nat, i \in T PROVE i + 1 \in T
  <2> SUFFICES ASSUME i + 1 <= n PROVE Knows(k[i + 1], UpTo(q, i + 1), V)
    OBVIOUS
  <2>1. Knows(k[i], UpTo(q, i), V)
    BY <1>1, <1>4
  <2>2. i + 1 \in 1 .. n /\ (i + 1) - 1 = i
    BY <1>1
  <2>3. k[i + 1] = Latest(k[i], q[i + 1], metric)
    BY <1>2, <2>2
  <2>4. UpTo(q, i + 1) = UpTo(q, i) \cup q[i + 1]
    <3>1. 1 .. i + 1 = (1 .. i) \cup {i + 1}
      OBVIOUS
    <3> QED BY <3>1 DEF UpTo
  <2> DEFINE id == RunOf(q[i + 1])
             g == q[i + 1]
  <2>5. id \in Int /\ g = {r \in H : r.run = id}
    BY <2>2 DEF Timeline
  <2>6. \A r \in UpTo(q, i) : r.run \in Int /\ r.run < id
    <3> SUFFICES ASSUME NEW j \in 1 .. i, NEW r \in q[j] PROVE r.run \in Int /\ r.run < id
      BY DEF UpTo
    <3>1. j \in 1 .. n /\ j < i + 1
      BY <1>1
    <3>2. RunOf(q[j]) < id /\ r.run = RunOf(q[j]) /\ RunOf(q[j]) \in 1 .. MaxRuns
      BY <2>2, <3>1 DEF Timeline
    <3> HIDE DEF id
    <3> QED BY <3>2
  <2> HIDE DEF g, id
  <2>7. Unique(g) /\ \A r \in g : r.run = id /\ V[r] = ResolveTrendValue(r.coverage, metric)
    BY <2>5 DEF History, Unique
  <2>8. Knows(Latest(k[i], g, metric), UpTo(q, i) \cup g, V)
    BY <2>1, <2>5, <2>6, <2>7, LatestKnows
  <2> QED BY <2>3, <2>4, <2>8 DEF g
<1>5. Nat \subseteq T
  <2> HIDE DEF T
  <2> QED BY <1>3, <1>4, NatInduct
<1> SUFFICES ASSUME NEW i \in 1 .. n PROVE Knows(k[i], UpTo(q, i), V)
  BY <1>2
<1>6. i \in Nat /\ i <= n
  BY <1>1
<1> QED BY <1>5, <1>6

\* The rows up to a run are those of no later run.
LEMMA UpToRun ==
  ASSUME NEW H, History(H), NEW q, NEW n, Timeline(H, q, n), NEW i \in 1 .. n
  PROVE  UpTo(q, i) = {r \in H : r.run <= RunOf(q[i])}
<1>1. ASSUME NEW r \in UpTo(q, i) PROVE r \in H /\ r.run <= RunOf(q[i])
  <2>1. PICK j \in 1 .. i : r \in q[j]
    BY DEF UpTo
  <2>2. n \in Nat /\ j \in 1 .. n /\ (j < i \/ j = i)
    BY DEF Timeline
  <2>3. r \in H /\ r.run = RunOf(q[j]) /\ RunOf(q[j]) \in Int /\ RunOf(q[i]) \in Int
    BY <2>1, <2>2 DEF Timeline
  <2>4. j < i => RunOf(q[j]) < RunOf(q[i])
    BY <2>2 DEF Timeline
  <2> QED BY <2>2, <2>3, <2>4
<1>2. ASSUME NEW r \in H, r.run <= RunOf(q[i]) PROVE r \in UpTo(q, i)
  <2>1. PICK j \in 1 .. n : r \in q[j]
    BY DEF Timeline
  <2>2. r.run = RunOf(q[j]) /\ RunOf(q[j]) \in Int /\ RunOf(q[i]) \in Int
    BY <2>1 DEF Timeline
  <2>3. ~(i < j)
    <3>1. i < j => RunOf(q[i]) < RunOf(q[j])
      BY DEF Timeline
    <3> QED BY <1>2, <2>2, <3>1
  <2>4. j \in 1 .. i
    BY <2>3 DEF Timeline
  <2> QED BY <2>1, <2>4 DEF UpTo
<1> QED BY <1>1, <1>2

-----------------------------------------------------------------------------
(* Values of a trend                                                       *)

\* A finite set of numbers has a greatest one.
LEMMA MaxExists ==
  ASSUME NEW S, IsFiniteSet(S), S # {}, \A n \in S : n \in Int
  PROVE  Max(S) \in S /\ \A n \in S : n <= Max(S)
<1> DEFINE f == [n \in S |-> n]
<1>1. \A n \in S : f[n] \in Int
  OBVIOUS
<1>2. \A n \in S : f[n] = n
  OBVIOUS
<1> HIDE DEF f
<1>3. PICK m \in S : \A n \in S : f[n] <= f[m]
  BY <1>1, GreatestOf
<1>4. \A n \in S : n <= m
  BY <1>2, <1>3
<1> QED BY <1>4 DEF Max

\* Best of the metrics: none, or one with a percentage.
LEMMA BestTyped ==
  ASSUME NEW coverage, NEW metric
  PROVE  BestMetric(coverage, metric) \in
           {Null} \cup {m \in Metrics : coverage[m] # Null /\ coverage[m].percent # Null}
<1> DEFINE V == {Null} \cup {m \in Metrics : coverage[m] # Null /\ coverage[m].percent # Null}
           step(c, m) == CASE coverage[m] = Null -> c
                           [] coverage[m] # Null /\ coverage[m].percent = Null -> c
                           [] OTHER -> IF c = Null THEN m
                                       ELSE IF Best(metric, coverage[m].percent, coverage[c].percent) THEN m ELSE c
           D == DOMAIN MetricOrder
           Unfold(h, s) == IF s = {} THEN Null ELSE step(h[s \ {Max(s)}], MetricOrder[Max(s)])
           it == CHOOSE h : h = [s \in SUBSET D |-> Unfold(h, s)]
<1>1. BestMetric(coverage, metric) = it[D]
  BY DEF BestMetric, FoldLeft, MapThenFoldSet
<1>2. ASSUME NEW c \in V, NEW m \in Metrics PROVE step(c, m) \in V
  OBVIOUS
<1>3. IsFiniteSet(D) /\ \A i \in D : i \in Int /\ MetricOrder[i] \in Metrics
  <2>1. D = 1 .. Len(MetricOrder) /\ Len(MetricOrder) \in Nat /\ \A i \in D : MetricOrder[i] \in Metrics
    BY TrendHistoryAssumption
  <2> HIDE DEF D
  <2> QED BY <2>1, FS_Interval
<1> HIDE DEF V, step, D
<1>4. \A s \in SUBSET D : s # {} => Max(s) \in s
  BY <1>3, FS_Subset, MaxExists
<1>5. \E g : g = [s \in SUBSET D |-> Unfold(g, s)]
  <2> DEFINE F == [p \in V \X D |-> step(p[1], MetricOrder[p[2]])]
             c == [s \in SUBSET D |-> Max(s)]
  <2>1. F \in [V \X D -> V]
    BY <1>2, <1>3
  <2>2. Null \in V
    BY DEF V
  <2>3. Folding(D, V, Null, F, c)
    <3>1. \A s \in SUBSET D : s # {} => c[s] \in s
      BY <1>4
    <3> HIDE DEF F, c
    <3> QED BY <1>3, <2>1, <2>2, <3>1 DEF Folding
  <2>4. PICK g : IsFold(g, D, V, Null, F, c)
    <3> HIDE DEF F, c
    <3> QED BY <2>3, FoldExists
  <2>5. ASSUME NEW s \in SUBSET D PROVE g[s] = Unfold(g, s)
    <3>1. CASE s = {}
      BY <2>4, <3>1 DEF IsFold
    <3>2. CASE s # {}
      <4>1. Max(s) \in D /\ s \ {Max(s)} \in SUBSET D /\ c[s] = Max(s)
        BY <1>4, <3>2
      <4>2. g[s] = F[<<g[s \ {c[s]}], c[s]>>] /\ g[s \ {c[s]}] \in V
        <5> HIDE DEF F, c
        <5> QED BY <2>4, <3>2, <4>1 DEF IsFold
      <4>3. F[<<g[s \ {Max(s)}], Max(s)>>] = step(g[s \ {Max(s)}], MetricOrder[Max(s)])
        BY <4>1, <4>2
      <4> HIDE DEF F, c
      <4> QED BY <3>2, <4>1, <4>2, <4>3
    <3> QED BY <3>1, <3>2
  <2>6. g = [s \in SUBSET D |-> g[s]]
    BY <2>4 DEF IsFold
  <2> HIDE DEF Unfold
  <2> QED BY <2>5, <2>6
<1>6. it = [s \in SUBSET D |-> Unfold(it, s)]
  <2> HIDE DEF Unfold
  <2> QED BY <1>5
<1> HIDE DEF it
<1>7. \A s \in SUBSET D : it[s] = Unfold(it, s)
  <2> HIDE DEF Unfold
  <2> QED BY <1>6
<1> DEFINE G == {s \in SUBSET D : it[s] \in V}
<1>8. {} \in G
  <2>1. {} \in SUBSET D /\ Null \in V
    BY DEF V
  <2> QED BY <1>7, <2>1
<1>9. ASSUME NEW s \in SUBSET D, s # {}, \A x \in s : s \ {x} \in G PROVE s \in G
  <2>1. Max(s) \in s
    BY <1>4, <1>9
  <2>2. it[s \ {Max(s)}] \in V /\ MetricOrder[Max(s)] \in Metrics
    BY <1>3, <1>9, <2>1
  <2>3. it[s] = step(it[s \ {Max(s)}], MetricOrder[Max(s)])
    BY <1>7, <1>9
  <2> QED BY <1>2, <2>2, <2>3
<1>10. SUBSET D \subseteq G
  <2> HIDE DEF G
  <2> QED BY <1>3, <1>8, <1>9, SetInduct
<1> QED BY <1>1, <1>10 DEF V

\* A value weighs what was covered of how much.
LEMMA ValueTyped ==
  ASSUME NEW coverage \in CoverageType, NEW metric \in {"lines", "max"}
  PROVE  LET v == ResolveTrendValue(coverage, metric)
         IN v # Null => v.covered \in Nat /\ v.total \in Nat /\ v.percent \in {Null} \cup 0 .. 1000
<1> DEFINE v == ResolveTrendValue(coverage, metric)
<1>1. \A m \in Metrics : coverage[m] # Null => coverage[m] \in [covered : Nat, total : Nat, percent : {Null} \cup 0 .. 1000]
  BY DEF CoverageType, MetricType
<1>2. "lines" \in Metrics
  BY TrendHistoryAssumption
<1>3. SUFFICES ASSUME v # Null
               PROVE  v.covered \in Nat /\ v.total \in Nat /\ v.percent \in {Null} \cup 0 .. 1000
  OBVIOUS
<1>4. CASE metric = "lines"
  <2>1. coverage["lines"] # Null
    BY <1>3, <1>4 DEF ResolveTrendValue
  <2>2. v = [covered |-> 1000 * coverage["lines"].covered, total |-> coverage["lines"].total,
             percent |-> coverage["lines"].percent, from |-> "lines"]
    BY <1>4, <2>1 DEF ResolveTrendValue
  <2> DEFINE m == coverage["lines"]
  <2>3. m \in [covered : Nat, total : Nat, percent : {Null} \cup 0 .. 1000]
    BY <1>1, <1>2, <2>1
  <2> HIDE DEF m
  <2>4. 1000 * m.covered \in Nat /\ m.total \in Nat /\ m.percent \in {Null} \cup 0 .. 1000
    BY <2>3
  <2>5. v = [covered |-> 1000 * m.covered, total |-> m.total, percent |-> m.percent, from |-> "lines"]
    BY <2>2 DEF m
  <2> HIDE DEF v
  <2> QED BY <2>4, <2>5
<1>5. CASE metric = "max"
  <2> DEFINE chosen == BestMetric(coverage, metric)
             Sized(m) == m \in Metrics /\ coverage[m] # Null /\ coverage[m].total # 0
             weigher == CASE Sized("lines") -> "lines"
                          [] ~Sized("lines") /\ Sized("statements") -> "statements"
                          [] OTHER -> chosen
             weight == coverage[weigher].total
  <2>1. v = IF chosen = Null THEN Null
            ELSE [covered |-> coverage[chosen].percent * weight, total |-> weight,
                  percent |-> coverage[chosen].percent, from |-> chosen]
    BY <1>5 DEF ResolveTrendValue, Weighted
  <2>2. chosen # Null /\ chosen \in Metrics /\ coverage[chosen] # Null /\ coverage[chosen].percent # Null
    BY <1>3, <2>1, BestTyped
  <2> HIDE DEF chosen
  <2> DEFINE best == coverage[chosen]
             percent == best.percent
  <2>3. weigher \in Metrics /\ coverage[weigher] # Null
    BY <2>2
  <2> HIDE DEF weigher
  <2>4. best \in [covered : Nat, total : Nat, percent : {Null} \cup 0 .. 1000] /\ percent # Null
    BY <1>1, <2>2
  <2>5. weight \in Nat
    BY <1>1, <2>3
  <2>6. v = [covered |-> percent * weight, total |-> weight, percent |-> percent, from |-> chosen]
    BY <2>1, <2>2
  <2> HIDE DEF best, weight, v
  <2>7. percent \in 0 .. 1000
    BY <2>4
  <2> HIDE DEF percent
  <2>8. percent * weight \in Nat
    BY <2>5, <2>7
  <2> QED BY <2>5, <2>6, <2>7, <2>8
<1> QED BY <1>4, <1>5

-----------------------------------------------------------------------------
(* A trend agrees with the rows                                            *)

\* The total of a point: the values of the apps that have one.
Having(known) == {a \in DOMAIN known : known[a].value # Null}
TotalOf(known) ==
  LET c == SumFunction([a \in Having(known) |-> known[a].value.covered])
      t == SumFunction([a \in Having(known) |-> known[a].value.total])
  IN IF Having(known) = {} THEN Null
     ELSE [covered |-> c, total |-> t, percent |-> IF t = 0 THEN Null ELSE Round(c, t)]

\* Its number of tests: that of the apps that have some.
TestsOf(known) ==
  LET tested == {a \in DOMAIN known : known[a].tests # Null}
  IN IF tested = {} THEN Null ELSE SumFunction([a \in tested |-> known[a].tests.total])

LEMMA PointIs ==
  ASSUME NEW g, NEW latest
  PROVE  /\ Point(g, latest).run = RunOf(g) /\ Point(g, latest).total = TotalOf(latest)
         /\ Point(g, latest).testsTotal = TestsOf(latest)
BY DEF Point, TotalOf, Having, RunOf, TestsOf

\* What a trend's property says of one point.
PointAgrees(p, known) ==
  LET measured == {a \in DOMAIN known : known[a][p.run] # Null}
  IN IF measured = {} THEN p.total = Null
     ELSE /\ p.total # Null
          /\ p.total.covered = SumFunction([a \in measured |-> known[a][p.run].covered])
          /\ p.total.total = SumFunction([a \in measured |-> known[a][p.run].total])

TestsAgree(p, counted) ==
  LET tested == {a \in DOMAIN counted : counted[a][p.run] # Null}
  IN p.testsTotal = IF tested = {} THEN Null ELSE SumFunction([a \in tested |-> counted[a][p.run].total])

\* KnownAfter is the last value in the rows of no later run.
LEMMA KnownIs ==
  ASSUME NEW H, NEW names, NEW metric, NEW a \in names, NEW run \in 1 .. MaxRuns
  PROVE  KnownAfter(H, names, metric)[a][run] =
           LastValue({r \in H : r.run <= run}, [r \in H |-> ResolveTrendValue(r.coverage, metric)], a)
<1> DEFINE V == [r \in H |-> ResolveTrendValue(r.coverage, metric)]
           K == {r \in H : r.app = a /\ r.run <= run /\ V[r] # Null}
<1>1. K = WithValue({r \in H : r.run <= run}, V, a)
  BY DEF WithValue
<1>2. KnownAfter(H, names, metric)[a][run] = IF K = {} THEN Null ELSE V[NewestRow(K)]
  BY DEF KnownAfter, NewestRow
<1> HIDE DEF K, V
<1> QED BY <1>1, <1>2 DEF LastValue, V

\* A last value is the value of a row.
LEMMA LastIsValue ==
  ASSUME NEW H, History(H), NEW U \in SUBSET H, NEW V, NEW a, LastValue(U, V, a) # Null
  PROVE  \E r \in U : r.app = a /\ V[r] # Null /\ LastValue(U, V, a) = V[r]
<1> DEFINE K == WithValue(U, V, a)
           f == [r \in K |-> r.run]
<1>1. K # {} /\ LastValue(U, V, a) = V[NewestRow(K)]
  BY DEF LastValue
<1>2. IsFiniteSet(K)
  <2>1. K \in SUBSET H
    BY DEF WithValue
  <2> HIDE DEF K
  <2> QED BY <2>1, FS_Subset DEF History
<1>3. \A r \in K : r \in U /\ r.app = a /\ V[r] # Null /\ f[r] = r.run /\ f[r] \in Int
  BY DEF WithValue, History
<1> HIDE DEF K, f
<1>4. PICK r \in K : \A x \in K : f[x] <= f[r]
  BY <1>1, <1>2, <1>3, GreatestOf
<1>5. NewestRow(K) \in K
  <2>1. \A x \in K : x.run <= r.run
    BY <1>3, <1>4
  <2> QED BY <2>1 DEF NewestRow
<1> QED BY <1>1, <1>3, <1>5

LEMMA Agrees ==
  ASSUME NEW set, NEW scope, NEW names, NEW metric \in {"lines", "max"},
         History(InScope(set, scope)), \A r \in InScope(set, scope) : r.app \in names
  PROVE  LET H == InScope(set, scope)
         IN TrendAgrees(BuildCoverageTrend(set, metric, scope), {r.run : r \in H}, KnownAfter(H, names, metric),
                        TestedAfter(H, names))
<1> DEFINE H == InScope(set, scope)
           q == RunRows(set, scope)
           known == KnownAfter(H, names, metric)
           counted == TestedAfter(H, names)
           V == [r \in H |-> ResolveTrendValue(r.coverage, metric)]
           after == After(q, metric)
           trend == BuildCoverageTrend(set, metric, scope)
<1>1. PICK n : Timeline(H, q, n)
  BY RunsInOrder
<1> DEFINE pts == trend.points
<1>2. pts = [i \in DOMAIN q |-> Point(q[i], after[i])]
  BY DEF BuildCoverageTrend, TrendOf
<1>3. \A i \in 1 .. n : Knows(after[i], UpTo(q, i), V) /\ UpTo(q, i) = {r \in H : r.run <= RunOf(q[i])}
  <2>1. \A r \in H : V[r] = ResolveTrendValue(r.coverage, metric)
    OBVIOUS
  <2> HIDE DEF H, q, V
  <2> QED BY <1>1, <2>1, AfterKnows, UpToRun DEF H
<1>4. DOMAIN q = 1 .. n /\ \A i \in 1 .. n : RunOf(q[i]) \in 1 .. MaxRuns
  BY <1>1 DEF Timeline
<1> HIDE DEF trend, q, H, after, pts
<1>5. DOMAIN pts = 1 .. n /\ \A i \in 1 .. n : /\ pts[i].run = RunOf(q[i]) /\ pts[i].total = TotalOf(after[i])
                                            /\ pts[i].testsTotal = TestsOf(after[i])
  <2>1. DOMAIN pts = 1 .. n /\ \A i \in 1 .. n : pts[i] = Point(q[i], after[i])
    BY <1>2, <1>4
  <2> QED BY <2>1, PointIs
<1>6. {pts[i].run : i \in DOMAIN pts} = {r.run : r \in H}
  <2>1. ASSUME NEW i \in 1 .. n PROVE \E r \in H : r.run = pts[i].run
    <3>1. q[i] # {} /\ q[i] = {r \in H : r.run = RunOf(q[i])}
      BY <1>1 DEF Timeline
    <3>2. PICK r \in q[i] : TRUE
      BY <3>1
    <3> QED BY <1>5, <3>1, <3>2
  <2>2. ASSUME NEW r \in H PROVE \E i \in 1 .. n : r.run = pts[i].run
    <3>1. PICK i \in 1 .. n : r \in q[i]
      BY <1>1 DEF Timeline
    <3>2. q[i] = {x \in H : x.run = RunOf(q[i])}
      BY <1>1 DEF Timeline
    <3> QED BY <1>5, <3>1, <3>2
  <2> QED BY <1>5, <2>1, <2>2
<1>7. ASSUME NEW i \in DOMAIN pts, NEW j \in DOMAIN pts, i < j PROVE pts[i].run < pts[j].run
  <2>1. i \in 1 .. n /\ j \in 1 .. n
    BY <1>5
  <2>2. RunOf(q[i]) < RunOf(q[j])
    BY <1>1, <1>7, <2>1 DEF Timeline
  <2> QED BY <1>5, <2>1, <2>2
<1>8. ASSUME NEW i \in 1 .. n PROVE PointAgrees(pts[i], known)
  <2> DEFINE latest == after[i]
             run == RunOf(q[i])
             U == {r \in H : r.run <= run}
             measured == {a \in DOMAIN known : known[a][run] # Null}
             m == Having(latest)
             c == [a \in m |-> latest[a].value.covered]
             t == [a \in m |-> latest[a].value.total]
  <2>1. DOMAIN latest = {r.app : r \in U} /\ \A a \in DOMAIN latest : latest[a].value = LastValue(U, V, a)
    BY <1>3 DEF Knows
  <2>2. DOMAIN known = names /\ \A a \in names : known[a][run] = LastValue(U, V, a)
    <3>1. DOMAIN known = names
      BY DEF KnownAfter
    <3> HIDE DEF q
    <3> QED BY <1>4, <3>1, KnownIs
  <2>3. pts[i].run = run
    BY <1>5
  <2>4. pts[i].total = IF m = {} THEN Null
          ELSE [covered |-> SumFunction(c), total |-> SumFunction(t),
                percent |-> IF SumFunction(t) = 0 THEN Null ELSE Round(SumFunction(c), SumFunction(t))]
    <3>1. pts[i].total = TotalOf(latest)
      BY <1>5
    <3> HIDE DEF latest
    <3> QED BY <3>1 DEF TotalOf
  <2> HIDE DEF latest, run, U, known, V
  <2>5. U \in SUBSET H
    BY DEF U
  <2>6. \A a : LastValue(U, V, a) # Null => a \in DOMAIN latest /\ a \in names
    BY <2>1, <2>5, LastIsValue DEF H
  <2>7. m = measured /\ \A a \in m : latest[a].value = known[a][run]
    BY <2>1, <2>2, <2>6 DEF Having
  <2>8. \A a \in m : latest[a].value.covered \in Nat /\ latest[a].value.total \in Nat
    <3> SUFFICES ASSUME NEW a \in m PROVE latest[a].value.covered \in Nat /\ latest[a].value.total \in Nat
      OBVIOUS
    <3>1. LastValue(U, V, a) # Null /\ latest[a].value = LastValue(U, V, a)
      BY <2>1 DEF Having
    <3>2. PICK r \in U : V[r] # Null /\ LastValue(U, V, a) = V[r]
      BY <2>5, <3>1, LastIsValue DEF H
    <3>3. r \in H /\ r.coverage \in CoverageType
      BY <2>5 DEF History, H
    <3>4. V[r] = ResolveTrendValue(r.coverage, metric)
      BY <3>3 DEF V
    <3> DEFINE coverage == r.coverage
               w == ResolveTrendValue(coverage, metric)
    <3>5. w # Null => w.covered \in Nat /\ w.total \in Nat
      <4> HIDE DEF coverage
      <4>1. coverage \in CoverageType
        BY <3>3 DEF coverage
      <4> QED BY <4>1, ValueTyped
    <3>6. w # Null /\ latest[a].value = w
      BY <3>1, <3>2, <3>4
    <3> HIDE DEF coverage, w
    <3> QED BY <3>5, <3>6
  <2>9. IsFiniteSet(m)
    <3>1. IsFiniteSet(U)
      BY <2>5, FS_Subset DEF History, H
    <3> DEFINE h == [r \in U |-> r.app]
    <3>2. DOMAIN latest = {h[r] : r \in U}
      BY <2>1
    <3>3. IsFiniteSet(DOMAIN latest)
      <4> HIDE DEF h
      <4> QED BY <3>1, <3>2, FiniteImage
    <3>4. m \in SUBSET DOMAIN latest
      BY DEF Having
    <3> HIDE DEF m
    <3> QED BY <3>3, <3>4, FS_Subset
  <2>10. c \in [m -> Nat] /\ t \in [m -> Nat]
    <3> HIDE DEF m
    <3> QED BY <2>8
  <2>11. SumFunction(c) \in Nat /\ SumFunction(t) \in Nat
    <3> HIDE DEF c, t, m
    <3> QED BY <2>9, <2>10, CountsAdd
  <2>12. c = [a \in measured |-> known[a][run].covered] /\ t = [a \in measured |-> known[a][run].total]
    <3> HIDE DEF m, measured
    <3> QED BY <2>7
  <2>13. m # {} => pts[i].total # Null
    <3> SUFFICES ASSUME m # {} PROVE pts[i].total # Null
      OBVIOUS
    <3> DEFINE x == SumFunction(c)
               y == SumFunction(t)
    <3>1. y # 0 => Round(x, y) \in Int
      <4>1. 2 * x + y \in Nat /\ 2 * y \in Nat
        BY <2>11
      <4> HIDE DEF x, y
      <4>2. y # 0 => 2 * y > 0
        BY <2>11 DEF y
      <4> QED BY <4>1, <4>2, Division DEF Round
    <3>2. pts[i].total = [covered |-> x, total |-> y, percent |-> IF y = 0 THEN Null ELSE Round(x, y)]
      BY <2>4
    <3>3. x \in Int /\ y \in Int
      BY <2>11
    <3> HIDE DEF x, y, m
    <3>4. pts[i].total \in [covered : Int, total : Int, percent : {Null} \cup Int]
      BY <3>1, <3>2, <3>3
    <3> QED BY <3>4, NullIsApart
  <2> HIDE DEF c, t, m, measured
  <2>14. IF measured = {} THEN pts[i].total = Null
         ELSE /\ pts[i].total # Null
              /\ pts[i].total.covered = SumFunction([a \in measured |-> known[a][run].covered])
              /\ pts[i].total.total = SumFunction([a \in measured |-> known[a][run].total])
    BY <2>4, <2>7, <2>12, <2>13
  <2> QED BY <2>3, <2>14 DEF measured, PointAgrees
<1>9. \A p \in Range(pts) : PointAgrees(p, known)
  BY <1>5, <1>8 DEF Range
<1>10. ASSUME NEW i \in 1 .. n PROVE TestsAgree(pts[i], counted)
  <2> DEFINE latest == after[i]
             run == RunOf(q[i])
             U == {r \in H : r.run <= run}
             have == {a \in DOMAIN latest : latest[a].tests # Null}
             tested == {a \in DOMAIN counted : counted[a][run] # Null}
  <2>1. DOMAIN latest = {r.app : r \in U} /\ \A a \in DOMAIN latest : latest[a].tests = NewestRow(OfApp(U, a)).tests
    BY <1>3 DEF Knows
  <2>2. run \in 1 .. MaxRuns /\ pts[i].run = run /\ pts[i].testsTotal = TestsOf(latest)
    BY <1>4, <1>5
  <2>3. DOMAIN counted = names
    BY DEF TestedAfter
  <2>4. ASSUME NEW a \in names
        PROVE  counted[a][run] = IF OfApp(U, a) = {} THEN Null ELSE NewestRow(OfApp(U, a)).tests
    <3> HIDE DEF run
    <3>1. {r \in H : r.app = a /\ r.run <= run} = OfApp(U, a)
      BY DEF OfApp
    <3> HIDE DEF U
    <3> QED BY <2>2, <3>1 DEF TestedAfter
  <2>5. \A a : a \in DOMAIN latest <=> OfApp(U, a) # {}
    BY <2>1 DEF OfApp
  <2>6. DOMAIN latest \subseteq names
    BY <2>1 DEF H
  <2> HIDE DEF latest, run, U, counted
  <2>7. have = tested /\ \A a \in have : latest[a].tests = counted[a][run]
    BY <2>1, <2>3, <2>4, <2>5, <2>6
  <2> HIDE DEF have, tested
  <2>8. [a \in have |-> latest[a].tests.total] = [a \in tested |-> counted[a][run].total]
    BY <2>7
  <2>9. TestsOf(latest) = IF tested = {} THEN Null ELSE SumFunction([a \in tested |-> counted[a][run].total])
    BY <2>7, <2>8 DEF TestsOf, have
  <2> QED BY <2>2, <2>9 DEF TestsAgree, tested
<1>11. \A p \in Range(pts) : TestsAgree(p, counted)
  BY <1>5, <1>10 DEF Range
<1>12. TrendAgrees(trend, {r.run : r \in H}, known, counted)
  <2> HIDE DEF known, counted
  <2> QED BY <1>6, <1>7, <1>9, <1>11 DEF TrendAgrees, PointAgrees, TestsAgree, pts
<1> QED BY <1>12 DEF trend, H

\* The rows and the points of any apps or slices are histories: what a run
\* leaves is dated within the run.
LEMMA RecordsAreHistories ==
  ASSUME IInv, NEW set \in {rows, points}, NEW H \in SUBSET set
  PROVE  History(H)
<1> USE DEF IInv
<1>1. IsFiniteSet(H) /\ Unique(H)
  BY FS_Subset DEF RowsHold, PointsHold, Unique
<1>2. LastStep \in Nat /\ LastStep > 0 /\ runs \in Nat /\ runs <= MaxRuns
  BY Times, TrendHistoryAssumption DEF Stored
<1>3. ASSUME NEW r \in H
      PROVE  /\ r.run \in 1 .. MaxRuns /\ r.coverage \in CoverageType /\ r.at \in Int
             /\ At(r.run, 1) <= r.at /\ r.at <= At(r.run, LastStep)
  <2>1. r.run \in 1 .. runs /\ r.coverage \in CoverageType
    BY DEF RowsHold, RowType, PointsHold, PointType
  <2>2. r.run \in Nat /\ r.run * LastStep \in Nat
    BY <1>2, <2>1
  <2>3. At(r.run, 1) \in Int /\ At(r.run, LastStep) \in Int /\ At(r.run, 1) <= At(r.run, LastStep)
    BY <1>2, <2>2 DEF At
  <2>4. r.at = At(r.run, LastStep) \/ r.at \in At(r.run, 1) .. At(r.run, LastStep)
    BY DEF RowsHold, RowType, PointsHold, PointType
  <2>5. r.run \in 1 .. MaxRuns
    BY <1>2, <2>1, TrendHistoryAssumption
  <2> QED BY <2>1, <2>3, <2>4, <2>5
<1>4. ASSUME NEW r \in H, NEW q \in H, r.run < q.run PROVE r.at < q.at
  <2>1. r.run \in Nat /\ q.run \in Nat /\ r.run + 1 <= q.run
    BY <1>3, <1>4
  <2>2. (r.run + 1) * LastStep <= q.run * LastStep /\ (r.run + 1) * LastStep = r.run * LastStep + LastStep
    BY <1>2, <2>1
  <2>3. r.run * LastStep \in Nat /\ q.run * LastStep \in Nat
    BY <1>2, <2>1
  <2>4. At(r.run, LastStep) < At(q.run, 1)
    BY <1>2, <2>2, <2>3 DEF At
  <2>5. At(r.run, LastStep) \in Int /\ At(q.run, 1) \in Int
    BY <1>2, <2>3 DEF At
  <2>6. r.at \in Int /\ q.at \in Int /\ r.at <= At(r.run, LastStep) /\ At(q.run, 1) <= q.at
    BY <1>3
  <2> HIDE DEF IInv
  <2> QED BY <2>4, <2>5, <2>6
<1> QED BY <1>1, <1>3, <1>4 DEF History

-----------------------------------------------------------------------------
(* The drawn trend                                                         *)

\* A part of a sequence.
LEMMA PartIs ==
  ASSUME NEW n \in Nat, NEW s, s = [i \in 1 .. n |-> s[i]], NEW m \in 1 .. n + 1, NEW k \in m - 1 .. n
  PROVE  Len(s) = n /\ SubSeq(s, m, k) = [j \in 1 .. k - m + 1 |-> s[j + m - 1]]
<1> DEFINE S == {s[i] : i \in 1 .. n}
<1>1. s \in [1 .. n -> S]
  OBVIOUS
<1>2. s \in Seq(S) /\ Len(s) = n
  <2> HIDE DEF S
  <2> QED BY <1>1
<1>3. SubSeq(s, m, k) = [j \in 1 .. k - m + 1 |-> s[j + m - 1]]
  <2> HIDE DEF S
  <2> QED BY <1>2
<1> QED BY <1>2, <1>3

\* The least and the greatest of a set of numbers are the only ones.
LEMMA Bounds ==
  ASSUME NEW S, \A x \in S : x \in Int, NEW m \in S
  PROVE  ((\A x \in S : m <= x) => Min(S) = m) /\ ((\A x \in S : x <= m) => Max(S) = m)
<1>1. ASSUME \A x \in S : m <= x PROVE Min(S) = m
  <2>1. ASSUME NEW l \in S, \A x \in S : l <= x PROVE l = m
    <3>1. l <= m /\ m <= l /\ l \in Int /\ m \in Int
      BY <1>1, <2>1
    <3> QED BY <3>1
  <2> QED BY <1>1, <2>1 DEF Min
<1>2. ASSUME \A x \in S : x <= m PROVE Max(S) = m
  <2>1. ASSUME NEW l \in S, \A x \in S : l >= x PROVE l = m
    <3>1. l >= m /\ m >= l /\ l \in Int /\ m \in Int
      BY <1>2, <2>1
    <3> QED BY <3>1
  <2>2. \A x \in S : m >= x
    BY <1>2
  <2> QED BY <2>1, <2>2 DEF Max
<1> QED BY <1>1, <1>2

\* The percentage known of an app after a run.
PercentAfter(known, a, run) == IF known[a][run] = Null THEN Null ELSE known[a][run].percent

\* trend shows the n runs run[1] < .. < run[n], and what is known of each app
\* after each of them; an app it leaves out is not known in any of them.
Drawn(trend, n, run, known) ==
  /\ n \in Nat /\ run \in [1 .. n -> 1 .. MaxRuns]
  /\ \A i, j \in 1 .. n : i < j <=> run[i] < run[j]
  /\ trend.points = [i \in 1 .. n |-> trend.points[i]]
  /\ DOMAIN trend.apps \subseteq Apps
  /\ \A a \in DOMAIN trend.apps : trend.apps[a] = [i \in 1 .. n |-> PercentAfter(known, a, run[i])]
  /\ \A a \in Apps : a \notin DOMAIN trend.apps => \A i \in 1 .. n : PercentAfter(known, a, run[i]) = Null

\* Its points: dated, with counts of tests, and of one app what is known of it.
Marked(trend, n, run, known) ==
  /\ \A i \in 1 .. n :
       LET p == trend.points[i]
       IN /\ p.at = At(run[i], LastStep)
          /\ p.ranTests # Null => p.ranTests.passed \in Nat /\ p.ranTests.failed \in Nat
          /\ \A a : DOMAIN trend.joined = {a} =>
               /\ PercentAfter(known, a, run[i]) # Null <=> p.total # Null /\ p.total.percent # Null
               /\ PercentAfter(known, a, run[i]) # Null => p.total.percent = PercentAfter(known, a, run[i])

\* A sum of one term.
LEMMA SumOfOne ==
  ASSUME NEW x, NEW f \in [{x} -> Int]
  PROVE  SumFunction(f) = f[x]
<1>1. IsFiniteSet({x})
  BY FS_Singleton
<1>2. PICK g : Summing(g, {x}, f) /\ SumFunction(f) = g[{x}]
  BY <1>1, SumOf
<1>3. {x} \in SUBSET {x} /\ x \in {x} /\ {x} \ {x} = {}
  OBVIOUS
<1>4. g[{x}] = g[{}] + f[x] /\ g[{}] = 0
  BY <1>2, <1>3 DEF Summing
<1>5. f[x] \in Int
  OBVIOUS
<1> QED BY <1>2, <1>4, <1>5

\* The total of one app is what is known of the app: thousandths cancel out.
LEMMA TotalOfOne ==
  ASSUME NEW latest, NEW a, Having(latest) \subseteq {a}, NEW coverage \in CoverageType,
         a \in Having(latest) => latest[a].value = ResolveTrendValue(coverage, "lines")
  PROVE  LET t == TotalOf(latest)
             v == latest[a].value
         IN /\ a \in Having(latest) => /\ t # Null /\ t.percent = v.percent
            /\ a \notin Having(latest) => t = Null
<1>1. a \notin Having(latest) => TotalOf(latest) = Null
  BY DEF TotalOf
<1>2. ASSUME a \in Having(latest) PROVE TotalOf(latest) # Null /\ TotalOf(latest).percent = latest[a].value.percent
  <2> DEFINE m == coverage["lines"]
             v == latest[a].value
  <2>1. Having(latest) = {a} /\ v # Null /\ v = ResolveTrendValue(coverage, "lines")
    BY <1>2 DEF Having
  <2>2. m # Null /\ v = [covered |-> 1000 * m.covered, total |-> m.total, percent |-> m.percent, from |-> "lines"]
    BY <2>1 DEF ResolveTrendValue
  <2>3. m \in MetricType
    BY <2>2, TrendHistoryAssumption DEF CoverageType
  <2>4. m.covered \in Nat /\ m.total \in Nat /\ m.percent \in {Null} \cup 0 .. 1000
    <3> HIDE DEF m
    <3> QED BY <2>3 DEF MetricType
  <2>a. m.percent = IF m.total = 0 THEN Null ELSE (2000 * m.covered + m.total) \div (2 * m.total)
    <3>1. m = Metric(m.covered, m.total)
      <4> HIDE DEF m
      <4> QED BY <2>3 DEF MetricType
    <3> HIDE DEF m
    <3> QED BY <3>1 DEF Metric
  <2> DEFINE c == [x \in {a} |-> latest[x].value.covered]
             t == [x \in {a} |-> latest[x].value.total]
  <2>5. SumFunction(c) = 1000 * m.covered /\ SumFunction(t) = m.total
    <3>1. 1000 * m.covered \in Int /\ m.total \in Int
      <4> HIDE DEF m
      <4> QED BY <2>4
    <3> HIDE DEF m
    <3>2. v.covered = 1000 * m.covered /\ v.total = m.total
      BY <2>2
    <3> HIDE DEF v
    <3>3. \A x \in {a} : latest[x].value = v
      BY DEF v
    <3>4. c \in [{a} -> Int] /\ t \in [{a} -> Int] /\ c[a] = v.covered /\ t[a] = v.total
      BY <3>1, <3>2, <3>3
    <3> HIDE DEF c, t
    <3> QED BY <3>2, <3>4, SumOfOne
  <2>6. TotalOf(latest) = [covered |-> SumFunction(c), total |-> SumFunction(t),
           percent |-> IF SumFunction(t) = 0 THEN Null ELSE Round(SumFunction(c), SumFunction(t))]
    BY <2>1 DEF TotalOf
  <2>7. m.total # 0 => Round(1000 * m.covered, m.total) = (2000 * m.covered + m.total) \div (2 * m.total)
    <3> HIDE DEF m
    <3>1. 2 * (1000 * m.covered) + m.total = 2000 * m.covered + m.total
      BY <2>4
    <3> QED BY <3>1 DEF Round
  <2> HIDE DEF c, t
  <2>8. TotalOf(latest) = [covered |-> 1000 * m.covered, total |-> m.total, percent |-> m.percent]
    <3> HIDE DEF m
    <3>1. m.percent = IF m.total = 0 THEN Null ELSE Round(1000 * m.covered, m.total)
      BY <2>7, <2>a
    <3> QED BY <2>5, <2>6, <3>1
  <2>9. TotalOf(latest) \in [covered : Int, total : Int, percent : {Null} \cup Int]
    <3> HIDE DEF m
    <3>1. 1000 * m.covered \in Int /\ m.total \in Int /\ m.percent \in {Null} \cup Int
      <4>1. m.covered \in Nat /\ m.total \in Nat /\ m.percent \in {Null} \cup Int
        BY <2>4
      <4>2. \A k \in Nat : 1000 * k \in Int
        OBVIOUS
      <4> QED BY ONLY <4>1, <4>2
    <3> QED BY <2>8, <3>1
  <2>10. TotalOf(latest) # Null
    BY <2>9, NullIsApart
  <2> HIDE DEF m
  <2> QED BY <2>2, <2>8, <2>10
<1> QED BY <1>1, <1>2

LEMMA DrawnIs ==
  ASSUME IInv
  PROVE  LET trend == BuildCoverageTrend(rows, "lines", Null)
             known == KnownAfter(rows, Apps, "lines")
         IN \E n, run : /\ Drawn(trend, n, run, known) /\ Marked(trend, n, run, known)
                       /\ {run[i] : i \in 1 .. n} = {r.run : r \in rows}
                       /\ DOMAIN trend.joined = DOMAIN trend.apps
                       /\ \A a \in DOMAIN trend.joined : trend.joined[a] \in Nat
<1> DEFINE trend == BuildCoverageTrend(rows, "lines", Null)
           known == KnownAfter(rows, Apps, "lines")
           H == rows
           q == RunRows(rows, Null)
           V == [r \in H |-> ResolveTrendValue(r.coverage, "lines")]
           after == After(q, "lines")
           apps == UNION {DOMAIN k : k \in Range(after)}
<1>1. InScope(rows, Null) = H /\ History(H) /\ \A r \in H : RowType(r)
  BY RecordsAreHistories DEF InScope, IInv, RowsHold
<1>2. PICK n : Timeline(H, q, n)
  BY <1>1, RunsInOrder
<1>3. /\ trend.points = [i \in DOMAIN q |-> Point(q[i], after[i])]
      /\ trend.apps = [a \in apps |-> [i \in DOMAIN q |->
            IF a \notin DOMAIN after[i] THEN Null
            ELSE IF after[i][a].value = Null THEN Null ELSE after[i][a].value.percent]]
      /\ trend.joined = [a \in apps |-> SelectInSeq(after, LAMBDA k : a \in DOMAIN k)]
  BY DEF BuildCoverageTrend, TrendOf
<1>4. n \in Nat /\ DOMAIN q = 1 .. n
  BY <1>2 DEF Timeline
<1>5. after = [i \in 1 .. n |-> after[i]]
  <2> HIDE DEF q
  <2>1. PICK k : after = [i \in 1 .. n |-> k[i]]
    BY <1>4, AfterIs
  <2> QED BY <2>1
<1> DEFINE run == [i \in 1 .. n |-> RunOf(q[i])]
<1>6. \A i \in 1 .. n : Knows(after[i], UpTo(q, i), V) /\ UpTo(q, i) = {r \in H : r.run <= run[i]}
  <2>1. \A r \in H : V[r] = ResolveTrendValue(r.coverage, "lines")
    OBVIOUS
  <2>2. \A i \in 1 .. n : run[i] = RunOf(q[i])
    OBVIOUS
  <2> HIDE DEF H, q, V, run
  <2> QED BY <1>1, <1>2, <2>1, <2>2, AfterKnows, UpToRun
<1>7. /\ run \in [1 .. n -> 1 .. MaxRuns] /\ \A i, j \in 1 .. n : i < j <=> run[i] < run[j]
      /\ \A i \in 1 .. n : run[i] = RunOf(q[i]) /\ q[i] # {} /\ q[i] = {r \in H : r.run = run[i]}
  <2> HIDE DEF q, H
  <2>1. \A i \in 1 .. n : run[i] = RunOf(q[i]) /\ q[i] # {} /\ q[i] = {r \in H : r.run = RunOf(q[i])}
                          /\ RunOf(q[i]) \in 1 .. MaxRuns
    BY <1>2 DEF Timeline
  <2>2. \A i, j \in 1 .. n : i < j <=> run[i] < run[j]
    BY <1>2 DEF Timeline
  <2> QED BY <2>1, <2>2
<1> HIDE DEF trend, known, H, q, after, run
<1> DEFINE U(i) == {r \in H : r.run <= run[i]}
<1>8. ASSUME NEW i \in 1 .. n
      PROVE  /\ DOMAIN after[i] = {r.app : r \in U(i)} /\ DOMAIN after[i] \subseteq Apps
             /\ \A a \in DOMAIN after[i] : after[i][a].value = known[a][run[i]]
             /\ \A a \in Apps : a \notin DOMAIN after[i] => known[a][run[i]] = Null
  <2>1. DOMAIN after[i] = {r.app : r \in U(i)} /\ \A a \in DOMAIN after[i] : after[i][a].value = LastValue(U(i), V, a)
    BY <1>6 DEF Knows
  <2>2. \A a \in Apps : known[a][run[i]] = LastValue(U(i), V, a)
    <3>1. run[i] \in 1 .. MaxRuns
      BY <1>7
    <3> QED BY <3>1, KnownIs DEF known, H
  <2>3. DOMAIN after[i] \subseteq Apps
    BY <1>1, <2>1 DEF RowType
  <2> HIDE DEF V
  <2>4. \A a : a \notin DOMAIN after[i] => LastValue(U(i), V, a) = Null
    <3>1. \A a : a \notin DOMAIN after[i] => WithValue(U(i), V, a) = {}
      BY <2>1 DEF WithValue
    <3> QED BY <3>1 DEF LastValue
  <2> QED BY <2>1, <2>2, <2>3, <2>4
<1>9. apps \subseteq Apps /\ \A i \in 1 .. n : DOMAIN after[i] \subseteq apps
  <2>1. Range(after) = {after[i] : i \in 1 .. n}
    BY <1>5 DEF Range
  <2> QED BY <1>8, <2>1
<1> HIDE DEF apps
<1>10. Drawn(trend, n, run, known)
  <2>1. trend.points = [i \in 1 .. n |-> trend.points[i]]
    BY <1>3, <1>4
  <2>2. DOMAIN trend.apps = apps
    BY <1>3
  <2>3. ASSUME NEW a \in apps PROVE trend.apps[a] = [i \in 1 .. n |-> PercentAfter(known, a, run[i])]
    <3>1. trend.apps[a] = [i \in 1 .. n |->
            IF a \notin DOMAIN after[i] THEN Null
            ELSE IF after[i][a].value = Null THEN Null ELSE after[i][a].value.percent]
      BY <1>3, <1>4
    <3>2. \A i \in 1 .. n : (IF a \notin DOMAIN after[i] THEN Null
            ELSE IF after[i][a].value = Null THEN Null ELSE after[i][a].value.percent) = PercentAfter(known, a, run[i])
      BY <1>8, <1>9 DEF PercentAfter
    <3> QED BY <3>1, <3>2
  <2>4. ASSUME NEW a \in Apps, a \notin apps, NEW i \in 1 .. n PROVE PercentAfter(known, a, run[i]) = Null
    BY <1>8, <1>9, <2>4 DEF PercentAfter
  <2> QED BY <1>4, <1>7, <1>9, <2>1, <2>2, <2>3, <2>4 DEF Drawn
<1>11. DOMAIN trend.joined = DOMAIN trend.apps /\ \A a \in DOMAIN trend.joined : trend.joined[a] \in Nat
  <2>1. DOMAIN trend.joined = apps /\ DOMAIN trend.apps = apps
    BY <1>3
  <2>2. Len(after) = n
    BY <1>4, <1>5, PartIs
  <2>3. ASSUME NEW a \in apps PROVE trend.joined[a] \in Nat
    <3> DEFINE I == {i \in 1 .. n : a \in DOMAIN after[i]}
    <3>1. trend.joined[a] = IF I # {} THEN Min(I) ELSE 0
      BY <1>3, <2>2 DEF SelectInSeq
    <3>2. I \in SUBSET Nat
      BY <1>4
    <3> HIDE DEF I
    <3>3. CASE I = {}
      BY <3>1, <3>3
    <3>4. CASE I # {}
      <4>1. Min(I) \in I
        BY <3>2, <3>4, LeastExists
      <4>2. Min(I) \in Nat
        BY <3>2, <4>1
      <4> QED BY <3>1, <3>4, <4>2
    <3> QED BY <3>3, <3>4
  <2> QED BY <2>1, <2>3
<1>12. {run[i] : i \in 1 .. n} = {r.run : r \in rows}
  <2>1. ASSUME NEW i \in 1 .. n PROVE \E r \in rows : r.run = run[i]
    BY <1>7 DEF H
  <2>2. ASSUME NEW r \in rows PROVE \E i \in 1 .. n : r.run = run[i]
    <3>1. PICK i \in 1 .. n : r \in q[i]
      BY <1>2 DEF Timeline, H
    <3> QED BY <1>7, <3>1
  <2> QED BY <2>1, <2>2
<1>13. ASSUME NEW i \in 1 .. n
       PROVE  LET p == trend.points[i]
              IN /\ p.at = At(run[i], LastStep)
                 /\ p.ranTests # Null => p.ranTests.passed \in Nat /\ p.ranTests.failed \in Nat
                 /\ \A a : DOMAIN trend.joined = {a} =>
                      /\ PercentAfter(known, a, run[i]) # Null <=> p.total # Null /\ p.total.percent # Null
                      /\ PercentAfter(known, a, run[i]) # Null => p.total.percent = PercentAfter(known, a, run[i])
  <2> DEFINE p == trend.points[i]
             g == q[i]
  <2>1. p = Point(g, after[i])
    BY <1>3, <1>4
  <2>2. p.at = At(run[i], LastStep)
    <3> DEFINE any == CHOOSE r \in g : TRUE
    <3>1. any \in g
      BY <1>7
    <3>2. any \in H /\ any.run = run[i]
      BY <1>7, <3>1
    <3>3. any.at = At(run[i], LastStep)
      BY <1>1, <3>2 DEF RowType
    <3>4. p.at = any.at
      BY <2>1 DEF Point
    <3> QED BY <3>3, <3>4
  <2>3. ASSUME p.ranTests # Null PROVE p.ranTests.passed \in Nat /\ p.ranTests.failed \in Nat
    <3> DEFINE reported == {r \in g : r.tests # Null}
               P == [r \in reported |-> r.tests.passed]
               F == [r \in reported |-> r.tests.failed]
    <3>1. p.ranTests = IF reported = {} THEN Null ELSE [passed |-> SumFunction(P), failed |-> SumFunction(F)]
      BY <2>1 DEF Point
    <3>2. IsFiniteSet(reported)
      <4>1. reported \in SUBSET H
        BY <1>7
      <4> HIDE DEF reported
      <4> QED BY <1>1, <4>1, FS_Subset DEF History
    <3>3. \A r \in reported : r.tests.passed \in Nat /\ r.tests.failed \in Nat
      BY <1>1, <1>7 DEF RowType
    <3> HIDE DEF reported
    <3>4. P \in [reported -> Nat] /\ F \in [reported -> Nat]
      BY <3>3
    <3> HIDE DEF P, F
    <3>5. SumFunction(P) \in Nat /\ SumFunction(F) \in Nat
      BY <3>2, <3>4, CountsAdd
    <3> QED BY <2>3, <3>1, <3>5
  <2>4. ASSUME NEW a, DOMAIN trend.joined = {a}
        PROVE  /\ PercentAfter(known, a, run[i]) # Null <=> p.total # Null /\ p.total.percent # Null
               /\ PercentAfter(known, a, run[i]) # Null => p.total.percent = PercentAfter(known, a, run[i])
    <3>1. a \in Apps /\ DOMAIN after[i] \subseteq {a}
      <4>1. apps = {a}
        BY <1>3, <2>4
      <4> QED BY <1>9, <4>1
    <3>2. p.total = TotalOf(after[i])
      BY <2>1, PointIs
    <3>3. Having(after[i]) \subseteq {a} /\ (a \in Having(after[i]) => after[i][a].value = known[a][run[i]])
      BY <1>8, <3>1 DEF Having
    <3>4. a \notin Having(after[i]) => known[a][run[i]] = Null
      BY <1>8, <3>1 DEF Having
    <3>5. a \in Having(after[i]) => known[a][run[i]] # Null
      BY <1>8, <3>1 DEF Having
    <3>6. CASE a \in Having(after[i])
      <4>1. known[a][run[i]] = LastValue(U(i), V, a)
        <5>1. run[i] \in 1 .. MaxRuns
          BY <1>7
        <5> QED BY <3>1, <5>1, KnownIs DEF known, H
      <4>2. PICK r \in U(i) : LastValue(U(i), V, a) = V[r]
        <5>1. U(i) \in SUBSET H
          OBVIOUS
        <5> HIDE DEF U, V
        <5> QED BY <1>1, <3>5, <3>6, <4>1, <5>1, LastIsValue
      <4>3. r.coverage \in CoverageType /\ after[i][a].value = ResolveTrendValue(r.coverage, "lines")
        BY <1>1, <3>3, <3>6, <4>1, <4>2 DEF RowType
      <4>4. p.total # Null /\ p.total.percent = after[i][a].value.percent
        BY <3>2, <3>3, <3>6, <4>3, TotalOfOne
      <4> QED BY <3>3, <3>5, <3>6, <4>4 DEF PercentAfter
    <3>7. CASE a \notin Having(after[i])
      <4>1. p.total = Null
        <5>1. Having(after[i]) = {}
          BY <3>3, <3>7
        <5> QED BY <3>2, <5>1 DEF TotalOf
      <4> QED BY <3>4, <3>7, <4>1 DEF PercentAfter
    <3> QED BY <3>6, <3>7
  <2> HIDE DEF p
  <2> QED BY <2>2, <2>3, <2>4 DEF p
<1>14. Marked(trend, n, run, known)
  BY <1>13 DEF Marked
<1> QED BY <1>10, <1>11, <1>12, <1>14 DEF trend, known

-----------------------------------------------------------------------------
(* A window of a trend                                                     *)

\* slice shows those of the runs of a trend that are not before a run.
IsWindow(slice, trend, shown, known, since) ==
  \E n, run : /\ Drawn(slice, n, run, known) /\ Marked(slice, n, run, known)
              /\ {run[i] : i \in 1 .. n} = {x \in shown : x >= since}
              /\ slice.joined = trend.joined
              /\ DOMAIN slice.apps \subseteq DOMAIN trend.apps

\* The points since a run are those of no earlier run.
LEMMA SliceDrawn ==
  ASSUME Stored, NEW trend, NEW n, NEW run, NEW known, Drawn(trend, n, run, known),
         Marked(trend, n, run, known), NEW since \in Nat
  PROVE  IsWindow(SliceTrend(trend, At(since, LastStep)), trend, {run[i] : i \in 1 .. n}, known, since)
<1> DEFINE date == At(since, LastStep)
           slice == SliceTrend(trend, date)
           I == {i \in 1 .. n : trend.points[i].at >= date}
           start == Min(I \cup {n + 1})
           m == n - start + 1
           r == [j \in 1 .. m |-> run[j + start - 1]]
<1>1. /\ n \in Nat /\ run \in [1 .. n -> 1 .. MaxRuns] /\ \A i, j \in 1 .. n : i < j <=> run[i] < run[j]
      /\ trend.points = [i \in 1 .. n |-> trend.points[i]]
      /\ DOMAIN trend.apps \subseteq Apps
      /\ \A a \in DOMAIN trend.apps : trend.apps[a] = [i \in 1 .. n |-> PercentAfter(known, a, run[i])]
      /\ \A a \in Apps : a \notin DOMAIN trend.apps => \A i \in 1 .. n : PercentAfter(known, a, run[i]) = Null
  BY DEF Drawn
<1>2. \A i \in 1 .. n : trend.points[i].at >= date <=> run[i] >= since
  <2> SUFFICES ASSUME NEW i \in 1 .. n PROVE trend.points[i].at >= date <=> run[i] >= since
    OBVIOUS
  <2>1. trend.points[i].at = At(run[i], LastStep) /\ run[i] \in Nat /\ LastStep \in Nat /\ LastStep > 0
    BY <1>1, Times DEF Marked
  <2> DEFINE x == run[i]
             L == LastStep
  <2>2. x >= since => x * L >= since * L
    BY <2>1
  <2>3. x < since => x * L + L <= since * L
    <3>1. x < since => x + 1 <= since
      BY <2>1
    <3>2. x + 1 <= since => (x + 1) * L <= since * L
      BY <2>1
    <3>3. (x + 1) * L = x * L + L
      BY <2>1
    <3> QED BY <3>1, <3>2, <3>3
  <2>4. x * L \in Nat /\ since * L \in Nat
    BY <2>1
  <2>5. At(x, L) = x * L + L /\ date = since * L + L
    BY DEF At
  <2> HIDE DEF x, L, date
  <2>6. x \in Nat /\ L \in Nat /\ L > 0 /\ trend.points[i].at = At(x, L)
    BY <2>1 DEF x, L
  <2>7. x >= since <=> At(x, L) >= date
    BY <2>2, <2>3, <2>4, <2>5, <2>6
  <2> QED BY <2>6, <2>7 DEF x
<1>3. start \in 1 .. n + 1 /\ \A i \in 1 .. n : i >= start <=> run[i] >= since
  <2>1. I \subseteq 1 .. n /\ n \in Nat
    BY <1>1
  <2>2. start \in I \cup {n + 1} /\ \A i \in I \cup {n + 1} : start <= i
    <3> DEFINE J == I \cup {n + 1}
    <3>1. J \in SUBSET Nat /\ J # {}
      <4> HIDE DEF I
      <4> QED BY <2>1
    <3>2. start = Min(J)
      OBVIOUS
    <3> HIDE DEF J, start
    <3>3. Min(J) \in J /\ \A i \in J : Min(J) <= i
      BY <3>1, LeastExists
    <3>4. start \in J /\ \A i \in J : start <= i
      BY <3>2, <3>3
    <3> QED BY <3>4 DEF J
  <2>3. start \in 1 .. n + 1
    <3> HIDE DEF I, start
    <3> QED BY <2>1, <2>2
  <2>4. ASSUME NEW i \in 1 .. n, run[i] >= since PROVE i >= start
    <3>1. i \in I
      BY <1>2, <2>4
    <3> HIDE DEF I, start
    <3>2. start <= i
      BY <2>2, <3>1
    <3> QED BY <2>3, <3>2
  <2>5. ASSUME NEW i \in 1 .. n, i >= start PROVE run[i] >= since
    <3>1. start \in 1 .. n /\ start \in I
      <4>1. start <= n
        <5> HIDE DEF start
        <5> QED BY <1>1, <2>3, <2>5
      <4>2. start # n + 1
        <5> HIDE DEF start
        <5> QED BY <1>1, <4>1
      <4> HIDE DEF start, I
      <4> QED BY <1>1, <2>2, <2>3, <4>1, <4>2
    <3>2. run[start] >= since
      BY <1>2, <3>1
    <3> HIDE DEF I, start
    <3>3. start < i \/ start = i
      BY <2>3, <2>5
    <3>4. run[start] \in Nat /\ run[i] \in Nat
      BY <1>1, <3>1
    <3>5. start < i => run[start] < run[i]
      BY <1>1, <3>1
    <3> QED BY <3>2, <3>3, <3>4, <3>5
  <2> HIDE DEF start
  <2> QED BY <2>3, <2>4, <2>5
<1>4. Len(trend.points) = n
  BY <1>1, PartIs
<1>5. /\ slice.points = SubSeq(trend.points, start, n)
      /\ slice.apps = [a \in {b \in DOMAIN trend.apps : \E i \in start .. n : trend.apps[b][i] # Null}
                         |-> SubSeq(trend.apps[a], start, n)]
      /\ slice.joined = trend.joined
  <2> HIDE DEF date
  <2> QED BY <1>4 DEF SliceTrend
<1> HIDE DEF start, slice, date
<1>6. m \in Nat /\ n \in start - 1 .. n /\ \A j \in 1 .. m : j + start - 1 \in start .. n /\ j + start - 1 \in 1 .. n
  BY <1>1, <1>3
<1>7. slice.points = [j \in 1 .. m |-> trend.points[j + start - 1]]
  BY <1>1, <1>3, <1>5, <1>6, PartIs
<1>8. \A a \in DOMAIN slice.apps : slice.apps[a] = [j \in 1 .. m |-> PercentAfter(known, a, r[j])]
  <2> SUFFICES ASSUME NEW a \in DOMAIN slice.apps
               PROVE  slice.apps[a] = [j \in 1 .. m |-> PercentAfter(known, a, r[j])]
    OBVIOUS
  <2> DEFINE s == trend.apps[a]
  <2>1. a \in DOMAIN trend.apps /\ slice.apps[a] = SubSeq(s, start, n)
    BY <1>5
  <2>2. s = [i \in 1 .. n |-> PercentAfter(known, a, run[i])]
    BY <1>1, <2>1
  <2>3. s = [i \in 1 .. n |-> s[i]]
    BY <2>2
  <2> HIDE DEF s
  <2>4. SubSeq(s, start, n) = [j \in 1 .. m |-> s[j + start - 1]]
    BY <1>1, <1>3, <1>6, <2>3, PartIs
  <2>5. \A j \in 1 .. m : s[j + start - 1] = PercentAfter(known, a, r[j])
    BY <1>6, <2>2
  <2> QED BY <2>1, <2>4, <2>5
<1>9. r \in [1 .. m -> 1 .. MaxRuns] /\ \A j, k \in 1 .. m : j < k <=> r[j] < r[k]
  <2>1. r \in [1 .. m -> 1 .. MaxRuns]
    BY <1>1, <1>6
  <2>2. ASSUME NEW j \in 1 .. m, NEW k \in 1 .. m PROVE j < k <=> r[j] < r[k]
    <3>1. r[j] = run[j + start - 1] /\ r[k] = run[k + start - 1]
      OBVIOUS
    <3>2. j < k <=> j + start - 1 < k + start - 1
      BY <1>3
    <3> QED BY <1>1, <1>6, <3>1, <3>2
  <2> QED BY <2>1, <2>2
<1>10. DOMAIN slice.apps \subseteq DOMAIN trend.apps
  BY <1>5
<1>11. ASSUME NEW a \in Apps, a \notin DOMAIN slice.apps, NEW j \in 1 .. m PROVE PercentAfter(known, a, r[j]) = Null
  <2> DEFINE i == j + start - 1
  <2>1. i \in start .. n /\ i \in 1 .. n /\ r[j] = run[i]
    BY <1>6
  <2> HIDE DEF i
  <2>2. CASE a \notin DOMAIN trend.apps
    BY <1>1, <2>1, <2>2
  <2>3. CASE a \in DOMAIN trend.apps
    <3>1. trend.apps[a][i] = Null
      BY <1>5, <1>11, <2>1, <2>3
    <3>2. trend.apps[a][i] = PercentAfter(known, a, run[i])
      BY <1>1, <2>1, <2>3
    <3> QED BY <2>1, <3>1, <3>2
  <2> QED BY <2>2, <2>3
<1>12. Drawn(slice, m, r, known)
  <2>1. slice.points = [j \in 1 .. m |-> slice.points[j]]
    BY <1>7
  <2>2. DOMAIN slice.apps \subseteq Apps
    BY <1>1, <1>10
  <2> HIDE DEF m, r
  <2> QED BY <1>6, <1>8, <1>9, <1>11, <2>1, <2>2 DEF Drawn
<1>13. Marked(slice, m, r, known)
  <2> DEFINE Mark(p, x) ==
               /\ p.at = At(x, LastStep)
               /\ p.ranTests # Null => p.ranTests.passed \in Nat /\ p.ranTests.failed \in Nat
               /\ \A a : DOMAIN trend.joined = {a} =>
                    /\ PercentAfter(known, a, x) # Null <=> p.total # Null /\ p.total.percent # Null
                    /\ PercentAfter(known, a, x) # Null => p.total.percent = PercentAfter(known, a, x)
  <2>1. \A i \in 1 .. n : Mark(trend.points[i], run[i])
    BY DEF Marked
  <2>2. (\A j \in 1 .. m : Mark(slice.points[j], r[j])) => Marked(slice, m, r, known)
    BY <1>5 DEF Marked
  <2>3. \A j \in 1 .. m : \E i \in 1 .. n : slice.points[j] = trend.points[i] /\ r[j] = run[i]
    BY <1>6, <1>7
  <2> HIDE DEF Mark, r, m
  <2> QED BY <2>1, <2>2, <2>3
<1>14. {r[j] : j \in 1 .. m} = {x \in {run[i] : i \in 1 .. n} : x >= since}
  <2>1. ASSUME NEW j \in 1 .. m PROVE \E i \in 1 .. n : r[j] = run[i] /\ run[i] >= since
    <3> DEFINE i == j + start - 1
    <3>1. r[j] = run[i] /\ i \in 1 .. n /\ i >= start
      BY <1>3, <1>6
    <3> HIDE DEF i, r
    <3> QED BY <1>3, <3>1
  <2>2. ASSUME NEW i \in 1 .. n, run[i] >= since PROVE \E j \in 1 .. m : r[j] = run[i]
    <3> DEFINE j == i - start + 1
    <3>1. i >= start
      BY <1>3, <2>2
    <3>2. j \in 1 .. m /\ j + start - 1 = i
      BY <1>1, <1>3, <3>1
    <3>3. r[j] = run[i]
      BY <3>2
    <3> HIDE DEF j, r, m
    <3> QED BY <3>2, <3>3
  <2> HIDE DEF r, m
  <2> QED BY <2>1, <2>2
<1> HIDE DEF m, r
<1>15. IsWindow(slice, trend, {run[i] : i \in 1 .. n}, known, since)
  BY <1>5, <1>10, <1>12, <1>13, <1>14 DEF IsWindow
<1> QED BY <1>15 DEF slice, date

-----------------------------------------------------------------------------
(* What moved in a window                                                  *)

\* The runs of a window after which an app's percentage is known.
KnownSince(window, known, a) == {r \in window : known[a][r] # Null /\ known[a][r].percent # Null}

\* The points that have it.
KnownAt(n, run, known, a) == {i \in 1 .. n : PercentAfter(known, a, run[i]) # Null}

\* An app moved from its first known point to the last point of all.
Moved(movers, n, run, known) ==
  /\ MoversAre(movers, {run[i] : i \in 1 .. n}, known)
  /\ \A a \in DOMAIN movers :
       /\ n \in KnownAt(n, run, known, a)
       /\ movers[a] = PercentAfter(known, a, run[n]) - PercentAfter(known, a, run[Min(KnownAt(n, run, known, a))])

LEMMA MoversMatch ==
  ASSUME NEW slice, NEW n, NEW run, NEW known, Drawn(slice, n, run, known)
  PROVE  Moved(Movers(slice), n, run, known)
<1> DEFINE window == {run[i] : i \in 1 .. n}
           movers == Movers(slice)
           P(a, i) == PercentAfter(known, a, run[i])
           I(a) == {i \in 1 .. n : P(a, i) # Null}
           Since(a) == KnownSince(window, known, a)
           First(a) == IF I(a) # {} THEN Min(I(a)) ELSE 0
<1>1. /\ n \in Nat /\ run \in [1 .. n -> 1 .. MaxRuns] /\ \A i, j \in 1 .. n : i < j <=> run[i] < run[j]
      /\ slice.points = [i \in 1 .. n |-> slice.points[i]]
      /\ DOMAIN slice.apps \subseteq Apps
      /\ \A a \in DOMAIN slice.apps : slice.apps[a] = [i \in 1 .. n |-> P(a, i)]
      /\ \A a \in Apps : a \notin DOMAIN slice.apps => \A i \in 1 .. n : P(a, i) = Null
  BY DEF Drawn
<1>2. Len(slice.points) = n
  BY <1>1, PartIs
<1>3. \A a \in DOMAIN slice.apps : Len(slice.apps[a]) = n /\ \A i \in 1 .. n : slice.apps[a][i] = P(a, i)
  <2> SUFFICES ASSUME NEW a \in DOMAIN slice.apps
               PROVE  Len(slice.apps[a]) = n /\ \A i \in 1 .. n : slice.apps[a][i] = P(a, i)
    OBVIOUS
  <2> DEFINE s == slice.apps[a]
  <2>1. s = [i \in 1 .. n |-> P(a, i)]
    BY <1>1
  <2> HIDE DEF s, P
  <2>2. s = [i \in 1 .. n |-> s[i]]
    BY <2>1
  <2>3. Len(s) = n
    BY <1>1, <2>2, PartIs
  <2> QED BY <2>1, <2>3 DEF s
<1>4. ASSUME NEW a \in DOMAIN slice.apps
      PROVE  SelectInSeq(slice.apps[a], LAMBDA v : v # Null) = First(a)
  <2>1. {i \in 1 .. Len(slice.apps[a]) : slice.apps[a][i] # Null} = I(a)
    BY <1>3
  <2> HIDE DEF I
  <2> QED BY <2>1 DEF SelectInSeq
<1>5. /\ DOMAIN movers = {b \in DOMAIN slice.apps : First(b) \notin {0, n} /\ slice.apps[b][n] # Null}
      /\ \A a \in DOMAIN movers : movers[a] = slice.apps[a][n] - slice.apps[a][First(a)]
  <2> DEFINE F(a) == SelectInSeq(slice.apps[a], LAMBDA v : v # Null)
             M == {b \in DOMAIN slice.apps : F(b) \notin {0, Len(slice.points)} /\ Last(slice.apps[b]) # Null}
  <2>1. movers = [a \in M |-> Last(slice.apps[a]) - slice.apps[a][F(a)]]
    BY DEF Movers
  <2>2. \A a \in DOMAIN slice.apps : F(a) = First(a) /\ Last(slice.apps[a]) = slice.apps[a][n]
    <3>1. \A a \in DOMAIN slice.apps : Last(slice.apps[a]) = slice.apps[a][n]
      BY <1>3 DEF Last
    <3> QED BY <1>4, <3>1
  <2> HIDE DEF F, First, movers
  <2>3. M = {b \in DOMAIN slice.apps : First(b) \notin {0, n} /\ slice.apps[b][n] # Null}
    BY <1>2, <2>2
  <2>4. DOMAIN movers = M
    BY <2>1
  <2>5. \A a \in M : movers[a] = slice.apps[a][n] - slice.apps[a][First(a)]
    BY <2>1, <2>2
  <2> HIDE DEF M
  <2> QED BY <2>3, <2>4, <2>5
<1>6. ASSUME NEW a \in Apps PROVE Since(a) = {run[i] : i \in I(a)}
  BY DEF KnownSince, PercentAfter
<1>7. n # 0 => Max(window) = run[n]
  <2> SUFFICES ASSUME n # 0 PROVE Max(window) = run[n]
    OBVIOUS
  <2>1. n \in 1 .. n
    BY <1>1
  <2>2. run[n] \in window /\ \A x \in window : x \in Int
    BY <1>1, <2>1
  <2>3. \A i \in 1 .. n : run[i] <= run[n]
    <3> SUFFICES ASSUME NEW i \in 1 .. n PROVE run[i] <= run[n]
      OBVIOUS
    <3>1. i < n \/ i = n
      BY <1>1
    <3>2. run[i] \in Int /\ run[n] \in Int /\ (i < n => run[i] < run[n])
      BY <1>1, <2>1
    <3> QED BY <3>1, <3>2
  <2>4. \A x \in window : x <= run[n]
    BY <2>3
  <2> HIDE DEF window
  <2> QED BY <2>2, <2>4, Bounds
<1> HIDE DEF movers, P
<1>8. ASSUME NEW a \in Apps, I(a) # {}
      PROVE  LET f == Min(I(a))
             IN /\ f \in I(a) /\ f \in 1 .. n /\ Min(Since(a)) = run[f]
                /\ n \in I(a) => (f # n <=> Cardinality(Since(a)) > 1)
  <2> DEFINE f == Min(I(a))
  <2>1. f \in I(a) /\ \A i \in I(a) : f <= i
    <3>1. I(a) \in SUBSET Nat
      OBVIOUS
    <3> HIDE DEF I
    <3> QED BY <1>8, <3>1, LeastExists
  <2>2. f \in 1 .. n
    BY <2>1
  <2> HIDE DEF f
  <2>3. \A i \in I(a) : i \in 1 .. n
    OBVIOUS
  <2>4. \A i, j \in 1 .. n : run[i] = run[j] => i = j
    <3> SUFFICES ASSUME NEW i \in 1 .. n, NEW j \in 1 .. n, run[i] = run[j] PROVE i = j
      OBVIOUS
    <3>1. run[i] \in Int /\ run[j] \in Int /\ ~(i < j) /\ ~(j < i)
      BY <1>1
    <3> QED BY <3>1
  <2> HIDE DEF I, window
  <2>5. Since(a) = {run[i] : i \in I(a)}
    BY <1>6
  <2>6. \A i \in I(a) : run[f] <= run[i]
    <3> SUFFICES ASSUME NEW i \in I(a) PROVE run[f] <= run[i]
      OBVIOUS
    <3>1. i \in 1 .. n /\ (f < i \/ f = i)
      BY <2>1, <2>2, <2>3
    <3>2. run[i] \in Int /\ run[f] \in Int /\ (f < i => run[f] < run[i])
      BY <1>1, <2>2, <3>1
    <3> QED BY <3>1, <3>2
  <2>7. Min(Since(a)) = run[f]
    <3>1. run[f] \in Since(a) /\ (\A x \in Since(a) : x \in Int) /\ \A x \in Since(a) : run[f] <= x
      BY <1>1, <2>1, <2>3, <2>5, <2>6
    <3> HIDE DEF Since
    <3> QED BY <3>1, Bounds
  <2>8. ASSUME n \in I(a) PROVE f # n <=> Cardinality(Since(a)) > 1
    <3>1. IsFiniteSet(Since(a)) /\ Cardinality(Since(a)) \in Nat
      <4>1. IsFiniteSet(I(a))
        <5>1. IsFiniteSet(1 .. n)
          BY <1>1, FS_Interval
        <5>2. I(a) \in SUBSET (1 .. n)
          BY <2>3
        <5> QED BY <5>1, <5>2, FS_Subset
      <4>2. IsFiniteSet(Since(a))
        <5> HIDE DEF Since
        <5> QED BY <2>5, <4>1, FiniteImage
      <4> QED BY <4>2, FS_CardinalityType
    <3> HIDE DEF Since
    <3>2. run[f] \in Since(a) /\ run[n] \in Since(a)
      BY <2>1, <2>5, <2>8
    <3>3. CASE f = n
      <4>1. \A i \in I(a) : i = n
        <5> SUFFICES ASSUME NEW i \in I(a) PROVE i = n
          OBVIOUS
        <5>1. i \in 1 .. n /\ n <= i
          BY <2>1, <2>3, <3>3
        <5> QED BY <1>1, <5>1
      <4>2. Since(a) = {run[n]}
        BY <2>5, <2>8, <4>1
      <4>3. Cardinality(Since(a)) = 1
        BY <4>2, FS_Singleton
      <4> QED BY <3>3, <4>3
    <3>4. CASE f # n
      <4>1. run[f] # run[n]
        BY <2>2, <2>3, <2>4, <2>8, <3>4
      <4>2. Cardinality(Since(a)) # 0
        BY <3>1, <3>2, FS_EmptySet
      <4>3. Cardinality(Since(a)) # 1
        <5> SUFFICES ASSUME Cardinality(Since(a)) = 1 PROVE FALSE
          OBVIOUS
        <5>1. PICK x : Since(a) = {x}
          BY <3>1, FS_Singleton
        <5> QED BY <3>2, <4>1, <5>1
      <4> QED BY <3>1, <3>4, <4>2, <4>3
    <3> QED BY <3>3, <3>4
  <2> QED BY <2>1, <2>2, <2>7, <2>8 DEF f
<1>9. ASSUME NEW a \in Apps
      PROVE  /\ (Cardinality(Since(a)) > 1 /\ Max(window) \in Since(a))
                  <=> (a \in DOMAIN slice.apps /\ First(a) \notin {0, n} /\ slice.apps[a][n] # Null)
             /\ First(a) \notin {0, n} => First(a) \in I(a) /\ Min(Since(a)) = run[First(a)]
  <2>1. CASE I(a) = {}
    <3>1. First(a) = 0
      BY <2>1
    <3>2. Since(a) = {}
      BY <1>6, <2>1
    <3> HIDE DEF First, Since
    <3> QED BY <3>1, <3>2
  <2>2. CASE I(a) # {}
    <3>1. First(a) \in I(a) /\ First(a) \in 1 .. n /\ Min(Since(a)) = run[First(a)]
          /\ (n \in I(a) => (First(a) # n <=> Cardinality(Since(a)) > 1))
      <4> HIDE DEF I, Since
      <4> QED BY <1>8, <2>2
    <3>2. n # 0 /\ n \in 1 .. n /\ First(a) # 0
      <4> HIDE DEF First
      <4> QED BY <1>1, <3>1
    <3>3. a \in DOMAIN slice.apps
      BY <1>1, <2>2
    <3>4. slice.apps[a][n] # Null <=> n \in I(a)
      BY <1>3, <3>2, <3>3
    <3>5. Max(window) \in Since(a) <=> n \in I(a)
      <4>1. Max(window) = run[n] /\ Since(a) = {run[i] : i \in I(a)}
        BY <1>6, <1>7, <3>2
      <4>2. \A i \in I(a) : run[i] = run[n] => i = n
        <5> SUFFICES ASSUME NEW i \in I(a), run[i] = run[n] PROVE i = n
          OBVIOUS
        <5>1. i \in 1 .. n /\ run[i] \in Int /\ run[n] \in Int /\ ~(i < n) /\ ~(n < i)
          BY <1>1, <3>2
        <5> QED BY <1>1, <5>1
      <4> HIDE DEF I, Since, window
      <4> QED BY <4>1, <4>2
    <3> HIDE DEF I, Since, First, window
    <3> QED BY <3>1, <3>2, <3>3, <3>4, <3>5
  <2> QED BY <2>1, <2>2
<1>10. DOMAIN movers = {a \in Apps : Cardinality(Since(a)) > 1 /\ Max(window) \in Since(a)}
  <2> HIDE DEF First, Since, I, window
  <2> QED BY <1>1, <1>5, <1>9
<1>11. ASSUME NEW a \in DOMAIN movers
       PROVE  /\ movers[a] = known[a][Max(window)].percent - known[a][Min(Since(a))].percent
              /\ n \in I(a) /\ movers[a] = P(a, n) - P(a, Min(I(a)))
  <2>1. a \in DOMAIN slice.apps /\ a \in Apps /\ First(a) \notin {0, n} /\ slice.apps[a][n] # Null
    <3> HIDE DEF First
    <3> QED BY <1>1, <1>5, <1>11
  <2>2. First(a) \in I(a) /\ Min(Since(a)) = run[First(a)] /\ Max(window) \in Since(a)
    <3> HIDE DEF First, Since, I, window
    <3> QED BY <1>9, <1>10, <1>11, <2>1
  <2> DEFINE f == First(a)
  <2>3. f \in 1 .. n /\ P(a, f) # Null
    <3> HIDE DEF f
    <3>1. f \in I(a)
      BY <2>2 DEF f
    <3> QED BY <3>1
  <2>4. n \in 1 .. n /\ n # 0
    <3> HIDE DEF f
    <3> QED BY <1>1, <2>3
  <2>5. slice.apps[a][n] = P(a, n) /\ slice.apps[a][f] = P(a, f) /\ P(a, n) # Null
    <3> HIDE DEF f
    <3> QED BY <1>3, <2>1, <2>3, <2>4
  <2>6. movers[a] = P(a, n) - P(a, f)
    BY <1>5, <1>11, <2>5
  <2>7. P(a, n) = known[a][run[n]].percent /\ P(a, f) = known[a][run[f]].percent
    <3> HIDE DEF f
    <3> QED BY <2>3, <2>5 DEF P, PercentAfter
  <2>8. Max(window) = run[n] /\ Min(Since(a)) = run[f]
    BY <1>7, <2>2, <2>4
  <2>9. n \in I(a)
    BY <2>4, <2>5
  <2>10. f = Min(I(a))
    BY <2>2
  <2> HIDE DEF f, Since, window, P, I
  <2> QED BY <2>6, <2>7, <2>8, <2>9, <2>10
<1>12. MoversAre(movers, window, known)
  <2> HIDE DEF I
  <2> QED BY <1>10, <1>11 DEF MoversAre, KnownSince
<1>13. \A a \in Apps : I(a) = KnownAt(n, run, known, a)
  BY DEF P, KnownAt
<1>14. DOMAIN movers \subseteq Apps
  BY <1>10
<1> HIDE DEF I
<1>15. Moved(movers, n, run, known)
  BY <1>11, <1>12, <1>13, <1>14 DEF P, Moved
<1> QED BY <1>15 DEF movers

\* Percentages are numbers.
LEMMA PercentTyped ==
  ASSUME IInv, NEW a \in Apps, NEW run \in 1 .. MaxRuns,
         NEW known, known = KnownAfter(rows, Apps, "lines")
  PROVE  PercentAfter(known, a, run) # Null => PercentAfter(known, a, run) \in Int
<1> DEFINE U == {r \in rows : r.run <= run}
           V == [r \in rows |-> ResolveTrendValue(r.coverage, "lines")]
           v == LastValue(U, V, a)
<1>1. known[a][run] = v
  <2>1. \A metric : KnownAfter(rows, Apps, metric)[a][run] =
          LastValue({r \in rows : r.run <= run}, [r \in rows |-> ResolveTrendValue(r.coverage, metric)], a)
    BY KnownIs
  <2>2. KnownAfter(rows, Apps, "lines")[a][run] = v
    BY ONLY <2>1
  <2> HIDE DEF U, V, v
  <2> QED BY <2>2
<1>2. PercentAfter(known, a, run) = IF v = Null THEN Null ELSE v.percent
  <2> HIDE DEF U, V, v
  <2> QED BY ONLY <1>1 DEF PercentAfter
<1>3. ASSUME v # Null PROVE v.percent \in {Null} \cup 0 .. 1000
  <2>1. History(rows) /\ \A r \in rows : r.coverage \in CoverageType
    BY RecordsAreHistories DEF History
  <2>2. PICK r \in rows : V[r] # Null /\ v = V[r]
    <3>1. U \in SUBSET rows
      OBVIOUS
    <3> HIDE DEF U, V
    <3> QED BY <1>3, <2>1, <3>1, LastIsValue
  <2>3. V[r] = ResolveTrendValue(r.coverage, "lines")
    OBVIOUS
  <2> DEFINE coverage == r.coverage
  <2>4. coverage \in CoverageType /\ v = ResolveTrendValue(coverage, "lines")
    BY <2>1, <2>2, <2>3
  <2> HIDE DEF U, V, v, coverage
  <2> DEFINE value == ResolveTrendValue(coverage, "lines")
  <2>5. value # Null => value.percent \in {Null} \cup 0 .. 1000
    <3>1. coverage \in CoverageType
      BY <2>4
    <3> QED BY ONLY <3>1, ValueTyped
  <2> HIDE DEF value
  <2>6. v = value
    BY <2>4 DEF value
  <2> QED BY ONLY <1>3, <2>5, <2>6
<1> HIDE DEF v
<1> QED BY <1>2, <1>3

\* The one app shown moved at least as much as any other.
LEMMA TopIs ==
  ASSUME NEW movers, NEW joined, IsFiniteSet(DOMAIN movers),
         \A a \in DOMAIN movers : a \in Int /\ movers[a] \in Int /\ joined[a] \in Int,
         NEW i \in DOMAIN Ranked(movers, joined, 1, TRUE), NEW a \in DOMAIN movers
  PROVE  movers[a] <= movers[Ranked(movers, joined, 1, TRUE)[i]]
<1> DEFINE S == {b \in DOMAIN movers : movers[b] > 0}
           Before(x, y) == \/ movers[x] > movers[y]
                           \/ movers[x] = movers[y] /\ (joined[x] < joined[y] \/ (joined[x] = joined[y] /\ x < y))
           R == {p \in S \X S : Before(p[1], p[2])}
           c == Cardinality(S)
           Place(k) == CHOOSE x \in S : Cardinality({y \in S : Before(y, x)}) = k - 1
           sorted == [k \in 1 .. c |-> Place(k)]
           up == Ranked(movers, joined, 1, TRUE)
<1>1. up = SubSeq(sorted, 1, IF c < 1 THEN c ELSE 1)
  BY DEF Ranked, InOrder
<1>2. IsFiniteSet(S) /\ S \in SUBSET (DOMAIN movers)
  <2>1. S \in SUBSET (DOMAIN movers)
    OBVIOUS
  <2> HIDE DEF S
  <2> QED BY <2>1, FS_Subset
<1>3. \A x \in S : x \in Int /\ movers[x] \in Int /\ joined[x] \in Int
  OBVIOUS
<1>4. Orders(R, S)
  <2>1. \A x \in S : ~Before(x, x)
    BY <1>3
  <2>2. ASSUME NEW x \in S, NEW y \in S, x # y PROVE Before(x, y) \/ Before(y, x)
    BY <1>3, <2>2
  <2>3. ASSUME NEW x \in S, NEW y \in S, NEW z \in S, Before(x, y), Before(y, z) PROVE Before(x, z)
    BY <1>3, <2>3
  <2>4. \A x, y \in S : <<x, y>> \in R <=> Before(x, y)
    OBVIOUS
  <2> HIDE DEF R, S, Before
  <2> QED BY <2>1, <2>2, <2>3, <2>4 DEF Orders
<1>5. /\ c \in Nat
      /\ \A x \in S : Rank(S, R)[x] \in Nat
      /\ \A x, y \in S : Rank(S, R)[x] < Rank(S, R)[y] <=> <<x, y>> \in R
      /\ \A k \in 1 .. c : \E x \in S : Rank(S, R)[x] = k - 1
  <2> HIDE DEF R, S
  <2> QED BY <1>2, <1>4, RankOrders DEF c
<1>6. \A x \in S : Rank(S, R)[x] = Cardinality({y \in S : Before(y, x)})
  <2> SUFFICES ASSUME NEW x \in S PROVE {y \in S : <<y, x>> \in R} = {y \in S : Before(y, x)}
    BY DEF Rank
  <2> QED OBVIOUS
<1>7. \A k \in 1 .. c : sorted[k] \in S /\ Rank(S, R)[sorted[k]] = k - 1
  <2> SUFFICES ASSUME NEW k \in 1 .. c PROVE sorted[k] \in S /\ Rank(S, R)[sorted[k]] = k - 1
    OBVIOUS
  <2>1. sorted[k] = CHOOSE x \in S : Cardinality({y \in S : Before(y, x)}) = k - 1
    OBVIOUS
  <2> HIDE DEF S, R, Before, c, sorted
  <2>2. \E x \in S : Cardinality({y \in S : Before(y, x)}) = k - 1
    BY <1>5, <1>6
  <2>3. sorted[k] \in S /\ Cardinality({y \in S : Before(y, sorted[k])}) = k - 1
    BY <2>1, <2>2
  <2> QED BY <1>6, <2>3
<1>8. sorted = [k \in 1 .. c |-> sorted[k]]
  <2> HIDE DEF Place, c
  <2> QED OBVIOUS
<1> HIDE DEF c, sorted, up, R
<1> DEFINE m == IF c < 1 THEN c ELSE 1
<1>9. m \in 0 .. c /\ m \in 0 .. 1 /\ (c < 1 => m = 0) /\ 1 \in 1 .. c + 1
  BY <1>5
<1>10. up = [j \in 1 .. m |-> sorted[j + 1 - 1]]
  <2>1. m \in 1 - 1 .. c /\ m - 1 + 1 = m /\ up = SubSeq(sorted, 1, m)
    BY <1>1, <1>9
  <2> HIDE DEF m
  <2>2. SubSeq(sorted, 1, m) = [j \in 1 .. m - 1 + 1 |-> sorted[j + 1 - 1]]
    BY <1>5, <1>8, <1>9, <2>1, PartIs
  <2> QED BY <2>1, <2>2
<1> HIDE DEF m
<1>11. i = 1 /\ 1 \in 1 .. c /\ up[i] = sorted[1]
  <2>1. i \in 1 .. m
    BY <1>10 DEF up
  <2>2. i = 1 /\ m = 1
    BY <1>9, <2>1
  <2>3. 1 \in 1 .. c
    BY <1>5, <1>9, <2>2
  <2>4. 1 + 1 - 1 = 1
    OBVIOUS
  <2> QED BY <1>10, <2>1, <2>2, <2>3, <2>4
<1> DEFINE top == up[i]
<1>12. top \in S /\ Rank(S, R)[top] = 0
  BY <1>7, <1>11
<1> HIDE DEF top
<1>13. movers[top] > 0 /\ movers[top] \in Int /\ movers[a] \in Int
  BY <1>12
<1>14. CASE a \notin S
  <2>1. ~(movers[a] > 0)
    BY <1>14
  <2> HIDE DEF S
  <2>2. movers[a] <= movers[top]
    BY <1>13, <2>1
  <2> QED BY <2>2 DEF top, up
<1>15. CASE a \in S
  <2>1. <<a, top>> \notin R
    <3>1. Rank(S, R)[a] \in Nat /\ (Rank(S, R)[a] < Rank(S, R)[top] <=> <<a, top>> \in R)
      <4> HIDE DEF S
      <4> QED BY <1>5, <1>12, <1>15
    <3> QED BY <1>12, <3>1
  <2>2. ~(movers[a] > movers[top])
    <3> HIDE DEF S
    <3> QED BY <1>12, <1>15, <2>1 DEF R
  <2> HIDE DEF S
  <2>3. movers[a] <= movers[top]
    BY <1>13, <2>2
  <2> QED BY <2>3 DEF top, up
<1> QED BY <1>14, <1>15

\* A pass rate of 100%, or none, says that no test failed: it rounds down.
LEMMA RateIs ==
  ASSUME NEW slice, NEW n, NEW run, NEW known, Drawn(slice, n, run, known), Marked(slice, n, run, known)
  PROVE  LET rate == TrendReliability(slice)
         IN rate.withFailures = 0 <=> rate.passRate \in {Null, 1000}
<1> DEFINE P(i) == slice.points[i].ranTests
           T == {i \in 1 .. n : P(i) # Null}
           good == [i \in T |-> P(i).passed]
           bad == [i \in T |-> P(i).failed]
           F == {i \in T : P(i).failed > 0}
           passed == SumFunction(good)
           failed == SumFunction(bad)
           rate == TrendReliability(slice)
<1>1. n \in Nat /\ DOMAIN slice.points = 1 .. n
  BY DEF Drawn
<1>2. \A i \in T : P(i).passed \in Nat /\ P(i).failed \in Nat
  BY DEF Marked
<1>3. rate.withFailures = Cardinality(F)
      /\ rate.passRate = IF passed + failed = 0 THEN Null ELSE (1000 * passed) \div (passed + failed)
  BY <1>1 DEF TrendReliability
<1>4. IsFiniteSet(T)
  <2>1. IsFiniteSet(1 .. n) /\ T \in SUBSET (1 .. n)
    BY <1>1, FS_Interval
  <2> HIDE DEF T
  <2> QED BY <2>1, FS_Subset
<1>5. IsFiniteSet(F)
  <2>1. F \in SUBSET T
    OBVIOUS
  <2> HIDE DEF F, T
  <2> QED BY <1>4, <2>1, FS_Subset
<1>6. good \in [T -> Nat] /\ bad \in [T -> Nat] /\ \A i \in T : bad[i] = P(i).failed
  <2> HIDE DEF T, P
  <2> QED BY <1>2
<1>7. passed \in Nat /\ failed \in Nat /\ (failed = 0 <=> \A i \in T : P(i).failed = 0)
  <2> HIDE DEF T, P, good, bad
  <2> QED BY <1>4, <1>6, CountsAdd
<1>8. rate.withFailures = 0 <=> failed = 0
  <2>1. Cardinality(F) = 0 <=> F = {}
    <3> HIDE DEF F
    <3> QED BY <1>5, FS_EmptySet
  <2>2. F = {} <=> \A i \in T : P(i).failed = 0
    <3> HIDE DEF T, P
    <3> QED BY <1>2
  <2> HIDE DEF F, T, P, rate, failed
  <2> QED BY <1>3, <1>7, <2>1, <2>2
<1> HIDE DEF T, P, good, bad, F, passed, failed, rate
<1>9. ASSUME passed + failed = 0 PROVE rate.withFailures = 0 <=> rate.passRate \in {Null, 1000}
  <2>1. failed = 0 /\ rate.passRate = Null
    BY <1>3, <1>7, <1>9
  <2> QED BY <1>8, <2>1
<1>10. ASSUME passed + failed # 0 PROVE rate.withFailures = 0 <=> rate.passRate \in {Null, 1000}
  <2> DEFINE d == passed + failed
             m == 1000 * passed
             q == m \div d
  <2>1. d \in Nat /\ d > 0 /\ m \in Nat
    BY <1>7, <1>10
  <2>2. q \in Int /\ d * q <= m /\ m < d * q + d
    <3> HIDE DEF d, m
    <3> QED BY <2>1, Division
  <2>3. rate.passRate = q
    BY <1>3, <1>10
  <2>4. q >= 0
    <3>1. q <= -1 => d * q <= d * (-1) /\ d * (-1) = -d
      <4> HIDE DEF d, m, q
      <4> QED BY <2>1, <2>2
    <3>2. d * q \in Int
      <4> HIDE DEF d, m, q
      <4> QED BY <2>1, <2>2
    <3> HIDE DEF d, m, q
    <3> QED BY <2>1, <2>2, <3>1, <3>2
  <2>5. ASSUME failed = 0 PROVE q = 1000
    <3>1. d = passed /\ m = d * 1000
      BY <1>7, <2>5
    <3>2. q <= 999 => d * q <= d * 999 /\ d * 999 + d = d * 1000
      <4> HIDE DEF d, m, q
      <4> QED BY <2>1, <2>2
    <3>3. q >= 1001 => d * q >= d * 1001 /\ d * 1001 = d * 1000 + d
      <4> HIDE DEF d, m, q
      <4> QED BY <2>1, <2>2
    <3>4. d * q \in Int /\ d * 1000 \in Int /\ d * 999 \in Int
      <4> HIDE DEF d, m, q
      <4> QED BY <2>1, <2>2
    <3> HIDE DEF d, m, q
    <3> QED BY <2>1, <2>2, <3>1, <3>2, <3>3, <3>4
  <2>6. ASSUME failed # 0 PROVE q <= 999
    <3>1. m < d * 1000
      BY <1>7, <2>6
    <3>2. q >= 1000 => d * q >= d * 1000
      <4> HIDE DEF d, m, q
      <4> QED BY <2>1, <2>2
    <3>3. d * q \in Int /\ d * 1000 \in Int
      <4> HIDE DEF d, m, q
      <4> QED BY <2>1, <2>2
    <3> HIDE DEF d, m, q
    <3> QED BY <2>1, <2>2, <3>1, <3>2, <3>3
  <2>7. q \in 0 .. 999 => q # Null /\ q # 1000
    <3>1. Null \notin 0 .. 1000
      BY NullIsApart
    <3>2. q \in 0 .. 999 => q \in 0 .. 1000 /\ q # 1000
      <4> HIDE DEF q
      <4> QED OBVIOUS
    <3> HIDE DEF q
    <3> QED BY <3>1, <3>2
  <2> HIDE DEF d, m, q
  <2> QED BY <1>8, <2>2, <2>3, <2>4, <2>5, <2>6, <2>7
<1> QED BY <1>9, <1>10 DEF rate

\* The headline of a trend of one app is what the app moved by.
LEMMA HeadlineIs ==
  ASSUME NEW slice, NEW n, NEW run, NEW known, Drawn(slice, n, run, known), Marked(slice, n, run, known),
         NEW a \in DOMAIN Movers(slice), DOMAIN slice.joined = {a}
  PROVE  SummarizeTrend(slice).delta = Movers(slice)[a]
<1> DEFINE P(i) == PercentAfter(known, a, run[i])
           I == KnownAt(n, run, known, a)
           t(i) == slice.points[i].total
           K == {i \in DOMAIN slice.points : t(i) # Null /\ t(i).percent # Null}
<1>1. n \in Nat /\ DOMAIN slice.points = 1 .. n
  BY DEF Drawn
<1>2. \A i \in 1 .. n : (P(i) # Null <=> t(i) # Null /\ t(i).percent # Null) /\ (P(i) # Null => t(i).percent = P(i))
  BY DEF Marked
<1>3. K = I
  <2>1. I = {i \in 1 .. n : P(i) # Null}
    BY DEF KnownAt
  <2> HIDE DEF P, t, I
  <2> QED BY <1>1, <1>2, <2>1
<1>4. n \in I /\ Movers(slice)[a] = P(n) - P(Min(I))
  <2>1. Moved(Movers(slice), n, run, known)
    BY MoversMatch
  <2> QED BY <2>1 DEF Moved
<1>5. SummarizeTrend(slice).delta = IF K = {} THEN Null ELSE t(Max(K)).percent - t(Min(K)).percent
  BY DEF SummarizeTrend
<1> HIDE DEF P, t, K
<1>6. Max(I) = n
  <2>1. (\A i \in I : i \in Int) /\ \A i \in I : i <= n
    BY <1>1 DEF KnownAt
  <2> HIDE DEF I
  <2> QED BY <1>4, <2>1, Bounds
<1>7. Min(I) \in I
  <2>1. I \in SUBSET Nat
    BY DEF KnownAt
  <2> HIDE DEF I
  <2> QED BY <1>4, <2>1, LeastExists
<1>8. \A i \in I : t(i).percent = P(i)
  BY <1>2 DEF KnownAt, P
<1> HIDE DEF I
<1> QED BY <1>3, <1>4, <1>5, <1>6, <1>7, <1>8

\* What the dashboard says of any window of a trend agrees with the rows.
LEMMA WindowIs ==
  ASSUME IInv, NEW since \in Nat
  PROVE  LET trend == BuildCoverageTrend(rows, "lines", Null)
         IN WindowHolds(SliceTrend(trend, At(since, LastStep)), {r.run : r \in {q \in rows : q.run >= since}},
                        KnownAfter(rows, Apps, "lines"))
<1> DEFINE trend == BuildCoverageTrend(rows, "lines", Null)
           known == KnownAfter(rows, Apps, "lines")
           slice == SliceTrend(trend, At(since, LastStep))
           window == {r.run : r \in {q \in rows : q.run >= since}}
           movers == Movers(slice)
           joined == slice.joined
<1>1. PICK n, run : /\ Drawn(trend, n, run, known) /\ Marked(trend, n, run, known)
                    /\ {run[i] : i \in 1 .. n} = {r.run : r \in rows}
                    /\ DOMAIN trend.joined = DOMAIN trend.apps
                    /\ \A a \in DOMAIN trend.joined : trend.joined[a] \in Nat
  BY DrawnIs
<1> HIDE DEF trend, known
<1>2. PICK m, late : /\ Drawn(slice, m, late, known) /\ Marked(slice, m, late, known)
                     /\ {late[j] : j \in 1 .. m} = {x \in {run[i] : i \in 1 .. n} : x >= since}
                     /\ slice.joined = trend.joined
                     /\ DOMAIN slice.apps \subseteq DOMAIN trend.apps
  <2>1. IsWindow(slice, trend, {run[i] : i \in 1 .. n}, known, since)
    <3>1. Stored
      BY DEF IInv
    <3> QED BY <1>1, <3>1, SliceDrawn
  <2> HIDE DEF slice
  <2> QED BY <2>1 DEF IsWindow
<1> HIDE DEF slice
<1>3. {late[j] : j \in 1 .. m} = window
  BY <1>1, <1>2
<1>4. MoversAre(movers, {late[j] : j \in 1 .. m}, known)
      /\ \A a \in DOMAIN movers :
           /\ m \in KnownAt(m, late, known, a)
           /\ movers[a] = PercentAfter(known, a, late[m])
                         - PercentAfter(known, a, late[Min(KnownAt(m, late, known, a))])
  <2>1. Moved(movers, m, late, known)
    BY <1>2, MoversMatch
  <2> HIDE DEF movers
  <2> QED BY <2>1 DEF Moved
<1> HIDE DEF window
<1>5. /\ DOMAIN movers \subseteq DOMAIN slice.apps /\ DOMAIN movers \subseteq DOMAIN joined
      /\ DOMAIN joined \subseteq Apps /\ IsFiniteSet(DOMAIN joined) /\ IsFiniteSet(DOMAIN movers)
  <2>1. DOMAIN movers \subseteq DOMAIN slice.apps
    BY DEF Movers
  <2> HIDE DEF movers
  <2>2. DOMAIN movers \subseteq DOMAIN joined /\ DOMAIN joined \subseteq Apps
    BY <1>1, <1>2, <2>1 DEF Drawn
  <2>3. IsFiniteSet(Apps)
    BY TrendHistoryAssumption
  <2> HIDE DEF joined
  <2>4. IsFiniteSet(DOMAIN joined)
    BY <2>2, <2>3, FS_Subset
  <2>5. IsFiniteSet(DOMAIN movers)
    BY <2>2, <2>4, FS_Subset
  <2> QED BY <2>1, <2>2, <2>4, <2>5
<1>6. \A a \in DOMAIN movers : a \in Int /\ movers[a] \in Int /\ joined[a] \in Int
  <2> SUFFICES ASSUME NEW a \in DOMAIN movers PROVE a \in Int /\ movers[a] \in Int /\ joined[a] \in Int
    OBVIOUS
  <2>1. a \in Apps /\ a \in Int
    <3>1. Apps \subseteq Int
      <4>1. IsFiniteSet(Apps) /\ Apps = 1 .. Cardinality(Apps)
        BY TrendHistoryAssumption
      <4>2. Cardinality(Apps) \in Nat
        BY <4>1, FS_CardinalityType
      <4> QED BY <4>1, <4>2
    <3> HIDE DEF movers, joined
    <3> QED BY <1>5, <3>1
  <2>2. joined[a] \in Int
    <3>1. joined = trend.joined /\ a \in DOMAIN joined
      <4> HIDE DEF movers
      <4> QED BY <1>2, <1>5
    <3> HIDE DEF joined
    <3>2. joined[a] \in Nat
      BY <1>1, <3>1
    <3> QED BY <3>2
  <2>3. movers[a] \in Int
    <3> DEFINE K == KnownAt(m, late, known, a)
    <3>1. m \in K /\ movers[a] = PercentAfter(known, a, late[m]) - PercentAfter(known, a, late[Min(K)])
      BY <1>4
    <3>2. Min(K) \in K
      <4>1. K \in SUBSET Nat
        BY DEF KnownAt
      <4> HIDE DEF K
      <4> QED BY <3>1, <4>1, LeastExists
    <3>3. \A i \in K : PercentAfter(known, a, late[i]) \in Int
      <4> SUFFICES ASSUME NEW i \in K PROVE PercentAfter(known, a, late[i]) \in Int
        OBVIOUS
      <4> DEFINE at == late[i]
      <4>1. at \in 1 .. MaxRuns /\ PercentAfter(known, a, at) # Null
        BY <1>2 DEF KnownAt, Drawn
      <4>2. known = KnownAfter(rows, Apps, "lines")
        BY DEF known
      <4> HIDE DEF at, K
      <4>3. PercentAfter(known, a, at) # Null => PercentAfter(known, a, at) \in Int
        BY <2>1, <4>1, <4>2, PercentTyped
      <4>4. PercentAfter(known, a, at) \in Int
        BY ONLY <4>1, <4>3
      <4> QED BY <4>4 DEF at
    <3> HIDE DEF K, movers
    <3> QED BY <3>1, <3>2, <3>3
  <2> QED BY <2>1, <2>2, <2>3
<1> HIDE DEF joined, movers
<1>7. \A i \in DOMAIN TopMovers(slice, 1, TRUE) :
        \A a \in DOMAIN movers : movers[a] <= movers[TopMovers(slice, 1, TRUE)[i]]
  <2>1. TopMovers(slice, 1, TRUE) = Ranked(movers, joined, 1, TRUE)
    BY DEF TopMovers, movers, joined
  <2> QED BY <1>5, <1>6, <2>1, TopIs
<1>8. LET rate == TrendReliability(slice)
      IN rate.withFailures = 0 <=> rate.passRate \in {Null, 1000}
  BY <1>2, RateIs
<1>9. Cardinality(DOMAIN joined) = 1 => \A a \in DOMAIN movers : SummarizeTrend(slice).delta = movers[a]
  <2> SUFFICES ASSUME Cardinality(DOMAIN joined) = 1, NEW a \in DOMAIN movers
               PROVE  SummarizeTrend(slice).delta = movers[a]
    OBVIOUS
  <2>1. PICK x : DOMAIN joined = {x}
    BY <1>5, FS_Singleton
  <2>2. DOMAIN slice.joined = {a}
    BY <1>5, <2>1 DEF joined
  <2> QED BY <1>2, <2>2, HeadlineIs DEF movers
<1>10. MoversAre(movers, window, known)
  BY <1>3, <1>4
<1>11. WindowHolds(slice, window, known)
  <2> DEFINE up == TopMovers(slice, 1, TRUE)
             rate == TrendReliability(slice)
             top == \A i \in DOMAIN up : \A a \in DOMAIN movers : movers[a] <= movers[up[i]]
             kept == rate.withFailures = 0 <=> rate.passRate \in {Null, 1000}
             one == Cardinality(DOMAIN joined) = 1 => \A a \in DOMAIN movers : SummarizeTrend(slice).delta = movers[a]
  <2>1. WindowHolds(slice, window, known) <=> MoversAre(movers, window, known) /\ top /\ kept /\ one
    BY DEF WindowHolds, movers, joined
  <2>2. top
    BY <1>7
  <2>3. kept
    BY <1>8
  <2>4. one
    BY <1>9
  <2> HIDE DEF top, kept, one
  <2> QED BY <1>10, <2>1, <2>2, <2>3, <2>4
<1> QED BY <1>11 DEF slice, window, trend, known

-----------------------------------------------------------------------------
(* Theorems                                                                *)

\* The inductive invariant holds of every behaviour.
THEOREM Invariance == Spec => []IInv
BY InitHolds, NextHolds, PTL DEF Spec

\* Every row and point is well formed, no percentage exceeds 100%, and a run
\* leaves one row of an app and one point of a slice at most.
THEOREM TypeCorrect == Spec => []TypeOK
<1>1. IInv => TypeOK
  <2> SUFFICES ASSUME IInv PROVE TypeOK
    OBVIOUS
  <2> USE DEF IInv
  <2>1. \A n \in 1 .. runs : n \in 1 .. MaxRuns
    BY TrendHistoryAssumption DEF Stored
  <2>2. {DirOf[a] : a \in Apps} = Range(DirOf)
    BY TrendHistoryAssumption DEF Range
  <2>3. /\ \A r \in rows : r.run \in 1 .. MaxRuns /\ r.app \in Apps /\ r.coverage \in CoverageType
        /\ \A p \in points : p.run \in 1 .. MaxRuns /\ p.app \in SliceNames /\ p.coverage \in CoverageType
    BY <2>1 DEF RowsHold, PointsHold, RowType, PointType
  <2>4. /\ \A r, q \in rows : r.run = q.run /\ r.app = q.app => r = q
        /\ \A p, q \in points : p.run = q.run /\ p.app = q.app => p = q
    BY DEF RowsHold, PointsHold, Unique
  <2>5. live # Null => live.todo \subseteq Apps /\ DOMAIN live.got \subseteq Range(DirOf)
    BY <2>2 DEF Living
  <2> QED BY <2>3, <2>4, <2>5 DEF Stored, TypeOK
<1> QED BY <1>1, Invariance, PTL

\* A slice build leaves every measured slice with a point of the newest run
\* that measured it, and no point of a run is replaced.
THEOREM SeedsFill == Spec => SeedsFillGaps
BY Invariance, StepFillsGaps, PTL DEF Spec, SeedsFillGaps

\* Where every app reports on a directory of its own, the point a run of a
\* remote ref records of a slice is the slice's current coverage.
THEOREM PointsAreCurrent == ASSUME OwnPaths PROVE Spec => PointIsCurrent
<1>1. Init => OwnRecords
  BY OwnInit
<1>2. IInv /\ OwnRecords /\ [Next]_vars => OwnRecords'
  BY OwnNext
<1>3. IInv /\ OwnRecords /\ [Next]_vars =>
        [\A p \in points' : live # Null /\ live' = Null /\ ~live.local /\ p \notin points =>
           LET Same(c) == p.coverage = c.coverage /\ p.measured = c.measured
           IN Same(Current(slices[p.app]))]_vars
  BY StepIsCurrent
<1> QED BY <1>1, <1>2, <1>3, Invariance, PTL DEF Spec, PointIsCurrent

\* A point of a trend weighs every app by the last value of it, and has the
\* tests of the apps' last rows, at any time and over any history of runs.
THEOREM TrendsHold == Spec => []TrendsAgree
<1>1. IInv => TrendsAgree
  <2> SUFFICES ASSUME IInv,
               NEW c \in {<<rows, Apps, "lines">>, <<rows, {1}, "lines">>, <<rows, Apps, "max">>, <<points, SliceNames, "lines">>}
               PROVE  LET history == {r \in c[1] : r.app \in c[2]}
                      IN TrendAgrees(BuildCoverageTrend(c[1], c[3], IF c[2] = {1} THEN {1} ELSE Null),
                                     {r.run : r \in history}, KnownAfter(history, c[2], c[3]),
                                     TestedAfter(history, c[2]))
    BY DEF TrendsAgree
  <2> DEFINE set == c[1]
             names == c[2]
             metric == c[3]
             scope == IF names = {1} THEN {1} ELSE Null
             H == {r \in set : r.app \in names}
  <2>1. set \in {rows, points} /\ metric \in {"lines", "max"}
    OBVIOUS
  <2>2. names = {1} \/ \A r \in set : r.app \in names
    BY DEF IInv, RowsHold, RowType, PointsHold, PointType
  <2>3. InScope(set, scope) = H
    BY <2>2, NullIsApart DEF InScope
  <2>4. History(H)
    <3>1. H \in SUBSET set
      OBVIOUS
    <3> HIDE DEF H, set
    <3> QED BY <2>1, <3>1, RecordsAreHistories
  <2>5. \A r \in H : r.app \in names
    OBVIOUS
  <2> HIDE DEF H, set, names, metric, scope
  <2>6. TrendAgrees(BuildCoverageTrend(set, metric, scope), {r.run : r \in H}, KnownAfter(H, names, metric),
                    TestedAfter(H, names))
    BY <2>1, <2>3, <2>4, <2>5, Agrees
  <2> QED BY <2>6 DEF H, set, names, metric, scope
<1> QED BY <1>1, Invariance, PTL

\* At any time the movers, the headline and the pass rate of any window of the
\* trend agree with the rows of coverage_history.
THEOREM MoversAlwaysHold == Spec => []MoversHold
<1>1. IInv => MoversHold
  <2> SUFFICES ASSUME IInv, NEW since \in 1 .. runs
               PROVE  LET trend == BuildCoverageTrend(rows, "lines", Null)
                      IN WindowHolds(SliceTrend(trend, At(since, LastStep)),
                                     {r.run : r \in {q \in rows : q.run >= since}},
                                     KnownAfter(rows, Apps, "lines"))
    BY DEF MoversHold
  <2>1. since \in Nat
    BY DEF IInv, Stored
  <2> QED BY <2>1, WindowIs
<1> QED BY <1>1, Invariance, PTL

=============================================================================
