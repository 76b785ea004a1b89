----------------------------- MODULE LedgerProofs -----------------------------
(***************************************************************************)
(* Proofs about SpotLedger, for every set of bars and engines, every seed  *)
(* and every bound on quantities and reports, and about BacktestReplay,    *)
(* for every window, terms and outputs of Step().                          *)
(*                                                                         *)
(* What buckets and trade records say about the lots are sums of amounts,  *)
(* so the module starts with lemmas about sums over finite sets and over   *)
(* prefixes of a sequence.  With them come the effects of a release, a     *)
(* purchase and a sale on the totals of the lots, and with those the steps *)
(* of SpotLedger.  A replayed bar is a fold over what Step() returned: the *)
(* second half unfolds such folds, shows what consuming lots, converting,  *)
(* buying, selling, opening and closing do to totals and worth, and ends   *)
(* with the steps of BacktestReplay.                                       *)
(***************************************************************************)
EXTENDS SpotLedger, BacktestReplay, FiniteSetTheorems, SequenceTheorems,
        WellFoundedInduction, TLAPS

-----------------------------------------------------------------------------
(***************************************************************************)
(* Sums of a function over a finite set.  The library defines them by      *)
(* recursion; the lemmas unfold it by induction on the size of the set.    *)
(***************************************************************************)

LEMMA NatMin ==
  ASSUME NEW T \in SUBSET Nat, T # {}
  PROVE  \E n \in T : \A m \in T : n <= m
<1> DEFINE R == StrictSubsetOrdering(Nat)
           C == {0..k : k \in T}
<1>1. IsWellFoundedOn(R, FiniteSubsetsOf(Nat))
  BY FS_StrictSubsetOrderingWellFounded
<1>2. C \subseteq FiniteSubsetsOf(Nat)
  <2>1. \A k \in Nat : IsFiniteSet(0..k) /\ 0..k \in SUBSET Nat BY FS_Interval
  <2> QED BY <2>1 DEF FiniteSubsetsOf
<1>3. PICK c \in C : \A d \in C : ~ (<<d, c>> \in R)
  <2> HIDE DEF R, C
  <2>1. C # {} BY DEF C
  <2> QED BY <1>1, <1>2, <2>1, WFMin
<1>4. PICK n \in T : c = 0..n OBVIOUS
<1>5. ASSUME NEW m \in T, m < n PROVE FALSE
  <2>1. 0..m \in C OBVIOUS
  <2>2. 0..m \subseteq 0..n /\ 0..m # 0..n BY <1>5
  <2>3. <<0..m, 0..n>> \in R BY <2>2 DEF StrictSubsetOrdering
  <2> QED BY <1>3, <1>4, <2>1, <2>3
<1> QED BY <1>5

LEMMA NatInd ==
  ASSUME NEW S, 0 \in S, \A n \in Nat : n \in S => n + 1 \in S
  PROVE  Nat \subseteq S
<1> DEFINE T == {n \in Nat : n \notin S}
<1>1. SUFFICES ASSUME T # {} PROVE FALSE OBVIOUS
<1>2. PICK n \in T : \A m \in T : n <= m BY <1>1, NatMin
<1>3. n # 0 OBVIOUS
<1>4. n - 1 \in Nat /\ n - 1 \in S BY <1>2, <1>3
<1>5. n - 1 + 1 \in S BY <1>4
<1> QED BY <1>5

Pick(s) == CHOOSE x \in s : TRUE

\* g sums f over every subset of S.
Sums(g, f, S) ==
  g = [s \in SUBSET S |-> IF s = {} THEN 0 ELSE f[Pick(s)] + g[s \ {Pick(s)}]]

LEMMA SumUnfolds ==
  ASSUME NEW f, NEW S
  PROVE  SumFunctionOnSet(f, S) = (CHOOSE g : Sums(g, f, S))[S]
BY DEF SumFunctionOnSet, FoldFunctionOnSet, MapThenFoldSet, Sums, Pick

LEMMA SmallerSet ==
  ASSUME NEW n \in Nat, NEW s, IsFiniteSet(s), Cardinality(s) <= n + 1, s # {}
  PROVE  /\ Pick(s) \in s /\ IsFiniteSet(s \ {Pick(s)}) /\ Cardinality(s \ {Pick(s)}) <= n
         /\ Cardinality(s) \in Nat
<1>1. Pick(s) \in s BY DEF Pick
<1>2. Cardinality(s) \in Nat BY FS_CardinalityType
<1>3. PICK x \in s : x = Pick(s) BY <1>1
<1>4. IsFiniteSet(s \ {x}) /\ Cardinality(s \ {x}) = Cardinality(s) - 1
  BY FS_RemoveElement
<1> QED BY <1>1, <1>2, <1>3, <1>4

LEMMA SumsExist ==
  ASSUME NEW f, NEW S, IsFiniteSet(S)
  PROVE  \E g : Sums(g, f, S)
<1> DEFINE D(n) == {s \in SUBSET S : Cardinality(s) <= n}
           R(g, n) == g = [s \in D(n) |-> IF s = {} THEN 0 ELSE f[Pick(s)] + g[s \ {Pick(s)}]]
           N == {n \in Nat : \E g : R(g, n)}
<1>0. \A s \in SUBSET S : IsFiniteSet(s) /\ Cardinality(s) \in Nat
  BY FS_Subset, FS_CardinalityType
<1>1. 0 \in N
  <2> DEFINE g == [s \in D(0) |-> 0]
  <2>1. \A s \in D(0) : s = {} BY <1>0, FS_EmptySet
  <2>2. R(g, 0) BY <2>1
  <2> HIDE DEF R
  <2> QED BY <2>2
<1>2. ASSUME NEW n \in Nat, n \in N PROVE n + 1 \in N
  <2>1. PICK g : R(g, n) BY <1>2
  <2> DEFINE h == [s \in D(n + 1) |-> IF s = {} THEN 0 ELSE f[Pick(s)] + g[s \ {Pick(s)}]]
  <2>2. \A s \in D(n + 1) : s # {} => s \ {Pick(s)} \in D(n) BY <1>0, SmallerSet
  <2>3. D(n) \subseteq D(n + 1) BY <1>0
  <2>4. \A t \in D(n) : h[t] = g[t]
    <3> TAKE t \in D(n)
    <3>1. g[t] = IF t = {} THEN 0 ELSE f[Pick(t)] + g[t \ {Pick(t)}] BY <2>1
    <3>2. h[t] = IF t = {} THEN 0 ELSE f[Pick(t)] + g[t \ {Pick(t)}] BY <2>3
    <3> QED BY <3>1, <3>2
  <2>5. \A s \in D(n + 1) : h[s] = IF s = {} THEN 0 ELSE f[Pick(s)] + h[s \ {Pick(s)}]
    BY <2>2, <2>4
  <2>6. h = [s \in D(n + 1) |-> h[s]] OBVIOUS
  <2>7. R(h, n + 1)
    <3> HIDE DEF h, D
    <3> QED BY <2>5, <2>6
  <2> HIDE DEF R
  <2> QED BY <2>7
<1>3. Nat \subseteq N
  <2> HIDE DEF N
  <2> QED BY <1>1, <1>2, NatInd
<1>4. Cardinality(S) \in N BY <1>0, <1>3
<1>5. D(Cardinality(S)) = SUBSET S BY FS_Subset
<1> QED BY <1>4, <1>5 DEF Sums

\* Two such functions agree where both are defined.
LEMMA SumsAgree ==
  ASSUME NEW f, NEW S, NEW T \in SUBSET S, IsFiniteSet(S), NEW g, NEW h,
         Sums(g, f, S), Sums(h, f, T)
  PROVE  g[T] = h[T]
<1> DEFINE N == {n \in Nat : \A s \in SUBSET T : Cardinality(s) <= n => g[s] = h[s]}
<1>0. \A s \in SUBSET T : IsFiniteSet(s) /\ Cardinality(s) \in Nat
  BY FS_Subset, FS_CardinalityType
<1>1. \A s \in SUBSET T :
        /\ g[s] = IF s = {} THEN 0 ELSE f[Pick(s)] + g[s \ {Pick(s)}]
        /\ h[s] = IF s = {} THEN 0 ELSE f[Pick(s)] + h[s \ {Pick(s)}]
  BY DEF Sums
<1>2. 0 \in N
  <2>1. \A s \in SUBSET T : Cardinality(s) <= 0 => s = {} BY <1>0, FS_EmptySet
  <2> QED BY <1>1, <2>1
<1>3. ASSUME NEW n \in Nat, n \in N PROVE n + 1 \in N
  <2> SUFFICES ASSUME NEW s \in SUBSET T, Cardinality(s) <= n + 1 PROVE g[s] = h[s]
    OBVIOUS
  <2>1. CASE s = {} BY <1>1, <2>1
  <2>2. CASE s # {}
    <3>1. s \ {Pick(s)} \in SUBSET T /\ Cardinality(s \ {Pick(s)}) <= n
      BY <1>0, <2>2, SmallerSet
    <3>2. g[s \ {Pick(s)}] = h[s \ {Pick(s)}] BY <1>3, <3>1
    <3> QED BY <1>1, <2>2, <3>2
  <2> QED BY <2>1, <2>2
<1>4. Nat \subseteq N
  <2> HIDE DEF N
  <2> QED BY <1>2, <1>3, NatInd
<1>5. Cardinality(T) \in N BY <1>0, <1>4
<1> QED BY <1>0, <1>5

\* The sum over a set is the value of one of its elements and the sum over the others.
LEMMA SumRecursion ==
  ASSUME NEW f, NEW S, IsFiniteSet(S)
  PROVE  /\ S = {} => SumFunctionOnSet(f, S) = 0
         /\ S # {} => SumFunctionOnSet(f, S) = f[Pick(S)] + SumFunctionOnSet(f, S \ {Pick(S)})
<1> DEFINE g == CHOOSE g : Sums(g, f, S)
           T == S \ {Pick(S)}
           h == CHOOSE h : Sums(h, f, T)
<1>1. T \in SUBSET S /\ IsFiniteSet(T) BY FS_Subset
<1>2. Sums(g, f, S) BY SumsExist
<1>3. Sums(h, f, T) BY <1>1, SumsExist
<1>4. SumFunctionOnSet(f, S) = g[S] /\ SumFunctionOnSet(f, T) = h[T] BY SumUnfolds
<1> HIDE DEF g, h
<1>5. g[T] = h[T] BY <1>1, <1>2, <1>3, SumsAgree
<1>6. g[S] = IF S = {} THEN 0 ELSE f[Pick(S)] + g[T] BY <1>2 DEF Sums
<1> QED BY <1>4, <1>5, <1>6

LEMMA SumType ==
  ASSUME NEW f, NEW S, IsFiniteSet(S), \A x \in S : f[x] \in Nat
  PROVE  SumFunctionOnSet(f, S) \in Nat
<1> DEFINE N == {n \in Nat : \A s \in SUBSET S : Cardinality(s) <= n =>
                   SumFunctionOnSet(f, s) \in Nat}
<1>0. \A s \in SUBSET S : IsFiniteSet(s) /\ Cardinality(s) \in Nat
  BY FS_Subset, FS_CardinalityType
<1>1. 0 \in N
  <2>1. \A s \in SUBSET S : Cardinality(s) <= 0 => s = {} BY <1>0, FS_EmptySet
  <2>2. SumFunctionOnSet(f, {}) = 0 BY FS_EmptySet, SumRecursion
  <2> QED BY <2>1, <2>2
<1>2. ASSUME NEW n \in Nat, n \in N PROVE n + 1 \in N
  <2> SUFFICES ASSUME NEW s \in SUBSET S, Cardinality(s) <= n + 1
               PROVE  SumFunctionOnSet(f, s) \in Nat
    OBVIOUS
  <2>1. CASE s = {}
    <3>1. SumFunctionOnSet(f, s) = 0 BY <1>0, <2>1, SumRecursion
    <3> QED BY <3>1
  <2>2. CASE s # {}
    <3>1. Pick(s) \in S /\ s \ {Pick(s)} \in SUBSET S /\ Cardinality(s \ {Pick(s)}) <= n
      BY <1>0, <2>2, SmallerSet
    <3>2. SumFunctionOnSet(f, s \ {Pick(s)}) \in Nat BY <1>2, <3>1
    <3>3. SumFunctionOnSet(f, s) = f[Pick(s)] + SumFunctionOnSet(f, s \ {Pick(s)})
      BY <1>0, <2>2, SumRecursion
    <3> QED BY <3>1, <3>2, <3>3
  <2> QED BY <2>1, <2>2
<1>3. Nat \subseteq N
  <2> HIDE DEF N
  <2> QED BY <1>1, <1>2, NatInd
<1>4. Cardinality(S) \in N BY <1>0, <1>3
<1> QED BY <1>0, <1>4

\* ... of any of its elements.
LEMMA SumAdds ==
  ASSUME NEW f, NEW S, IsFiniteSet(S), \A x \in S : f[x] \in Nat, NEW a \in S
  PROVE  SumFunctionOnSet(f, S) = f[a] + SumFunctionOnSet(f, S \ {a})
<1> DEFINE Sum(s) == SumFunctionOnSet(f, s)
           N == {n \in Nat : \A s \in SUBSET S : \A x \in s :
                   Cardinality(s) <= n => Sum(s) = f[x] + Sum(s \ {x})}
<1>0. \A s \in SUBSET S : IsFiniteSet(s) /\ Cardinality(s) \in Nat
  BY FS_Subset, FS_CardinalityType
<1>1. \A s \in SUBSET S : Sum(s) \in Nat
  <2> TAKE s \in SUBSET S
  <2>1. IsFiniteSet(s) /\ \A x \in s : f[x] \in Nat BY <1>0
  <2> QED BY <2>1, SumType
<1>2. \A s \in SUBSET S : s # {} => Pick(s) \in s /\ Sum(s) = f[Pick(s)] + Sum(s \ {Pick(s)})
  BY <1>0, SumRecursion DEF Pick
<1> HIDE DEF Sum
<1>3. 0 \in N
  <2>1. \A s \in SUBSET S : Cardinality(s) <= 0 => s = {} BY <1>0, FS_EmptySet
  <2> QED BY <2>1
<1>4. ASSUME NEW n \in Nat, n \in N PROVE n + 1 \in N
  <2> SUFFICES ASSUME NEW s \in SUBSET S, NEW x \in s, Cardinality(s) <= n + 1
               PROVE  Sum(s) = f[x] + Sum(s \ {x})
    OBVIOUS
  <2>1. PICK p \in s : p = Pick(s) /\ Sum(s) = f[p] + Sum(s \ {p}) BY <1>2
  <2>2. CASE x = p BY <2>1, <2>2
  <2>3. CASE x # p
    <3>1. /\ s \ {p} \in SUBSET S /\ Cardinality(s \ {p}) <= n /\ x \in s \ {p}
          /\ s \ {x} \in SUBSET S /\ Cardinality(s \ {x}) <= n /\ p \in s \ {x}
      BY <1>0, <2>3, FS_RemoveElement
    <3>2. Sum(s \ {p}) = f[x] + Sum((s \ {p}) \ {x}) BY <1>4, <3>1
    <3>3. Sum(s \ {x}) = f[p] + Sum((s \ {x}) \ {p}) BY <1>4, <3>1
    <3>4. (s \ {p}) \ {x} = (s \ {x}) \ {p} /\ (s \ {x}) \ {p} \in SUBSET S OBVIOUS
    <3>5. Sum((s \ {x}) \ {p}) \in Nat /\ f[x] \in Nat /\ f[p] \in Nat BY <1>1, <3>4
    <3> QED BY <2>1, <3>2, <3>3, <3>4, <3>5
  <2> QED BY <2>2, <2>3
<1>5. Nat \subseteq N
  <2> HIDE DEF N
  <2> QED BY <1>3, <1>4, NatInd
<1>6. Cardinality(S) \in N BY <1>0, <1>5
<1> QED BY <1>0, <1>6 DEF Sum

\* Functions that agree on a set have the same sum over it.
LEMMA SumSame ==
  ASSUME NEW f, NEW g, NEW S, IsFiniteSet(S), \A x \in S : f[x] = g[x]
  PROVE  SumFunctionOnSet(f, S) = SumFunctionOnSet(g, S)
<1> DEFINE N == {n \in Nat : \A s \in SUBSET S : Cardinality(s) <= n =>
                   SumFunctionOnSet(f, s) = SumFunctionOnSet(g, s)}
<1>0. \A s \in SUBSET S : IsFiniteSet(s) /\ Cardinality(s) \in Nat
  BY FS_Subset, FS_CardinalityType
<1>1. 0 \in N
  <2>1. \A s \in SUBSET S : Cardinality(s) <= 0 => s = {} BY <1>0, FS_EmptySet
  <2>2. SumFunctionOnSet(f, {}) = 0 /\ SumFunctionOnSet(g, {}) = 0
    BY FS_EmptySet, SumRecursion
  <2> QED BY <2>1, <2>2
<1>2. ASSUME NEW n \in Nat, n \in N PROVE n + 1 \in N
  <2> SUFFICES ASSUME NEW s \in SUBSET S, Cardinality(s) <= n + 1
               PROVE  SumFunctionOnSet(f, s) = SumFunctionOnSet(g, s)
    OBVIOUS
  <2>1. CASE s = {}
    <3>1. SumFunctionOnSet(f, s) = 0 /\ SumFunctionOnSet(g, s) = 0
      BY <1>0, <2>1, SumRecursion
    <3> QED BY <3>1
  <2>2. CASE s # {}
    <3>1. Pick(s) \in S /\ s \ {Pick(s)} \in SUBSET S /\ Cardinality(s \ {Pick(s)}) <= n
      BY <1>0, <2>2, SmallerSet
    <3>2. SumFunctionOnSet(f, s \ {Pick(s)}) = SumFunctionOnSet(g, s \ {Pick(s)})
      BY <1>2, <3>1
    <3>3. SumFunctionOnSet(f, s) = f[Pick(s)] + SumFunctionOnSet(f, s \ {Pick(s)})
      BY <1>0, <2>2, SumRecursion
    <3>4. SumFunctionOnSet(g, s) = g[Pick(s)] + SumFunctionOnSet(g, s \ {Pick(s)})
      BY <1>0, <2>2, SumRecursion
    <3> QED BY <3>1, <3>2, <3>3, <3>4
  <2> QED BY <2>1, <2>2
<1>3. Nat \subseteq N
  <2> HIDE DEF N
  <2> QED BY <1>1, <1>2, NatInd
<1>4. Cardinality(S) \in N BY <1>0, <1>3
<1> QED BY <1>0, <1>4

-----------------------------------------------------------------------------
(***************************************************************************)
(* Sums of the first k values of a sequence of numbers.                    *)
(***************************************************************************)

Prefix(f, k) == SumFunctionOnSet(f, 1..k)

LEMMA PrefixSteps ==
  ASSUME NEW n \in Nat, NEW f \in [1..n -> Nat]
  PROVE  /\ Prefix(f, 0) = 0
         /\ \A k \in 0..n : Prefix(f, k) \in Nat
         /\ \A k \in 1..n : Prefix(f, k) = Prefix(f, k - 1) + f[k]
<1>1. Prefix(f, 0) = 0
  <2>1. 1..0 = {} OBVIOUS
  <2>2. SumFunctionOnSet(f, {}) = 0 BY FS_EmptySet, SumRecursion
  <2> QED BY <2>1, <2>2 DEF Prefix
<1>2. ASSUME NEW k \in 0..n PROVE Prefix(f, k) \in Nat
  <2>1. IsFiniteSet(1..k) BY FS_Interval
  <2>2. \A x \in 1..k : f[x] \in Nat OBVIOUS
  <2> QED BY <2>1, <2>2, SumType DEF Prefix
<1>3. ASSUME NEW k \in 1..n PROVE Prefix(f, k) = Prefix(f, k - 1) + f[k]
  <2>1. IsFiniteSet(1..k) BY FS_Interval
  <2>2. \A x \in 1..k : f[x] \in Nat OBVIOUS
  <2>3. SumFunctionOnSet(f, 1..k) = f[k] + SumFunctionOnSet(f, (1..k) \ {k})
    <3>1. k \in 1..k OBVIOUS
    <3> QED BY <2>1, <2>2, <3>1, SumAdds
  <2>4. (1..k) \ {k} = 1..(k - 1) OBVIOUS
  <2>5. Prefix(f, k - 1) \in Nat BY <1>2
  <2>6. Prefix(f, k) = f[k] + Prefix(f, k - 1) BY <2>3, <2>4 DEF Prefix
  <2> QED BY <2>5, <2>6
<1> QED BY <1>1, <1>2, <1>3

\* Induction over the length of a prefix.
LEMMA UpTo ==
  ASSUME NEW n \in Nat, NEW S, 0 \in S, \A k \in 1..n : k - 1 \in S => k \in S
  PROVE  \A k \in 0..n : k \in S
<1> DEFINE N == {k \in Nat : k <= n => k \in S}
<1>1. 0 \in N OBVIOUS
<1>2. ASSUME NEW k \in Nat, k \in N PROVE k + 1 \in N
  <2> SUFFICES ASSUME k + 1 <= n PROVE k + 1 \in S OBVIOUS
  <2>1. k \in S /\ k + 1 \in 1..n /\ (k + 1) - 1 = k BY <1>2
  <2> QED BY <2>1
<1>3. Nat \subseteq N
  <2> HIDE DEF N
  <2> QED BY <1>1, <1>2, NatInd
<1> QED BY <1>3

\* Prefixes of a sum are sums of prefixes.
LEMMA PrefixAdds ==
  ASSUME NEW n \in Nat, NEW f \in [1..n -> Nat], NEW g \in [1..n -> Nat],
         NEW h \in [1..n -> Nat], \A i \in 1..n : f[i] = g[i] + h[i]
  PROVE  \A k \in 0..n : Prefix(f, k) = Prefix(g, k) + Prefix(h, k)
<1> DEFINE N == {k \in 0..n : Prefix(f, k) = Prefix(g, k) + Prefix(h, k)}
<1>0. \A k \in 0..n : Prefix(f, k) \in Nat /\ Prefix(g, k) \in Nat /\ Prefix(h, k) \in Nat
  BY PrefixSteps
<1>1. 0 \in N
  <2>1. Prefix(f, 0) = 0 /\ Prefix(g, 0) = 0 /\ Prefix(h, 0) = 0 BY PrefixSteps
  <2> QED BY <2>1
<1>2. ASSUME NEW k \in 1..n, k - 1 \in N PROVE k \in N
  <2>1. /\ Prefix(f, k) = Prefix(f, k - 1) + f[k]
        /\ Prefix(g, k) = Prefix(g, k - 1) + g[k]
        /\ Prefix(h, k) = Prefix(h, k - 1) + h[k]
    BY PrefixSteps
  <2>2. k \in 0..n /\ k - 1 \in 0..n OBVIOUS
  <2>3. Prefix(f, k - 1) = Prefix(g, k - 1) + Prefix(h, k - 1) BY <1>2
  <2>4. f[k] = g[k] + h[k] /\ g[k] \in Nat /\ h[k] \in Nat OBVIOUS
  <2>5. Prefix(g, k - 1) \in Nat /\ Prefix(h, k - 1) \in Nat BY <1>0, <2>2
  <2> QED BY <2>1, <2>2, <2>3, <2>4, <2>5
<1>3. \A k \in 0..n : k \in N
  <2> HIDE DEF N
  <2> QED BY <1>1, <1>2, UpTo
<1> QED BY <1>3

\* The prefixes of a function that is zero but in one place.
LEMMA PrefixOne ==
  ASSUME NEW n \in Nat, NEW f \in [1..n -> Nat], NEW s \in 1..n,
         \A i \in 1..n : i # s => f[i] = 0
  PROVE  Prefix(f, n) = f[s]
<1> DEFINE N == {k \in 0..n : Prefix(f, k) = IF k < s THEN 0 ELSE f[s]}
<1>1. 0 \in N BY PrefixSteps
<1>2. ASSUME NEW k \in 1..n, k - 1 \in N PROVE k \in N
  <2>1. Prefix(f, k) = Prefix(f, k - 1) + f[k] BY PrefixSteps
  <2>2. Prefix(f, k - 1) = IF k - 1 < s THEN 0 ELSE f[s] BY <1>2
  <2>3. k # s => f[k] = 0 OBVIOUS
  <2>4. f[s] \in Nat OBVIOUS
  <2> QED BY <2>1, <2>2, <2>3, <2>4
<1>3. \A k \in 0..n : k \in N
  <2> HIDE DEF N
  <2> QED BY <1>1, <1>2, UpTo
<1> QED BY <1>3

LEMMA PrefixZero ==
  ASSUME NEW n \in Nat, NEW f \in [1..n -> Nat], \A i \in 1..n : f[i] = 0
  PROVE  Prefix(f, n) = 0
<1> DEFINE N == {k \in 0..n : Prefix(f, k) = 0}
<1>1. 0 \in N BY PrefixSteps
<1>2. ASSUME NEW k \in 1..n, k - 1 \in N PROVE k \in N BY <1>2, PrefixSteps, SMTT(30)
<1>3. \A k \in 0..n : k \in N
  <2> HIDE DEF N
  <2> QED BY <1>1, <1>2, UpTo
<1> QED BY <1>3

\* Prefixes grow.
LEMMA PrefixGrows ==
  ASSUME NEW n \in Nat, NEW f \in [1..n -> Nat], NEW j \in 0..n
  PROVE  \A k \in 0..n : j <= k => Prefix(f, j) <= Prefix(f, k)
<1> DEFINE N == {k \in 0..n : j <= k => Prefix(f, j) <= Prefix(f, k)}
<1>0. \A k \in 0..n : Prefix(f, k) \in Nat BY PrefixSteps
<1>1. 0 \in N BY <1>0
<1>2. ASSUME NEW k \in 1..n, k - 1 \in N PROVE k \in N
  <2>1. Prefix(f, k) = Prefix(f, k - 1) + f[k] BY PrefixSteps
  <2>2. k \in 0..n /\ k - 1 \in 0..n /\ f[k] \in Nat OBVIOUS
  <2>3. Prefix(f, k) \in Nat /\ Prefix(f, k - 1) \in Nat /\ Prefix(f, j) \in Nat BY <1>0, <2>2
  <2>4. CASE j = k BY <2>3, <2>4, <2>2
  <2>5. CASE j # k BY <1>2, <2>1, <2>2, <2>3, <2>5
  <2> QED BY <2>4, <2>5
<1>3. \A k \in 0..n : k \in N
  <2> HIDE DEF N
  <2> QED BY <1>1, <1>2, UpTo
<1> QED BY <1>3

-----------------------------------------------------------------------------
(***************************************************************************)
(* What the operations on lots do to the totals.                           *)
(***************************************************************************)

Lot == [type : LotTypes, amount : Nat]

\* The lots of a backtest are never empty.
OpenLot == [type : LotTypes, amount : Nat \ {0}]

LEMMA AmountsAre ==
  ASSUME NEW ls \in Seq(Lot), NEW type \in LotTypes
  PROVE  /\ Len(ls) \in Nat /\ DOMAIN ls = 1..Len(ls)
         /\ Amounts(ls, type) \in [1..Len(ls) -> Nat]
         /\ \A i \in 1..Len(ls) :
              /\ ls[i] \in Lot
              /\ Amounts(ls, type)[i] = IF ls[i].type = type THEN ls[i].amount ELSE 0
         /\ Total(ls, type) = Prefix(Amounts(ls, type), Len(ls))
         /\ Total(ls, type) \in Nat
<1>1. Len(ls) \in Nat /\ DOMAIN ls = 1..Len(ls) OBVIOUS
<1>2. \A i \in 1..Len(ls) : ls[i] \in Lot OBVIOUS
<1>3. Amounts(ls, type) = [i \in 1..Len(ls) |-> IF ls[i].type = type THEN ls[i].amount ELSE 0]
  BY <1>1 DEF Amounts
<1>4. Amounts(ls, type) \in [1..Len(ls) -> Nat] BY <1>2, <1>3 DEF Lot
<1>5. Total(ls, type) = Prefix(Amounts(ls, type), Len(ls))
  BY <1>3 DEF Total, SumFunction, Prefix
<1>6. Prefix(Amounts(ls, type), Len(ls)) \in Nat
  BY <1>1, <1>4, PrefixSteps
<1> QED BY <1>1, <1>2, <1>3, <1>4, <1>5, <1>6

\* The totals depend on the amounts only.
LEMMA TotalSplits ==
  ASSUME NEW ls \in Seq(Lot), NEW ms \in Seq(Lot), Len(ms) = Len(ls),
         NEW a \in LotTypes, NEW t \in [1..Len(ls) -> Nat],
         \A i \in 1..Len(ls) : Amounts(ls, a)[i] = Amounts(ms, a)[i] + t[i]
  PROVE  Total(ls, a) = Total(ms, a) + Prefix(t, Len(ls))
<1>1. /\ Len(ls) \in Nat /\ Len(ls) \in 0..Len(ls)
      /\ Amounts(ls, a) \in [1..Len(ls) -> Nat] /\ Total(ls, a) = Prefix(Amounts(ls, a), Len(ls))
  BY AmountsAre
<1>2. Amounts(ms, a) \in [1..Len(ls) -> Nat] /\ Total(ms, a) = Prefix(Amounts(ms, a), Len(ls))
  BY AmountsAre
<1>3. \A k \in 0..Len(ls) :
        Prefix(Amounts(ls, a), k) = Prefix(Amounts(ms, a), k) + Prefix(t, k)
  BY <1>1, <1>2, PrefixAdds
<1> QED BY <1>1, <1>2, <1>3

LEMMA TotalSame ==
  ASSUME NEW ls \in Seq(Lot), NEW ms \in Seq(Lot), Len(ms) = Len(ls), NEW a \in LotTypes,
         \A i \in 1..Len(ls) : Amounts(ls, a)[i] = Amounts(ms, a)[i]
  PROVE  Total(ls, a) = Total(ms, a)
<1>1. IsFiniteSet(1..Len(ls))
  <2>1. Len(ls) \in Nat OBVIOUS
  <2> QED BY <2>1, FS_Interval
<1>2. /\ Total(ls, a) = Prefix(Amounts(ls, a), Len(ls))
      /\ Total(ms, a) = Prefix(Amounts(ms, a), Len(ls))
  BY AmountsAre
<1> QED BY <1>1, <1>2, SumSame DEF Prefix

LEMMA TotalOfNone ==
  ASSUME NEW a \in LotTypes PROVE <<>> \in Seq(Lot) /\ Total(<<>>, a) = 0
<1>1. <<>> \in Seq(Lot) /\ Len(<<>>) = 0 OBVIOUS
<1>2. Total(<<>>, a) = Prefix(Amounts(<<>>, a), 0) /\ Amounts(<<>>, a) \in [1..0 -> Nat]
  BY <1>1, AmountsAre
<1> QED BY <1>1, <1>2, PrefixSteps

\* A new lot counts for its type.
LEMMA TotalWithLot ==
  ASSUME NEW ls \in Seq(Lot), NEW lot \in Lot, NEW a \in LotTypes
  PROVE  /\ ls \o <<lot>> \in Seq(Lot)
         /\ Total(ls \o <<lot>>, a) = Total(ls, a) + (IF lot.type = a THEN lot.amount ELSE 0)
<1> DEFINE ms == ls \o <<lot>>
           n == Len(ls)
<1>1. /\ ms \in Seq(Lot) /\ n \in Nat /\ Len(ms) = n + 1
      /\ \A i \in 1..n : ms[i] = ls[i]
      /\ ms[n + 1] = lot
  OBVIOUS
<1> HIDE DEF ms
<1>2. /\ Amounts(ls, a) \in [1..n -> Nat] /\ Total(ls, a) = Prefix(Amounts(ls, a), n)
      /\ \A i \in 1..n : Amounts(ls, a)[i] = IF ls[i].type = a THEN ls[i].amount ELSE 0
  BY AmountsAre
<1>3. /\ Amounts(ms, a) \in [1..(n + 1) -> Nat] /\ Total(ms, a) = Prefix(Amounts(ms, a), n + 1)
      /\ \A i \in 1..(n + 1) : Amounts(ms, a)[i] = IF ms[i].type = a THEN ms[i].amount ELSE 0
  BY <1>1, AmountsAre
<1> HIDE DEF n
<1>4. Prefix(Amounts(ms, a), n + 1) = Prefix(Amounts(ms, a), n) + Amounts(ms, a)[n + 1]
  <2>1. n + 1 \in Nat /\ n + 1 \in 1..(n + 1) /\ (n + 1) - 1 = n BY <1>1
  <2> QED BY <1>3, <2>1, PrefixSteps
<1>5. Prefix(Amounts(ms, a), n) = Prefix(Amounts(ls, a), n)
  <2>1. IsFiniteSet(1..n) BY <1>1, FS_Interval
  <2>2. \A i \in 1..n : Amounts(ms, a)[i] = Amounts(ls, a)[i]
    <3>1. \A i \in 1..n : i \in 1..(n + 1) BY <1>1
    <3> QED BY <1>1, <1>2, <1>3, <3>1
  <2> QED BY <2>1, <2>2, SumSame DEF Prefix
<1>6. Amounts(ms, a)[n + 1] = IF lot.type = a THEN lot.amount ELSE 0
  <2>1. n + 1 \in 1..(n + 1) BY <1>1
  <2> QED BY <1>1, <1>3, <2>1
<1>7. Total(ms, a) = Total(ls, a) + (IF lot.type = a THEN lot.amount ELSE 0)
  BY <1>2, <1>3, <1>4, <1>5, <1>6
<1> QED BY <1>1, <1>7 DEF ms

\* t takes qty out of f, each place giving what those before it do not cover.
FromOldest(n, f, qty, t) ==
  t = [i \in 1..n |-> IF f[i] < Minus(qty, Prefix(f, i - 1))
                      THEN f[i] ELSE Minus(qty, Prefix(f, i - 1))]

\* Taking from the oldest takes as much as was asked for, or all there is.
LEMMA OldestFirst ==
  ASSUME NEW n \in Nat, NEW f \in [1..n -> Nat], NEW qty \in Nat,
         NEW t, FromOldest(n, f, qty, t)
  PROVE  /\ t \in [1..n -> Nat]
         /\ \A i \in 1..n : t[i] <= f[i]
         /\ \A i \in 1..n : \A j \in 1..n : i < j /\ 0 < t[i] /\ t[i] < f[i] => t[j] = 0
         /\ Prefix(t, n) = IF Prefix(f, n) < qty THEN Prefix(f, n) ELSE qty
<1>0. /\ \A k \in 0..n : Prefix(f, k) \in Nat
      /\ \A k \in 1..n : Prefix(f, k) = Prefix(f, k - 1) + f[k]
      /\ Prefix(f, 0) = 0
  BY PrefixSteps
<1>1. ASSUME NEW i \in 1..n
      PROVE  /\ t[i] \in Nat /\ t[i] <= f[i]
             /\ t[i] = IF qty > Prefix(f, i - 1)
                       THEN IF f[i] < qty - Prefix(f, i - 1) THEN f[i] ELSE qty - Prefix(f, i - 1)
                       ELSE 0
  <2>1. Prefix(f, i - 1) \in Nat /\ f[i] \in Nat
    <3>1. i - 1 \in 0..n OBVIOUS
    <3> QED BY <1>0, <3>1
  <2>2. t[i] = IF f[i] < Minus(qty, Prefix(f, i - 1)) THEN f[i] ELSE Minus(qty, Prefix(f, i - 1))
    BY DEF FromOldest
  <2> QED BY <2>1, <2>2 DEF Minus
<1>2. t \in [1..n -> Nat] BY <1>1 DEF FromOldest
<1>3. ASSUME NEW i \in 1..n, NEW j \in 1..n, i < j, 0 < t[i], t[i] < f[i]
      PROVE  t[j] = 0
  <2>1. i - 1 \in 0..n /\ i \in 0..n /\ j - 1 \in 0..n /\ i <= j - 1 BY <1>3
  <2>2. Prefix(f, i) <= Prefix(f, j - 1) BY <2>1, PrefixGrows
  <2>3. Prefix(f, i) = Prefix(f, i - 1) + f[i] BY <1>0
  <2>4. Prefix(f, i - 1) \in Nat /\ Prefix(f, i) \in Nat /\ Prefix(f, j - 1) \in Nat /\ f[i] \in Nat
    BY <1>0, <2>1
  <2>5. t[i] = qty - Prefix(f, i - 1) /\ qty > Prefix(f, i - 1)
    <3>1. t[i] = IF qty > Prefix(f, i - 1)
                 THEN IF f[i] < qty - Prefix(f, i - 1) THEN f[i] ELSE qty - Prefix(f, i - 1)
                 ELSE 0
      BY <1>1
    <3> QED BY <1>3, <3>1, <2>4
  <2>6. qty < Prefix(f, i) BY <1>3, <2>3, <2>4, <2>5
  <2>7. ~(qty > Prefix(f, j - 1)) BY <2>2, <2>4, <2>6
  <2> QED BY <1>1, <2>7
<1>4. Prefix(t, n) = IF Prefix(f, n) < qty THEN Prefix(f, n) ELSE qty
  <2> DEFINE N == {k \in 0..n : Prefix(t, k) = IF Prefix(f, k) < qty THEN Prefix(f, k) ELSE qty}
  <2>1. 0 \in N
    <3>1. Prefix(t, 0) = 0 BY <1>2, PrefixSteps
    <3> QED BY <1>0, <3>1
  <2>2. ASSUME NEW k \in 1..n, k - 1 \in N PROVE k \in N
    <3>1. Prefix(t, k) = Prefix(t, k - 1) + t[k] BY <1>2, PrefixSteps
    <3>2. Prefix(f, k) = Prefix(f, k - 1) + f[k] BY <1>0
    <3>3. k - 1 \in 0..n /\ k \in 0..n /\ f[k] \in Nat OBVIOUS
    <3>4. Prefix(f, k - 1) \in Nat BY <1>0, <3>3
    <3>5. Prefix(t, k - 1) = IF Prefix(f, k - 1) < qty THEN Prefix(f, k - 1) ELSE qty BY <2>2
    <3>6. t[k] = IF qty > Prefix(f, k - 1)
                 THEN IF f[k] < qty - Prefix(f, k - 1) THEN f[k] ELSE qty - Prefix(f, k - 1)
                 ELSE 0
      BY <1>1
    <3> HIDE DEF N
    <3>7. Prefix(t, k) = IF Prefix(f, k) < qty THEN Prefix(f, k) ELSE qty
      BY <3>1, <3>2, <3>3, <3>4, <3>5, <3>6
    <3> QED BY <3>3, <3>7 DEF N
  <2>3. \A k \in 0..n : k \in N
    <3> HIDE DEF N
    <3> QED BY <2>1, <2>2, UpTo
  <2> QED BY <2>3
<1> QED BY <1>1, <1>2, <1>3, <1>4
LEMMA TakenAre ==
  ASSUME NEW ls \in Seq(Lot), NEW type \in LotTypes, NEW qty \in Nat, qty <= Total(ls, type),
         NEW t, t = Taken(ls, type, qty)
  PROVE  /\ t \in [1..Len(ls) -> Nat]
         /\ \A i \in 1..Len(ls) : t[i] <= Amounts(ls, type)[i]
         /\ \A i \in 1..Len(ls) : \A j \in 1..Len(ls) :
              i < j /\ 0 < t[i] /\ t[i] < Amounts(ls, type)[i] => t[j] = 0
         /\ Prefix(t, Len(ls)) = qty
<1> DEFINE n == Len(ls)
           f == Amounts(ls, type)
<1>1. /\ n \in Nat /\ DOMAIN ls = 1..n /\ f \in [1..n -> Nat]
      /\ Total(ls, type) = Prefix(f, n) /\ Total(ls, type) \in Nat
  BY AmountsAre
<1>2. FromOldest(n, f, qty, t)
  BY <1>1 DEF FromOldest, Taken, Prefix
<1> HIDE DEF n, f
<1>3. /\ t \in [1..n -> Nat]
      /\ \A i \in 1..n : t[i] <= f[i]
      /\ \A i \in 1..n : \A j \in 1..n : i < j /\ 0 < t[i] /\ t[i] < f[i] => t[j] = 0
      /\ Prefix(t, n) = IF Prefix(f, n) < qty THEN Prefix(f, n) ELSE qty
  BY <1>1, <1>2, OldestFirst
<1>4. Prefix(t, n) = qty BY <1>1, <1>3
<1> QED BY <1>3, <1>4 DEF n, f

\* A sale takes its quantity from the lots of its type and from no other.
LEMMA ReducedTotals ==
  ASSUME NEW ls \in Seq(Lot), NEW type \in LotTypes, NEW qty \in Nat, qty <= Total(ls, type)
  PROVE  /\ ReducedLots(ls, type, qty) \in Seq(Lot)
         /\ Total(ReducedLots(ls, type, qty), type) = Total(ls, type) - qty
         /\ \A a \in LotTypes \ {type} : Total(ReducedLots(ls, type, qty), a) = Total(ls, a)
<1>0. PICK t : t = Taken(ls, type, qty) OBVIOUS
<1>1. PICK ms : ms = ReducedLots(ls, type, qty) OBVIOUS
<1>2. /\ t \in [1..Len(ls) -> Nat]
      /\ \A i \in 1..Len(ls) : t[i] <= Amounts(ls, type)[i]
      /\ Prefix(t, Len(ls)) = qty
  BY <1>0, TakenAre
<1>3. /\ Len(ls) \in Nat /\ DOMAIN ls = 1..Len(ls) /\ Total(ls, type) \in Nat
      /\ \A i \in 1..Len(ls) :
           /\ ls[i] \in Lot
           /\ Amounts(ls, type)[i] = IF ls[i].type = type THEN ls[i].amount ELSE 0
  BY AmountsAre
<1>4. ms = [i \in 1..Len(ls) |-> [ls[i] EXCEPT !.amount = @ - t[i]]]
  BY <1>0, <1>1, <1>3 DEF ReducedLots
<1>5. ASSUME NEW i \in 1..Len(ls)
      PROVE  /\ ms[i] \in Lot /\ ms[i].type = ls[i].type /\ ms[i].amount = ls[i].amount - t[i]
             /\ t[i] \in Nat /\ ls[i].amount \in Nat /\ t[i] <= ls[i].amount
             /\ ls[i].type # type => t[i] = 0
  <2>1. ls[i] \in Lot /\ t[i] \in Nat /\ t[i] <= IF ls[i].type = type THEN ls[i].amount ELSE 0
    BY <1>2, <1>3
  <2>2. ls[i].amount \in Nat /\ ls[i].type \in LotTypes BY <2>1 DEF Lot
  <2>3. t[i] <= ls[i].amount /\ (ls[i].type # type => t[i] = 0) BY <2>1, <2>2
  <2>4. ms[i] = [ls[i] EXCEPT !.amount = @ - t[i]] BY <1>4
  <2>5. ms[i].type = ls[i].type /\ ms[i].amount = ls[i].amount - t[i] /\ ms[i] \in Lot
    BY <2>1, <2>2, <2>3, <2>4 DEF Lot
  <2> QED BY <2>1, <2>2, <2>3, <2>5
<1>6. ms \in Seq(Lot) /\ Len(ms) = Len(ls)
  <2>1. ms \in [1..Len(ls) -> Lot] BY <1>4, <1>5
  <2> QED BY <1>3, <2>1, IsASeq, LenProperties
<1>7. ASSUME NEW a \in LotTypes, NEW i \in 1..Len(ls)
      PROVE  /\ Amounts(ls, a)[i] = IF ls[i].type = a THEN ls[i].amount ELSE 0
             /\ Amounts(ms, a)[i] = IF ls[i].type = a THEN ls[i].amount - t[i] ELSE 0
  <2>1. Amounts(ls, a)[i] = IF ls[i].type = a THEN ls[i].amount ELSE 0 BY AmountsAre
  <2>2. Amounts(ms, a)[i] = IF ms[i].type = a THEN ms[i].amount ELSE 0 BY <1>6, AmountsAre
  <2> QED BY <1>5, <2>1, <2>2
<1>8. Total(ms, type) = Total(ls, type) - qty
  <2>1. \A i \in 1..Len(ls) : Amounts(ls, type)[i] = Amounts(ms, type)[i] + t[i]
    BY <1>5, <1>7
  <2>2. Total(ls, type) = Total(ms, type) + Prefix(t, Len(ls)) BY <1>2, <1>6, <2>1, TotalSplits
  <2>3. Total(ms, type) \in Nat BY <1>6, AmountsAre
  <2> QED BY <1>2, <1>3, <2>2, <2>3
<1>9. ASSUME NEW a \in LotTypes \ {type} PROVE Total(ms, a) = Total(ls, a)
  <2>1. \A i \in 1..Len(ls) : Amounts(ls, a)[i] = Amounts(ms, a)[i]
    BY <1>5, <1>7
  <2> QED BY <1>6, <2>1, TotalSame
<1> QED BY <1>1, <1>6, <1>8, <1>9

\* A release moves its quantity from the dead to the floating lots.
LEMMA ReleasedTotals ==
  ASSUME NEW ls \in Seq(Lot), NEW qty \in Nat, qty <= Total(ls, "DEAD_STACK")
  PROVE  /\ ReleasedLots(ls, qty) \in Seq(Lot)
         /\ Total(ReleasedLots(ls, qty), "DEAD_STACK") = Total(ls, "DEAD_STACK") - qty
         /\ Total(ReleasedLots(ls, qty), "FLOATING") = Total(ls, "FLOATING") + qty
         /\ Total(ReleasedLots(ls, qty), "COLD_SEALED") = Total(ls, "COLD_SEALED")
<1>0. "DEAD_STACK" \in LotTypes /\ "FLOATING" \in LotTypes /\ "COLD_SEALED" \in LotTypes
  BY DEF LotTypes
<1>1. PICK t : t = Taken(ls, "DEAD_STACK", qty) OBVIOUS
<1>2. PICK n : n = Len(ls) OBVIOUS
<1>3. PICK S : S = Split(ls, t) OBVIOUS
<1>4. PICK ms : ms = [i \in 1..n |-> IF t[i] = 0 THEN ls[i]
                                     ELSE IF i \in S THEN [ls[i] EXCEPT !.amount = @ - t[i]]
                                     ELSE [ls[i] EXCEPT !.type = "FLOATING"]]
  OBVIOUS
<1>5. PICK whole : whole = [i \in 1..n |-> IF i \in S THEN 0 ELSE t[i]] OBVIOUS
<1>6. PICK part : part = [i \in 1..n |-> IF i \in S THEN t[i] ELSE 0] OBVIOUS
<1>7. n \in Nat /\ DOMAIN ls = 1..n /\ \A i \in 1..n : ls[i] \in Lot
  BY <1>0, <1>2, AmountsAre
<1>8. /\ t \in [1..n -> Nat]
      /\ \A i \in 1..n : t[i] <= Amounts(ls, "DEAD_STACK")[i]
      /\ \A i \in 1..n : \A j \in 1..n :
           i < j /\ 0 < t[i] /\ t[i] < Amounts(ls, "DEAD_STACK")[i] => t[j] = 0
      /\ Prefix(t, n) = qty
  BY <1>0, <1>1, <1>2, TakenAre
<1>9. ReleasedLots(ls, qty) = ms \o SplitOff(ls, t)
  BY <1>1, <1>3, <1>4, <1>7 DEF ReleasedLots
<1>10. S = {i \in 1..n : 0 < t[i] /\ t[i] < ls[i].amount}
  BY <1>3, <1>7 DEF Split
<1>11. ASSUME NEW i \in 1..n
       PROVE  /\ t[i] \in Nat /\ ls[i].amount \in Nat /\ ls[i].type \in LotTypes
              /\ Amounts(ls, "DEAD_STACK")[i]
                   = IF ls[i].type = "DEAD_STACK" THEN ls[i].amount ELSE 0
              /\ t[i] <= ls[i].amount
              /\ t[i] # 0 => ls[i].type = "DEAD_STACK"
              /\ t[i] # 0 /\ i \notin S => t[i] = ls[i].amount
  <2>1. t[i] \in Nat /\ ls[i].amount \in Nat /\ ls[i].type \in LotTypes BY <1>7, <1>8 DEF Lot
  <2>2. Amounts(ls, "DEAD_STACK")[i] = IF ls[i].type = "DEAD_STACK" THEN ls[i].amount ELSE 0
    BY <1>0, <1>2, AmountsAre
  <2>3. t[i] <= IF ls[i].type = "DEAD_STACK" THEN ls[i].amount ELSE 0 BY <1>8, <2>2
  <2>4. t[i] <= ls[i].amount /\ (t[i] # 0 => ls[i].type = "DEAD_STACK") BY <2>1, <2>3
  <2>5. t[i] # 0 /\ i \notin S => t[i] = ls[i].amount BY <1>10, <2>1, <2>4
  <2> QED BY <2>1, <2>2, <2>4, <2>5
<1>12. ASSUME NEW i \in 1..n
       PROVE  /\ ms[i] \in Lot
              /\ t[i] = 0 => ms[i] = ls[i]
              /\ t[i] # 0 /\ i \in S =>
                   ms[i].type = ls[i].type /\ ms[i].amount = ls[i].amount - t[i]
              /\ t[i] # 0 /\ i \notin S => ms[i].type = "FLOATING" /\ ms[i].amount = ls[i].amount
  <2>1. ms[i] = IF t[i] = 0 THEN ls[i]
                ELSE IF i \in S THEN [ls[i] EXCEPT !.amount = @ - t[i]]
                ELSE [ls[i] EXCEPT !.type = "FLOATING"]
    BY <1>4
  <2>2. ls[i] \in [type : LotTypes, amount : Nat] BY <1>7 DEF Lot
  <2>3. t[i] \in Nat /\ ls[i].amount \in Nat /\ t[i] <= ls[i].amount BY <1>11
  <2>4. CASE t[i] = 0 BY <2>1, <2>4, <1>7
  <2>5. CASE t[i] # 0 /\ i \in S
    <3>1. ms[i] = [ls[i] EXCEPT !.amount = @ - t[i]] BY <2>1, <2>5
    <3>2. ls[i].amount - t[i] \in Nat BY <2>3
    <3> QED BY <2>2, <2>5, <3>1, <3>2 DEF Lot
  <2>6. CASE t[i] # 0 /\ i \notin S
    <3>1. ms[i] = [ls[i] EXCEPT !.type = "FLOATING"] BY <2>1, <2>6
    <3> QED BY <1>0, <2>2, <2>6, <3>1 DEF Lot
  <2> QED BY <2>4, <2>5, <2>6
<1>13. ms \in Seq(Lot) /\ Len(ms) = n
  <2>1. ms \in [1..n -> Lot] BY <1>4, <1>12
  <2> QED BY <1>7, <2>1, IsASeq, LenProperties
<1>14. /\ whole \in [1..n -> Nat] /\ part \in [1..n -> Nat]
       /\ \A i \in 1..n : t[i] = whole[i] + part[i]
  BY <1>5, <1>6, <1>11
<1>15. /\ qty = Prefix(whole, n) + Prefix(part, n)
       /\ Prefix(whole, n) \in Nat /\ Prefix(part, n) \in Nat
  <2>1. n \in 0..n BY <1>7
  <2> QED BY <1>7, <1>8, <1>14, <2>1, PrefixAdds, PrefixSteps
<1>16. ASSUME NEW a \in LotTypes, NEW i \in 1..n
       PROVE  /\ Amounts(ls, a)[i] = IF ls[i].type = a THEN ls[i].amount ELSE 0
              /\ Amounts(ms, a)[i] = IF ms[i].type = a THEN ms[i].amount ELSE 0
  BY <1>2, <1>13, AmountsAre
<1>17. Total(ls, "DEAD_STACK") = Total(ms, "DEAD_STACK") + qty
  <2>1. ASSUME NEW i \in 1..n
        PROVE  Amounts(ls, "DEAD_STACK")[i] = Amounts(ms, "DEAD_STACK")[i] + t[i]
    <3>1. CASE t[i] = 0 BY <1>0, <1>11, <1>12, <1>16, <3>1
    <3>2. CASE t[i] # 0 /\ i \in S BY <1>0, <1>11, <1>12, <1>16, <3>2
    <3>3. CASE t[i] # 0 /\ i \notin S BY <1>0, <1>11, <1>12, <1>16, <3>3
    <3> QED BY <3>1, <3>2, <3>3
  <2> QED BY <1>0, <1>2, <1>8, <1>13, <2>1, TotalSplits
<1>18. Total(ms, "FLOATING") = Total(ls, "FLOATING") + Prefix(whole, n)
  <2>1. ASSUME NEW i \in 1..n
        PROVE  Amounts(ms, "FLOATING")[i] = Amounts(ls, "FLOATING")[i] + whole[i]
    <3>1. CASE t[i] = 0 BY <1>0, <1>5, <1>11, <1>12, <1>16, <3>1
    <3>2. CASE t[i] # 0 /\ i \in S BY <1>0, <1>5, <1>11, <1>12, <1>16, <3>2
    <3>3. CASE t[i] # 0 /\ i \notin S BY <1>0, <1>5, <1>11, <1>12, <1>16, <3>3
    <3> QED BY <3>1, <3>2, <3>3
  <2>2. /\ Len(ls) = Len(ms) /\ whole \in [1..Len(ms) -> Nat]
        /\ \A i \in 1..Len(ms) :
             Amounts(ms, "FLOATING")[i] = Amounts(ls, "FLOATING")[i] + whole[i]
    BY <1>2, <1>13, <1>14, <2>1
  <2>3. Total(ms, "FLOATING") = Total(ls, "FLOATING") + Prefix(whole, Len(ms))
    BY <1>0, <1>13, <2>2, TotalSplits
  <2> QED BY <1>13, <2>3
<1>19. Total(ms, "COLD_SEALED") = Total(ls, "COLD_SEALED")
  <2>1. ASSUME NEW i \in 1..n
        PROVE  Amounts(ls, "COLD_SEALED")[i] = Amounts(ms, "COLD_SEALED")[i]
    <3>1. CASE t[i] = 0 BY <1>0, <1>11, <1>12, <1>16, <3>1
    <3>2. CASE t[i] # 0 /\ i \in S BY <1>0, <1>11, <1>12, <1>16, <3>2
    <3>3. CASE t[i] # 0 /\ i \notin S BY <1>0, <1>11, <1>12, <1>16, <3>3
    <3> QED BY <3>1, <3>2, <3>3
  <2> QED BY <1>0, <1>2, <1>13, <2>1, TotalSame
<1>20. \A a \in LotTypes : Total(ls, a) \in Nat /\ Total(ms, a) \in Nat
  BY <1>13, AmountsAre
<1>21. CASE S = {}
  <2>1. Prefix(part, n) = 0
    <3>1. \A i \in 1..n : part[i] = 0 BY <1>6, <1>21
    <3> QED BY <1>7, <1>14, <3>1, PrefixZero
  <2>2. SplitOff(ls, t) = <<>> BY <1>3, <1>21 DEF SplitOff
  <2>3. ReleasedLots(ls, qty) = ms BY <1>9, <1>13, <2>2
  <2> QED BY <1>0, <1>13, <1>15, <1>17, <1>18, <1>19, <1>20, <2>1, <2>3
<1>22. CASE S # {}
  <2>1. PICK s \in S : s = CHOOSE i \in S : TRUE BY <1>22
  <2>2. s \in 1..n /\ t[s] \in Nat BY <1>10, <1>11
  <2>3. ASSUME NEW i \in S PROVE i = s
    <3>1. i \in 1..n /\ 0 < t[i] /\ t[i] < ls[i].amount /\ 0 < t[s] /\ t[s] < ls[s].amount
      BY <1>10
    <3>2. ls[i].type = "DEAD_STACK" /\ ls[s].type = "DEAD_STACK" BY <1>11, <2>2, <3>1
    <3>3. t[i] < Amounts(ls, "DEAD_STACK")[i] /\ t[s] < Amounts(ls, "DEAD_STACK")[s]
      BY <1>11, <2>2, <3>1, <3>2
    <3>4. ~(i < s) /\ ~(s < i) BY <1>8, <2>2, <3>1, <3>3
    <3> QED BY <1>7, <2>2, <3>1, <3>4
  <2>4. Prefix(part, n) = t[s]
    <3>1. \A i \in 1..n : i # s => part[i] = 0 BY <1>6, <2>3
    <3>2. part[s] = t[s] BY <1>6, <2>2
    <3> QED BY <1>7, <1>14, <2>2, <3>1, <3>2, PrefixOne
  <2>5. PICK lot : lot = [type |-> "FLOATING", amount |-> t[s]] OBVIOUS
  <2>6. lot \in Lot /\ lot.type = "FLOATING" /\ lot.amount = t[s] BY <1>0, <2>2, <2>5 DEF Lot
  <2>7. SplitOff(ls, t) = <<lot>> BY <1>3, <1>22, <2>1, <2>5 DEF SplitOff
  <2>8. ReleasedLots(ls, qty) = ms \o <<lot>> BY <1>9, <2>7
  <2>9. /\ ms \o <<lot>> \in Seq(Lot)
        /\ \A a \in LotTypes :
             Total(ms \o <<lot>>, a) = Total(ms, a) + (IF lot.type = a THEN lot.amount ELSE 0)
    BY <1>13, <2>6, TotalWithLot
  <2>10. /\ Total(ms \o <<lot>>, "DEAD_STACK") = Total(ms, "DEAD_STACK") + 0
         /\ Total(ms \o <<lot>>, "FLOATING") = Total(ms, "FLOATING") + t[s]
         /\ Total(ms \o <<lot>>, "COLD_SEALED") = Total(ms, "COLD_SEALED") + 0
    BY <1>0, <2>6, <2>9
  <2>11. /\ Total(ls, "DEAD_STACK") \in Nat /\ Total(ms, "DEAD_STACK") \in Nat
         /\ Total(ls, "FLOATING") \in Nat /\ Total(ms, "COLD_SEALED") \in Nat
    BY <1>0, <1>20
  <2>12. Total(ms, "DEAD_STACK") + 0 = Total(ls, "DEAD_STACK") - qty BY <1>17, <2>11
  <2>13. Total(ms, "FLOATING") + t[s] = Total(ls, "FLOATING") + qty
    BY <1>15, <1>18, <2>2, <2>4, <2>11
  <2>14. Total(ms, "COLD_SEALED") + 0 = Total(ls, "COLD_SEALED") BY <1>19, <2>11
  <2> QED BY <2>8, <2>9, <2>10, <2>12, <2>13, <2>14
<1> QED BY <1>21, <1>22
\* The lots of a seed are the seed, and none of them is empty.
LEMMA SeedTotals ==
  ASSUME NEW seed \in [LotTypes -> Nat]
  PROVE  /\ SeedLots(seed) \in Seq(Lot) /\ SeedLots(seed) \in Seq(OpenLot)
         /\ \A a \in LotTypes : Total(SeedLots(seed), a) = seed[a]
<1> DEFINE lot(type) == IF seed[type] > 0 THEN <<[type |-> type, amount |-> seed[type]]>> ELSE <<>>
<1>0. /\ "DEAD_STACK" \in LotTypes /\ "FLOATING" \in LotTypes /\ "COLD_SEALED" \in LotTypes
      /\ \A a \in LotTypes : seed[a] \in Nat
      /\ \A a \in LotTypes : a = "DEAD_STACK" \/ a = "FLOATING" \/ a = "COLD_SEALED"
  BY DEF LotTypes
<1>1. ASSUME NEW ls \in Seq(Lot), NEW type \in LotTypes, NEW a \in LotTypes
      PROVE  /\ ls \o lot(type) \in Seq(Lot)
             /\ ls \in Seq(OpenLot) => ls \o lot(type) \in Seq(OpenLot)
             /\ Total(ls \o lot(type), a) = Total(ls, a) + (IF type = a THEN seed[a] ELSE 0)
  <2>0. Total(ls, a) \in Nat /\ seed[type] \in Nat BY <1>0, AmountsAre
  <2>1. CASE seed[type] > 0
    <3>1. PICK l : l = [type |-> type, amount |-> seed[type]] OBVIOUS
    <3>2. l \in Lot /\ l \in OpenLot /\ l.type = type /\ l.amount = seed[type]
      BY <1>0, <2>1, <3>1 DEF Lot, OpenLot
    <3>3. lot(type) = <<l>> BY <2>1, <3>1
    <3>4. /\ ls \o <<l>> \in Seq(Lot)
          /\ Total(ls \o <<l>>, a) = Total(ls, a) + (IF l.type = a THEN l.amount ELSE 0)
      BY <3>2, TotalWithLot
    <3>5. ls \in Seq(OpenLot) => ls \o <<l>> \in Seq(OpenLot) BY <3>2
    <3> HIDE DEF lot
    <3> QED BY <3>2, <3>3, <3>4, <3>5
  <2>2. CASE ~(seed[type] > 0)
    <3>1. lot(type) = <<>> /\ ls \o <<>> = ls BY <2>2
    <3>2. Total(ls, a) + (IF type = a THEN seed[a] ELSE 0) = Total(ls, a) BY <2>0, <2>2
    <3>3. ls \o lot(type) = ls BY <3>1
    <3> HIDE DEF lot
    <3> QED BY <3>2, <3>3
  <2> QED BY <2>1, <2>2
<1>2. SeedLots(seed) = (lot("DEAD_STACK") \o lot("FLOATING")) \o lot("COLD_SEALED")
  BY DEF SeedLots
<1>3. PICK d : d = <<>> \o lot("DEAD_STACK") OBVIOUS
<1>4. PICK f : f = d \o lot("FLOATING") OBVIOUS
<1>5. PICK c : c = f \o lot("COLD_SEALED") OBVIOUS
<1>6. <<>> \o lot("DEAD_STACK") = lot("DEAD_STACK")
  <2>1. CASE seed["DEAD_STACK"] > 0
    <3>1. PICK l : l = [type |-> "DEAD_STACK", amount |-> seed["DEAD_STACK"]] OBVIOUS
    <3>2. lot("DEAD_STACK") = <<l>> BY <2>1, <3>1
    <3>3. <<>> \o <<l>> = <<l>> OBVIOUS
    <3> QED BY <3>2, <3>3
  <2>2. CASE ~(seed["DEAD_STACK"] > 0)
    <3>1. lot("DEAD_STACK") = <<>> BY <2>2
    <3>2. <<>> \o <<>> = <<>> OBVIOUS
    <3> QED BY <3>1, <3>2
  <2> QED BY <2>1, <2>2
<1> HIDE DEF lot
<1>a. d \in Seq(OpenLot) /\ f \in Seq(OpenLot) /\ c \in Seq(OpenLot)
  <2>1. <<>> \in Seq(OpenLot) /\ <<>> \in Seq(Lot) OBVIOUS
  <2>2. d \in Seq(OpenLot) /\ d \in Seq(Lot) BY <1>0, <1>1, <1>3, <2>1
  <2>3. f \in Seq(OpenLot) /\ f \in Seq(Lot) BY <1>0, <1>1, <1>4, <2>2
  <2> QED BY <1>0, <1>1, <1>5, <2>2, <2>3
<1>7. /\ d \in Seq(Lot)
      /\ \A a \in LotTypes : Total(d, a) = 0 + (IF "DEAD_STACK" = a THEN seed[a] ELSE 0)
  <2>1. <<>> \in Seq(Lot) /\ \A a \in LotTypes : Total(<<>>, a) = 0 BY <1>0, TotalOfNone
  <2>2. "DEAD_STACK" \in LotTypes BY <1>0
  <2>3. d \in Seq(Lot) BY <1>1, <1>3, <2>1, <2>2
  <2>4. ASSUME NEW a \in LotTypes
        PROVE  Total(d, a) = 0 + (IF "DEAD_STACK" = a THEN seed[a] ELSE 0)
    <3>1. Total(<<>> \o lot("DEAD_STACK"), a)
            = Total(<<>>, a) + (IF "DEAD_STACK" = a THEN seed[a] ELSE 0)
      BY <1>1, <2>1, <2>2
    <3> QED BY <1>3, <2>1, <3>1
  <2> QED BY <2>3, <2>4
<1>8. /\ f \in Seq(Lot)
      /\ \A a \in LotTypes : Total(f, a) = Total(d, a) + (IF "FLOATING" = a THEN seed[a] ELSE 0)
  BY <1>0, <1>1, <1>4, <1>7
<1>9. /\ c \in Seq(Lot)
      /\ \A a \in LotTypes : Total(c, a) = Total(f, a) + (IF "COLD_SEALED" = a THEN seed[a] ELSE 0)
  BY <1>0, <1>1, <1>5, <1>8
<1>10. SeedLots(seed) = c BY <1>2, <1>3, <1>4, <1>5, <1>6
<1>11. ASSUME NEW a \in LotTypes PROVE Total(c, a) = seed[a]
  <2>1. CASE a = "DEAD_STACK" BY <1>0, <1>7, <1>8, <1>9, <2>1
  <2>2. CASE a = "FLOATING" BY <1>0, <1>7, <1>8, <1>9, <2>2
  <2>3. CASE a = "COLD_SEALED" BY <1>0, <1>7, <1>8, <1>9, <2>3
  <2> QED BY <1>0, <2>1, <2>2, <2>3
<1> QED BY <1>a, <1>9, <1>10, <1>11

Trade == [order : OrderIds, action : {"BUY", "SELL"}, qty : Nat]

TradedIn(T, action) == SumFunction([t \in {t \in T : t.action = action} |-> t.qty])

\* A new trade counts for its action.
LEMMA TradedWithOne ==
  ASSUME NEW T \in SUBSET Trade, IsFiniteSet(T), NEW x \in Trade, x \notin T, NEW action
  PROVE  /\ TradedIn(T, action) \in Nat
         /\ TradedIn(T \cup {x}, action)
              = TradedIn(T, action) + (IF x.action = action THEN x.qty ELSE 0)
<1>1. PICK S : S = {t \in T : t.action = action} OBVIOUS
<1>2. PICK f : f = [t \in S |-> t.qty] OBVIOUS
<1>3. S \subseteq T /\ IsFiniteSet(S) /\ x \notin S /\ (\A t \in S : f[t] \in Nat) /\ DOMAIN f = S
  BY <1>1, <1>2, FS_Subset DEF Trade
<1>4. TradedIn(T, action) = SumFunctionOnSet(f, S)
  BY <1>1, <1>2, <1>3 DEF TradedIn, SumFunction
<1>5. SumFunctionOnSet(f, S) \in Nat BY <1>3, SumType
<1>6. CASE x.action # action
  <2>1. {t \in T \cup {x} : t.action = action} = S BY <1>1, <1>6
  <2>2. TradedIn(T \cup {x}, action) = SumFunctionOnSet(f, S)
    BY <1>2, <1>3, <2>1 DEF TradedIn, SumFunction
  <2> QED BY <1>4, <1>5, <1>6, <2>2
<1>7. CASE x.action = action
  <2>1. PICK R : R = S \cup {x} OBVIOUS
  <2>2. PICK g : g = [t \in R |-> t.qty] OBVIOUS
  <2>3. {t \in T \cup {x} : t.action = action} = R BY <1>1, <1>7, <2>1
  <2>4. TradedIn(T \cup {x}, action) = SumFunctionOnSet(g, R)
    BY <2>2, <2>3 DEF TradedIn, SumFunction
  <2>5. IsFiniteSet(R) BY <1>3, <2>1, FS_AddElement
  <2>6. x \in R /\ R \ {x} = S /\ \A t \in R : g[t] \in Nat
    BY <1>3, <2>1, <2>2 DEF Trade
  <2>7. SumFunctionOnSet(g, R) = g[x] + SumFunctionOnSet(g, R \ {x}) BY <2>5, <2>6, SumAdds
  <2>8. SumFunctionOnSet(g, S) = SumFunctionOnSet(f, S)
    <3>1. \A t \in S : g[t] = f[t] BY <1>2, <2>1, <2>2
    <3> QED BY <1>3, <3>1, SumSame
  <2>9. g[x] = x.qty /\ x.qty \in Nat BY <2>2, <2>6 DEF Trade
  <2>10. TradedIn(T \cup {x}, action) = x.qty + TradedIn(T, action)
    BY <1>4, <2>4, <2>6, <2>7, <2>8, <2>9
  <2>11. TradedIn(T, action) \in Nat BY <1>4, <1>5
  <2> QED BY <1>7, <2>9, <2>10, <2>11
<1> QED BY <1>4, <1>5, <1>6, <1>7
-----------------------------------------------------------------------------
(***************************************************************************)
(* The inductive invariant.  BucketsMatchLots and LotsMatchTrades hold     *)
(* together: a release may take no more than the dead lots have, so the    *)
(* bucket never stops at zero while the lots go on, and a sale that would  *)
(* is short by the lots.  A trade record belongs to a settled order, so a  *)
(* pending one has none, and what a sale takes is floating.                *)
(***************************************************************************)

Finite == IsFiniteSet(trades) /\ IsFiniteSet(reports)

\* Sales are of the floating stack.
SalesAreFloating ==
  \A o \in OrderIds : orders[o].action = "SELL" =>
    orders[o].type = "FLOATING" /\ orders[o].status # "absent"

\* Only a settled order has a trade record.
TradesAreFills == \A t \in trades : orders[t.order].status = "filled"

Ledger == BucketsMatchLots /\ LotsMatchTrades

IInv == TypeOK /\ Finite /\ SalesAreFloating /\ TradesAreFills /\ Ledger /\ OnlySalesCompete

Command == [action : {"BUY", "SELL"}, type : LotTypes, qty : Nat]

Order == [status : Statuses, action : {"BUY", "SELL"}, type : LotTypes, qty : Nat]

\* What the lots of the three types hold together.
Held(ls) == Total(ls, "DEAD_STACK") + Total(ls, "FLOATING") + Total(ls, "COLD_SEALED")

LEMMA Balances ==
  /\ LotsMatchTrades <=>
       Held(lots) + TradedIn(trades, "SELL") = AllTypes(Seed) + TradedIn(trades, "BUY")
  /\ LotsMatchTrades' <=>
       Held(lots') + TradedIn(trades', "SELL") = AllTypes(Seed) + TradedIn(trades', "BUY")
<1>1. "DEAD_STACK" \in LotTypes /\ "FLOATING" \in LotTypes /\ "COLD_SEALED" \in LotTypes
  BY DEF LotTypes
<1> QED BY <1>1 DEF LotsMatchTrades, Held, AllTypes, Traded, TradedIn

LEMMA ThreeTypes ==
  /\ "DEAD_STACK" \in LotTypes /\ "FLOATING" \in LotTypes /\ "COLD_SEALED" \in LotTypes
  /\ \A a \in LotTypes : a = "DEAD_STACK" \/ a = "FLOATING" \/ a = "COLD_SEALED"
BY DEF LotTypes

LEMMA InitHolds == Init => IInv
<1> SUFFICES ASSUME Init PROVE IInv OBVIOUS
<1>1. lots \in Seq(Lot) /\ \A a \in LotTypes : Total(lots, a) = Seed[a]
  BY SeedTotals, LedgerAssumption DEF Init
<1>2. /\ \A o \in OrderIds : /\ orders[o] \in Order /\ orders[o].action = "BUY"
                             /\ orders[o].status = "absent"
      /\ orders \in [OrderIds -> Order]
  BY DEF Init, WithStatus, NoCommand, Order, Statuses, LotTypes
<1>3. TypeOK
  <2>1. Seed \in [LotTypes -> Nat] BY LedgerAssumption
  <2> QED BY <1>1, <1>2, <2>1 DEF TypeOK, Init, Lot, Order
<1>4. Finite BY FS_EmptySet DEF Finite, Init
<1>5. SalesAreFloating /\ TradesAreFills BY <1>2 DEF SalesAreFloating, TradesAreFills, Init
<1>6. BucketsMatchLots BY <1>1 DEF BucketsMatchLots, Init
<1>7. LotsMatchTrades
  <2>1. Held(lots) = AllTypes(Seed) BY <1>1, ThreeTypes DEF Held, AllTypes
  <2>2. \A a : TradedIn(trades, a) = 0
    <3> TAKE a
    <3>1. {t \in trades : t.action = a} = {} BY DEF Init
    <3>2. TradedIn(trades, a) = SumFunctionOnSet([t \in {} |-> t.qty], {})
      BY <3>1 DEF TradedIn, SumFunction
    <3> QED BY <3>2, FS_EmptySet, SumRecursion
  <2>3. TradedIn(trades, "SELL") = TradedIn(trades, "BUY") BY <2>2
  <2> QED BY <2>1, <2>3, Balances
<1>8. OnlySalesCompete BY <1>2 DEF OnlySalesCompete, IsPending
<1> QED BY <1>3, <1>4, <1>5, <1>6, <1>7, <1>8 DEF IInv, Ledger

LEMMA TypeFacts ==
  ASSUME TypeOK
  PROVE  /\ lots \in Seq(Lot) /\ bucket \in [LotTypes -> Nat]
         /\ orders \in [OrderIds -> Order] /\ trades \in SUBSET Trade
         /\ \A a \in LotTypes : bucket[a] \in Nat /\ Total(lots, a) \in Nat
         /\ \A o \in OrderIds :
              /\ orders[o] \in Order /\ orders[o].status \in Statuses
              /\ orders[o].action \in {"BUY", "SELL"} /\ orders[o].type \in LotTypes
              /\ orders[o].qty \in Nat
<1>1. lots \in Seq(Lot) /\ bucket \in [LotTypes -> Nat]
  BY DEF TypeOK, Lot
<1>2. orders \in [OrderIds -> Order] /\ trades \in SUBSET Trade
  BY DEF TypeOK, Order, Trade
<1>3. \A a \in LotTypes : bucket[a] \in Nat /\ Total(lots, a) \in Nat
  BY <1>1, AmountsAre
<1>4. \A o \in OrderIds : orders[o] \in Order BY <1>2
<1> QED BY <1>1, <1>2, <1>3, <1>4 DEF Order

-----------------------------------------------------------------------------
(***************************************************************************)
(* The tick.                                                               *)
(***************************************************************************)

LEMMA TickReleases ==
  ASSUME TypeOK, BucketsMatchLots, NEW time \in Bars, Tick(time)
  PROVE  /\ lots' \in Seq(Lot) /\ bucket' \in [LotTypes -> Nat] /\ BucketsMatchLots'
         /\ Held(lots') = Held(lots)
         /\ bucket'["FLOATING"] >= bucket["FLOATING"]
<1>1. PICK q \in Releases :
        /\ lots' = ReleasedLots(lots, q)
        /\ bucket' = [bucket EXCEPT !["DEAD_STACK"] = Minus(@, q), !["FLOATING"] = @ + q]
  BY DEF Tick
<1>2. /\ lots \in Seq(Lot) /\ bucket \in [LotTypes -> Nat]
      /\ \A a \in LotTypes : bucket[a] \in Nat /\ Total(lots, a) \in Nat
  BY TypeFacts
<1>3. q \in Nat /\ q <= Total(lots, "DEAD_STACK") BY <1>2, ThreeTypes DEF Releases
<1>4. /\ lots' \in Seq(Lot)
      /\ Total(lots', "DEAD_STACK") = Total(lots, "DEAD_STACK") - q
      /\ Total(lots', "FLOATING") = Total(lots, "FLOATING") + q
      /\ Total(lots', "COLD_SEALED") = Total(lots, "COLD_SEALED")
  BY <1>1, <1>2, <1>3, ReleasedTotals
<1>5. \A a \in LotTypes : bucket[a] = Total(lots, a) BY DEF BucketsMatchLots
<1>6. /\ bucket'["DEAD_STACK"] = Minus(bucket["DEAD_STACK"], q)
      /\ bucket'["FLOATING"] = bucket["FLOATING"] + q
      /\ bucket'["COLD_SEALED"] = bucket["COLD_SEALED"]
      /\ bucket' = [a \in LotTypes |-> bucket'[a]]
  BY <1>1, <1>2, ThreeTypes
<1>7. Minus(bucket["DEAD_STACK"], q) = bucket["DEAD_STACK"] - q /\ bucket["DEAD_STACK"] - q \in Nat
  BY <1>2, <1>3, <1>5, ThreeTypes DEF Minus
<1>8. \A a \in LotTypes : bucket'[a] \in Nat /\ bucket'[a] = Total(lots', a)
  BY <1>2, <1>3, <1>4, <1>5, <1>6, <1>7, ThreeTypes
<1>9. BucketsMatchLots' BY <1>8 DEF BucketsMatchLots
<1>10. bucket' \in [LotTypes -> Nat] BY <1>6, <1>8
<1>11. Held(lots') = Held(lots) BY <1>2, <1>3, <1>4, ThreeTypes DEF Held
<1>12. bucket'["FLOATING"] >= bucket["FLOATING"] BY <1>2, <1>3, <1>6, ThreeTypes
<1> QED BY <1>4, <1>9, <1>10, <1>11, <1>12

LEMMA TickOrders ==
  ASSUME TypeOK, BucketsMatchLots, NEW time \in Bars, Tick(time)
  PROVE  /\ orders' \in [OrderIds -> Order]
         /\ \A o \in OrderIds :
              \/ orders'[o] = orders[o]
              \/ /\ orders[o].status = "absent" /\ orders'[o].status = "pending"
                 /\ orders'[o].action = "SELL" =>
                      /\ orders'[o].type = "FLOATING"
                      /\ orders'[o].qty <= bucket'["FLOATING"]
<1>0. bucket'["FLOATING"] \in Nat BY TickReleases, ThreeTypes
<1>1. PICK macro \in SUBSET MacroCommands,
           micro \in {{}} \cup {{c} : c \in MicroCommands(bucket'["FLOATING"])} :
        orders' = [o \in OrderIds |->
          LET new == IF o[1] = "MACRO" THEN macro ELSE micro
          IN IF o[2] = time /\ new # {} /\ orders[o].status = "absent"
             THEN WithStatus("pending", CHOOSE c \in new : TRUE) ELSE orders[o]]
  BY DEF Tick
<1>2. ASSUME NEW c \in macro \cup micro
      PROVE  /\ c \in Command
             /\ c.action = "SELL" => c.type = "FLOATING" /\ c.qty <= bucket'["FLOATING"]
  <2>1. \/ c \in MacroCommands \/ c \in MicroCommands(bucket'["FLOATING"]) BY <1>1
  <2>2. CASE c \in MacroCommands BY <2>2, ThreeTypes DEF MacroCommands, Command
  <2>3. CASE c \in MicroCommands(bucket'["FLOATING"])
    <3>1. CASE c = [action |-> "BUY", type |-> "FLOATING", qty |-> 0]
      BY <3>1, ThreeTypes DEF Command
    <3>2. ASSUME NEW q \in 1..bucket'["FLOATING"], c = [action |-> "SELL", type |-> "FLOATING", qty |-> q]
          PROVE  /\ c \in Command /\ c.type = "FLOATING" /\ c.qty <= bucket'["FLOATING"]
      <4>1. q \in Nat /\ q <= bucket'["FLOATING"] BY <1>0
      <4> QED BY <3>2, <4>1, ThreeTypes DEF Command
    <3> QED BY <2>3, <3>1, <3>2 DEF MicroCommands
  <2> QED BY <2>1, <2>2, <2>3
<1>3. ASSUME NEW o \in OrderIds
      PROVE  /\ orders'[o] \in Order
             /\ \/ orders'[o] = orders[o]
                \/ /\ orders[o].status = "absent" /\ orders'[o].status = "pending"
                   /\ orders'[o].action = "SELL" =>
                        /\ orders'[o].type = "FLOATING"
                        /\ orders'[o].qty <= bucket'["FLOATING"]
  <2>1. PICK new : new = IF o[1] = "MACRO" THEN macro ELSE micro OBVIOUS
  <2>2. orders'[o] = IF o[2] = time /\ new # {} /\ orders[o].status = "absent"
                     THEN WithStatus("pending", CHOOSE c \in new : TRUE) ELSE orders[o]
    BY <1>1, <2>1
  <2>3. CASE o[2] = time /\ new # {} /\ orders[o].status = "absent"
    <3>1. PICK c \in new : c = CHOOSE d \in new : TRUE BY <2>3
    <3>2. /\ c \in Command
          /\ c.action = "SELL" => c.type = "FLOATING" /\ c.qty <= bucket'["FLOATING"]
      BY <1>2, <2>1
    <3>3. orders'[o] = [status |-> "pending", action |-> c.action, type |-> c.type, qty |-> c.qty]
      BY <2>2, <2>3, <3>1 DEF WithStatus
    <3>4. orders'[o] \in Order BY <3>2, <3>3 DEF Command, Order, Statuses
    <3> QED BY <2>3, <3>2, <3>3, <3>4
  <2>4. CASE ~(o[2] = time /\ new # {} /\ orders[o].status = "absent")
    BY <2>2, <2>4, TypeFacts
  <2> QED BY <2>3, <2>4
<1>4. orders' = [o \in OrderIds |-> orders'[o]] BY <1>1
<1> QED BY <1>3, <1>4

LEMMA TickKeeps ==
  ASSUME IInv, NEW time \in Bars, Tick(time)
  PROVE  IInv'
<1>0. TypeOK /\ Finite /\ SalesAreFloating /\ TradesAreFills /\ BucketsMatchLots
      /\ LotsMatchTrades /\ OnlySalesCompete
  BY DEF IInv, Ledger
<1>1. /\ lots' \in Seq(Lot) /\ bucket' \in [LotTypes -> Nat] /\ BucketsMatchLots'
      /\ Held(lots') = Held(lots)
      /\ bucket'["FLOATING"] >= bucket["FLOATING"]
  BY <1>0, TickReleases
<1>2. /\ orders' \in [OrderIds -> Order]
      /\ \A o \in OrderIds :
           \/ orders'[o] = orders[o]
           \/ /\ orders[o].status = "absent" /\ orders'[o].status = "pending"
              /\ orders'[o].action = "SELL" =>
                   /\ orders'[o].type = "FLOATING"
                   /\ orders'[o].qty <= bucket'["FLOATING"]
  BY <1>0, TickOrders
<1>3. lastBar' = time /\ UNCHANGED <<synced, trades, reports, audited, current>> BY DEF Tick
<1>4. TypeOK'
  <2>1. lastBar' \in Nat BY <1>3, LedgerAssumption
  <2> QED BY <1>0, <1>1, <1>2, <1>3, <2>1 DEF TypeOK, Lot, Order
<1>5. Finite' BY <1>0, <1>3 DEF Finite
<1>6. SalesAreFloating' BY <1>0, <1>2 DEF SalesAreFloating
<1>7. TradesAreFills'
  <2>1. \A t \in trades : t.order \in OrderIds BY <1>0 DEF TypeOK
  <2> QED BY <1>0, <1>2, <1>3, <2>1 DEF TradesAreFills
<1>8. LotsMatchTrades' BY <1>0, <1>1, <1>3, Balances
<1>9. OnlySalesCompete'
  <2> SUFFICES ASSUME NEW o \in OrderIds, orders'[o].status = "pending",
                      orders'[o].action = "SELL", orders'[o].qty > bucket'["FLOATING"]
               PROVE  \E p \in OrderIds \ {o} : orders'[p].action = "SELL" /\ orders'[p].status = "filled"
    BY DEF OnlySalesCompete, IsPending
  <2>1. bucket["FLOATING"] \in Nat /\ bucket'["FLOATING"] \in Nat /\ orders'[o].qty \in Nat
    BY <1>0, <1>1, <1>2, TypeFacts, ThreeTypes DEF Order
  <2>2. orders'[o] = orders[o] BY <1>2, <2>1
  <2>3. orders[o].qty > bucket["FLOATING"] BY <1>1, <2>1, <2>2
  <2>4. PICK p \in OrderIds \ {o} : orders[p].action = "SELL" /\ orders[p].status = "filled"
    BY <1>0, <2>2, <2>3 DEF OnlySalesCompete, IsPending
  <2>5. orders'[p] = orders[p] BY <1>2, <2>4
  <2> QED BY <2>4, <2>5
<1> QED BY <1>1, <1>4, <1>5, <1>6, <1>7, <1>8, <1>9 DEF IInv, Ledger
-----------------------------------------------------------------------------
(***************************************************************************)
(* Reports.                                                                *)
(***************************************************************************)

LEMMA ReportTypes ==
  ASSUME TypeOK, Finite, NEW o \in OrderIds \cup {NoOrder}, NEW qty \in Nat,
         NEW status \in {"FILLED", "FAILED", "UNREAD", "SNAPSHOT"}
  PROVE  Report(o, status, qty) \in [order : OrderIds \cup {NoOrder}, attempt : Nat,
                                     status : {"FILLED", "FAILED", "UNREAD", "SNAPSHOT"}, qty : Nat]
<1>1. Attempts(o) \in Nat
  <2>1. IsFiniteSet({r \in reports : r.order = o}) BY FS_Subset DEF Finite
  <2> QED BY <2>1, FS_CardinalityType DEF Attempts
<1> QED BY <1>1 DEF Report

\* A report that is sent leaves the ledger as it is.
LEMMA SendingKeeps ==
  ASSUME IInv,
         NEW report \in [order : OrderIds \cup {NoOrder}, attempt : Nat,
                         status : {"FILLED", "FAILED", "UNREAD", "SNAPSHOT"}, qty : Nat],
         reports' = reports \cup {report}, current' \subseteq reports', synced' \in BOOLEAN,
         UNCHANGED <<lots, bucket, lastBar, orders, trades, audited>>
  PROVE  IInv'
<1>1. TypeOK' BY DEF IInv, TypeOK
<1>2. Finite'
  <2>1. IsFiniteSet(reports \cup {report}) BY FS_AddElement DEF IInv, Finite
  <2> QED BY <2>1 DEF IInv, Finite
<1>3. SalesAreFloating' /\ TradesAreFills'
  BY DEF IInv, SalesAreFloating, TradesAreFills
<1>4. BucketsMatchLots' BY DEF IInv, Ledger, BucketsMatchLots
<1>5. LotsMatchTrades' BY Balances DEF IInv, Ledger
<1>6. OnlySalesCompete' BY DEF IInv, OnlySalesCompete, IsPending
<1> QED BY <1>1, <1>2, <1>3, <1>4, <1>5, <1>6 DEF IInv, Ledger

LEMMA AgentKeeps ==
  ASSUME IInv,
         \/ \E o \in OrderIds : Execute(o) \/ Refuse(o)
         \/ SendSnapshot
  PROVE  IInv'
<1>0. TypeOK /\ Finite BY DEF IInv
<1>1. current \subseteq reports /\ synced \in BOOLEAN BY <1>0 DEF TypeOK
<1>2. ASSUME NEW o \in OrderIds, Execute(o) PROVE IInv'
  <2>1. PICK most \in Nat : most = IF orders[o].action = "SELL" THEN orders[o].qty ELSE MaxBuy
    BY <1>0, TypeFacts, LedgerAssumption
  <2>2. PICK status \in {"FILLED", "UNREAD"}, qty \in Nat :
          /\ reports' = reports \cup {Report(o, status, qty)}
          /\ current' \subseteq {Report(o, status, qty)}
    <3>1. CASE \E qty \in 1..most : /\ reports' = reports \cup {Report(o, "FILLED", qty)}
                                    /\ current' = {Report(o, "FILLED", qty)}
      BY <3>1
    <3>2. CASE /\ reports' = reports \cup {Report(o, "UNREAD", 0)}
               /\ current' = {}
      BY <3>2
    <3> QED BY <1>2, <2>1, <3>1, <3>2 DEF Execute
  <2>3. PICK report : report = Report(o, status, qty) OBVIOUS
  <2>4. report \in [order : OrderIds \cup {NoOrder}, attempt : Nat,
                    status : {"FILLED", "FAILED", "UNREAD", "SNAPSHOT"}, qty : Nat]
    BY <1>0, <2>3, ReportTypes
  <2>5. synced' \in BOOLEAN /\ UNCHANGED <<lots, bucket, lastBar, orders, trades, audited>>
    BY <1>2 DEF Execute
  <2>6. reports' = reports \cup {report} /\ current' \subseteq reports' BY <2>2, <2>3
  <2> QED BY <2>4, <2>5, <2>6, SendingKeeps
<1>3. ASSUME NEW o \in OrderIds \cup {NoOrder}, NEW status \in {"FAILED", "UNREAD", "SNAPSHOT"},
             SendReport(Report(o, status, 0))
      PROVE  IInv'
  <2>1. PICK report : report = Report(o, status, 0) OBVIOUS
  <2>2. report \in [order : OrderIds \cup {NoOrder}, attempt : Nat,
                    status : {"FILLED", "FAILED", "UNREAD", "SNAPSHOT"}, qty : Nat]
    BY <1>0, <2>1, ReportTypes
  <2>3. /\ reports' = reports \cup {report} /\ current' \subseteq reports'
        /\ synced' \in BOOLEAN /\ UNCHANGED <<lots, bucket, lastBar, orders, trades, audited>>
    BY <1>1, <1>3, <2>1 DEF SendReport
  <2> QED BY <2>2, <2>3, SendingKeeps
<1>4. ASSUME NEW o \in OrderIds, Refuse(o) PROVE IInv' BY <1>3, <1>4 DEF Refuse
<1>5. ASSUME SendSnapshot PROVE IInv' BY <1>3, <1>5 DEF SendSnapshot
<1> QED BY <1>2, <1>4, <1>5

\* A fill that is booked moves lots, bucket and trades together.
LEMMA FillBalances ==
  ASSUME IInv, NEW o \in OrderIds, IsPending(o), NEW qty \in Nat,
         ~IsShort(orders[o], qty), ApplyFill(orders[o], qty), RecordTrade(o, qty)
  PROVE  /\ lots' \in Seq(Lot) /\ bucket' \in [LotTypes -> Nat] /\ BucketsMatchLots'
         /\ trades' = trades \cup {[order |-> o, action |-> orders[o].action, qty |-> qty]}
         /\ trades' \in SUBSET Trade /\ IsFiniteSet(trades') /\ LotsMatchTrades'
         /\ orders[o].action = "BUY" => bucket'["FLOATING"] >= bucket["FLOATING"]
<1>0. /\ TypeOK /\ IsFiniteSet(trades) /\ TradesAreFills /\ LotsMatchTrades
      /\ \A a \in LotTypes : bucket[a] = Total(lots, a)
  BY DEF IInv, Finite, Ledger, BucketsMatchLots
<1>1. /\ lots \in Seq(Lot) /\ bucket \in [LotTypes -> Nat] /\ trades \in SUBSET Trade
      /\ \A a \in LotTypes : bucket[a] \in Nat /\ Total(lots, a) \in Nat
      /\ orders[o].action \in {"BUY", "SELL"} /\ orders[o].type \in LotTypes
  BY <1>0, TypeFacts
<1>2. PICK cmd : cmd = orders[o] OBVIOUS
<1>3. PICK x : x = [order |-> o, action |-> cmd.action, qty |-> qty] OBVIOUS
<1>4. x \in Trade /\ x.action = cmd.action /\ x.qty = qty /\ x.order = o
  BY <1>1, <1>2, <1>3 DEF Trade
<1>5. \A t \in trades : t.order # o
  BY <1>0 DEF TradesAreFills, IsPending
<1>6. trades' = trades \cup {x} /\ x \notin trades
  BY <1>2, <1>3, <1>4, <1>5 DEF RecordTrade
<1>7. trades' \in SUBSET Trade /\ IsFiniteSet(trades') BY <1>0, <1>1, <1>4, <1>6, FS_AddElement
<1>8. \A a \in {"BUY", "SELL"} :
        /\ TradedIn(trades, a) \in Nat
        /\ TradedIn(trades', a) = TradedIn(trades, a) + (IF cmd.action = a THEN qty ELSE 0)
  <2> TAKE a \in {"BUY", "SELL"}
  <2>1. /\ TradedIn(trades, a) \in Nat
        /\ TradedIn(trades \cup {x}, a) = TradedIn(trades, a) + (IF x.action = a THEN x.qty ELSE 0)
    <3>1. trades \in SUBSET Trade /\ IsFiniteSet(trades) /\ x \in Trade /\ x \notin trades
      BY <1>0, <1>1, <1>4, <1>6
    <3> QED BY <3>1, TradedWithOne
  <2> QED BY <1>4, <1>6, <2>1
<1>9. Held(lots) + TradedIn(trades, "SELL") = AllTypes(Seed) + TradedIn(trades, "BUY")
  BY <1>0, Balances
<1>10. Held(lots) \in Nat /\ AllTypes(Seed) \in Nat
  <2>1. /\ Total(lots, "DEAD_STACK") \in Nat /\ Total(lots, "FLOATING") \in Nat
        /\ Total(lots, "COLD_SEALED") \in Nat
    BY <1>1, ThreeTypes
  <2>2. Seed["DEAD_STACK"] \in Nat /\ Seed["FLOATING"] \in Nat /\ Seed["COLD_SEALED"] \in Nat
    BY LedgerAssumption, ThreeTypes
  <2> QED BY <2>1, <2>2 DEF Held, AllTypes
<1>11. CASE cmd.action = "BUY"
  <2>1. PICK lot : lot = [type |-> cmd.type, amount |-> qty] OBVIOUS
  <2>2. lot \in Lot /\ lot.type = cmd.type /\ lot.amount = qty BY <1>1, <1>2, <2>1 DEF Lot
  <2>3. lots' = lots \o <<lot>>
    <3>1. lots' = Append(lots, lot) BY <1>2, <1>11, <2>1 DEF ApplyFill
    <3>2. Append(lots, lot) = lots \o <<lot>> BY <1>1, <2>2, AppendIsConcat
    <3> QED BY <3>1, <3>2
  <2>4. /\ lots' \in Seq(Lot)
        /\ \A a \in LotTypes : Total(lots', a) = Total(lots, a) + (IF cmd.type = a THEN qty ELSE 0)
    BY <1>1, <2>2, <2>3, TotalWithLot
  <2>5. bucket' = [bucket EXCEPT ![cmd.type] = @ + qty] BY <1>2, <1>11 DEF ApplyFill
  <2>6. /\ \A a \in LotTypes : bucket'[a] = bucket[a] + (IF cmd.type = a THEN qty ELSE 0)
        /\ bucket' \in [LotTypes -> Nat]
    BY <1>1, <1>2, <2>5
  <2>7. BucketsMatchLots' BY <1>0, <2>4, <2>6 DEF BucketsMatchLots
  <2>8. Held(lots') = Held(lots) + qty
    <3>1. cmd.type = "DEAD_STACK" \/ cmd.type = "FLOATING" \/ cmd.type = "COLD_SEALED"
      BY <1>1, <1>2, ThreeTypes
    <3>2. /\ Total(lots, "DEAD_STACK") \in Nat /\ Total(lots, "FLOATING") \in Nat
          /\ Total(lots, "COLD_SEALED") \in Nat
      BY <1>1, ThreeTypes
    <3>3. /\ Total(lots', "DEAD_STACK")
               = Total(lots, "DEAD_STACK") + (IF cmd.type = "DEAD_STACK" THEN qty ELSE 0)
          /\ Total(lots', "FLOATING")
               = Total(lots, "FLOATING") + (IF cmd.type = "FLOATING" THEN qty ELSE 0)
          /\ Total(lots', "COLD_SEALED")
               = Total(lots, "COLD_SEALED") + (IF cmd.type = "COLD_SEALED" THEN qty ELSE 0)
      BY <2>4, ThreeTypes
    <3> QED BY <3>1, <3>2, <3>3 DEF Held
  <2>9. LotsMatchTrades'
    <3>1. /\ TradedIn(trades', "SELL") = TradedIn(trades, "SELL") + 0
          /\ TradedIn(trades', "BUY") = TradedIn(trades, "BUY") + qty
          /\ TradedIn(trades, "SELL") \in Nat /\ TradedIn(trades, "BUY") \in Nat
      BY <1>8, <1>11
    <3>2. Held(lots') + TradedIn(trades', "SELL") = AllTypes(Seed) + TradedIn(trades', "BUY")
      BY <1>9, <1>10, <2>8, <3>1
    <3> QED BY <3>2, Balances, Zenon
  <2>10. bucket'["FLOATING"] >= bucket["FLOATING"]
    <3>1. bucket["FLOATING"] \in Nat BY <1>1, ThreeTypes
    <3>2. bucket'["FLOATING"] = bucket["FLOATING"] + (IF cmd.type = "FLOATING" THEN qty ELSE 0)
      BY <2>6, ThreeTypes
    <3> QED BY <3>1, <3>2
  <2> QED BY <1>2, <1>3, <1>6, <1>7, <2>4, <2>6, <2>7, <2>9, <2>10
<1>12. CASE cmd.action = "SELL"
  <2>1. qty <= Total(lots, cmd.type) BY <1>1, <1>2, <1>12 DEF IsShort
  <2>2. lots' = ReducedLots(lots, cmd.type, qty) BY <1>2, <1>12 DEF ApplyFill
  <2>3. /\ lots' \in Seq(Lot)
        /\ Total(lots', cmd.type) = Total(lots, cmd.type) - qty
        /\ \A a \in LotTypes \ {cmd.type} : Total(lots', a) = Total(lots, a)
    BY <1>1, <1>2, <2>1, <2>2, ReducedTotals
  <2>4. bucket' = [bucket EXCEPT ![cmd.type] = Minus(@, qty)] BY <1>2, <1>12 DEF ApplyFill
  <2>5. bucket[cmd.type] - qty \in Nat /\ Minus(bucket[cmd.type], qty) = bucket[cmd.type] - qty
    BY <1>0, <1>1, <1>2, <2>1 DEF Minus
  <2>6. /\ bucket'[cmd.type] = bucket[cmd.type] - qty
        /\ \A a \in LotTypes \ {cmd.type} : bucket'[a] = bucket[a]
        /\ bucket' \in [LotTypes -> Nat]
    BY <1>1, <1>2, <2>4, <2>5
  <2>7. BucketsMatchLots' BY <1>0, <1>1, <1>2, <2>3, <2>6 DEF BucketsMatchLots
  <2>8. Held(lots) = Held(lots') + qty /\ Held(lots') \in Nat
    <3>1. cmd.type = "DEAD_STACK" \/ cmd.type = "FLOATING" \/ cmd.type = "COLD_SEALED"
      BY <1>1, <1>2, ThreeTypes
    <3>2. ASSUME NEW a \in LotTypes
          PROVE  /\ Total(lots', a) \in Nat
                 /\ Total(lots, a) = Total(lots', a) + (IF cmd.type = a THEN qty ELSE 0)
      <4>1. Total(lots', a) \in Nat BY <2>3, AmountsAre
      <4>2. Total(lots, a) \in Nat BY <1>1
      <4>3. CASE cmd.type = a BY <2>3, <4>1, <4>2, <4>3
      <4>4. CASE cmd.type # a BY <2>3, <4>1, <4>2, <4>4
      <4> QED BY <4>1, <4>3, <4>4
    <3>3. /\ Total(lots', "DEAD_STACK") \in Nat /\ Total(lots', "FLOATING") \in Nat
          /\ Total(lots', "COLD_SEALED") \in Nat
          /\ Total(lots, "DEAD_STACK")
               = Total(lots', "DEAD_STACK") + (IF cmd.type = "DEAD_STACK" THEN qty ELSE 0)
          /\ Total(lots, "FLOATING")
               = Total(lots', "FLOATING") + (IF cmd.type = "FLOATING" THEN qty ELSE 0)
          /\ Total(lots, "COLD_SEALED")
               = Total(lots', "COLD_SEALED") + (IF cmd.type = "COLD_SEALED" THEN qty ELSE 0)
      BY <3>2, ThreeTypes
    <3> QED BY <3>1, <3>3 DEF Held
  <2>9. LotsMatchTrades'
    <3>1. /\ TradedIn(trades', "SELL") = TradedIn(trades, "SELL") + qty
          /\ TradedIn(trades', "BUY") = TradedIn(trades, "BUY") + 0
          /\ TradedIn(trades, "SELL") \in Nat /\ TradedIn(trades, "BUY") \in Nat
      BY <1>8, <1>12
    <3>2. Held(lots') + TradedIn(trades', "SELL") = AllTypes(Seed) + TradedIn(trades', "BUY")
      BY <1>9, <1>10, <2>8, <3>1
    <3> QED BY <3>2, Balances, Zenon
  <2> QED BY <1>2, <1>3, <1>6, <1>7, <1>12, <2>3, <2>6, <2>7, <2>9
<1> QED BY <1>1, <1>2, <1>11, <1>12
LEMMA ReportKeeps ==
  ASSUME IInv, NEW r \in reports, ProcessReport(r)
  PROVE  IInv'
<1>0. /\ TypeOK /\ Finite /\ SalesAreFloating /\ TradesAreFills /\ BucketsMatchLots
      /\ LotsMatchTrades /\ OnlySalesCompete
  BY DEF IInv, Ledger
<1>1. /\ r.order \in OrderIds \cup {NoOrder} /\ r.qty \in Nat
      /\ audited' \subseteq reports' /\ synced' \in BOOLEAN
      /\ UNCHANGED <<lastBar, reports, current>>
  <2>1. UNCHANGED <<lastBar, reports, current>> /\ audited' = audited \cup {r}
    BY Zenon DEF ProcessReport
  <2>2. r \in [order : OrderIds \cup {NoOrder}, attempt : Nat,
               status : {"FILLED", "FAILED", "UNREAD", "SNAPSHOT"}, qty : Nat]
    BY <1>0 DEF TypeOK
  <2>3. audited \subseteq reports /\ synced \in BOOLEAN BY <1>0 DEF TypeOK
  <2>5. synced' \in BOOLEAN
    <3>1. IF r.status = "UNREAD" THEN UNCHANGED synced ELSE synced' = (r \in current)
      BY ZenonT(30) DEF ProcessReport
    <3>2. CASE r.status = "UNREAD" BY <2>3, <3>1, <3>2
    <3>3. CASE r.status # "UNREAD"
      <4>1. synced' = (r \in current) BY <3>1, <3>3, Zenon
      <4> QED BY <4>1
    <3> QED BY <3>2, <3>3
  <2>6. r.order \in OrderIds \cup {NoOrder} /\ r.qty \in Nat BY <2>2
  <2> QED BY <2>1, <2>3, <2>5, <2>6
<1>2. Finite => IsFiniteSet(reports') BY <1>1 DEF Finite
<1>3. ASSUME NEW o \in OrderIds, o = r.order, SettleOrder(r) PROVE IInv'
  <2>1. PICK status \in {"filled", "failed"} :
          /\ status = IF r.status = "FILLED" THEN "filled" ELSE "failed"
          /\ orders' = [orders EXCEPT ![o].status = status]
    BY <1>3 DEF SettleOrder
  <2>2. IsPending(o) BY <1>3 DEF SettleOrder
  <2>3. /\ orders \in [OrderIds -> Order]
        /\ \A p \in OrderIds : orders[p] \in Order
    BY <1>0, TypeFacts
  <2>4. \A p \in OrderIds :
          /\ orders'[p].action = orders[p].action /\ orders'[p].type = orders[p].type
          /\ orders'[p].qty = orders[p].qty
          /\ orders'[p].status = IF p = o THEN status ELSE orders[p].status
    BY <2>1, <2>3 DEF Order
  <2>5. orders' \in [OrderIds -> Order]
    <3>1. [orders[o] EXCEPT !.status = status] \in Order BY <2>3 DEF Order, Statuses
    <3>2. orders' = [orders EXCEPT ![o] = [orders[o] EXCEPT !.status = status]] BY <2>1, <2>3
    <3> QED BY <2>3, <3>1, <3>2
  <2>6. SalesAreFloating' BY <1>0, <2>4 DEF SalesAreFloating
  <2>7. \A t \in trades : t.order # o /\ t.order \in OrderIds
    BY <1>0, <2>2 DEF TradesAreFills, IsPending, TypeOK
  <2>8. CASE r.status = "FILLED"
    <3>1. ~IsShort(orders[o], r.qty) /\ ApplyFill(orders[o], r.qty) /\ RecordTrade(o, r.qty)
      BY <1>3, <2>8 DEF SettleOrder
    <3>2. /\ lots' \in Seq(Lot) /\ bucket' \in [LotTypes -> Nat] /\ BucketsMatchLots'
          /\ trades' = trades \cup {[order |-> o, action |-> orders[o].action, qty |-> r.qty]}
          /\ trades' \in SUBSET Trade /\ IsFiniteSet(trades') /\ LotsMatchTrades'
          /\ orders[o].action = "BUY" => bucket'["FLOATING"] >= bucket["FLOATING"]
      BY <1>1, <2>2, <3>1, FillBalances
    <3>3. TypeOK' BY <1>0, <1>1, <2>5, <3>2 DEF TypeOK, Lot, Order, Trade
    <3>4. Finite' BY <1>0, <1>2, <3>2 DEF Finite
    <3>5. TradesAreFills'
      <4>1. orders'[o].status = "filled" BY <2>1, <2>4, <2>8
      <4>2. \A t \in trades : orders'[t.order].status = "filled"
        BY <1>0, <2>4, <2>7 DEF TradesAreFills
      <4> QED BY <3>2, <4>1, <4>2 DEF TradesAreFills
    <3>6. OnlySalesCompete'
      <4> SUFFICES ASSUME NEW p \in OrderIds, orders'[p].status = "pending",
                          orders'[p].action = "SELL", orders'[p].qty > bucket'["FLOATING"]
                   PROVE  \E q \in OrderIds \ {p} :
                            orders'[q].action = "SELL" /\ orders'[q].status = "filled"
        BY DEF OnlySalesCompete, IsPending
      <4>1. p # o /\ orders[p].status = "pending" /\ orders[p].action = "SELL"
            /\ orders[p].qty = orders'[p].qty
        BY <2>1, <2>4
      <4>2. CASE orders[o].action = "SELL" BY <2>1, <2>4, <2>8, <4>1, <4>2
      <4>3. CASE orders[o].action # "SELL"
        <5>1. orders[o].action = "BUY" BY <2>3, <4>3 DEF Order
        <5>2. bucket["FLOATING"] \in Nat /\ bucket'["FLOATING"] \in Nat /\ orders[p].qty \in Nat
          BY <1>0, <3>2, TypeFacts, ThreeTypes
        <5>3. orders[p].qty > bucket["FLOATING"] BY <3>2, <4>1, <5>1, <5>2
        <5>4. PICK q \in OrderIds \ {p} : orders[q].action = "SELL" /\ orders[q].status = "filled"
          BY <1>0, <4>1, <5>3 DEF OnlySalesCompete, IsPending
        <5>5. orders'[q].action = "SELL" /\ orders'[q].status = "filled"
          BY <2>1, <2>4, <2>8, <5>4
        <5> QED BY <5>4, <5>5
      <4> QED BY <4>2, <4>3
    <3> QED BY <2>6, <3>2, <3>3, <3>4, <3>5, <3>6 DEF IInv, Ledger
  <2>9. CASE r.status # "FILLED"
    <3>1. UNCHANGED <<lots, bucket, trades>> BY <1>3, <2>9 DEF SettleOrder
    <3>2. TypeOK' BY <1>0, <1>1, <2>5, <3>1 DEF TypeOK, Order
    <3>3. Finite' BY <1>0, <1>2, <3>1 DEF Finite
    <3>4. TradesAreFills' BY <1>0, <2>4, <2>7, <3>1 DEF TradesAreFills
    <3>5. BucketsMatchLots' BY <1>0, <3>1 DEF BucketsMatchLots
    <3>6. LotsMatchTrades' BY <1>0, <3>1, Balances
    <3>7. OnlySalesCompete'
      <4> SUFFICES ASSUME NEW p \in OrderIds, orders'[p].status = "pending",
                          orders'[p].action = "SELL", orders'[p].qty > bucket'["FLOATING"]
                   PROVE  \E q \in OrderIds \ {p} :
                            orders'[q].action = "SELL" /\ orders'[q].status = "filled"
        BY DEF OnlySalesCompete, IsPending
      <4>1. /\ orders[p].status = "pending" /\ orders[p].action = "SELL"
            /\ orders[p].qty > bucket["FLOATING"]
        BY <2>1, <2>4, <3>1
      <4>2. PICK q \in OrderIds \ {p} : orders[q].action = "SELL" /\ orders[q].status = "filled"
        BY <1>0, <4>1 DEF OnlySalesCompete, IsPending
      <4>3. q # o BY <2>2, <4>2 DEF IsPending
      <4> QED BY <2>4, <4>2, <4>3
    <3> QED BY <2>6, <3>2, <3>3, <3>4, <3>5, <3>6, <3>7 DEF IInv, Ledger
  <2> QED BY <2>8, <2>9
<1>4. ASSUME OnlyBalance(r) PROVE IInv'
  <2>1. UNCHANGED <<orders, lots, bucket, trades>> BY <1>4 DEF OnlyBalance
  <2>2. TypeOK' BY <1>0, <1>1, <2>1 DEF TypeOK
  <2>3. Finite' BY <1>0, <1>2, <2>1 DEF Finite
  <2>4. SalesAreFloating' /\ TradesAreFills' BY <1>0, <2>1 DEF SalesAreFloating, TradesAreFills
  <2>5. BucketsMatchLots' BY <1>0, <2>1 DEF BucketsMatchLots
  <2>6. LotsMatchTrades' BY <1>0, <2>1, Balances
  <2>7. OnlySalesCompete' BY <1>0, <2>1 DEF OnlySalesCompete, IsPending
  <2> QED BY <2>2, <2>3, <2>4, <2>5, <2>6, <2>7 DEF IInv, Ledger
<1>5. SettleOrder(r) => r.order \in OrderIds BY <1>1 DEF SettleOrder
<1> QED BY <1>3, <1>4, <1>5 DEF ProcessReport

LEMMA StepKeeps == IInv /\ [Next]_vars => IInv'
<1> SUFFICES ASSUME IInv, [Next]_vars PROVE IInv' OBVIOUS
<1>1. CASE UNCHANGED vars
  <2>1. UNCHANGED <<lots, bucket, synced, lastBar, orders, trades, reports, audited, current>>
    BY <1>1 DEF vars
  <2>2. TypeOK' BY <2>1 DEF IInv, TypeOK
  <2>3. Finite' /\ SalesAreFloating' /\ TradesAreFills'
    BY <2>1 DEF IInv, Finite, SalesAreFloating, TradesAreFills
  <2>4. BucketsMatchLots' BY <2>1 DEF IInv, Ledger, BucketsMatchLots
  <2>5. LotsMatchTrades' BY <2>1, Balances DEF IInv, Ledger
  <2>6. OnlySalesCompete' BY <2>1 DEF IInv, OnlySalesCompete, IsPending
  <2> QED BY <2>2, <2>3, <2>4, <2>5, <2>6 DEF IInv, Ledger
<1>2. ASSUME NEW time \in Bars, Tick(time) PROVE IInv' BY <1>2, TickKeeps
<1>3. ASSUME NEW o \in OrderIds, Execute(o) \/ Refuse(o) PROVE IInv' BY <1>3, AgentKeeps
<1>4. CASE SendSnapshot BY <1>4, AgentKeeps
<1>5. ASSUME NEW r \in reports, ProcessReport(r) PROVE IInv' BY <1>5, ReportKeeps
<1> QED BY <1>1, <1>2, <1>3, <1>4, <1>5 DEF Next

LEMMA Inductive == Spec => []IInv
BY InitHolds, StepKeeps, PTL DEF Spec

-----------------------------------------------------------------------------
(***************************************************************************)
(* The properties, for any bars, engines, seed and quantities.             *)
(***************************************************************************)

\* Lots, buckets, orders, trades and reports keep their types: in particular
\* no lot and no bucket is ever negative (reduceSpotLots, applyLedgerConversion).
THEOREM TypeCorrect == Spec => []TypeOK
<1>1. IInv => TypeOK BY DEF IInv
<1> QED BY <1>1, Inductive, PTL

\* The buckets of portfolio_states are the sums of spot_lots after any sequence
\* of ticks, fills, failures and repeated reports.
THEOREM BucketsAreLots == Spec => []BucketsMatchLots
<1>1. IInv => BucketsMatchLots BY DEF IInv, Ledger
<1> QED BY <1>1, Inductive, PTL

\* The lots are the seed plus what trade_records bought less what they sold,
\* however often an order is executed or reported (processDeltaReport).
THEOREM NothingIsLost == Spec => []LotsMatchTrades
<1>1. IInv => LotsMatchTrades BY DEF IInv, Ledger
<1> QED BY <1>1, Inductive, PTL

\* A pending sale can be short of floating stack only if another sale was
\* booked after Step() counted on it.
THEOREM ShortBySales == Spec => []OnlySalesCompete
<1>1. IInv => OnlySalesCompete BY DEF IInv
<1> QED BY <1>1, Inductive, PTL

-----------------------------------------------------------------------------
(***************************************************************************)
(* Folds over a sequence.  FoldLeft is a recursion over the sets of the    *)
(* sequence's indices; over the first k of them it has taken k steps.      *)
(***************************************************************************)

\* The greatest of some indices.
LEMMA LastIndex ==
  ASSUME NEW n \in Nat, NEW s \in SUBSET (1..n), s # {}
  PROVE  Max(s) \in s /\ \A i \in s : i <= Max(s)
<1> DEFINE T == {n - i : i \in s}
<1>1. T \in SUBSET Nat /\ T # {}
  <2>1. \A i \in s : n - i \in Nat OBVIOUS
  <2> QED BY <2>1
<1>2. PICK t \in T : \A u \in T : t <= u
  <2> HIDE DEF T
  <2> QED BY <1>1, NatMin
<1>3. PICK top \in s : t = n - top OBVIOUS
<1>4. \A i \in s : top >= i
  <2> TAKE i \in s
  <2>1. t <= n - i BY <1>2
  <2>2. i \in 1..n /\ top \in 1..n OBVIOUS
  <2> QED BY <1>3, <2>1, <2>2
<1>5. Max(s) \in s /\ \A i \in s : Max(s) >= i BY <1>4 DEF Max
<1>6. \A i \in s : i \in 1..n OBVIOUS
<1>7. ASSUME NEW i \in s PROVE i <= Max(s)
  <2>1. i \in 1..n /\ Max(s) \in 1..n /\ Max(s) >= i BY <1>5, <1>6
  <2> QED BY <2>1
<1> QED BY <1>5, <1>7

\* g is the recursion of a fold by F from base.
Steps(g, F, base, n) ==
  \A s \in SUBSET (1..n) : g[s] = IF s = {} THEN base ELSE F[<<Max(s), g[s \ {Max(s)}]>>]

LEMMA FoldExists ==
  ASSUME NEW n \in Nat, NEW A, NEW base \in A, NEW F \in [(1..n) \X A -> A]
  PROVE  \E g \in [SUBSET (1..n) -> A] : Steps(g, F, base, n)
<1> DEFINE T == {k \in 0..n : \E g \in [SUBSET (1..k) -> A] : Steps(g, F, base, k)}
<1>1. 0 \in T
  <2> DEFINE g == [s \in SUBSET (1..0) |-> base]
  <2>1. \A s \in SUBSET (1..0) : s = {} OBVIOUS
  <2>2. Steps(g, F, base, 0) BY <2>1 DEF Steps
  <2>3. g \in [SUBSET (1..0) -> A] OBVIOUS
  <2> QED BY <2>2, <2>3
<1>2. ASSUME NEW k \in 1..n, k - 1 \in T PROVE k \in T
  <2>0. k \in Nat /\ k - 1 \in Nat OBVIOUS
  <2>1. PICK g \in [SUBSET (1..(k - 1)) -> A] : Steps(g, F, base, k - 1) BY <1>2
  <2> DEFINE h == [s \in SUBSET (1..k) |-> IF k \in s THEN F[<<k, g[s \ {k}]>>] ELSE g[s]]
  <2>2. ASSUME NEW s \in SUBSET (1..k), k \notin s PROVE s \in SUBSET (1..(k - 1))
    BY <2>2
  <2>3. ASSUME NEW s \in SUBSET (1..k) PROVE s \ {k} \in SUBSET (1..(k - 1))
    BY <2>2
  <2>4. h \in [SUBSET (1..k) -> A]
    <3>1. ASSUME NEW s \in SUBSET (1..k)
          PROVE (IF k \in s THEN F[<<k, g[s \ {k}]>>] ELSE g[s]) \in A
      <4>1. CASE k \in s
        <5>1. g[s \ {k}] \in A BY <2>1, <2>3
        <5> QED BY <4>1, <5>1
      <4>2. CASE k \notin s BY <2>1, <2>2, <4>2
      <4> QED BY <4>1, <4>2
    <3> QED BY <3>1
  <2>5. ASSUME NEW s \in SUBSET (1..k)
        PROVE  h[s] = IF s = {} THEN base ELSE F[<<Max(s), h[s \ {Max(s)}]>>]
    <3>1. CASE k \in s
      <4>1. Max(s) = k
        <5>1. Max(s) \in s /\ k <= Max(s) BY <2>0, <3>1, LastIndex
        <5>2. Max(s) \in 1..k BY <5>1
        <5> QED BY <2>0, <5>1, <5>2
      <4>2. h[s] = F[<<k, g[s \ {k}]>>] BY <3>1
      <4>3. h[s \ {k}] = g[s \ {k}] BY <2>3
      <4> QED BY <3>1, <4>1, <4>2, <4>3
    <3>2. CASE k \notin s /\ s # {}
      <4>1. Max(s) \in s BY <2>0, <3>2, LastIndex
      <4>2. s \in SUBSET (1..(k - 1)) /\ s \ {Max(s)} \in SUBSET (1..k) /\ k \notin s \ {Max(s)}
        BY <2>2, <3>2
      <4>3. h[s] = g[s] /\ h[s \ {Max(s)}] = g[s \ {Max(s)}] BY <3>2, <4>2
      <4>4. g[s] = F[<<Max(s), g[s \ {Max(s)}]>>] BY <2>1, <3>2, <4>2 DEF Steps
      <4> QED BY <3>2, <4>3, <4>4
    <3>3. CASE s = {}
      <4>1. h[s] = g[s] BY <3>3
      <4>2. s \in SUBSET (1..(k - 1)) BY <3>3
      <4> QED BY <2>1, <3>3, <4>1, <4>2 DEF Steps
    <3> QED BY <3>1, <3>2, <3>3
  <2>6. Steps(h, F, base, k)
    <3> HIDE DEF h
    <3> QED BY <2>5 DEF Steps
  <2> HIDE DEF h
  <2> QED BY <2>4, <2>6
<1>3. n \in T
  <2> HIDE DEF T
  <2> QED BY <1>1, <1>2, UpTo
<1> QED BY <1>3

\* The values of a recursion over the first k indices, for growing k.
LEMMA FirstIndices ==
  ASSUME NEW n \in Nat, NEW k \in 1..n
  PROVE  /\ 1..k \in SUBSET (1..n) /\ 1..k # {}
         /\ Max(1..k) = k /\ (1..k) \ {k} = 1..(k - 1)
<1>1. 1..k \in SUBSET (1..n) /\ 1..k # {} /\ k \in 1..k OBVIOUS
<1>2. Max(1..k) \in 1..k /\ k <= Max(1..k) BY <1>1, LastIndex
<1>3. Max(1..k) = k BY <1>2
<1> QED BY <1>1, <1>3

-----------------------------------------------------------------------------
(***************************************************************************)
(* consumeLots.                                                            *)
(***************************************************************************)

Consuming == [left : Nat, out : Seq(OpenLot)]

\* One lot of it.
Consumed(acc, lot, type) ==
  LET used == IF lot.type = type THEN Min({lot.amount, acc.left}) ELSE 0 IN
  [left |-> acc.left - used,
   out |-> IF used = lot.amount THEN acc.out
           ELSE Append(acc.out, [lot EXCEPT !.amount = @ - used])]

Unused(amount) == [left |-> amount, out |-> <<>>]

ConsumeSteps(g, ls, type, amount) ==
  g = [s \in SUBSET (DOMAIN ls) |->
         IF s = {} THEN Unused(amount) ELSE Consumed(g[s \ {Max(s)}], ls[Max(s)], type)]

LEMMA ConsumeUnfolds ==
  ASSUME NEW ls, NEW type, NEW amount
  PROVE  ConsumeLots(ls, type, amount)
           = (CHOOSE g : ConsumeSteps(g, ls, type, amount))[DOMAIN ls].out
BY DEF ConsumeLots, FoldLeft, MapThenFoldSet, ConsumeSteps, Consumed, Unused

LEMMA MinOfTwo ==
  ASSUME NEW a \in Int, NEW b \in Int
  PROVE  /\ Min({a, b}) \in Int /\ Min({a, b}) <= a /\ Min({a, b}) <= b
         /\ Min({a, b}) = IF a <= b THEN a ELSE b
<1>1. \E x \in {a, b} : \A y \in {a, b} : x <= y OBVIOUS
<1>2. Min({a, b}) \in {a, b} /\ \A y \in {a, b} : Min({a, b}) <= y BY <1>1 DEF Min
<1> QED BY <1>2

LEMMA OpenLots == \A ls \in Seq(OpenLot) : ls \in Seq(Lot)
<1> TAKE ls \in Seq(OpenLot)
<1>0. \A i \in 1..Len(ls) : ls[i] \in OpenLot OBVIOUS
<1>1. \A i \in 1..Len(ls) : ls[i] \in Lot BY <1>0 DEF OpenLot, Lot
<1>2. Len(ls) \in Nat /\ ls = [i \in 1..Len(ls) |-> ls[i]] OBVIOUS
<1> QED BY <1>1, <1>2

\* A lot gives what is asked for, and goes if that is all of it.
LEMMA ConsumedOne ==
  ASSUME NEW acc \in Consuming, NEW lot \in OpenLot, NEW type \in LotTypes
  PROVE  \E used \in Nat :
           /\ used = IF lot.type = type
                     THEN IF lot.amount <= acc.left THEN lot.amount ELSE acc.left ELSE 0
           /\ Consumed(acc, lot, type) \in Consuming
           /\ Consumed(acc, lot, type).left = acc.left - used
           /\ \A a \in LotTypes :
                Total(Consumed(acc, lot, type).out, a)
                  = Total(acc.out, a) + (IF lot.type = a THEN lot.amount - used ELSE 0)
<1>1. /\ acc.left \in Nat /\ acc.out \in Seq(OpenLot)
      /\ lot.type \in LotTypes /\ lot.amount \in Nat /\ lot.amount # 0
  BY DEF Consuming, OpenLot
<1>2. Min({lot.amount, acc.left}) = IF lot.amount <= acc.left THEN lot.amount ELSE acc.left
  <2>1. lot.amount \in Int /\ acc.left \in Int BY <1>1
  <2>2. \A x, y \in Int : Min({x, y}) = IF x <= y THEN x ELSE y BY MinOfTwo
  <2> QED BY <2>1, <2>2
<1>3. PICK used : used = IF lot.type = type THEN Min({lot.amount, acc.left}) ELSE 0 OBVIOUS
<1>4. used \in Nat /\ used <= lot.amount /\ used <= acc.left BY <1>1, <1>2, <1>3
<1>5. acc.out \in Seq(Lot) BY <1>1, OpenLots
<1>6. PICK rest : rest = [lot EXCEPT !.amount = @ - used] OBVIOUS
<1>7. Consumed(acc, lot, type)
        = [left |-> acc.left - used,
           out |-> IF used = lot.amount THEN acc.out ELSE Append(acc.out, rest)]
  BY <1>3, <1>6 DEF Consumed
<1>8. /\ Consumed(acc, lot, type).left = acc.left - used
      /\ Consumed(acc, lot, type).out = IF used = lot.amount THEN acc.out ELSE Append(acc.out, rest)
  BY <1>7
<1>9. acc.left - used \in Nat BY <1>1, <1>4
<1>10. CASE used = lot.amount
  <2>1. Consumed(acc, lot, type) \in Consuming BY <1>1, <1>7, <1>9, <1>10 DEF Consuming
  <2>2. \A a \in LotTypes :
          Total(acc.out, a) = Total(acc.out, a) + (IF lot.type = a THEN lot.amount - used ELSE 0)
    <3> TAKE a \in LotTypes
    <3>1. Total(acc.out, a) \in Nat BY <1>5, AmountsAre
    <3> QED BY <1>1, <1>10, <3>1
  <2> QED BY <1>2, <1>3, <1>4, <1>8, <1>10, <2>1, <2>2
<1>11. CASE used # lot.amount
  <2>1. rest \in OpenLot /\ rest \in Lot /\ rest.type = lot.type /\ rest.amount = lot.amount - used
    BY <1>1, <1>4, <1>6, <1>11 DEF OpenLot, Lot
  <2>2. Append(acc.out, rest) \in Seq(OpenLot) BY <1>1, <2>1
  <2>3. Append(acc.out, rest) = acc.out \o <<rest>> BY <1>5, <2>1, AppendIsConcat
  <2>4. \A a \in LotTypes :
          Total(acc.out \o <<rest>>, a)
            = Total(acc.out, a) + (IF rest.type = a THEN rest.amount ELSE 0)
    BY <1>5, <2>1, TotalWithLot
  <2>5. Consumed(acc, lot, type) \in Consuming BY <1>7, <1>9, <1>11, <2>2 DEF Consuming
  <2> QED BY <1>2, <1>3, <1>4, <1>8, <1>11, <2>1, <2>3, <2>4, <2>5
<1> QED BY <1>10, <1>11

\* The lots one after the other.
LEMMA ConsumeRuns ==
  ASSUME NEW ls \in Seq(OpenLot), NEW type \in LotTypes, NEW amount \in Nat
  PROVE  \E run \in [0..Len(ls) -> Consuming] :
           /\ run[0] = Unused(amount)
           /\ \A k \in 1..Len(ls) : run[k] = Consumed(run[k - 1], ls[k], type)
           /\ ConsumeLots(ls, type, amount) = run[Len(ls)].out
<1>1. PICK n \in Nat : n = Len(ls) /\ DOMAIN ls = 1..n OBVIOUS
<1>2. \A i \in 1..n : ls[i] \in OpenLot BY <1>1
<1>3. PICK base : base = Unused(amount) OBVIOUS
<1>4. base \in Consuming BY <1>3 DEF Consuming, Unused
<1>5. PICK F : F = [p \in (1..n) \X Consuming |-> Consumed(p[2], ls[p[1]], type)] OBVIOUS
<1>6. \A i \in 1..n, acc \in Consuming :
        F[<<i, acc>>] = Consumed(acc, ls[i], type) /\ Consumed(acc, ls[i], type) \in Consuming
  BY <1>2, <1>5, ConsumedOne
<1>7. F \in [(1..n) \X Consuming -> Consuming]
  <2>1. \A p \in (1..n) \X Consuming : Consumed(p[2], ls[p[1]], type) \in Consuming BY <1>6
  <2> QED BY <1>5, <2>1
<1>8. PICK g \in [SUBSET (1..n) -> Consuming] : Steps(g, F, base, n)
  BY <1>4, <1>7, FoldExists
<1>9. ConsumeSteps(g, ls, type, amount)
  <2>1. ASSUME NEW s \in SUBSET (1..n)
        PROVE  g[s] = IF s = {} THEN Unused(amount)
                      ELSE Consumed(g[s \ {Max(s)}], ls[Max(s)], type)
    <3>1. g[s] = IF s = {} THEN base ELSE F[<<Max(s), g[s \ {Max(s)}]>>] BY <1>8 DEF Steps
    <3>2. CASE s # {}
      <4>1. Max(s) \in 1..n /\ g[s \ {Max(s)}] \in Consuming BY <1>8, <3>2, LastIndex
      <4> QED BY <1>6, <3>1, <3>2, <4>1
    <3> QED BY <1>3, <3>1, <3>2
  <2> QED BY <1>1, <1>8, <2>1 DEF ConsumeSteps
<1>10. PICK iter : iter = CHOOSE h : ConsumeSteps(h, ls, type, amount) OBVIOUS
<1>11. ConsumeSteps(iter, ls, type, amount) BY <1>9, <1>10
<1>12. \A s \in SUBSET (1..n) :
         iter[s] = IF s = {} THEN base ELSE Consumed(iter[s \ {Max(s)}], ls[Max(s)], type)
  BY <1>1, <1>3, <1>11 DEF ConsumeSteps
<1>13. PICK run : run = [k \in 0..n |-> iter[1..k]] OBVIOUS
<1>14. run[0] = base
  <2>1. 1..0 = {} /\ {} \in SUBSET (1..n) OBVIOUS
  <2>2. run[0] = iter[1..0] BY <1>13
  <2> QED BY <1>12, <2>1, <2>2
<1>15. ASSUME NEW k \in 1..n PROVE run[k] = Consumed(run[k - 1], ls[k], type)
  <2>1. iter[1..k] = Consumed(iter[1..(k - 1)], ls[k], type) BY <1>12, FirstIndices
  <2> QED BY <1>13, <2>1
<1>16. \A k \in 0..n : run[k] \in Consuming
  <2> DEFINE S == {k \in 0..n : run[k] \in Consuming}
  <2>1. 0 \in S BY <1>4, <1>14
  <2>2. ASSUME NEW k \in 1..n, k - 1 \in S PROVE k \in S
    <3>1. run[k - 1] \in Consuming BY <2>2
    <3>2. run[k] \in Consuming BY <1>6, <1>15, <3>1
    <3> QED BY <3>2
  <2> HIDE DEF S
  <2>3. \A k \in 0..n : k \in S BY <2>1, <2>2, UpTo
  <2> QED BY <2>3 DEF S
<1>17. ConsumeLots(ls, type, amount) = run[n].out 
  <2>1. ConsumeLots(ls, type, amount) = iter[1..n].out BY <1>1, <1>10, ConsumeUnfolds
  <2>2. run[n] = iter[1..n] BY <1>13
  <2> QED BY <2>1, <2>2
<1>18. run \in [0..n -> Consuming] BY <1>13, <1>16
<1> QED BY <1>1, <1>3, <1>14, <1>15, <1>17, <1>18

LEMMA PrefixShifts ==
  ASSUME NEW before, NEW after, NEW left, NEW lot \in Nat, NEW used \in Nat,
         NEW out \in Nat, NEW amount \in Nat, NEW rest \in Nat,
         after = before + lot, before = out + (amount - rest), left = rest - used
  PROVE  after = (out + (lot - used)) + (amount - left)
OBVIOUS

\* What is taken is gone from the type, and no other type loses anything: the
\* prefix of the lots that was looked at is what is left of it and what was taken,
\* and while there is more to take, it has nothing of the type left.
LEMMA ConsumedTotals ==
  ASSUME NEW ls \in Seq(OpenLot), NEW type \in LotTypes, NEW amount \in Nat,
         amount <= Total(ls, type)
  PROVE  /\ ConsumeLots(ls, type, amount) \in Seq(OpenLot)
         /\ \A a \in LotTypes : Total(ConsumeLots(ls, type, amount), a)
                                  = Total(ls, a) - (IF a = type THEN amount ELSE 0)
<1>1. PICK n \in Nat : n = Len(ls) /\ DOMAIN ls = 1..n OBVIOUS
<1>2. PICK run \in [0..n -> Consuming] :
        /\ run[0] = Unused(amount)
        /\ \A k \in 1..n : run[k] = Consumed(run[k - 1], ls[k], type)
        /\ ConsumeLots(ls, type, amount) = run[n].out
  BY <1>1, ConsumeRuns
<1>3. \A k \in 0..n :
        /\ run[k] \in Consuming /\ run[k].left \in Nat /\ run[k].out \in Seq(OpenLot)
        /\ run[k].out \in Seq(Lot) /\ \A a \in LotTypes : Total(run[k].out, a) \in Nat
  <2> TAKE k \in 0..n
  <2>1. run[k] \in Consuming BY <1>2
  <2>2. run[k].left \in Nat /\ run[k].out \in Seq(OpenLot) BY <2>1 DEF Consuming
  <2>3. run[k].out \in Seq(Lot) BY <2>2, OpenLots
  <2> QED BY <2>1, <2>2, <2>3, AmountsAre
<1>4. ls \in Seq(Lot) /\ \A i \in 1..n : ls[i] \in OpenLot BY <1>1, OpenLots
<1>5. ASSUME NEW a \in LotTypes
      PROVE  /\ Amounts(ls, a) \in [1..n -> Nat]
             /\ Prefix(Amounts(ls, a), 0) = 0
             /\ Prefix(Amounts(ls, a), n) = Total(ls, a) /\ Total(ls, a) \in Nat
             /\ \A k \in 1..n : Prefix(Amounts(ls, a), k)
                  = Prefix(Amounts(ls, a), k - 1) + (IF ls[k].type = a THEN ls[k].amount ELSE 0)
  <2>1. /\ Amounts(ls, a) \in [1..n -> Nat]
        /\ \A i \in 1..n : Amounts(ls, a)[i] = IF ls[i].type = a THEN ls[i].amount ELSE 0
        /\ Total(ls, a) = Prefix(Amounts(ls, a), n) /\ Total(ls, a) \in Nat
    BY <1>1, <1>4, AmountsAre
  <2>2. /\ Prefix(Amounts(ls, a), 0) = 0
        /\ \A k \in 1..n : Prefix(Amounts(ls, a), k) = Prefix(Amounts(ls, a), k - 1) + Amounts(ls, a)[k]
    BY <2>1, PrefixSteps
  <2> QED BY <2>1, <2>2
<1> DEFINE Gone(k) ==
      /\ \A a \in LotTypes : Prefix(Amounts(ls, a), k)
                               = Total(run[k].out, a) + (IF a = type THEN amount - run[k].left ELSE 0)
      /\ run[k].left <= amount
      /\ run[k].left > 0 => Total(run[k].out, type) = 0
<1>6. Gone(0)
  <2>1. run[0].left = amount /\ run[0].out = <<>> BY <1>2 DEF Unused
  <2>2. \A a \in LotTypes : Total(<<>>, a) = 0 BY TotalOfNone
  <2>3. ASSUME NEW a \in LotTypes
        PROVE  Prefix(Amounts(ls, a), 0)
                 = Total(run[0].out, a) + (IF a = type THEN amount - run[0].left ELSE 0)
    BY <1>5, <2>1, <2>2
  <2> QED BY <2>1, <2>2, <2>3
<1>7. ASSUME NEW k \in 1..n, Gone(k - 1) PROVE Gone(k)
  <2>1. k - 1 \in 0..n /\ k \in 0..n OBVIOUS
  <2>2. PICK acc \in Consuming : acc = run[k - 1] BY <1>3, <2>1
  <2>3. PICK lot \in OpenLot : lot = ls[k] BY <1>4
  <2>4. PICK used \in Nat :
          /\ used = IF lot.type = type
                    THEN IF lot.amount <= acc.left THEN lot.amount ELSE acc.left ELSE 0
          /\ Consumed(acc, lot, type).left = acc.left - used
          /\ \A a \in LotTypes :
               Total(Consumed(acc, lot, type).out, a)
                 = Total(acc.out, a) + (IF lot.type = a THEN lot.amount - used ELSE 0)
    BY ConsumedOne
  <2>5. /\ run[k].left = acc.left - used
        /\ \A a \in LotTypes : Total(run[k].out, a)
             = Total(acc.out, a) + (IF lot.type = a THEN lot.amount - used ELSE 0)
    BY <1>2, <2>2, <2>3, <2>4
  <2>6. acc.left \in Nat /\ lot.amount \in Nat /\ \A a \in LotTypes : Total(acc.out, a) \in Nat
    BY <1>3, <2>1, <2>2 DEF OpenLot
  <2>7. /\ \A a \in LotTypes : Prefix(Amounts(ls, a), k - 1)
                                 = Total(acc.out, a) + (IF a = type THEN amount - acc.left ELSE 0)
        /\ acc.left <= amount
        /\ acc.left > 0 => Total(acc.out, type) = 0
    BY <1>7, <2>2
  <2> HIDE DEF Gone
  <2>8. ASSUME NEW a \in LotTypes
        PROVE  Prefix(Amounts(ls, a), k)
                 = Total(run[k].out, a) + (IF a = type THEN amount - run[k].left ELSE 0)
    <3>1. Prefix(Amounts(ls, a), k)
            = Prefix(Amounts(ls, a), k - 1) + (IF lot.type = a THEN lot.amount ELSE 0)
      BY <1>5, <2>3
    <3>2. Prefix(Amounts(ls, a), k - 1)
            = Total(acc.out, a) + (IF a = type THEN amount - acc.left ELSE 0)
      BY <2>7
    <3>3. Total(run[k].out, a) = Total(acc.out, a) + (IF lot.type = a THEN lot.amount - used ELSE 0)
      BY <2>5
    <3>4. Total(acc.out, a) \in Nat BY <2>6
    <3>5. lot.type # type => used = 0 BY <2>4
    <3>6. run[k].left = acc.left - used BY <2>5
    <3>7. CASE a = type /\ lot.type = a
      <4>1. /\ Prefix(Amounts(ls, a), k) = Prefix(Amounts(ls, a), k - 1) + lot.amount
            /\ Prefix(Amounts(ls, a), k - 1) = Total(acc.out, a) + (amount - acc.left)
            /\ Total(run[k].out, a) = Total(acc.out, a) + (lot.amount - used)
        BY <3>1, <3>2, <3>3, <3>7
      <4>2. Prefix(Amounts(ls, a), k) = Total(run[k].out, a) + (amount - run[k].left)
        <5>1. PICK out \in Nat : out = Total(acc.out, a) BY <3>4
        <5>2. PICK given \in Nat : given = lot.amount BY <2>6
        <5>3. PICK rest \in Nat : rest = acc.left BY <2>6
        <5>4. PICK left : left = run[k].left OBVIOUS
        <5>5. PICK before : before = Prefix(Amounts(ls, a), k - 1) OBVIOUS
        <5>6. PICK after : after = Prefix(Amounts(ls, a), k) OBVIOUS
        <5>7. after = before + given /\ before = out + (amount - rest) /\ left = rest - used
          BY <3>6, <4>1, <5>1, <5>2, <5>3, <5>4, <5>5, <5>6
        <5>8. after = (out + (given - used)) + (amount - left) BY <5>7, PrefixShifts
        <5> QED BY <4>1, <5>1, <5>2, <5>4, <5>6, <5>8
      <4> QED BY <3>7, <4>2
    <3>8. CASE a = type /\ lot.type # a BY <2>6, <3>1, <3>2, <3>3, <3>4, <3>5, <3>6, <3>8
    <3>9. CASE a # type /\ lot.type = a BY <2>6, <3>1, <3>2, <3>3, <3>4, <3>5, <3>9
    <3>10. CASE a # type /\ lot.type # a BY <3>1, <3>2, <3>3, <3>4, <3>10
    <3> QED BY <3>7, <3>8, <3>9, <3>10
  <2>9. run[k].left <= amount BY <2>5, <2>6, <2>7
  <2>10. ASSUME run[k].left > 0 PROVE Total(run[k].out, type) = 0
    <3>1. acc.left > 0 /\ used # acc.left BY <2>5, <2>6, <2>10
    <3>2. Total(acc.out, type) = 0 BY <2>7, <3>1
    <3>3. lot.type = type => used = lot.amount BY <2>4, <3>1
    <3>4. Total(run[k].out, type) = Total(acc.out, type) + (IF lot.type = type THEN lot.amount - used ELSE 0)
      BY <2>5
    <3> QED BY <2>6, <3>2, <3>3, <3>4
  <2> QED BY <2>8, <2>9, <2>10 DEF Gone
<1>8. Gone(n)
  <2> DEFINE S == {k \in 0..n : Gone(k)}
  <2> HIDE DEF Gone
  <2>1. 0 \in S BY <1>6
  <2>2. \A k \in 1..n : k - 1 \in S => k \in S BY <1>7
  <2>3. \A k \in 0..n : k \in S
    <3> HIDE DEF S
    <3> QED BY <2>1, <2>2, UpTo
  <2> QED BY <2>3
<1>9. run[n].left \in Nat /\ run[n].out \in Seq(OpenLot) /\ \A a \in LotTypes : Total(run[n].out, a) \in Nat
  BY <1>3
<1>10. run[n].left = 0
  <2>1. SUFFICES ASSUME run[n].left > 0 PROVE FALSE BY <1>9
  <2>2. Total(ls, type) = Total(run[n].out, type) + (amount - run[n].left) BY <1>5, <1>8
  <2>3. Total(run[n].out, type) = 0 BY <1>8, <2>1
  <2> QED BY <1>5, <1>9, <2>1, <2>2, <2>3
<1>11. ASSUME NEW a \in LotTypes
       PROVE  Total(run[n].out, a) = Total(ls, a) - (IF a = type THEN amount ELSE 0)
  <2>1. Total(ls, a) = Total(run[n].out, a) + (IF a = type THEN amount - run[n].left ELSE 0)
    BY <1>5, <1>8
  <2>2. Total(run[n].out, a) \in Nat BY <1>9
  <2> QED BY <1>10, <2>1, <2>2
<1> QED BY <1>2, <1>9, <1>11

-----------------------------------------------------------------------------
(***************************************************************************)
(* Rounding.                                                               *)
(***************************************************************************)

LEMMA QuotientUnder ==
  ASSUME NEW a \in Nat, NEW b \in Nat, b > 0
  PROVE  a \div b \in Nat /\ (a \div b) * b <= a
OBVIOUS

LEMMA QuotientExact ==
  ASSUME NEW a \in Nat, NEW b \in Nat, b > 0
  PROVE  (a * b) \div b = a
OBVIOUS

LEMMA ProductNat == \A a, b \in Nat : a * b \in Nat
OBVIOUS

LEMMA ProductGrows ==
  ASSUME NEW a \in Nat, NEW b \in Nat, NEW c \in Nat, a <= b
  PROVE  a * c <= b * c
OBVIOUS

LEMMA ProductSplits ==
  ASSUME NEW a \in Int, NEW b \in Int, NEW c \in Int
  PROVE  (a + b) * c = a * c + b * c /\ (a - b) * c = a * c - b * c
OBVIOUS

LEMMA Floors ==
  ASSUME NEW x \in Nat
  PROVE  FloorToStep(x) \in Nat /\ FloorToStep(x) <= x
<1>1. LotStep \in Nat /\ LotStep > 0 BY ConstraintsAssumption
<1>2. x \div LotStep \in Nat /\ (x \div LotStep) * LotStep <= x BY <1>1, QuotientUnder
<1>3. (x \div LotStep) * LotStep \in Nat BY <1>1, <1>2, ProductNat
<1> QED BY <1>2, <1>3 DEF FloorToStep

LEMMA FloorsBelow ==
  ASSUME NEW x \in Int, x < 0
  PROVE  FloorToStep(x) <= 0
<1>1. PICK step \in Nat : step = LotStep /\ step > 0 BY ConstraintsAssumption
<1>2. x \div step \in Int /\ x \div step <= 0 BY <1>1
<1>3. \A q \in Int : q <= 0 => q * step <= 0 OBVIOUS
<1> QED BY <1>1, <1>2, <1>3 DEF FloorToStep

LEMMA FeesCost ==
  ASSUME NEW x \in Nat
  PROVE  AfterFee(x) \in Nat /\ AfterFee(x) <= x
<1>1. 100 - FeePct \in Nat /\ 100 - FeePct <= 100 BY ConstraintsAssumption
<1>2. PICK keep \in Nat : keep = 100 - FeePct /\ keep <= 100 BY <1>1
<1>3. x * keep \in Nat /\ x * keep <= x * 100
  <2>1. keep * x <= 100 * x BY <1>2, ProductGrows
  <2>2. keep * x = x * keep OBVIOUS
  <2> QED BY <2>1, <2>2, ProductNat
<1>4. (x * keep) \div 100 \in Nat /\ (x * keep) \div 100 <= x BY <1>3
<1> QED BY <1>2, <1>4 DEF AfterFee

-----------------------------------------------------------------------------
(***************************************************************************)
(* What a conversion and an intent do to a spot ledger: the buckets stay   *)
(* the sums of the lots, and at the bar's price nobody is richer.          *)
(***************************************************************************)

Spot == [usdt : Nat, bucket : [LotTypes -> Nat], lots : Seq(OpenLot)]

Adds(s) == s \in Spot /\ \A a \in LotTypes : Total(s.lots, a) = s.bucket[a]

\* The ledgers that add up and are worth at most some amount.
Worth(price, most) == {s \in Spot : Adds(s) /\ Equity(s, price) <= most}

LEMMA SpotFacts ==
  ASSUME NEW s \in Spot
  PROVE  /\ s.usdt \in Nat /\ s.bucket \in [LotTypes -> Nat] /\ s.lots \in Seq(OpenLot)
         /\ s.lots \in Seq(Lot) /\ \A a \in LotTypes : s.bucket[a] \in Nat
         /\ Btc(s) \in Nat
<1>1. s.usdt \in Nat /\ s.bucket \in [LotTypes -> Nat] /\ s.lots \in Seq(OpenLot) BY DEF Spot
<1>2. \A a \in LotTypes : s.bucket[a] \in Nat BY <1>1
<1> QED BY <1>1, <1>2, OpenLots, ThreeTypes DEF Btc

LEMMA WithLot ==
  ASSUME NEW ls \in Seq(OpenLot), NEW type \in LotTypes, NEW amount \in Nat, amount > 0
  PROVE  /\ Append(ls, [type |-> type, amount |-> amount]) \in Seq(OpenLot)
         /\ \A a \in LotTypes :
              Total(Append(ls, [type |-> type, amount |-> amount]), a)
                = Total(ls, a) + (IF type = a THEN amount ELSE 0)
<1>1. PICK lot : lot = [type |-> type, amount |-> amount] OBVIOUS
<1>2. lot \in OpenLot /\ lot \in Lot /\ lot.type = type /\ lot.amount = amount
  BY <1>1 DEF OpenLot, Lot
<1>3. ls \in Seq(Lot) BY OpenLots
<1>4. Append(ls, lot) \in Seq(OpenLot) BY <1>2
<1>5. Append(ls, lot) = ls \o <<lot>> BY <1>2, <1>3, AppendIsConcat
<1>6. \A a \in LotTypes :
        Total(ls \o <<lot>>, a) = Total(ls, a) + (IF lot.type = a THEN lot.amount ELSE 0)
  BY <1>2, <1>3, TotalWithLot
<1> QED BY <1>1, <1>2, <1>4, <1>5, <1>6

LEMMA ConvertAdds ==
  ASSUME NEW s, Adds(s), NEW c \in Conversions, NEW price \in Nat
  PROVE  Adds(Convert(s, c)) /\ Equity(Convert(s, c), price) <= Equity(s, price)
<1>0. /\ s \in Spot /\ s.usdt \in Nat /\ s.bucket \in [LotTypes -> Nat] /\ s.lots \in Seq(OpenLot)
      /\ \A a \in LotTypes : s.bucket[a] \in Nat /\ Total(s.lots, a) = s.bucket[a]
      /\ Btc(s) \in Nat
  BY SpotFacts DEF Adds
<1>1. Equity(s, price) \in Nat BY <1>0, ProductNat DEF Equity
<1>2. PICK from : from = c.from OBVIOUS
<1>3. PICK to : to = c.to OBVIOUS
<1>4. from \in LotTypes /\ to \in LotTypes /\ c.amount \in Int BY <1>2, <1>3 DEF Conversions
<1>5. PICK move : move = Min({c.amount, s.bucket[from]}) OBVIOUS
<1>6. move \in Int /\ move <= s.bucket[from]
  <2>1. \A x, y \in Int : Min({x, y}) \in Int /\ Min({x, y}) <= y BY MinOfTwo
  <2>2. s.bucket[from] \in Int BY <1>0, <1>4
  <2> QED BY <1>4, <1>5, <2>1, <2>2
<1>7. CASE <<from, to>> \notin {<<"DEAD_STACK", "FLOATING">>, <<"FLOATING", "COLD_SEALED">>} \/ move <= 0
  <2>1. Convert(s, c) = s BY <1>2, <1>3, <1>5, <1>7 DEF Convert
  <2> QED BY <1>1, <2>1
<1>8. CASE ~(<<from, to>> \notin {<<"DEAD_STACK", "FLOATING">>, <<"FLOATING", "COLD_SEALED">>} \/ move <= 0)
  <2>1. from # to /\ move \in Nat /\ move > 0 BY <1>6, <1>8
  <2>2. PICK rest : rest = ConsumeLots(s.lots, from, move) OBVIOUS
  <2>3. PICK lot : lot = [type |-> to, amount |-> move] OBVIOUS
  <2>4. PICK r : r = Convert(s, c) OBVIOUS
  <2>5. r = [s EXCEPT !.bucket[from] = @ - move, !.bucket[to] = @ + move, !.lots = Append(rest, lot)]
    BY <1>2, <1>3, <1>5, <1>8, <2>2, <2>3, <2>4 DEF Convert
  <2>6. /\ r = [usdt |-> r.usdt, bucket |-> r.bucket, lots |-> r.lots]
        /\ r.usdt = s.usdt /\ r.lots = Append(rest, lot)
        /\ r.bucket = [s.bucket EXCEPT ![from] = @ - move, ![to] = @ + move]
    <3>1. PICK u : u = s.usdt OBVIOUS
    <3>2. PICK b : b = s.bucket OBVIOUS
    <3>3. PICK l : l = s.lots OBVIOUS
    <3>4. s = [usdt |-> u, bucket |-> b, lots |-> l] BY <1>0, <3>1, <3>2, <3>3 DEF Spot
    <3>5. r = [usdt |-> u, lots |-> Append(rest, lot),
               bucket |-> [b EXCEPT ![from] = @ - move, ![to] = @ + move]]
      BY <2>5, <3>4
    <3> QED BY <3>1, <3>2, <3>5
  <2>7. \A a \in LotTypes :
          r.bucket[a] = s.bucket[a] - (IF a = from THEN move ELSE 0) + (IF a = to THEN move ELSE 0)
    BY <1>0, <1>4, <2>1, <2>6
  <2>8. /\ rest \in Seq(OpenLot)
        /\ \A a \in LotTypes : Total(rest, a) = Total(s.lots, a) - (IF a = from THEN move ELSE 0)
    <3>1. s.lots \in Seq(OpenLot) /\ move \in Nat /\ move <= Total(s.lots, from)
      BY <1>0, <1>4, <1>6, <2>1
    <3> QED BY <1>4, <2>2, <3>1, ConsumedTotals
  <2>9. /\ r.lots \in Seq(OpenLot)
        /\ \A a \in LotTypes : Total(r.lots, a) = Total(rest, a) + (IF to = a THEN move ELSE 0)
    BY <1>4, <2>1, <2>3, <2>6, <2>8, WithLot
  <2>10. \A a \in LotTypes : Total(r.lots, a) = r.bucket[a] BY <1>0, <2>7, <2>8, <2>9
  <2>11. ASSUME NEW a \in LotTypes PROVE r.bucket[a] \in Nat
    <3>1. PICK x \in Nat : x = s.bucket[a] BY <1>0
    <3>2. r.bucket[a] = x - (IF a = from THEN move ELSE 0) + (IF a = to THEN move ELSE 0)
      BY <2>7, <3>1
    <3>3. a = from => move <= x BY <1>6, <3>1
    <3> QED BY <2>1, <3>2, <3>3
  <2>12. r \in Spot
    <3>1. r.bucket \in [LotTypes -> Nat] BY <1>0, <2>6, <2>11
    <3>2. r.usdt \in Nat BY <1>0, <2>6
    <3> QED BY <2>6, <2>9, <3>1, <3>2 DEF Spot
  <2>13. Btc(r) = Btc(s)
    <3>1. \/ from = "DEAD_STACK" /\ to = "FLOATING"
          \/ from = "FLOATING" /\ to = "COLD_SEALED"
      BY <1>8
    <3>2. /\ s.bucket["DEAD_STACK"] \in Nat /\ s.bucket["FLOATING"] \in Nat
          /\ s.bucket["COLD_SEALED"] \in Nat
      BY <1>0, ThreeTypes
    <3>3. CASE from = "DEAD_STACK" /\ to = "FLOATING"
      <4>1. /\ r.bucket["DEAD_STACK"] = s.bucket["DEAD_STACK"] - move
            /\ r.bucket["FLOATING"] = s.bucket["FLOATING"] + move
            /\ r.bucket["COLD_SEALED"] = s.bucket["COLD_SEALED"]
        BY <2>7, <3>2, <3>3, <2>1, ThreeTypes
      <4> QED BY <2>1, <3>2, <4>1 DEF Btc
    <3>4. CASE from = "FLOATING" /\ to = "COLD_SEALED"
      <4>1. /\ r.bucket["DEAD_STACK"] = s.bucket["DEAD_STACK"]
            /\ r.bucket["FLOATING"] = s.bucket["FLOATING"] - move
            /\ r.bucket["COLD_SEALED"] = s.bucket["COLD_SEALED"] + move
        BY <2>7, <3>2, <3>4, <2>1, ThreeTypes
      <4> QED BY <2>1, <3>2, <4>1 DEF Btc
    <3> QED BY <3>1, <3>3, <3>4
  <2>14. Equity(r, price) = Equity(s, price) BY <2>6, <2>13 DEF Equity
  <2> QED BY <1>1, <2>4, <2>10, <2>12, <2>14 DEF Adds
<1> QED BY <1>7, <1>8

\* A ledger with other amounts.
LEMMA SpotRecord ==
  ASSUME NEW s \in Spot
  PROVE  s = [usdt |-> s.usdt, bucket |-> s.bucket, lots |-> s.lots]
BY DEF Spot

LEMMA BtcMoves ==
  ASSUME NEW s \in Spot, NEW r, NEW a \in LotTypes, NEW d \in Int,
         r.bucket = [s.bucket EXCEPT ![a] = @ + d]
  PROVE  Btc(r) = Btc(s) + d
<1>1. /\ s.bucket["DEAD_STACK"] \in Nat /\ s.bucket["FLOATING"] \in Nat
      /\ s.bucket["COLD_SEALED"] \in Nat /\ s.bucket \in [LotTypes -> Nat]
  BY SpotFacts, ThreeTypes
<1>2. CASE a = "DEAD_STACK"
  <2>1. /\ r.bucket["DEAD_STACK"] = s.bucket["DEAD_STACK"] + d
        /\ r.bucket["FLOATING"] = s.bucket["FLOATING"]
        /\ r.bucket["COLD_SEALED"] = s.bucket["COLD_SEALED"]
    BY <1>1, <1>2, ThreeTypes
  <2> QED BY <1>1, <2>1 DEF Btc
<1>3. CASE a = "FLOATING"
  <2>1. /\ r.bucket["DEAD_STACK"] = s.bucket["DEAD_STACK"]
        /\ r.bucket["FLOATING"] = s.bucket["FLOATING"] + d
        /\ r.bucket["COLD_SEALED"] = s.bucket["COLD_SEALED"]
    BY <1>1, <1>3, ThreeTypes
  <2> QED BY <1>1, <2>1 DEF Btc
<1>4. CASE a = "COLD_SEALED"
  <2>1. /\ r.bucket["DEAD_STACK"] = s.bucket["DEAD_STACK"]
        /\ r.bucket["FLOATING"] = s.bucket["FLOATING"]
        /\ r.bucket["COLD_SEALED"] = s.bucket["COLD_SEALED"] + d
    BY <1>1, <1>4, ThreeTypes
  <2> QED BY <1>1, <2>1 DEF Btc
<1> QED BY <1>2, <1>3, <1>4, ThreeTypes

\* Money goes one way, worth at least as much the other.
LEMMA WorthLess ==
  ASSUME NEW usdt \in Int, NEW btc \in Int, NEW price \in Nat, NEW d \in Int, NEW paid \in Int,
         d * price <= paid
  PROVE  (usdt - paid) + (btc + d) * price <= usdt + btc * price
<1>1. (btc + d) * price = btc * price + d * price BY ProductSplits
<1>2. btc * price \in Int /\ d * price \in Int OBVIOUS
<1> QED BY <1>1, <1>2

LEMMA BuyAdds ==
  ASSUME NEW s, Adds(s), NEW intent \in SpotIntents, NEW price \in Nat, price > 0
  PROVE  Adds(Buy(s, intent, price)) /\ Equity(Buy(s, intent, price), price) <= Equity(s, price)
<1>0. /\ s \in Spot /\ s.usdt \in Nat /\ s.bucket \in [LotTypes -> Nat] /\ s.lots \in Seq(OpenLot)
      /\ \A a \in LotTypes : s.bucket[a] \in Nat /\ Total(s.lots, a) = s.bucket[a]
      /\ Btc(s) \in Nat
  BY SpotFacts DEF Adds
<1>1. Equity(s, price) \in Nat BY <1>0, ProductNat DEF Equity
<1>2. PICK type : type = intent.type OBVIOUS
<1>3. PICK spend : spend = Min({intent.amount, s.usdt}) OBVIOUS
<1>4. type \in LotTypes /\ intent.amount \in Int BY <1>2 DEF SpotIntents
<1>5. spend \in Int /\ spend <= s.usdt
  <2>1. \A x, y \in Int : Min({x, y}) \in Int /\ Min({x, y}) <= y BY MinOfTwo
  <2> QED BY <1>0, <1>3, <1>4, <2>1
<1>6. PICK qty : qty = FloorToStep(AfterFee(spend) \div price) OBVIOUS
<1>7. CASE spend < MinOrder \/ qty < LotMin \/ qty <= 0
  <2>1. Buy(s, intent, price) = s BY <1>3, <1>6, <1>7 DEF Buy
  <2> QED BY <1>1, <2>1
<1>8. CASE ~(spend < MinOrder \/ qty < LotMin \/ qty <= 0)
  <2>1. spend \in Nat
    <3>1. MinOrder \in Nat BY ConstraintsAssumption
    <3> QED BY <1>5, <1>8, <3>1
  <2>2. AfterFee(spend) \in Nat /\ AfterFee(spend) <= spend BY <2>1, FeesCost
  <2>3. PICK net \in Nat : net = AfterFee(spend) /\ net <= spend BY <2>2
  <2>4. net \div price \in Nat /\ (net \div price) * price <= net BY QuotientUnder
  <2>5. PICK most \in Nat : most = net \div price /\ most * price <= net BY <2>4
  <2>6. qty \in Nat /\ qty <= most BY <1>6, <2>3, <2>5, Floors
  <2>7. qty > 0 BY <1>8, <2>6
  <2>8. qty * price <= spend
    <3>1. qty * price <= most * price BY <2>6, ProductGrows
    <3>2. qty * price \in Nat /\ most * price \in Nat BY <2>6, ProductNat
    <3> QED BY <2>1, <2>3, <2>5, <3>1, <3>2
  <2>9. PICK lot : lot = [type |-> type, amount |-> qty] OBVIOUS
  <2>10. PICK r : r = Buy(s, intent, price) OBVIOUS
  <2>11. r = [s EXCEPT !.usdt = @ - spend, !.bucket[type] = @ + qty, !.lots = Append(@, lot)]
    BY <1>2, <1>3, <1>6, <1>8, <2>9, <2>10 DEF Buy
  <2>12. /\ r = [usdt |-> r.usdt, bucket |-> r.bucket, lots |-> r.lots]
         /\ r.usdt = s.usdt - spend /\ r.lots = Append(s.lots, lot)
         /\ r.bucket = [s.bucket EXCEPT ![type] = @ + qty]
    <3>1. PICK u : u = s.usdt OBVIOUS
    <3>2. PICK b : b = s.bucket OBVIOUS
    <3>3. PICK l : l = s.lots OBVIOUS
    <3>4. s = [usdt |-> u, bucket |-> b, lots |-> l] BY <1>0, <3>1, <3>2, <3>3, SpotRecord
    <3>5. r = [usdt |-> u - spend, bucket |-> [b EXCEPT ![type] = @ + qty], lots |-> Append(l, lot)]
      BY <2>11, <3>4
    <3> QED BY <3>1, <3>2, <3>3, <3>5
  <2>13. \A a \in LotTypes :
           r.bucket[a] \in Nat /\ r.bucket[a] = s.bucket[a] + (IF type = a THEN qty ELSE 0)
    BY <1>0, <1>4, <2>6, <2>12
  <2>14. /\ r.lots \in Seq(OpenLot)
         /\ \A a \in LotTypes : Total(r.lots, a) = Total(s.lots, a) + (IF type = a THEN qty ELSE 0)
    BY <1>0, <1>4, <2>6, <2>7, <2>9, <2>12, WithLot
  <2>15. \A a \in LotTypes : Total(r.lots, a) = r.bucket[a] BY <1>0, <2>13, <2>14
  <2>16. r \in Spot
    <3>1. r.bucket \in [LotTypes -> Nat] BY <1>0, <2>12, <2>13
    <3>2. r.usdt \in Nat BY <1>0, <1>5, <2>1, <2>12
    <3> QED BY <2>12, <2>14, <3>1, <3>2 DEF Spot
  <2>17. Equity(r, price) <= Equity(s, price)
    <3>1. Btc(r) = Btc(s) + qty BY <1>0, <1>4, <2>6, <2>12, BtcMoves, SMTT(30)
    <3>2. (s.usdt - spend) + (Btc(s) + qty) * price <= s.usdt + Btc(s) * price
      BY <1>0, <2>1, <2>6, <2>8, WorthLess
    <3> QED BY <2>12, <3>1, <3>2 DEF Equity
  <2> QED BY <2>10, <2>15, <2>16, <2>17 DEF Adds
<1> QED BY <1>7, <1>8

LEMMA SellAdds ==
  ASSUME NEW s, Adds(s), NEW intent \in SpotIntents, NEW price \in Nat, price > 0
  PROVE  Adds(Sell(s, intent, price)) /\ Equity(Sell(s, intent, price), price) <= Equity(s, price)
<1>0. /\ s \in Spot /\ s.usdt \in Nat /\ s.bucket \in [LotTypes -> Nat] /\ s.lots \in Seq(OpenLot)
      /\ \A a \in LotTypes : s.bucket[a] \in Nat /\ Total(s.lots, a) = s.bucket[a]
      /\ Btc(s) \in Nat
  BY SpotFacts DEF Adds
<1>1. Equity(s, price) \in Nat BY <1>0, ProductNat DEF Equity
<1>2. PICK type \in LotTypes : type = "FLOATING" BY ThreeTypes
<1>3. intent.qty \in Int /\ s.bucket[type] \in Nat BY <1>0 DEF SpotIntents
<1>4. PICK least : least = Min({intent.qty, s.bucket[type]}) OBVIOUS
<1>5. least \in Int /\ least <= s.bucket[type]
  <2>1. \A x, y \in Int : Min({x, y}) \in Int /\ Min({x, y}) <= y BY MinOfTwo
  <2>2. s.bucket[type] \in Int BY <1>3
  <2> QED BY <1>3, <1>4, <2>1, <2>2
<1>6. PICK qty : qty = FloorToStep(least) OBVIOUS
<1>7. CASE qty < LotMin \/ qty <= 0 \/ qty * price < MinOrder
  <2>1. Sell(s, intent, price) = s BY <1>2, <1>4, <1>6, <1>7 DEF Sell
  <2> QED BY <1>1, <2>1
<1>8. CASE ~(qty < LotMin \/ qty <= 0 \/ qty * price < MinOrder)
  <2>1. least \in Nat
    <3>1. SUFFICES ASSUME least < 0 PROVE FALSE BY <1>5
    <3>2. qty <= 0 BY <1>5, <1>6, <3>1, FloorsBelow
    <3> QED BY <1>8, <3>2
  <2>2. qty \in Nat /\ qty <= least BY <1>6, <2>1, Floors
  <2>3. qty > 0 /\ qty <= s.bucket[type] BY <1>3, <1>5, <1>8, <2>1, <2>2
  <2>4. qty * price \in Nat BY <2>2, ProductNat
  <2>5. AfterFee(qty * price) \in Nat /\ AfterFee(qty * price) <= qty * price BY <2>4, FeesCost
  <2>6. PICK net \in Nat : net = AfterFee(qty * price) /\ net <= qty * price BY <2>5
  <2>7. PICK rest : rest = ConsumeLots(s.lots, type, qty) OBVIOUS
  <2>8. PICK r : r = Sell(s, intent, price) OBVIOUS
  <2>9. r = [s EXCEPT !.usdt = @ + net, !.bucket[type] = @ - qty, !.lots = ConsumeLots(@, type, qty)]
    BY <1>2, <1>4, <1>6, <1>8, <2>6, <2>8 DEF Sell
  <2>10. /\ r = [usdt |-> r.usdt, bucket |-> r.bucket, lots |-> r.lots]
         /\ r.usdt = s.usdt + net /\ r.lots = rest
         /\ r.bucket = [s.bucket EXCEPT ![type] = @ - qty]
    <3>1. PICK u : u = s.usdt OBVIOUS
    <3>2. PICK b : b = s.bucket OBVIOUS
    <3>3. PICK l : l = s.lots OBVIOUS
    <3>4. s = [usdt |-> u, bucket |-> b, lots |-> l] BY <1>0, <3>1, <3>2, <3>3, SpotRecord
    <3>5. r = [usdt |-> u + net, bucket |-> [b EXCEPT ![type] = @ - qty],
               lots |-> ConsumeLots(l, type, qty)]
      BY <2>9, <3>4
    <3> QED BY <2>7, <3>1, <3>2, <3>3, <3>5
  <2>11. \A a \in LotTypes :
           r.bucket[a] \in Nat /\ r.bucket[a] = s.bucket[a] - (IF a = type THEN qty ELSE 0)
    BY <1>0, <2>2, <2>3, <2>10
  <2>12. /\ rest \in Seq(OpenLot)
         /\ \A a \in LotTypes : Total(rest, a) = Total(s.lots, a) - (IF a = type THEN qty ELSE 0)
    <3>1. qty <= Total(s.lots, type) BY <1>0, <2>3
    <3> QED BY <1>0, <2>2, <2>7, <3>1, ConsumedTotals
  <2>13. \A a \in LotTypes : Total(r.lots, a) = r.bucket[a] BY <1>0, <2>10, <2>11, <2>12
  <2>14. r \in Spot
    <3>1. r.bucket \in [LotTypes -> Nat] BY <1>0, <2>10, <2>11
    <3>2. r.usdt \in Nat BY <1>0, <2>10
    <3> QED BY <2>10, <2>12, <3>1, <3>2 DEF Spot
  <2>15. Equity(r, price) <= Equity(s, price)
    <3>1. PICK d \in Int : d = 0 - qty BY <2>2
    <3>2. r.bucket = [s.bucket EXCEPT ![type] = @ + d]
      <4>1. s.bucket[type] - qty = s.bucket[type] + d BY <1>3, <2>2, <3>1
      <4> QED BY <2>10, <4>1
    <3>3. Btc(r) = Btc(s) + d
      <4>1. s \in Spot BY <1>0
      <4> QED BY <3>2, <4>1, BtcMoves
    <3>4. PICK paid \in Int : paid = 0 - net OBVIOUS
    <3>5. d * price <= paid
      <4>1. d * price = 0 - qty * price BY <2>2, <3>1, ProductSplits
      <4> QED BY <2>4, <2>6, <3>4, <4>1
    <3>6. (s.usdt - paid) + (Btc(s) + d) * price <= s.usdt + Btc(s) * price
      BY <1>0, <3>5, WorthLess
    <3>7. r.usdt = s.usdt - paid BY <1>0, <2>10, <3>4
    <3> QED BY <3>3, <3>6, <3>7 DEF Equity
  <2> QED BY <2>8, <2>13, <2>14, <2>15 DEF Adds
<1> QED BY <1>7, <1>8

LEMMA ApplyAdds ==
  ASSUME NEW s, Adds(s), NEW intent \in SpotIntents, NEW price \in Nat, price > 0
  PROVE  Adds(Apply(s, intent, price)) /\ Equity(Apply(s, intent, price), price) <= Equity(s, price)
BY BuyAdds, SellAdds DEF Apply

\* A recursion from base that follows F while it stays in A.
Follows(iter, F, base, n, A) ==
  /\ iter[{}] = base
  /\ \A s \in SUBSET (1..n) :
       s # {} /\ iter[s \ {Max(s)}] \in A => iter[s] = F[<<Max(s), iter[s \ {Max(s)}]>>]

LEMMA FoldStays ==
  ASSUME NEW n \in Nat, NEW A, NEW base \in A, NEW F \in [(1..n) \X A -> A],
         NEW iter, Follows(iter, F, base, n, A)
  PROVE  iter[1..n] \in A
<1> DEFINE S == {k \in 0..n : iter[1..k] \in A}
<1>1. 0 \in S
  <2>1. 1..0 = {} OBVIOUS
  <2> QED BY <2>1 DEF Follows
<1>2. ASSUME NEW k \in 1..n, k - 1 \in S PROVE k \in S
  <2>1. iter[1..(k - 1)] \in A BY <1>2
  <2>2. /\ 1..k \in SUBSET (1..n) /\ 1..k # {} /\ Max(1..k) = k /\ (1..k) \ {k} = 1..(k - 1)
    BY FirstIndices
  <2>3. iter[1..k] = F[<<k, iter[1..(k - 1)]>>] BY <2>1, <2>2 DEF Follows
  <2>4. iter[1..k] \in A BY <2>1, <2>3
  <2> QED BY <2>4
<1>3. \A k \in 0..n : k \in S
  <2> HIDE DEF S
  <2> QED BY <1>1, <1>2, UpTo
<1> QED BY <1>3

LEMMA EquityNat ==
  ASSUME NEW s, Adds(s), NEW price \in Nat
  PROVE  Equity(s, price) \in Nat
<1>1. s.usdt \in Nat /\ Btc(s) \in Nat BY SpotFacts DEF Adds
<1> QED BY <1>1, ProductNat DEF Equity

LEMMA ConvertStays ==
  ASSUME NEW price \in Nat, NEW most \in Int, NEW s \in Worth(price, most), NEW c \in Conversions
  PROVE  Convert(s, c) \in Worth(price, most)
<1>1. Adds(s) /\ Equity(s, price) <= most BY DEF Worth
<1>2. /\ Adds(Convert(s, c)) /\ Equity(Convert(s, c), price) <= Equity(s, price) BY <1>1, ConvertAdds
<1>3. Equity(Convert(s, c), price) <= most BY <1>1, <1>2, EquityNat
<1> QED BY <1>2, <1>3 DEF Worth, Adds

LEMMA ApplyStays ==
  ASSUME NEW price \in Nat, price > 0, NEW most \in Int, NEW s \in Worth(price, most),
         NEW intent \in SpotIntents
  PROVE  Apply(s, intent, price) \in Worth(price, most)
<1>1. Adds(s) /\ Equity(s, price) <= most BY DEF Worth
<1>2. /\ Adds(Apply(s, intent, price)) /\ Equity(Apply(s, intent, price), price) <= Equity(s, price)
  BY <1>1, ApplyAdds
<1>3. Equity(Apply(s, intent, price), price) <= most BY <1>1, <1>2, EquityNat
<1> QED BY <1>2, <1>3 DEF Worth, Adds

ConvertSteps(g, base, seq) ==
  g = [s \in SUBSET (DOMAIN seq) |->
         IF s = {} THEN base ELSE Convert(g[s \ {Max(s)}], seq[Max(s)])]

\* applyLedgerConversions, and then applyIntents.
LEMMA ConversionsAdd ==
  ASSUME NEW seq \in Seq(Conversions), NEW price \in Nat, NEW most \in Int,
         NEW base \in Worth(price, most)
  PROVE  FoldLeft(Convert, base, seq) \in Worth(price, most)
<1>1. PICK n \in Nat : n = Len(seq) /\ DOMAIN seq = 1..n OBVIOUS
<1>2. \A i \in 1..n : seq[i] \in Conversions BY <1>1
<1>3. PICK A : A = Worth(price, most) OBVIOUS
<1>4. \A i \in 1..n, acc \in A : Convert(acc, seq[i]) \in A BY <1>2, <1>3, ConvertStays
<1>5. PICK F : F = [p \in (1..n) \X A |-> Convert(p[2], seq[p[1]])] OBVIOUS
<1>6. F \in [(1..n) \X A -> A] /\ \A i \in 1..n, acc \in A : F[<<i, acc>>] = Convert(acc, seq[i])
  <2>1. \A p \in (1..n) \X A : Convert(p[2], seq[p[1]]) \in A BY <1>4
  <2> QED BY <1>5, <2>1
<1>7. PICK g \in [SUBSET (1..n) -> A] : Steps(g, F, base, n) BY <1>3, <1>6, FoldExists
<1>8. ConvertSteps(g, base, seq)
  <2>1. ASSUME NEW s \in SUBSET (1..n)
        PROVE  g[s] = IF s = {} THEN base ELSE Convert(g[s \ {Max(s)}], seq[Max(s)])
    <3>1. g[s] = IF s = {} THEN base ELSE F[<<Max(s), g[s \ {Max(s)}]>>] BY <1>7 DEF Steps
    <3>2. CASE s # {}
      <4>1. Max(s) \in 1..n /\ g[s \ {Max(s)}] \in A BY <1>7, <3>2, LastIndex
      <4> QED BY <1>6, <3>1, <3>2, <4>1
    <3> QED BY <3>1, <3>2
  <2> QED BY <1>1, <1>7, <2>1 DEF ConvertSteps
<1>9. PICK iter : iter = CHOOSE h : ConvertSteps(h, base, seq) OBVIOUS
<1>10. ConvertSteps(iter, base, seq) BY <1>8, <1>9
<1>11. Follows(iter, F, base, n, A)
  <2>1. ASSUME NEW s \in SUBSET (1..n)
        PROVE  iter[s] = IF s = {} THEN base ELSE Convert(iter[s \ {Max(s)}], seq[Max(s)])
    BY <1>1, <1>10 DEF ConvertSteps
  <2>2. ASSUME NEW s \in SUBSET (1..n), s # {}, iter[s \ {Max(s)}] \in A
        PROVE  iter[s] = F[<<Max(s), iter[s \ {Max(s)}]>>]
    <3>1. Max(s) \in 1..n BY <2>2, LastIndex
    <3> QED BY <1>6, <2>1, <2>2, <3>1
  <2>3. {} \in SUBSET (1..n) OBVIOUS
  <2>4. iter[{}] = base BY <2>1, <2>3
  <2> QED BY <2>2, <2>4 DEF Follows
<1>12. iter[1..n] \in A BY <1>3, <1>6, <1>11, FoldStays
<1>13. FoldLeft(Convert, base, seq) = iter[1..n]
  <2>1. FoldLeft(Convert, base, seq)
          = (CHOOSE h : ConvertSteps(h, base, seq))[DOMAIN seq]
    BY DEF FoldLeft, MapThenFoldSet, ConvertSteps
  <2> QED BY <1>1, <1>9, <2>1
<1> QED BY <1>3, <1>12, <1>13

ApplySteps(g, base, seq, price) ==
  g = [s \in SUBSET (DOMAIN seq) |->
         IF s = {} THEN base ELSE Apply(g[s \ {Max(s)}], seq[Max(s)], price)]

LEMMA IntentsAdd ==
  ASSUME NEW seq \in Seq(SpotIntents), NEW price \in Nat, price > 0, NEW most \in Int,
         NEW base \in Worth(price, most)
  PROVE  FoldLeft(LAMBDA acc, intent : Apply(acc, intent, price), base, seq) \in Worth(price, most)
<1>1. PICK n \in Nat : n = Len(seq) /\ DOMAIN seq = 1..n OBVIOUS
<1>2. \A i \in 1..n : seq[i] \in SpotIntents BY <1>1
<1>3. PICK A : A = Worth(price, most) OBVIOUS
<1>4. \A i \in 1..n, acc \in A : Apply(acc, seq[i], price) \in A BY <1>2, <1>3, ApplyStays
<1>5. PICK F : F = [p \in (1..n) \X A |-> Apply(p[2], seq[p[1]], price)] OBVIOUS
<1>6. F \in [(1..n) \X A -> A] /\ \A i \in 1..n, acc \in A : F[<<i, acc>>] = Apply(acc, seq[i], price)
  <2>1. \A p \in (1..n) \X A : Apply(p[2], seq[p[1]], price) \in A BY <1>4
  <2> QED BY <1>5, <2>1
<1>7. PICK g \in [SUBSET (1..n) -> A] : Steps(g, F, base, n) BY <1>3, <1>6, FoldExists
<1>8. ApplySteps(g, base, seq, price)
  <2>1. ASSUME NEW s \in SUBSET (1..n)
        PROVE  g[s] = IF s = {} THEN base ELSE Apply(g[s \ {Max(s)}], seq[Max(s)], price)
    <3>1. g[s] = IF s = {} THEN base ELSE F[<<Max(s), g[s \ {Max(s)}]>>] BY <1>7 DEF Steps
    <3>2. CASE s # {}
      <4>1. Max(s) \in 1..n /\ g[s \ {Max(s)}] \in A BY <1>7, <3>2, LastIndex
      <4> QED BY <1>6, <3>1, <3>2, <4>1
    <3> QED BY <3>1, <3>2
  <2> QED BY <1>1, <1>7, <2>1 DEF ApplySteps
<1>9. PICK iter : iter = CHOOSE h : ApplySteps(h, base, seq, price) OBVIOUS
<1>10. ApplySteps(iter, base, seq, price) BY <1>8, <1>9
<1>11. Follows(iter, F, base, n, A)
  <2>1. ASSUME NEW s \in SUBSET (1..n)
        PROVE  iter[s] = IF s = {} THEN base ELSE Apply(iter[s \ {Max(s)}], seq[Max(s)], price)
    BY <1>1, <1>10 DEF ApplySteps
  <2>2. ASSUME NEW s \in SUBSET (1..n), s # {}, iter[s \ {Max(s)}] \in A
        PROVE  iter[s] = F[<<Max(s), iter[s \ {Max(s)}]>>]
    <3>1. Max(s) \in 1..n BY <2>2, LastIndex
    <3> QED BY <1>6, <2>1, <2>2, <3>1
  <2>3. {} \in SUBSET (1..n) OBVIOUS
  <2>4. iter[{}] = base BY <2>1, <2>3
  <2> QED BY <2>2, <2>4 DEF Follows
<1>12. iter[1..n] \in A BY <1>3, <1>6, <1>11, FoldStays
<1>13. FoldLeft(LAMBDA acc, intent : Apply(acc, intent, price), base, seq) = iter[1..n]
  <2>1. FoldLeft(LAMBDA acc, intent : Apply(acc, intent, price), base, seq)
          = (CHOOSE h : ApplySteps(h, base, seq, price))[DOMAIN seq]
    BY DEF FoldLeft, MapThenFoldSet, ApplySteps
  <2> QED BY <1>1, <1>9, <2>1
<1> QED BY <1>3, <1>12, <1>13

LEMMA ReplayAdds ==
  ASSUME NEW s, Adds(s), NEW output \in OutputsOf(SpotIntents), NEW price \in Nat, price > 0
  PROVE  /\ Adds(Replay(s, output, price))
         /\ Equity(Replay(s, output, price), price) <= Equity(s, price)
<1>1. PICK most \in Int : most = Equity(s, price) BY EquityNat
<1>2. s \in Worth(price, most) BY <1>1, EquityNat DEF Worth, Adds
<1>3. /\ output.conversions \in Seq(Conversions)
      /\ output.macro \in Seq(SpotIntents) /\ output.micro \in Seq(SpotIntents)
  BY DEF OutputsOf
<1>4. PICK acc : acc = FoldLeft(Convert, s, output.conversions) OBVIOUS
<1>5. acc \in Worth(price, most) BY <1>2, <1>3, <1>4, ConversionsAdd
<1>6. PICK intents : intents = output.macro \o output.micro OBVIOUS
<1>7. intents \in Seq(SpotIntents) BY <1>3, <1>6
<1>8. FoldLeft(LAMBDA a, intent : Apply(a, intent, price), acc, intents) \in Worth(price, most)
  BY <1>5, <1>7, IntentsAdd
<1>9. Replay(s, output, price) \in Worth(price, most) BY <1>4, <1>6, <1>8 DEF Replay
<1> QED BY <1>1, <1>9 DEF Worth

-----------------------------------------------------------------------------
(***************************************************************************)
(* What an intent does to a margin account.                                *)
(***************************************************************************)

Account == [balance : Int, frozen : Nat, realized : Int,
            positions : [Sides -> Positions], fees : [Offsets -> Nat]]

\* The accounts that add up to a deposit.
Balanced(deposit) ==
  {a \in Account :
     /\ a.frozen = a.positions["LONG"].margin + a.positions["SHORT"].margin
     /\ a.balance + a.frozen = deposit + a.realized - a.fees["OPEN"]}

LEMMA AccountFacts ==
  ASSUME NEW a \in Account, NEW side \in Sides
  PROVE  /\ a.balance \in Int /\ a.frozen \in Nat /\ a.realized \in Int
         /\ a.positions \in [Sides -> Positions] /\ a.fees \in [Offsets -> Nat]
         /\ a.fees["OPEN"] \in Nat /\ a.fees["CLOSE"] \in Nat
         /\ a.positions[side] \in Positions
         /\ a.positions[side].qty \in Nat /\ a.positions[side].entry \in Nat
         /\ a.positions[side].margin \in Nat /\ a.positions[side].leverage \in Nat \ {0}
         /\ a.positions[side].qty = 0 => a.positions[side] = NoPosition
<1>1. a.positions \in [Sides -> Positions] /\ a.fees \in [Offsets -> Nat] BY DEF Account
<1>2. a.positions[side] \in Positions BY <1>1
<1> QED BY <1>1, <1>2 DEF Account, Positions, Offsets

\* An account with other amounts.
Updated(a, balance, frozen, realized, offset, fee, side, p) ==
  [a EXCEPT !.balance = balance, !.frozen = frozen, !.realized = realized,
            !.fees[offset] = fee, !.positions[side] = p]

LEMMA AccountRecord ==
  ASSUME NEW balance0, NEW frozen0, NEW realized0, NEW positions, NEW fees, NEW a,
         NEW balance, NEW frozen, NEW realized, NEW side, NEW offset, NEW p, NEW fee, NEW r,
         a = [balance |-> balance0, frozen |-> frozen0, realized |-> realized0,
              positions |-> positions, fees |-> fees],
         r = [a EXCEPT !.balance = balance, !.frozen = frozen, !.realized = realized,
                       !.fees[offset] = fee, !.positions[side] = p]
  PROVE  r = [balance |-> balance, frozen |-> frozen, realized |-> realized,
              positions |-> [positions EXCEPT ![side] = p],
              fees |-> [fees EXCEPT ![offset] = fee]]
OBVIOUS

LEMMA AccountFields ==
  ASSUME NEW a \in Account
  PROVE  a = [balance |-> a.balance, frozen |-> a.frozen, realized |-> a.realized,
              positions |-> a.positions, fees |-> a.fees]
BY DEF Account

\* It adds up when the frozen margin moves with the margin of the position,
\* and the balance makes up for it.
LEMMA UpdateBalances ==
  ASSUME NEW deposit \in Int, NEW a \in Balanced(deposit), NEW side \in Sides, NEW offset \in Offsets,
         NEW p \in Positions, NEW balance \in Int, NEW frozen \in Nat, NEW realized \in Int,
         NEW fee \in Nat,
         frozen = (a.frozen - a.positions[side].margin) + p.margin,
         balance + frozen = deposit + realized - (IF offset = "OPEN" THEN fee ELSE a.fees["OPEN"])
  PROVE  Updated(a, balance, frozen, realized, offset, fee, side, p) \in Balanced(deposit)
<1>1. /\ a \in Account
      /\ a.frozen = a.positions["LONG"].margin + a.positions["SHORT"].margin
  BY DEF Balanced
<1>2. PICK b : b = a.positions OBVIOUS
<1>3. PICK f : f = a.fees OBVIOUS
<1>4. PICK ba : ba = a.balance OBVIOUS
<1>5. PICK fr : fr = a.frozen OBVIOUS
<1>6. PICK re : re = a.realized OBVIOUS
<1>7. a = [balance |-> ba, frozen |-> fr, realized |-> re, positions |-> b, fees |-> f]
  BY <1>1, <1>2, <1>3, <1>4, <1>5, <1>6, AccountFields
<1>8. PICK r : r = Updated(a, balance, frozen, realized, offset, fee, side, p) OBVIOUS
<1>9. r = [a EXCEPT !.balance = balance, !.frozen = frozen, !.realized = realized,
                    !.fees[offset] = fee, !.positions[side] = p]
  BY <1>8 DEF Updated
<1>10. PICK b2 : b2 = [b EXCEPT ![side] = p] OBVIOUS
<1>11. PICK f2 : f2 = [f EXCEPT ![offset] = fee] OBVIOUS
<1>12. r = [balance |-> balance, frozen |-> frozen, realized |-> realized,
            positions |-> b2, fees |-> f2]
  BY <1>7, <1>9, <1>10, <1>11, AccountRecord
<1>13. b \in [Sides -> Positions] /\ f \in [Offsets -> Nat] BY <1>1, <1>2, <1>3, AccountFacts
<1>14. b2 \in [Sides -> Positions] /\ f2 \in [Offsets -> Nat] BY <1>10, <1>11, <1>13
<1>15. r \in Account BY <1>12, <1>14 DEF Account
<1>16. r.frozen = r.positions["LONG"].margin + r.positions["SHORT"].margin
  <2>1. "LONG" \in Sides /\ "SHORT" \in Sides /\ (side = "LONG" \/ side = "SHORT") BY DEF Sides
  <2>2. PICK m \in Nat : m = p.margin BY DEF Positions
  <2>3. PICK long \in Nat : long = b["LONG"].margin BY <1>1, <1>2, <2>1, AccountFacts
  <2>4. PICK short \in Nat : short = b["SHORT"].margin BY <1>1, <1>2, <2>1, AccountFacts
  <2>5. a.frozen = long + short BY <1>1, <1>2, <2>3, <2>4
  <2>6. CASE side = "LONG"
    <3>1. b2["LONG"] = p /\ b2["SHORT"] = b["SHORT"] BY <1>10, <1>13, <2>1, <2>6
    <3>2. frozen = (long + short - long) + m BY <1>2, <2>2, <2>3, <2>5, <2>6
    <3>3. frozen = m + short BY <3>2
    <3> QED BY <1>12, <2>2, <2>4, <3>1, <3>3
  <2>7. CASE side = "SHORT"
    <3>1. b2["SHORT"] = p /\ b2["LONG"] = b["LONG"] BY <1>10, <1>13, <2>1, <2>7
    <3>2. frozen = (long + short - short) + m BY <1>2, <2>2, <2>4, <2>5, <2>7
    <3>3. frozen = long + m BY <3>2
    <3> QED BY <1>12, <2>2, <2>3, <3>1, <3>3
  <2> QED BY <2>1, <2>6, <2>7
<1>17. r.balance + r.frozen = deposit + r.realized - r.fees["OPEN"]
  <2>1. f2["OPEN"] = IF offset = "OPEN" THEN fee ELSE a.fees["OPEN"]
    BY <1>3, <1>11, <1>13 DEF Offsets
  <2> QED BY <1>12, <2>1
<1> QED BY <1>8, <1>15, <1>16, <1>17 DEF Balanced

LEMMA FeeNat == ASSUME NEW notional \in Nat PROVE Fee(notional) \in Nat
<1>1. PICK pct \in Nat : pct = FeePct BY ConstraintsAssumption
<1>2. notional * pct \in Nat BY ProductNat
<1>3. (notional * pct) \div 100 \in Nat BY <1>2
<1> QED BY <1>1, <1>3 DEF Fee

LEMMA AvailableNat == ASSUME NEW a \in Account PROVE Available(a) \in Nat
<1>1. PICK b \in Int : b = a.balance BY DEF Account
<1>2. \E x \in {b, 0} : \A y \in {b, 0} : x >= y OBVIOUS
<1>3. Max({b, 0}) \in {b, 0} /\ \A y \in {b, 0} : Max({b, 0}) >= y BY <1>2 DEF Max
<1>4. Max({b, 0}) \in Nat BY <1>3
<1> QED BY <1>1, <1>4 DEF Available

\* Opening a position of a quantity that is above zero.
LEMMA OpenedBalances ==
  ASSUME NEW deposit \in Int, NEW a \in Balanced(deposit), NEW side \in Sides,
         NEW lev \in Nat, lev > 0, NEW qty \in Nat, qty > 0, NEW price \in Nat
  PROVE  Opened(a, side, lev, qty, price) \in Balanced(deposit)
<1>0. /\ a \in Account
      /\ a.frozen = a.positions["LONG"].margin + a.positions["SHORT"].margin
      /\ a.balance + a.frozen = deposit + a.realized - a.fees["OPEN"]
  BY DEF Balanced
<1>1. /\ a.balance \in Int /\ a.frozen \in Nat /\ a.realized \in Int
      /\ a.positions \in [Sides -> Positions] /\ a.fees \in [Offsets -> Nat]
      /\ a.fees["OPEN"] \in Nat
  BY <1>0, AccountFacts
<1>2. PICK p : p = a.positions[side] OBVIOUS
<1>3. /\ p \in Positions /\ p.qty \in Nat /\ p.entry \in Nat /\ p.margin \in Nat
  BY <1>0, <1>2, AccountFacts
<1>4. PICK notional \in Nat : notional = qty * price BY ProductNat
<1>5. PICK margin \in Nat : margin = notional \div lev BY QuotientUnder
<1>6. PICK fee \in Nat : fee = Fee(notional) BY FeeNat
<1>7. PICK entry \in Nat : entry = (p.entry * p.qty + price * qty) \div (p.qty + qty)
  <2>1. PICK x \in Nat : x = p.entry * p.qty BY <1>3, ProductNat
  <2>2. PICK y \in Nat : y = price * qty BY ProductNat
  <2>3. PICK z \in Nat : z = p.qty + qty /\ z > 0 BY <1>3
  <2>4. x + y \in Nat OBVIOUS
  <2>5. (x + y) \div z \in Nat BY <2>3, <2>4, QuotientUnder
  <2> QED BY <2>1, <2>2, <2>3, <2>5
<1>8. PICK new : new = [qty |-> p.qty + qty, margin |-> p.margin + margin, leverage |-> lev,
                        entry |-> entry]
  OBVIOUS
<1>9. new \in Positions /\ new.margin = p.margin + margin
  BY <1>3, <1>8 DEF Positions
<1>10. PICK r : r = Opened(a, side, lev, qty, price) OBVIOUS
<1>11. r = [a EXCEPT !.balance = @ - margin - fee, !.frozen = @ + margin,
                     !.fees["OPEN"] = @ + fee, !.positions[side] = new]
  BY <1>2, <1>4, <1>5, <1>6, <1>7, <1>8, <1>10 DEF Opened
<1>12. PICK balance \in Int : balance = a.balance - margin - fee BY <1>1
<1>13. PICK frozen \in Nat : frozen = a.frozen + margin BY <1>1
<1>14. PICK paid \in Nat : paid = a.fees["OPEN"] + fee BY <1>1
<1>15. PICK realized \in Int : realized = a.realized BY <1>1
<1>16. r = Updated(a, balance, frozen, realized, "OPEN", paid, side, new)
  BY <1>0, <1>11, <1>12, <1>13, <1>14, <1>15 DEF Updated, Account
<1>17. frozen = (a.frozen - a.positions[side].margin) + new.margin
  BY <1>1, <1>2, <1>3, <1>9, <1>13
<1>18. balance + frozen = deposit + realized - paid
  BY <1>0, <1>1, <1>12, <1>13, <1>14, <1>15
<1>19. new \in Positions /\ "OPEN" \in Offsets BY <1>9 DEF Offsets
<1> QED BY <1>10, <1>16, <1>17, <1>18, <1>19, UpdateBalances

LEMMA OpenBalances ==
  ASSUME MarginTypeOK, NEW deposit \in Int, NEW a \in Balanced(deposit), NEW intent \in MarginIntents,
         NEW side \in Sides, NEW price \in Nat, price > 0
  PROVE  Open(a, intent, side, price) \in Balanced(deposit)
<1> DEFINE lev == LeverageOf(intent)
           wanted == IF intent.qty > 0 THEN intent.qty * price ELSE intent.amount * lev
           most == (Available(a) * lev * 100) \div (100 + FeePct * lev)
           qty == FloorToStep(Min({wanted, most}) \div price)
<1>1. Open(a, intent, side, price)
        = IF wanted < MinOrder \/ most <= 0 \/ qty < LotMin \/ qty <= 0
             \/ (qty * price) \div lev + Fee(qty * price) > Available(a)
          THEN a ELSE Opened(a, side, lev, qty, price)
  BY DEF Open
<1>2. lev \in Nat /\ lev > 0
  <2>1. intent.leverage \in Int /\ terms.leverage \in Nat \ {0} BY DEF MarginIntents, MarginTypeOK
  <2> QED BY <2>1 DEF LeverageOf
<1> HIDE DEF lev
<1>3. wanted \in Int
  <2>1. intent.qty \in Int /\ intent.amount \in Int BY DEF MarginIntents
  <2> QED BY <1>2, <2>1
<1>4. most \in Nat
  <2>1. PICK pct \in Nat : pct = FeePct BY ConstraintsAssumption
  <2>2. a \in Account BY DEF Balanced
  <2>3. PICK avail \in Nat : avail = Available(a) BY <2>2, AvailableNat
  <2>4. PICK x \in Nat : x = avail * lev BY <1>2, ProductNat
  <2>5. PICK y \in Nat : y = pct * lev BY <1>2, ProductNat
  <2>6. x * 100 \in Nat /\ 100 + y \in Nat /\ 100 + y > 0 OBVIOUS
  <2>7. (x * 100) \div (100 + y) \in Nat BY <2>6, QuotientUnder
  <2> QED BY <2>1, <2>3, <2>4, <2>5, <2>7
<1> HIDE DEF wanted, most
<1>5. ASSUME ~(wanted < MinOrder) PROVE qty \in Nat
  <2>1. wanted \in Nat
    <3>1. MinOrder \in Nat BY ConstraintsAssumption
    <3> QED BY <1>3, <1>5, <3>1
  <2>2. wanted \in Int /\ most \in Int BY <1>4, <2>1
  <2>3. Min({wanted, most}) = IF wanted <= most THEN wanted ELSE most BY <2>2, MinOfTwo
  <2>4. PICK least \in Nat : least = Min({wanted, most}) BY <1>4, <2>1, <2>3
  <2>5. least \div price \in Nat BY QuotientUnder
  <2> QED BY <2>4, <2>5, Floors
<1> HIDE DEF qty
<1>6. ASSUME ~(wanted < MinOrder), ~(qty <= 0)
      PROVE  Opened(a, side, lev, qty, price) \in Balanced(deposit)
  <2>1. qty \in Nat /\ qty > 0 BY <1>5, <1>6
  <2> QED BY <1>2, <2>1, OpenedBalances
<1> QED BY <1>1, <1>6

\* A part of an amount is not above the amount.
LEMMA PartOf ==
  ASSUME NEW m \in Nat, NEW q \in Nat, NEW b \in Nat, 0 < b, q <= b
  PROVE  (m * q) \div b \in Nat /\ (m * q) \div b <= m
<1>1. PICK x \in Nat : x = m * q BY ProductNat
<1>2. PICK y \in Nat : y = m * b BY ProductNat
<1>3. x <= y
  <2>1. m * q <= m * b BY ProductGrows
  <2> QED BY <1>1, <1>2, <2>1
<1>4. x \div b \in Nat /\ y \div b \in Nat BY QuotientUnder
<1>5. x \div b <= y \div b BY <1>3
<1>6. y \div b = m BY <1>2, QuotientExact
<1> QED BY <1>1, <1>4, <1>5, <1>6

\* Closing a part of a position, or all of it.
LEMMA ClosedBalances ==
  ASSUME NEW deposit \in Int, NEW a \in Balanced(deposit), NEW side \in Sides,
         NEW qty \in Nat, qty > 0, qty <= a.positions[side].qty, NEW price \in Nat
  PROVE  Closed(a, side, qty, price) \in Balanced(deposit)
<1>0. /\ a \in Account
      /\ a.frozen = a.positions["LONG"].margin + a.positions["SHORT"].margin
      /\ a.balance + a.frozen = deposit + a.realized - a.fees["OPEN"]
  BY DEF Balanced
<1>1. /\ a.balance \in Int /\ a.frozen \in Nat /\ a.realized \in Int
      /\ a.positions \in [Sides -> Positions] /\ a.fees \in [Offsets -> Nat]
      /\ a.fees["OPEN"] \in Nat /\ a.fees["CLOSE"] \in Nat
  BY <1>0, AccountFacts
<1>2. PICK p : p = a.positions[side] OBVIOUS
<1>3. /\ p \in Positions /\ p.qty \in Nat /\ p.entry \in Nat /\ p.margin \in Nat
      /\ p.leverage \in Nat \ {0}
      /\ p = [qty |-> p.qty, entry |-> p.entry, margin |-> p.margin, leverage |-> p.leverage]
  <2>1. p \in Positions BY <1>0, <1>2, AccountFacts
  <2> QED BY <2>1 DEF Positions
<1>4. qty <= p.qty /\ p.qty > 0 BY <1>2, <1>3
<1>5. PICK released \in Nat : released = (p.margin * qty) \div p.qty /\ released <= p.margin
  BY <1>3, <1>4, PartOf
<1>6. qty = p.qty => released = p.margin BY <1>3, <1>4, <1>5, QuotientExact
<1>7. PICK notional \in Nat : notional = qty * price BY ProductNat
<1>8. PICK fee \in Nat : fee = Fee(notional) BY FeeNat
<1>9. PICK net \in Int : net = Profit(side, p.entry, price, qty) - fee
  <2>1. PICK up \in Int : up = price - p.entry BY <1>3
  <2>2. PICK down \in Int : down = p.entry - price BY <1>3
  <2>3. up * qty \in Int /\ down * qty \in Int OBVIOUS
  <2>4. Profit(side, p.entry, price, qty) \in Int BY <2>1, <2>2, <2>3 DEF Profit
  <2> QED BY <2>4
<1>10. PICK rest : rest = IF qty = p.qty THEN NoPosition
                          ELSE [p EXCEPT !.qty = @ - qty, !.margin = @ - released]
  OBVIOUS
<1>11. rest \in Positions /\ rest.margin = p.margin - released
  <2>1. CASE qty = p.qty
    <3>1. rest = NoPosition BY <1>10, <2>1
    <3> QED BY <1>3, <1>5, <1>6, <2>1, <3>1 DEF Positions, NoPosition
  <2>2. CASE qty # p.qty
    <3>1. rest = [p EXCEPT !.qty = @ - qty, !.margin = @ - released] BY <1>10, <2>2
    <3>2. rest = [qty |-> p.qty - qty, entry |-> p.entry, margin |-> p.margin - released,
                  leverage |-> p.leverage]
      BY <1>3, <3>1
    <3>3. p.qty - qty \in Nat /\ p.qty - qty # 0 BY <1>3, <1>4, <2>2
    <3>4. p.margin - released \in Nat BY <1>3, <1>5
    <3> QED BY <1>3, <3>2, <3>3, <3>4 DEF Positions
  <2> QED BY <2>1, <2>2
<1>12. PICK r : r = Closed(a, side, qty, price) OBVIOUS
<1>13. r = [a EXCEPT !.balance = @ + released + net, !.frozen = @ - released,
                     !.realized = @ + net, !.fees["CLOSE"] = @ + fee, !.positions[side] = rest]
  BY <1>2, <1>5, <1>7, <1>8, <1>9, <1>10, <1>12 DEF Closed
<1>14. PICK balance \in Int : balance = a.balance + released + net BY <1>1
<1>15. PICK frozen \in Nat : frozen = a.frozen - released
  <2>1. "LONG" \in Sides /\ "SHORT" \in Sides /\ (side = "LONG" \/ side = "SHORT") BY DEF Sides
  <2>2. a.positions["LONG"].margin \in Nat /\ a.positions["SHORT"].margin \in Nat
    BY <1>0, <2>1, AccountFacts
  <2>3. p.margin <= a.frozen BY <1>0, <1>2, <2>1, <2>2
  <2> QED BY <1>1, <1>3, <1>5, <2>3
<1>16. PICK paid \in Nat : paid = a.fees["CLOSE"] + fee BY <1>1
<1>17. PICK realized \in Int : realized = a.realized + net BY <1>1
<1>18. r = Updated(a, balance, frozen, realized, "CLOSE", paid, side, rest)
  BY <1>0, <1>13, <1>14, <1>15, <1>16, <1>17 DEF Updated, Account
<1>19. frozen = (a.frozen - a.positions[side].margin) + rest.margin
  BY <1>1, <1>2, <1>3, <1>11, <1>15
<1>20. balance + frozen = deposit + realized - a.fees["OPEN"]
  BY <1>0, <1>1, <1>14, <1>15, <1>17
<1>21. rest \in Positions /\ "CLOSE" \in Offsets BY <1>11 DEF Offsets
<1> QED BY <1>12, <1>18, <1>19, <1>20, <1>21, UpdateBalances

LEMMA CloseBalances ==
  ASSUME NEW deposit \in Int, NEW a \in Balanced(deposit), NEW intent \in MarginIntents,
         NEW side \in Sides, NEW price \in Nat, price > 0
  PROVE  Close(a, intent, side, price) \in Balanced(deposit)
<1>1. a \in Account BY DEF Balanced
<1>2. PICK held \in Nat : held = a.positions[side].qty BY <1>1, AccountFacts
<1>3. intent.qty \in Int /\ intent.amount \in Int BY DEF MarginIntents
<1>4. PICK wanted : wanted = IF intent.qty > 0 THEN intent.qty
                             ELSE IF intent.amount > 0 THEN intent.amount \div price ELSE held
  OBVIOUS
<1>5. wanted \in Nat
  <2>1. intent.amount > 0 => intent.amount \div price \in Nat BY <1>3, QuotientUnder
  <2> QED BY <1>2, <1>3, <1>4, <2>1
<1>6. PICK least \in Nat : least = Min({wanted, held}) /\ least <= held
  <2>1. wanted \in Int /\ held \in Int BY <1>5
  <2>2. /\ Min({wanted, held}) <= held
        /\ Min({wanted, held}) = IF wanted <= held THEN wanted ELSE held
    BY <2>1, MinOfTwo
  <2> QED BY <1>5, <2>2
<1>7. PICK qty \in Nat : qty = FloorToStep(least) /\ qty <= least BY Floors
<1>8. PICK made : made = Closed(a, side, qty, price) OBVIOUS
<1>9. Close(a, intent, side, price) \in {a, made}
  BY <1>2, <1>4, <1>6, <1>7, <1>8 DEF Close
<1>10. qty <= 0 => Close(a, intent, side, price) = a
  BY <1>2, <1>4, <1>6, <1>7 DEF Close
<1>11. qty > 0 => made \in Balanced(deposit)
  <2>1. qty <= a.positions[side].qty BY <1>2, <1>6, <1>7
  <2> QED BY <1>8, <2>1, ClosedBalances
<1> QED BY <1>9, <1>10, <1>11

LEMMA ApplyMarginBalances ==
  ASSUME MarginTypeOK, NEW deposit \in Int, NEW a \in Balanced(deposit), NEW intent \in MarginIntents,
         NEW price \in Nat, price > 0
  PROVE  ApplyMargin(a, intent, price) \in Balanced(deposit)
<1>1. PICK side : side = SideOf(intent) OBVIOUS
<1>2. side \in Sides BY <1>1 DEF SideOf, MarginIntents, Sides
<1>3. Open(a, intent, side, price) \in Balanced(deposit) BY <1>2, OpenBalances
<1>4. Close(a, intent, side, price) \in Balanced(deposit) BY <1>2, CloseBalances
<1> QED BY <1>1, <1>3, <1>4 DEF ApplyMargin

MarginSteps(g, base, seq, price) ==
  g = [s \in SUBSET (DOMAIN seq) |->
         IF s = {} THEN base ELSE ApplyMargin(g[s \ {Max(s)}], seq[Max(s)], price)]

\* applyMarginIntents for the intents of a bar.
LEMMA IntentsBalance ==
  ASSUME MarginTypeOK, NEW seq \in Seq(MarginIntents), NEW price \in Nat, price > 0,
         NEW deposit \in Int, NEW base \in Balanced(deposit)
  PROVE  FoldLeft(LAMBDA a, intent : ApplyMargin(a, intent, price), base, seq) \in Balanced(deposit)
<1>1. PICK n \in Nat : n = Len(seq) /\ DOMAIN seq = 1..n OBVIOUS
<1>2. \A i \in 1..n : seq[i] \in MarginIntents BY <1>1
<1>3. PICK A : A = Balanced(deposit) OBVIOUS
<1>4. \A i \in 1..n, acc \in A : ApplyMargin(acc, seq[i], price) \in A BY <1>2, <1>3, ApplyMarginBalances
<1>5. PICK F : F = [p \in (1..n) \X A |-> ApplyMargin(p[2], seq[p[1]], price)] OBVIOUS
<1>6. F \in [(1..n) \X A -> A] /\ \A i \in 1..n, acc \in A : F[<<i, acc>>] = ApplyMargin(acc, seq[i], price)
  <2>1. \A p \in (1..n) \X A : ApplyMargin(p[2], seq[p[1]], price) \in A BY <1>4
  <2> QED BY <1>5, <2>1
<1>7. PICK g \in [SUBSET (1..n) -> A] : Steps(g, F, base, n) BY <1>3, <1>6, FoldExists
<1>8. MarginSteps(g, base, seq, price)
  <2>1. ASSUME NEW s \in SUBSET (1..n)
        PROVE  g[s] = IF s = {} THEN base ELSE ApplyMargin(g[s \ {Max(s)}], seq[Max(s)], price)
    <3>1. g[s] = IF s = {} THEN base ELSE F[<<Max(s), g[s \ {Max(s)}]>>] BY <1>7 DEF Steps
    <3>2. CASE s # {}
      <4>1. Max(s) \in 1..n /\ g[s \ {Max(s)}] \in A BY <1>7, <3>2, LastIndex
      <4> QED BY <1>6, <3>1, <3>2, <4>1
    <3> QED BY <3>1, <3>2
  <2> QED BY <1>1, <1>7, <2>1 DEF MarginSteps
<1>9. PICK iter : iter = CHOOSE h : MarginSteps(h, base, seq, price) OBVIOUS
<1>10. MarginSteps(iter, base, seq, price) BY <1>8, <1>9
<1>11. Follows(iter, F, base, n, A)
  <2>1. ASSUME NEW s \in SUBSET (1..n)
        PROVE  iter[s] = IF s = {} THEN base ELSE ApplyMargin(iter[s \ {Max(s)}], seq[Max(s)], price)
    BY <1>1, <1>10 DEF MarginSteps
  <2>2. ASSUME NEW s \in SUBSET (1..n), s # {}, iter[s \ {Max(s)}] \in A
        PROVE  iter[s] = F[<<Max(s), iter[s \ {Max(s)}]>>]
    <3>1. Max(s) \in 1..n BY <2>2, LastIndex
    <3> QED BY <1>6, <2>1, <2>2, <3>1
  <2>3. {} \in SUBSET (1..n) OBVIOUS
  <2>4. iter[{}] = base BY <2>1, <2>3
  <2> QED BY <2>2, <2>4 DEF Follows
<1>12. iter[1..n] \in A BY <1>3, <1>6, <1>11, FoldStays
<1>13. FoldLeft(LAMBDA a, intent : ApplyMargin(a, intent, price), base, seq) = iter[1..n]
  <2>1. FoldLeft(LAMBDA a, intent : ApplyMargin(a, intent, price), base, seq)
          = (CHOOSE h : MarginSteps(h, base, seq, price))[DOMAIN seq]
    BY DEF FoldLeft, MapThenFoldSet, MarginSteps
  <2> QED BY <1>1, <1>9, <2>1
<1> QED BY <1>3, <1>12, <1>13

-----------------------------------------------------------------------------
(***************************************************************************)
(* The inductive invariant of BacktestReplay.  To count the injections it  *)
(* says where the calendar stands: no month of the curve is later than the *)
(* one of the last injection, which has a point of its own.                *)
(***************************************************************************)

Calendar ==
  /\ IsFiniteSet(curve) /\ lastMonth <= month
  /\ bar = 0 => curve = {} /\ lastMonth = month /\ injected = 0 /\ last.price \in Prices \ {0}
  /\ bar > 0 /\ ~UseMargin =>
       /\ injected = MonthlyInject * (Cardinality(curve) - 1)
       /\ MonthlyInject > 0 => lastMonth \in curve /\ \A m \in curve : m <= lastMonth

ReplayIInv == ReplayTypeOK /\ LotsAreBuckets /\ MarginAddsUp /\ Calendar

LEMMA SpotAdds ==
  /\ SpotTypeOK /\ LotsAreBuckets => Adds(spot)
  /\ SpotTypeOK' /\ LotsAreBuckets' => Adds(spot')
BY DEF SpotTypeOK, LotsAreBuckets, Adds, Spot, OpenLot

LEMMA MarginBalanced ==
  /\ MarginTypeOK /\ MarginAddsUp => terms.deposit \in Int /\ account \in Balanced(terms.deposit)
  /\ account' \in Balanced(terms'.deposit) => MarginAddsUp'
BY DEF MarginTypeOK, MarginAddsUp, Balanced, Account

LEMMA ReplayInitHolds == ReplayInit => ReplayIInv
<1> SUFFICES ASSUME ReplayInit PROVE ReplayIInv OBVIOUS
<1>1. month \in Months /\ month \in Nat /\ bar = 0
  <2>1. Min(Months) \in Months
    <3>1. \E m \in Months : \A n \in Months : m <= n BY WindowAssumption, NatMin
    <3> QED BY <3>1 DEF Min
  <2> QED BY <2>1, WindowAssumption DEF ReplayInit
<1>2. PICK price \in Prices \ {0} : last.price = price BY DEF ReplayInit
<1>3. price \in Nat /\ price > 0 BY <1>2, WindowAssumption
<1>4. PICK seed \in Seeds : SpotInit(seed, month) BY DEF ReplayInit
<1>5. seed \in [LotTypes -> Nat] BY WindowAssumption
<1>6. PICK usdt \in Deposits : spot = [usdt |-> usdt, bucket |-> seed, lots |-> SeedLots(seed)]
  BY <1>4 DEF SpotInit
<1>7. usdt \in Nat BY ReplayAssumption
<1>8. injected = 0 /\ lastMonth = month /\ curve = {} BY <1>4 DEF SpotInit
<1>9. SpotTypeOK BY <1>1, <1>5, <1>6, <1>7, <1>8, SeedTotals DEF SpotTypeOK, OpenLot
<1>10. LotsAreBuckets BY <1>5, <1>6, SeedTotals DEF LotsAreBuckets
<1>11. PICK deposit \in Nat : deposit = IF spot.usdt > 0 THEN spot.usdt ELSE Equity(spot, last.price)
  <2>1. Equity(spot, price) \in Nat BY <1>3, <1>9, <1>10, SpotAdds, EquityNat
  <2>2. spot.usdt \in Nat BY <1>6, <1>7
  <2> QED BY <1>2, <2>1, <2>2
<1>12. PICK asked \in Terms : MarginInit(asked, deposit) BY <1>11 DEF ReplayInit
<1>13. /\ terms = [direction |-> asked.direction, leverage |-> asked.leverage, deposit |-> deposit]
       /\ account = [balance |-> deposit, frozen |-> 0, realized |-> 0,
                     positions |-> [side \in Sides |-> NoPosition],
                     fees |-> [offset \in Offsets |-> 0]]
  BY <1>12 DEF MarginInit
<1>14. MarginTypeOK
  <2>1. asked \in [direction : Directions, leverage : Nat \ {0}] BY WindowAssumption
  <2>2. NoPosition \in Positions BY DEF NoPosition, Positions
  <2> QED BY <1>13, <2>1, <2>2 DEF MarginTypeOK
<1>15. MarginAddsUp
  <2>1. "LONG" \in Sides /\ "SHORT" \in Sides /\ "OPEN" \in Offsets BY DEF Sides, Offsets
  <2> QED BY <1>13, <2>1 DEF MarginAddsUp, NoPosition
<1>16. Calendar BY <1>1, <1>2, <1>8, FS_EmptySet DEF Calendar
<1>17. bar \in 0..MaxBars BY <1>1, WindowAssumption
<1> QED BY <1>1, <1>9, <1>10, <1>14, <1>15, <1>16, <1>17 DEF ReplayIInv, ReplayTypeOK

\* A bar with a price: what flows in is all that the account can gain.
LEMMA FlowAdds ==
  ASSUME NEW s, Adds(s), NEW flow \in Nat, NEW output \in OutputsOf(SpotIntents),
         NEW price \in Nat, price > 0, NEW r, r = Replay([s EXCEPT !.usdt = @ + flow], output, price)
  PROVE  Adds(r) /\ Equity(r, price) <= Equity(s, price) + flow
<1>1. PICK s0 : s0 = [s EXCEPT !.usdt = @ + flow] OBVIOUS
<1>2. s \in Spot /\ s.usdt \in Nat BY SpotFacts DEF Adds
<1>3. /\ s0.usdt = s.usdt + flow /\ s0.bucket = s.bucket /\ s0.lots = s.lots
      /\ s0 = [usdt |-> s.usdt + flow, bucket |-> s.bucket, lots |-> s.lots]
  BY <1>1, <1>2 DEF Spot
<1>4. s0 \in Spot BY <1>2, <1>3 DEF Spot
<1>5. Adds(s0) BY <1>3, <1>4 DEF Adds
<1>6. Btc(s0) = Btc(s) BY <1>3 DEF Btc
<1>7. Equity(s0, price) = Equity(s, price) + flow
  <2>1. PICK worth \in Nat : worth = Btc(s) * price BY <1>2, SpotFacts, ProductNat
  <2> QED BY <1>2, <1>3, <1>6, <2>1 DEF Equity
<1>8. Adds(r) /\ Equity(r, price) <= Equity(s0, price) BY <1>1, <1>5, ReplayAdds
<1> QED BY <1>7, <1>8

\* The injections of a bar with a price.
LEMMA PaidIn ==
  ASSUME ReplayIInv, NEW price \in Prices, NEW output \in SpotOutputs, ~UseMargin,
         Bar(price, output), SpotBar(month', price, bar = 0, output), price > 0, UNCHANGED mvars
  PROVE  /\ injected' \in Nat /\ lastMonth' \in Nat /\ curve' \subseteq Nat
         /\ Calendar'
<1>1. /\ injected \in Nat /\ lastMonth \in Nat /\ curve \subseteq Nat /\ month \in Nat
      /\ IsFiniteSet(curve) /\ lastMonth <= month
      /\ bar \in Nat
      /\ bar = 0 => curve = {} /\ lastMonth = month /\ injected = 0
      /\ bar > 0 => /\ injected = MonthlyInject * (Cardinality(curve) - 1)
                    /\ MonthlyInject > 0 => lastMonth \in curve /\ \A m \in curve : m <= lastMonth
  BY WindowAssumption DEF ReplayIInv, ReplayTypeOK, SpotTypeOK, Calendar
<1>2. PICK inject \in Nat : inject = MonthlyInject BY ReplayAssumption
<1>3. PICK now \in Nat : now = month' /\ now >= month BY WindowAssumption DEF Bar
<1>4. bar' > 0 /\ (bar = 0 => now = month) BY <1>1, <1>3 DEF Bar
<1>5. PICK flow : flow = IF Injects(month', bar = 0) THEN MonthlyInject ELSE 0 OBVIOUS
<1>6. /\ injected' = injected + flow
      /\ lastMonth' = IF flow > 0 THEN now ELSE lastMonth
      /\ curve' = curve \cup {now}
  <2>1. ~(price <= 0) BY WindowAssumption
  <2> QED BY <1>3, <1>5, <2>1 DEF SpotBar
<1>7. flow = IF inject > 0 /\ bar # 0 /\ now # lastMonth THEN inject ELSE 0
  BY <1>2, <1>3, <1>5 DEF Injects
<1>8. PICK n \in Nat : n = Cardinality(curve) BY <1>1, FS_CardinalityType
<1>9. /\ IsFiniteSet(curve')
      /\ Cardinality(curve') = IF now \in curve THEN n ELSE n + 1
  BY <1>1, <1>6, <1>8, FS_AddElement
<1>10. /\ injected' = inject * (Cardinality(curve') - 1)
       /\ inject > 0 => lastMonth' \in curve' /\ \A m \in curve' : m <= lastMonth'
  <2>1. CASE bar = 0
    <3>1. n = 0 /\ curve = {} BY <1>1, <1>8, <2>1, FS_EmptySet
    <3>2. Cardinality(curve') - 1 = 0 BY <1>9, <3>1
    <3>3. injected' = 0 /\ lastMonth' = now /\ curve' = {now}
      BY <1>1, <1>4, <1>6, <1>7, <2>1, <3>1
    <3>4. inject * 0 = 0 OBVIOUS
    <3> QED BY <3>2, <3>3, <3>4
  <2>2. CASE bar # 0 /\ inject = 0
    <3>1. injected = 0 * (n - 1) BY <1>1, <1>2, <1>8, <2>2
    <3>2. \A k \in Int : 0 * k = 0 OBVIOUS
    <3>3. n - 1 \in Int /\ Cardinality(curve') - 1 \in Int BY <1>9
    <3>4. injected' = 0 BY <1>6, <1>7, <2>2, <3>1, <3>2, <3>3
    <3> QED BY <2>2, <3>2, <3>3, <3>4
  <2>3. CASE bar # 0 /\ inject > 0 /\ now = lastMonth
    <3>1. now \in curve /\ \A m \in curve : m <= lastMonth BY <1>1, <1>2, <2>3
    <3>2. curve' = curve /\ lastMonth' = lastMonth /\ injected' = injected
      BY <1>1, <1>6, <1>7, <2>3, <3>1
    <3> QED BY <1>1, <1>2, <2>3, <3>1, <3>2
  <2>4. CASE bar # 0 /\ inject > 0 /\ now # lastMonth
    <3>1. now > lastMonth BY <1>1, <1>3, <2>4
    <3>2. \A m \in curve : m <= lastMonth BY <1>1, <1>2, <2>4
    <3>3. now \notin curve BY <1>1, <3>1, <3>2
    <3>4. Cardinality(curve') - 1 = n BY <1>9, <3>3
    <3>5. injected' = inject * (n - 1) + inject /\ lastMonth' = now
      BY <1>1, <1>2, <1>6, <1>7, <1>8, <2>4
    <3>6. inject * (n - 1) + inject = inject * n OBVIOUS
    <3>7. \A m \in curve' : m <= now BY <1>1, <1>6, <3>1, <3>2
    <3> QED BY <1>6, <3>4, <3>5, <3>6, <3>7
  <2> QED BY <2>1, <2>2, <2>3, <2>4
<1>11. injected' \in Nat /\ lastMonth' \in Nat /\ curve' \subseteq Nat BY <1>1, <1>6, <1>7
<1>12. lastMonth' <= month' BY <1>1, <1>3, <1>6
<1> QED BY <1>2, <1>4, <1>9, <1>10, <1>11, <1>12 DEF Calendar

LEMMA SpotBarKeeps == ReplayIInv /\ ReplaySpotBar => ReplayIInv'
<1> SUFFICES ASSUME ReplayIInv, NEW price \in Prices, NEW output \in SpotOutputs, ~UseMargin,
                    Bar(price, output), SpotBar(month', price, bar = 0, output), UNCHANGED mvars
             PROVE  ReplayIInv'
  BY DEF ReplaySpotBar
<1>1. price \in Nat /\ output \in OutputsOf(SpotIntents) BY WindowAssumption
<1>2. SpotTypeOK /\ LotsAreBuckets /\ MarginTypeOK /\ MarginAddsUp /\ Calendar
      /\ bar \in 0..MaxBars /\ month \in Months
  BY DEF ReplayIInv, ReplayTypeOK
<1>3. bar' = bar + 1 /\ bar' \in 0..MaxBars /\ month' \in Months /\ month' >= month
  BY <1>2, WindowAssumption DEF Bar
<1>4. MarginTypeOK' /\ MarginAddsUp' BY <1>2 DEF mvars, MarginTypeOK, MarginAddsUp
<1>5. CASE price <= 0
  <2>1. UNCHANGED svars BY <1>5 DEF SpotBar
  <2>2. SpotTypeOK' /\ LotsAreBuckets' BY <1>2, <2>1 DEF svars, SpotTypeOK, LotsAreBuckets
  <2>3. bar # 0 BY <1>1, <1>2, <1>5 DEF Calendar, Bar
  <2>4. month \in Nat /\ month' \in Nat /\ lastMonth \in Nat BY <1>2, <1>3, WindowAssumption DEF SpotTypeOK
  <2>5. Calendar'
    <3>1. bar > 0 /\ bar' > 0 BY <1>2, <1>3, <2>3
    <3>2. lastMonth' <= month' BY <1>2, <1>3, <2>1, <2>4 DEF Calendar, svars
    <3> QED BY <1>2, <2>1, <3>1, <3>2 DEF Calendar, svars
  <2> QED BY <1>3, <1>4, <2>2, <2>5 DEF ReplayIInv, ReplayTypeOK
<1>6. CASE price > 0
  <2>1. PICK flow : flow = IF Injects(month', bar = 0) THEN MonthlyInject ELSE 0 OBVIOUS
  <2>2. flow \in Nat BY <2>1, ReplayAssumption
  <2>3. spot' = Replay([spot EXCEPT !.usdt = @ + flow], output, price)
    BY <1>1, <1>6, <2>1 DEF SpotBar
  <2>4. Adds(spot') BY <1>1, <1>2, <1>6, <2>2, <2>3, SpotAdds, FlowAdds
  <2>5. /\ spot' \in [usdt : Nat, bucket : [LotTypes -> Nat],
                      lots : Seq([type : LotTypes, amount : Nat \ {0}])]
        /\ LotsAreBuckets'
    BY <2>4 DEF Adds, Spot, OpenLot, LotsAreBuckets
  <2>6. injected' \in Nat /\ lastMonth' \in Nat /\ curve' \subseteq Nat /\ Calendar'
    BY <1>6, PaidIn
  <2> QED BY <1>3, <1>4, <2>5, <2>6 DEF ReplayIInv, ReplayTypeOK, SpotTypeOK
<1> QED BY <1>1, <1>5, <1>6

LEMMA MarginBarKeeps == ReplayIInv /\ ReplayMarginBar => ReplayIInv'
<1> SUFFICES ASSUME ReplayIInv, NEW price \in Prices, NEW output \in MarginOutputs, UseMargin,
                    Bar(price, output), MarginBar(price, output), UNCHANGED svars
             PROVE  ReplayIInv'
  BY DEF ReplayMarginBar
<1>1. price \in Nat /\ output \in OutputsOf(MarginIntents) BY WindowAssumption
<1>2. SpotTypeOK /\ LotsAreBuckets /\ MarginTypeOK /\ MarginAddsUp /\ Calendar
      /\ bar \in 0..MaxBars /\ month \in Months
  BY DEF ReplayIInv, ReplayTypeOK
<1>3. bar' = bar + 1 /\ bar' \in 0..MaxBars /\ month' \in Months /\ month' >= month
  BY <1>2, WindowAssumption DEF Bar
<1>4. SpotTypeOK' /\ LotsAreBuckets' BY <1>2 DEF svars, SpotTypeOK, LotsAreBuckets
<1>5. terms' = terms BY DEF MarginBar
<1>6. Calendar'
  <2>1. bar' # 0 /\ UseMargin' BY <1>2, <1>3, <1>5 DEF UseMargin
  <2>2. month \in Nat /\ month' \in Nat /\ lastMonth \in Nat BY <1>2, <1>3, WindowAssumption DEF SpotTypeOK
  <2>3. lastMonth' <= month' BY <1>2, <1>3, <2>2 DEF Calendar, svars
  <2> QED BY <1>2, <2>1, <2>3 DEF Calendar, svars
<1>7. terms.deposit \in Int /\ account \in Balanced(terms.deposit) BY <1>2, MarginBalanced
<1>8. account' \in Balanced(terms.deposit)
  <2>1. CASE price <= 0 BY <1>7, <2>1 DEF MarginBar
  <2>2. CASE price > 0
    <3>1. PICK intents : intents = output.macro \o output.micro OBVIOUS
    <3>2. intents \in Seq(MarginIntents) BY <1>1, <3>1 DEF OutputsOf
    <3>3. PICK base : base = account OBVIOUS
    <3>4. PICK deposit \in Int : deposit = terms.deposit BY <1>7
    <3>5. base \in Balanced(deposit) BY <1>7, <3>3, <3>4
    <3>6. FoldLeft(LAMBDA a, intent : ApplyMargin(a, intent, price), base, intents) \in Balanced(deposit)
      BY <1>1, <1>2, <2>2, <3>2, <3>5, IntentsBalance
    <3>7. account' = FoldLeft(LAMBDA a, intent : ApplyMargin(a, intent, price), base, intents)
      <4>1. ~(price <= 0) BY <1>1, <2>2
      <4>2. account' = FoldLeft(LAMBDA a, intent : ApplyMargin(a, intent, price), account,
                                output.macro \o output.micro)
        BY <4>1 DEF MarginBar
      <4> QED BY <3>1, <3>3, <4>2
    <3> QED BY <3>4, <3>6, <3>7
  <2> QED BY <1>1, <2>1, <2>2
<1>9. MarginTypeOK' /\ MarginAddsUp'
  <2>1. MarginAddsUp' BY <1>5, <1>8, MarginBalanced
  <2>2. account' \in Account BY <1>8 DEF Balanced
  <2> QED BY <1>2, <1>5, <2>1, <2>2 DEF MarginTypeOK, Account
<1> QED BY <1>3, <1>4, <1>6, <1>9 DEF ReplayIInv, ReplayTypeOK

LEMMA ReplayInductive == ReplaySpec => []ReplayIInv
<1>1. ReplayIInv /\ [ReplayNext]_replayVars => ReplayIInv'
  <2>1. ASSUME ReplayIInv, UNCHANGED replayVars PROVE ReplayIInv'
    BY <2>1 DEF ReplayIInv, ReplayTypeOK, SpotTypeOK, MarginTypeOK, LotsAreBuckets, MarginAddsUp,
                Calendar, UseMargin, replayVars, svars, mvars
  <2> QED BY <2>1, SpotBarKeeps, MarginBarKeeps DEF ReplayNext
<1> QED BY <1>1, ReplayInitHolds, PTL DEF ReplaySpec

-----------------------------------------------------------------------------
(***************************************************************************)
(* The properties of BacktestReplay.                                       *)
(***************************************************************************)

\* The spot ledger and the margin account keep their types: no lot, bucket,
\* cash amount or frozen margin of a replay is ever negative.
THEOREM ReplayTypes == ReplaySpec => []ReplayTypeOK
<1>1. ReplayIInv => ReplayTypeOK BY DEF ReplayIInv
<1> QED BY <1>1, ReplayInductive, PTL

\* The buckets are the sums of the lots after any bars, whatever Step() asks
\* for (applyLedgerConversions, applyBuy, applySell, consumeLots).
THEOREM ReplayedLotsAdd == ReplaySpec => []LotsAreBuckets
<1>1. ReplayIInv => LotsAreBuckets BY DEF ReplayIInv
<1> QED BY <1>1, ReplayInductive, PTL

\* A bar adds at most its injection to what the account is worth.
THEOREM NothingGained == ReplaySpec => NoMoneyFromNothing
<1>1. ASSUME ReplayIInv, ReplaySpotBar
      PROVE  Equity(spot', last'.price) <= Equity(spot, last'.price) + (injected' - injected)
  <2>1. PICK price \in Prices, output \in SpotOutputs :
          Bar(price, output) /\ SpotBar(month', price, bar = 0, output)
    BY <1>1 DEF ReplaySpotBar
  <2>2. price \in Nat /\ output \in OutputsOf(SpotIntents) BY WindowAssumption
  <2>3. last'.price = price BY <2>1 DEF Bar
  <2>4. Adds(spot) /\ injected \in Nat
    BY <1>1, SpotAdds DEF ReplayIInv, ReplayTypeOK, SpotTypeOK
  <2>5. PICK worth \in Nat : worth = Equity(spot, price) BY <2>2, <2>4, EquityNat
  <2>6. CASE price <= 0
    <3>1. spot' = spot /\ injected' = injected BY <2>1, <2>6 DEF SpotBar, svars
    <3> QED BY <2>3, <2>4, <2>5, <3>1
  <2>7. CASE price > 0
    <3>1. PICK flow : flow = IF Injects(month', bar = 0) THEN MonthlyInject ELSE 0 OBVIOUS
    <3>2. flow \in Nat BY <3>1, ReplayAssumption
    <3>3. /\ spot' = Replay([spot EXCEPT !.usdt = @ + flow], output, price)
          /\ injected' = injected + flow
      BY <2>1, <2>2, <2>7, <3>1 DEF SpotBar
    <3>4. Equity(spot', price) <= Equity(spot, price) + flow
      BY <2>2, <2>4, <2>7, <3>2, <3>3, FlowAdds
    <3>5. injected' - injected = flow BY <2>4, <3>2, <3>3
    <3> QED BY <2>3, <3>4, <3>5
  <2> QED BY <2>2, <2>6, <2>7
<1>2. ReplayIInv /\ [ReplayNext]_replayVars =>
        [ReplaySpotBar =>
           Equity(spot', last'.price)
             <= Equity(spot, last'.price) + (injected' - injected)]_replayVars
  BY <1>1
<1> QED BY <1>2, ReplayInductive, PTL DEF ReplaySpec, NoMoneyFromNothing

\* Every month after the first that has an evaluated bar is paid in once.
THEOREM PaidInOnce == ReplaySpec => []InjectedOncePerMonth
<1>1. ReplayIInv => InjectedOncePerMonth BY DEF ReplayIInv, Calendar, InjectedOncePerMonth
<1> QED BY <1>1, ReplayInductive, PTL

\* Frozen margin, balance, profit and fees of a margin account add up to its
\* deposit, through openings and partial closings on either side.
THEOREM MarginAccounts == ReplaySpec => []MarginAddsUp
<1>1. ReplayIInv => MarginAddsUp BY DEF ReplayIInv
<1> QED BY <1>1, ReplayInductive, PTL
=============================================================================
