------------------------- MODULE EvolutionLoopProofs -------------------------
(***************************************************************************)
(* First what the repair of a chromosome does: whatever sampling, mutation *)
(* and crossover leave, a repaired one is sound, and a sound one is left   *)
(* as it is, so the chromosome that is scored, the one that is stored and  *)
(* the one that Step() reads, each clamped anew, are the same.             *)
(*                                                                         *)
(* Then the run of the engine, for any population, any number of workers,  *)
(* any scores and any limits: a population is ranked by its own results,   *)
(* the challenger is the best gene of the whole run, and every ramp has    *)
(* taken the generations that the patience says.                           *)
(***************************************************************************)
EXTENDS EvolutionLoop, FiniteSetTheorems, TLAPS

-----------------------------------------------------------------------------
(***************************************************************************)
(* The repair of a chromosome.                                             *)
(***************************************************************************)

Bounds == {bound \in [min : Int, max : Int] : bound.min <= bound.max}

\* No field has its least value above its greatest.
LEMMA HardBoundsAreBounds ==
  /\ FastN \in Bounds /\ MidN \in Bounds /\ LongN \in Bounds /\ MomentumN \in Bounds
  /\ VolShortN \in Bounds /\ VolLongN \in Bounds /\ Reserve \in Bounds
  /\ WeightMin \in Bounds /\ WeightMax \in Bounds
BY DEF Bounds, FastN, MidN, LongN, MomentumN, VolShortN, VolLongN, Reserve, WeightMin,
       WeightMax, One

\* Clipping brings any value between two bounds, and leaves it there.
LEMMA ClipIs ==
  ASSUME NEW v \in Int, NEW bound \in Bounds
  PROVE  /\ Clip(v, bound) \in Within(bound)
         /\ v \in Within(bound) => Clip(v, bound) = v
BY DEF Clip, Within, Bounds, Least, Greatest

\* What is between two bounds is an integer.
LEMMA WithinIsInt ==
  ASSUME NEW bound \in Bounds, NEW v \in Within(bound)
  PROVE  v \in Int
BY DEF Within, Bounds

\* Every field is clipped to its own bounds.
LEMMA ClampedIsBounded ==
  ASSUME NEW c \in RawChromosome
  PROVE  ClampByKey(c) \in Bounded
<1>1. /\ c.fast \in Int /\ c.mid \in Int /\ c.long \in Int /\ c.momentum \in Int
      /\ c.volShort \in Int /\ c.volLong \in Int /\ c.reserve \in Int
      /\ c.weightMin \in Int /\ c.weightMax \in Int
  BY DEF RawChromosome
<1>2. /\ Clip(c.fast, FastN) \in Within(FastN) /\ Clip(c.mid, MidN) \in Within(MidN)
      /\ Clip(c.long, LongN) \in Within(LongN)
      /\ Clip(c.momentum, MomentumN) \in Within(MomentumN)
      /\ Clip(c.volShort, VolShortN) \in Within(VolShortN)
      /\ Clip(c.volLong, VolLongN) \in Within(VolLongN)
      /\ Clip(c.reserve, Reserve) \in Within(Reserve)
      /\ Clip(c.weightMin, WeightMin) \in Within(WeightMin)
      /\ Clip(c.weightMax, WeightMax) \in Within(WeightMax)
  BY <1>1, HardBoundsAreBounds, ClipIs, Zenon
<1> QED BY <1>2 DEF ClampByKey, Bounded

\* The mid window is within its bounds and not below twice the fast one.
LEMMA MidWindow ==
  ASSUME NEW fast \in Within(FastN), NEW mid \in Within(MidN)
  PROVE  MidOf(fast, mid) \in Within(MidN) /\ 2 * fast <= MidOf(fast, mid)
<1> DEFINE g == Greatest(mid, 2 * fast)
<1>1. g \in Within(MidN) /\ 2 * fast <= g
  BY DEF Greatest, Within, FastN, MidN
<1> HIDE DEF g
<1>2. Clip(g, MidN) = g
  BY <1>1, HardBoundsAreBounds, ClipIs, WithinIsInt, Zenon
<1> QED BY <1>1, <1>2 DEF MidOf, g

\* So is the long window, of the mid one.
LEMMA LongWindow ==
  ASSUME NEW mid \in Within(MidN), NEW long \in Within(LongN)
  PROVE  LongOf(mid, long) \in Within(LongN) /\ 2 * mid <= LongOf(mid, long)
<1> DEFINE g == Greatest(long, 2 * mid)
<1>1. g \in Within(LongN) /\ 2 * mid <= g
  BY DEF Greatest, Within, MidN, LongN
<1> HIDE DEF g
<1>2. Clip(g, LongN) = g
  BY <1>1, HardBoundsAreBounds, ClipIs, WithinIsInt, Zenon
<1> QED BY <1>1, <1>2 DEF LongOf, g

\* The momentum window stays between the fast and the long one.
LEMMA MomentumWindow ==
  ASSUME NEW fast \in Within(FastN), NEW long \in Within(LongN),
         NEW momentum \in Within(MomentumN), fast <= long
  PROVE  /\ MomentumOf(fast, long, momentum) \in Within(MomentumN)
         /\ fast <= MomentumOf(fast, long, momentum)
         /\ MomentumOf(fast, long, momentum) <= long
<1> DEFINE p == Least(Greatest(momentum, fast), long)
<1>1. p \in Within(MomentumN) /\ fast <= p /\ p <= long
  BY DEF Least, Greatest, Within, FastN, LongN, MomentumN
<1> HIDE DEF p
<1>2. Clip(p, MomentumN) = p
  BY <1>1, HardBoundsAreBounds, ClipIs, WithinIsInt, Zenon
<1> QED BY <1>1, <1>2 DEF MomentumOf, p

\* The long volatility window is not below three short ones.
LEMMA VolWindow ==
  ASSUME NEW short \in Within(VolShortN), NEW long \in Within(VolLongN)
  PROVE  VolLongOf(short, long) \in Within(VolLongN) /\ 3 * short <= VolLongOf(short, long)
<1> DEFINE g == Greatest(long, 3 * short)
<1>1. g \in Within(VolLongN) /\ 3 * short <= g
  BY DEF Greatest, Within, VolShortN, VolLongN
<1> HIDE DEF g
<1>2. Clip(g, VolLongN) = g
  BY <1>1, HardBoundsAreBounds, ClipIs, WithinIsInt, Zenon
<1> QED BY <1>1, <1>2 DEF VolLongOf, g

\* The repaired weights are in order and leave the reserve: they are the
\* lower one as it is, and the upper one cut by the reserve.
LEMMA Weights ==
  ASSUME NEW reserve \in Within(Reserve), NEW low \in Within(WeightMin),
         NEW high \in Within(WeightMax)
  PROVE  /\ WeightsOf(reserve, low, high) =
              [low |-> low, high |-> Least(high, One - reserve)]
         /\ Least(high, One - reserve) \in Within(WeightMax)
         /\ low < Least(high, One - reserve)
         /\ Least(high, One - reserve) + reserve <= One
<1> DEFINE top == Least(high, One - reserve)
<1>1. /\ top \in Within(WeightMax) /\ top + reserve <= One /\ low < top
      /\ low \in Int /\ top \in Int /\ low <= One /\ top <= One /\ 0 <= low
  BY DEF Least, Within, Reserve, WeightMin, WeightMax, One
<1> HIDE DEF top
<1>2. Clip(low, [min |-> 0, max |-> One]) = low
  BY <1>1 DEF Clip, Least, Greatest, One
<1>3. Clip(top, [min |-> low + 1, max |-> One]) = top
  BY <1>1 DEF Clip, Least, Greatest, One
<1>4. ~(low >= top)
  BY <1>1
<1>5. WeightsOf(reserve, low, high) = [low |-> low, high |-> top]
  BY <1>2, <1>3, <1>4 DEF WeightsOf, top
<1> QED BY <1>1, <1>5 DEF top

\* ClampChromosome repairs every chromosome, whatever its fields are
\* (docs/strategy-math-engine.md, 7.3).
THEOREM RepairIsSound ==
  ASSUME NEW c \in RawChromosome
  PROVE  IsSound(ClampChromosome(c))
<1> DEFINE k == ClampByKey(c)
           m == MidOf(k.fast, k.mid)
           l == LongOf(m, k.long)
           p == MomentumOf(k.fast, l, k.momentum)
           v == VolLongOf(k.volShort, k.volLong)
           w == WeightsOf(k.reserve, k.weightMin, k.weightMax)
           top == Least(k.weightMax, One - k.reserve)
<1>1. k \in Bounded
  BY ClampedIsBounded
<1>2. ClampChromosome(c) =
        [fast |-> k.fast, mid |-> m, long |-> l, momentum |-> p,
         volShort |-> k.volShort, volLong |-> v,
         reserve |-> k.reserve, weightMin |-> w.low, weightMax |-> w.high]
  BY DEF ClampChromosome
<1> HIDE DEF k
<1>3. /\ k.fast \in Within(FastN) /\ k.mid \in Within(MidN) /\ k.long \in Within(LongN)
      /\ k.momentum \in Within(MomentumN) /\ k.volShort \in Within(VolShortN)
      /\ k.volLong \in Within(VolLongN) /\ k.reserve \in Within(Reserve)
      /\ k.weightMin \in Within(WeightMin) /\ k.weightMax \in Within(WeightMax)
  BY <1>1 DEF Bounded
<1>4. m \in Within(MidN) /\ 2 * k.fast <= m
  BY <1>3, MidWindow, Zenon
<1> HIDE DEF m
<1>5. l \in Within(LongN) /\ 2 * m <= l
  BY <1>3, <1>4, LongWindow, Zenon
<1> HIDE DEF l
<1>6. k.fast <= l
  BY <1>3, <1>4, <1>5 DEF Within, FastN, MidN, LongN
<1>7. p \in Within(MomentumN) /\ k.fast <= p /\ p <= l
  BY <1>3, <1>5, <1>6, MomentumWindow, Zenon
<1> HIDE DEF p
<1>8. v \in Within(VolLongN) /\ 3 * k.volShort <= v
  BY <1>3, VolWindow, Zenon
<1> HIDE DEF v
<1>9. /\ w = [low |-> k.weightMin, high |-> top] /\ top \in Within(WeightMax)
      /\ k.weightMin < top /\ top + k.reserve <= One
  BY <1>3, Weights, Zenon
<1> HIDE DEF w, top
<1>10. w.low = k.weightMin /\ w.high = top
  BY <1>9
<1> QED BY <1>2, <1>3, <1>4, <1>5, <1>7, <1>8, <1>9, <1>10 DEF IsSound, Bounded

\* A sound chromosome is not touched, ...
THEOREM SoundIsKept ==
  ASSUME NEW c \in RawChromosome, IsSound(c)
  PROVE  ClampChromosome(c) = c
<1>1. /\ c.fast \in Within(FastN) /\ c.mid \in Within(MidN) /\ c.long \in Within(LongN)
      /\ c.momentum \in Within(MomentumN) /\ c.volShort \in Within(VolShortN)
      /\ c.volLong \in Within(VolLongN) /\ c.reserve \in Within(Reserve)
      /\ c.weightMin \in Within(WeightMin) /\ c.weightMax \in Within(WeightMax)
  BY DEF IsSound, Bounded
<1>2. /\ c = [fast |-> c.fast, mid |-> c.mid, long |-> c.long, momentum |-> c.momentum,
              volShort |-> c.volShort, volLong |-> c.volLong,
              reserve |-> c.reserve, weightMin |-> c.weightMin, weightMax |-> c.weightMax]
      /\ c.fast \in Int /\ c.mid \in Int /\ c.long \in Int /\ c.momentum \in Int
      /\ c.volShort \in Int /\ c.volLong \in Int /\ c.reserve \in Int
      /\ c.weightMin \in Int /\ c.weightMax \in Int
  BY DEF RawChromosome
<1>3. /\ Clip(c.fast, FastN) = c.fast /\ Clip(c.mid, MidN) = c.mid
      /\ Clip(c.long, LongN) = c.long /\ Clip(c.momentum, MomentumN) = c.momentum
      /\ Clip(c.volShort, VolShortN) = c.volShort /\ Clip(c.volLong, VolLongN) = c.volLong
      /\ Clip(c.reserve, Reserve) = c.reserve /\ Clip(c.weightMin, WeightMin) = c.weightMin
      /\ Clip(c.weightMax, WeightMax) = c.weightMax
  BY <1>1, <1>2, HardBoundsAreBounds, ClipIs, Zenon
<1>4. ClampByKey(c) = c
  BY <1>2, <1>3 DEF ClampByKey
<1>5. Greatest(c.mid, 2 * c.fast) = c.mid /\ Greatest(c.long, 2 * c.mid) = c.long
  <2>1. 2 * c.fast <= c.mid /\ 2 * c.mid <= c.long
    BY DEF IsSound
  <2> QED BY <1>2, <2>1 DEF Greatest
<1>6. /\ Greatest(c.momentum, c.fast) = c.momentum /\ Least(c.momentum, c.long) = c.momentum
      /\ Greatest(c.volLong, 3 * c.volShort) = c.volLong
  <2>1. c.fast <= c.momentum /\ c.momentum <= c.long /\ 3 * c.volShort <= c.volLong
    BY DEF IsSound
  <2>2. Greatest(c.volLong, 3 * c.volShort) = c.volLong
    BY <1>2, <2>1 DEF Greatest
  <2>3. Greatest(c.momentum, c.fast) = c.momentum
    BY <1>2, <2>1 DEF Greatest
  <2>4. Least(c.momentum, c.long) = c.momentum
    BY <1>2, <2>1 DEF Least
  <2> QED BY <2>2, <2>3, <2>4
<1>7. /\ MidOf(c.fast, c.mid) = c.mid /\ LongOf(c.mid, c.long) = c.long
      /\ MomentumOf(c.fast, c.long, c.momentum) = c.momentum
      /\ VolLongOf(c.volShort, c.volLong) = c.volLong
  BY <1>3, <1>5, <1>6, Zenon DEF MidOf, LongOf, MomentumOf, VolLongOf
<1>8. Least(c.weightMax, One - c.reserve) = c.weightMax
  BY <1>2 DEF IsSound, Least, One
<1>9. WeightsOf(c.reserve, c.weightMin, c.weightMax) =
        [low |-> c.weightMin, high |-> c.weightMax]
  BY <1>1, <1>8, Weights, Zenon
<1> QED BY <1>2, <1>4, <1>7, <1>9 DEF ClampChromosome

\* ... so the clamping of Fingerprint, Evaluate, EncodeResult, ParseParamPack
\* and Step changes nothing that was clamped before.
THEOREM RepairedOnce ==
  ASSUME NEW c \in RawChromosome
  PROVE  ClampChromosome(ClampChromosome(c)) = ClampChromosome(c)
<1> DEFINE r == ClampChromosome(c)
<1>1. IsSound(r)
  BY RepairIsSound
<1>2. r \in RawChromosome
  <2> HIDE DEF r
  <2>1. r \in Bounded
    BY <1>1 DEF IsSound
  <2>2. /\ Within(FastN) \subseteq Int /\ Within(MidN) \subseteq Int
        /\ Within(LongN) \subseteq Int /\ Within(MomentumN) \subseteq Int
        /\ Within(VolShortN) \subseteq Int /\ Within(VolLongN) \subseteq Int
        /\ Within(Reserve) \subseteq Int /\ Within(WeightMin) \subseteq Int
        /\ Within(WeightMax) \subseteq Int
    BY HardBoundsAreBounds, WithinIsInt, Zenon
  <2> QED BY <2>1, <2>2 DEF Bounded, RawChromosome
<1> QED BY <1>1, <1>2, SoundIsKept, Zenon

-----------------------------------------------------------------------------
(***************************************************************************)
(* Genes and ranks.                                                        *)
(***************************************************************************)

\* A gene is sound, it is left as it is when it is clamped again, and it has
\* a score.
LEMMA GenesAreSound ==
  ASSUME NEW gene \in Genes
  PROVE  /\ IsSound(gene) /\ ClampChromosome(gene) = gene /\ Score(gene) \in Int
<1>1. PICK raw \in Raw : gene = ClampChromosome(raw)
  BY DEF Genes
<1>2. raw \in RawChromosome /\ Score(gene) \in Int
  BY <1>1, EngineAssumption
<1> QED BY <1>1, <1>2, RepairIsSound, RepairedOnce

\* The indices that come before one.
Before(i) == {j \in Indices : IsBefore(j, i)}

LEMMA IndicesAreFinite ==
  IsFiniteSet(Indices) /\ Cardinality(Indices) = PopSize /\ 1 \in Indices
BY EngineAssumption, FS_Interval DEF Indices

\* By fitness and then by index is a strict total order.
LEMMA OrderIsTotal ==
  ASSUME fitness \in [Indices -> Int]
  PROVE  /\ \A i \in Indices : ~IsBefore(i, i)
         /\ \A i, j \in Indices : i # j => IsBefore(i, j) \/ IsBefore(j, i)
         /\ \A i, j, k \in Indices : IsBefore(i, j) /\ IsBefore(j, k) => IsBefore(i, k)
<1>1. \A i \in Indices : i \in Int /\ fitness[i] \in Int
  BY EngineAssumption DEF Indices
<1> QED BY <1>1 DEF IsBefore

\* Fewer than all come before an index, and fewer before the first of two.
LEMMA BeforeIsCounted ==
  ASSUME fitness \in [Indices -> Int], NEW i \in Indices
  PROVE  /\ IsFiniteSet(Before(i)) /\ Cardinality(Before(i)) \in 0..(PopSize - 1)
         /\ \A j \in Indices : IsBefore(i, j) => Cardinality(Before(i)) # Cardinality(Before(j))
<1>1. \A j \in Indices : Before(j) \in SUBSET Indices /\ IsFiniteSet(Before(j))
  BY IndicesAreFinite, FS_Subset DEF Before
<1>2. Before(i) # Indices
  BY OrderIsTotal DEF Before
<1>3. Cardinality(Before(i)) \in Nat /\ Cardinality(Before(i)) <= PopSize
      /\ Cardinality(Before(i)) # PopSize
  BY <1>1, <1>2, IndicesAreFinite, FS_Subset, FS_CardinalityType
<1>4. ASSUME NEW j \in Indices, IsBefore(i, j)
      PROVE  Cardinality(Before(i)) # Cardinality(Before(j))
  <2>1. Before(i) \in SUBSET Before(j) /\ i \in Before(j) /\ i \notin Before(i)
    BY <1>4, OrderIsTotal DEF Before
  <2> QED BY <1>1, <2>1, FS_Subset
<1> QED BY <1>1, <1>3, <1>4, EngineAssumption

\* Every rank is some index's: as many indices come before it as the rank
\* says.
LEMMA RanksExist ==
  ASSUME fitness \in [Indices -> Int], NEW n \in Indices
  PROVE  Ranks[n] \in Indices /\ Cardinality(Before(Ranks[n])) = n - 1
<1> DEFINE f == [i \in Indices |-> Cardinality(Before(i)) + 1]
<1>1. f \in [Indices -> Indices]
  BY BeforeIsCounted, EngineAssumption DEF Indices
<1>2. ASSUME NEW i \in Indices, NEW j \in Indices, f[i] = f[j]
      PROVE  i = j
  <2>1. Cardinality(Before(i)) \in Int /\ Cardinality(Before(j)) \in Int
    BY BeforeIsCounted
  <2>2. Cardinality(Before(i)) = Cardinality(Before(j))
    BY <1>2, <2>1
  <2> QED BY <2>2, BeforeIsCounted, OrderIsTotal
<1>3. f \in Surjection(Indices, Indices)
  <2> HIDE DEF f
  <2>1. f \in Injection(Indices, Indices)
    BY <1>1, <1>2 DEF Injection, IsInjective
  <2> QED BY <2>1, IndicesAreFinite, FS_Injection
<1>4. PICK i \in Indices : f[i] = n
  BY <1>3 DEF Surjection
<1>5. Cardinality(Before(i)) = n - 1
  <2>1. n \in Int /\ Cardinality(Before(i)) \in Int
    BY BeforeIsCounted, EngineAssumption DEF Indices
  <2> QED BY <1>4, <2>1
<1>6. Ranks[n] = CHOOSE k \in Indices : Cardinality(Before(k)) = n - 1
  BY DEF Ranks, Before
<1> QED BY <1>5, <1>6

\* The first of the ranking has the greatest fitness.
LEMMA FirstIsBest ==
  ASSUME fitness \in [Indices -> Int]
  PROVE  /\ Ranks[1] \in Indices
         /\ \A i \in Indices : fitness[i] <= fitness[Ranks[1]]
<1>1. Ranks[1] \in Indices /\ Cardinality(Before(Ranks[1])) = 1 - 1
  BY RanksExist, IndicesAreFinite
<1>2. Before(Ranks[1]) = {}
  BY <1>1, BeforeIsCounted, FS_EmptySet
<1>3. ASSUME NEW i \in Indices PROVE ~IsBefore(i, Ranks[1])
  BY <1>2 DEF Before
<1>4. \A i \in Indices : i \in Int /\ fitness[i] \in Int
  BY EngineAssumption DEF Indices
<1> QED BY <1>1, <1>3, <1>4 DEF IsBefore
-----------------------------------------------------------------------------
(***************************************************************************)
(* Types.                                                                  *)
(***************************************************************************)

\* While the loop goes on, its patience is not used up.
Running == phase \in {"evaluate", "rank"}
PatienceIsLeft == Running => patience < Patience

TypeInv == LoopTypeOK /\ PatienceIsLeft

\* A slice that is made anew and a population of genes have their types.
LEMMA EvaluateNextTyped ==
  ASSUME NEW next \in [Indices -> Genes], EvaluateNext(next)
  PROVE  /\ population' \in [Indices -> Genes] /\ \A i \in Indices : IsSound(population'[i])
         /\ fitness' \in [Indices -> Int]
         /\ results' \in [Indices -> {{}} \cup {{gene} : gene \in Genes}]
         /\ taken' \in 0..PopSize /\ phase' = "evaluate"
BY GenesAreSound, EngineAssumption DEF EvaluateNext

\* So has a result that is written at its place.
LEMMA WriteTyped ==
  ASSUME LoopTypeOK, NEW i \in Indices, NEW gene \in Genes, NEW score \in Int, Write(i, gene, score)
  PROVE  /\ fitness' \in [Indices -> Int]
         /\ results' \in [Indices -> {{}} \cup {{g} : g \in Genes}]
BY DEF Write, LoopTypeOK

\* Whoever is ranked is an index, and what is ranked a gene.
LEMMA RankedIsGenes ==
  ASSUME LoopTypeOK
  PROVE  /\ \A i \in Indices : Ranks[i] \in Indices /\ Ranked(population)[i] \in Genes
         /\ Best.score \in Int /\ Elites \in Indices /\ 1 <= Elites
<1>1. \A i \in Indices : Ranks[i] \in Indices
  BY RanksExist DEF LoopTypeOK
<1>2. Best.score \in Int
  BY <1>1, IndicesAreFinite DEF LoopTypeOK, Best
<1>3. Elites \in Indices /\ 1 <= Elites
  BY EngineAssumption DEF Elites, Least, Indices
<1> QED BY <1>1, <1>2, <1>3 DEF Ranked, LoopTypeOK

LEMMA InitTyped == Init => TypeInv
<1> SUFFICES ASSUME Init PROVE TypeInv
  OBVIOUS
<1>1. population \in [Indices -> Genes]
  BY DEF Init
<1>2. \A i \in Indices : IsSound(population[i])
  BY <1>1, GenesAreSound
<1>3. PatienceIsLeft
  BY EngineAssumption DEF Init, PatienceIsLeft
<1>4. /\ fitness \in [Indices -> Int]
      /\ results \in [Indices -> {{}} \cup {{gene} : gene \in Genes}]
      /\ worker \in [Workers -> Indices \cup {Idle}]
  BY DEF Init
<1>5. DOMAIN cache \subseteq Genes /\ \A gene \in DOMAIN cache : cache[gene] \in Int
  BY DEF Init
<1>6. /\ taken \in 0..PopSize /\ generation \in 0..MaxGenerations
      /\ bests \in Seq(Int) /\ Len(bests) = generation
      /\ historyBest \in Int /\ patience \in 0..Patience /\ ramp \in 0..RampsToMax
  BY EngineAssumption DEF Init
<1>7. {firstErr, canceled} \subseteq BOOLEAN
      /\ phase \in {"evaluate", "rank", "save", "saved", "failed"}
  BY DEF Init
<1> QED BY <1>1, <1>2, <1>3, <1>4, <1>5, <1>6, <1>7 DEF TypeInv, LoopTypeOK

LEMMA TakeTyped ==
  ASSUME TypeInv, NEW w \in Workers, Take(w)
  PROVE  TypeInv'
<1> DEFINE i == taken + 1
           gene == ClampChromosome(population[i])
<1>1. i \in Indices /\ taken' = i /\ i \in 0..PopSize
  BY EngineAssumption DEF TypeInv, LoopTypeOK, Take, Indices
<1>2. gene \in Genes
  BY <1>1, GenesAreSound DEF TypeInv, LoopTypeOK
<1>3. /\ fitness' \in [Indices -> Int]
      /\ results' \in [Indices -> {{}} \cup {{g} : g \in Genes}]
      /\ worker' \in [Workers -> Indices \cup {Idle}]
      /\ firstErr' \in BOOLEAN
  <2> HIDE DEF gene
  <2>1. CASE canceled /\ firstErr' = TRUE /\ UNCHANGED <<fitness, results, worker>>
    BY <2>1 DEF TypeInv, LoopTypeOK
  <2>2. CASE gene \in DOMAIN cache /\ Write(i, gene, cache[gene])
             /\ UNCHANGED <<worker, firstErr>>
    <3>1. cache[gene] \in Int
      BY <2>2 DEF TypeInv, LoopTypeOK
    <3> HIDE DEF i
    <3>2. fitness' \in [Indices -> Int]
          /\ results' \in [Indices -> {{}} \cup {{g} : g \in Genes}]
      BY <1>1, <1>2, <2>2, <3>1, WriteTyped DEF TypeInv
    <3> QED BY <2>2, <3>2 DEF TypeInv, LoopTypeOK
  <2>3. CASE worker' = [worker EXCEPT ![w] = i] /\ UNCHANGED <<fitness, results, firstErr>>
    BY <1>1, <2>3 DEF TypeInv, LoopTypeOK
  <2> QED BY <2>1, <2>2, <2>3 DEF Take, gene
<1>4. UNCHANGED <<population, cache, canceled, phase, generation, historyBest, patience, ramp,
                  bests>>
  BY DEF Take, ranking
<1> QED BY <1>1, <1>3, <1>4 DEF TypeInv, LoopTypeOK, PatienceIsLeft, Running

LEMMA EvaluatedTyped ==
  ASSUME TypeInv, NEW w \in Workers, Evaluated(w)
  PROVE  TypeInv'
<1> DEFINE gene == ClampChromosome(population[worker[w]])
<1>1. worker[w] \in Indices
  BY DEF TypeInv, LoopTypeOK, Evaluated
<1>2. gene \in Genes /\ Score(gene) \in Int
  BY <1>1, GenesAreSound DEF TypeInv, LoopTypeOK
<1>3. Write(worker[w], gene, Score(gene))
  BY DEF Evaluated
<1>4. cache' = [g \in DOMAIN cache \cup {gene} |-> IF g = gene THEN Score(g) ELSE cache[g]]
  BY DEF Evaluated
<1> HIDE DEF gene
<1>5. fitness' \in [Indices -> Int]
      /\ results' \in [Indices -> {{}} \cup {{g} : g \in Genes}]
  BY <1>1, <1>2, <1>3, WriteTyped DEF TypeInv
<1>6. DOMAIN cache' \subseteq Genes /\ \A g \in DOMAIN cache' : cache'[g] \in Int
  BY <1>2, <1>4 DEF TypeInv, LoopTypeOK
<1>7. worker' \in [Workers -> Indices \cup {Idle}]
  BY DEF TypeInv, LoopTypeOK, Evaluated
<1>8. UNCHANGED <<population, taken, firstErr, canceled, phase, generation, historyBest,
                  patience, ramp, bests>>
  BY DEF Evaluated, ranking
<1> QED BY <1>5, <1>6, <1>7, <1>8 DEF TypeInv, LoopTypeOK, PatienceIsLeft, Running

LEMMA GenerationTyped ==
  ASSUME TypeInv, Generation
  PROVE  TypeInv'
<1>1. /\ \A i \in Indices : Ranked(population)[i] \in Genes
      /\ Best.score \in Int /\ Elites \in Indices /\ 1 <= Elites
  BY RankedIsGenes DEF TypeInv
<1>2. patience < Patience
  BY DEF Generation, TypeInv, PatienceIsLeft, Running
<1>3. /\ generation' \in 0..MaxGenerations /\ bests' \in Seq(Int)
      /\ Len(bests') = generation' /\ historyBest' \in Int
  <2>1. /\ generation < MaxGenerations /\ generation' = generation + 1
        /\ bests' = Append(bests, Best.score)
        /\ historyBest' = IF Improves THEN Best.score ELSE historyBest
    BY DEF Generation
  <2>2. generation \in 0..MaxGenerations /\ bests \in Seq(Int) /\ Len(bests) = generation
        /\ historyBest \in Int
    BY DEF TypeInv, LoopTypeOK
  <2>3. bests' \in Seq(Int) /\ Len(bests') = Len(bests) + 1
    BY <1>1, <2>1, <2>2
  <2>4. generation' \in 0..MaxGenerations
    BY <2>1, <2>2, EngineAssumption
  <2> QED BY <1>1, <2>1, <2>2, <2>3, <2>4
<1>4. ramp' \in 0..RampsToMax
  BY EngineAssumption DEF Generation, TypeInv, LoopTypeOK, Least
<1>5. patience' \in 0..Patience
  BY <1>2, EngineAssumption DEF Generation, TypeInv, LoopTypeOK, PatienceAfterRamp
<1>6. UNCHANGED <<cache, worker, firstErr, canceled>>
  BY DEF Generation
<1>7. CASE phase' = "save" /\ UNCHANGED <<population, fitness, results, taken>>
  BY <1>3, <1>4, <1>5, <1>6, <1>7 DEF TypeInv, LoopTypeOK, PatienceIsLeft, Running
<1>8. CASE patience' < Patience
           /\ \E bred \in [Elites + 1 .. PopSize -> Genes] :
                EvaluateNext([i \in Indices |-> IF i <= Elites THEN Ranked(population)[i]
                                                               ELSE bred[i]])
  <2>1. PICK bred \in [Elites + 1 .. PopSize -> Genes] :
               EvaluateNext([i \in Indices |-> IF i <= Elites THEN Ranked(population)[i]
                                                              ELSE bred[i]])
    BY <1>8
  <2> DEFINE next == [i \in Indices |-> IF i <= Elites THEN Ranked(population)[i] ELSE bred[i]]
  <2>2. \A i \in Indices : i <= Elites \/ i \in Elites + 1 .. PopSize
    BY <1>1 DEF Indices
  <2>3. next \in [Indices -> Genes]
    BY <1>1, <2>2
  <2> HIDE DEF next
  <2>4. /\ population' \in [Indices -> Genes] /\ \A i \in Indices : IsSound(population'[i])
        /\ fitness' \in [Indices -> Int]
        /\ results' \in [Indices -> {{}} \cup {{gene} : gene \in Genes}]
        /\ taken' \in 0..PopSize /\ phase' = "evaluate"
    BY <2>1, <2>3, EvaluateNextTyped DEF next
  <2> QED BY <1>3, <1>4, <1>5, <1>6, <1>8, <2>4 DEF TypeInv, LoopTypeOK, PatienceIsLeft, Running
<1>9. CASE patience' < Patience /\ phase' # "save"
  BY <1>8, <1>9 DEF Generation
<1>10. phase' # "save" => patience' < Patience
  BY <1>2, EngineAssumption DEF Generation, TypeInv, LoopTypeOK, PatienceAfterRamp
<1>11. phase' = "save" => UNCHANGED <<population, fitness, results, taken>>
  BY DEF Generation, EvaluateNext
<1> QED BY <1>7, <1>9, <1>10, <1>11

LEMMA NextTyped == TypeInv /\ [Next]_vars => TypeInv'
<1> SUFFICES ASSUME TypeInv, [Next]_vars PROVE TypeInv'
  OBVIOUS
<1>1. ASSUME NEW w \in Workers, EvaluateFails(w) PROVE TypeInv'
  BY <1>1 DEF EvaluateFails, TypeInv, LoopTypeOK, PatienceIsLeft, Running, ranking
<1>2. CASE WorkersDone
  BY <1>2 DEF WorkersDone, AfterEvaluation, TypeInv, LoopTypeOK, PatienceIsLeft, Running, ranking
<1>3. CASE SaveChallenger
  BY <1>3 DEF SaveChallenger, TypeInv, LoopTypeOK, PatienceIsLeft, Running, ranking
<1>4. CASE RunFails
  BY <1>4 DEF RunFails, TypeInv, LoopTypeOK, PatienceIsLeft, Running, ranking
<1>5. CASE Cancel
  BY <1>5 DEF Cancel, TypeInv, LoopTypeOK, PatienceIsLeft, Running, ranking
<1>6. CASE UNCHANGED vars
  BY <1>6 DEF TypeInv, LoopTypeOK, PatienceIsLeft, Running, ranking, vars
<1> QED BY <1>1, <1>2, <1>3, <1>4, <1>5, <1>6, TakeTyped, EvaluatedTyped, GenerationTyped
        DEF Next, EngineStep, WorkerStep, Returned

\* Every variable has its type, and every gene of every population is sound.
THEOREM TypeCorrect == Spec => []LoopTypeOK
<1>1. TypeInv => LoopTypeOK
  BY DEF TypeInv
<1> QED BY <1>1, InitTyped, NextTyped, PTL DEF Spec
-----------------------------------------------------------------------------
(***************************************************************************)
(* Ranked by its own results.                                              *)
(***************************************************************************)

\* An index has the result and the score of its own gene.
Own(i) == results[i] = {population[i]} /\ fitness[i] = Score(population[i])

\* While indices are taken, each one has its result or a worker that is at
\* it, or there was an error; workers are busy in no other phase.
CacheIsTrue == \A gene \in DOMAIN cache : cache[gene] = Score(gene)
BusyEvaluate == \A w \in Workers : worker[w] # Idle => phase = "evaluate"
TakenIsDone ==
  phase = "evaluate" /\ ~firstErr =>
    \A i \in 1..taken : Own(i) \/ \E w \in Workers : worker[w] = i

ResultsInv == CacheIsTrue /\ BusyEvaluate /\ TakenIsDone /\ RankedByOwnResults

\* What was evaluated in the run is in the population, or was outdone; nothing
\* is evaluated after the challenger is saved.
BestStays == \A gene \in DOMAIN cache : \E i \in Indices : Score(gene) <= Score(population[i])
SavedLast == saved # {} => phase = "saved"

BestInv == BestStays /\ SavedLast /\ SavedIsBest

\* Generations are used up by ramps, and then by the patience since the last
\* one; the best score of the generation in which that patience began is not
\* below the history's.
GenerationsAreSpent ==
  Running =>
    IF generation = 0
      THEN ramp = 0 /\ patience = 0
      ELSE /\ Patience * ramp + patience + 1 <= generation
           /\ historyBest <= bests[generation - patience]
HistoryStays == generation > 0 => \E i \in Indices : historyBest <= Score(population[i])

StopInv == GenerationsAreSpent /\ HistoryStays /\ StopIsEarned

\* A result that is written is its index's own, and no other index loses its.
LEMMA WriteIsOwn ==
  ASSUME LoopTypeOK, NEW i \in Indices, population' = population,
         Write(i, population[i], Score(population[i]))
  PROVE  Own(i)' /\ \A j \in Indices : Own(j) => Own(j)'
BY DEF Own, Write, LoopTypeOK

LEMMA IndexIsNotIdle == \A i \in Indices : i # Idle /\ i \in Int
BY EngineAssumption DEF Indices, Idle

LEMMA InitResults == Init => ResultsInv
BY DEF Init, ResultsInv, CacheIsTrue, BusyEvaluate, TakenIsDone, RankedByOwnResults

LEMMA TakeResults ==
  ASSUME TypeInv, ResultsInv, NEW w \in Workers, Take(w)
  PROVE  ResultsInv'
<1>0. PICK i \in Indices : i = taken + 1
  BY EngineAssumption DEF TypeInv, LoopTypeOK, Take, Indices
<1> DEFINE gene == ClampChromosome(population[i])
<1>1. /\ taken' = i /\ phase = "evaluate" /\ phase' = phase
      /\ population' = population /\ cache' = cache /\ worker[w] = Idle
      /\ taken \in Nat /\ taken < PopSize
  BY <1>0, EngineAssumption DEF TypeInv, LoopTypeOK, Take
<1>2. gene = population[i]
  BY <1>1, GenesAreSound DEF TypeInv, LoopTypeOK
<1>3. /\ \A j \in 1..taken' : j = i \/ j \in 1..taken
      /\ \A j \in 1..taken : j \in Indices
  BY <1>0, <1>1, EngineAssumption DEF Indices
<1> HIDE DEF gene
<1>4. CASE firstErr' = TRUE /\ UNCHANGED worker
  BY <1>1, <1>4 DEF ResultsInv, CacheIsTrue, BusyEvaluate, TakenIsDone, RankedByOwnResults
<1>5. CASE gene \in DOMAIN cache /\ Write(i, gene, cache[gene]) /\ UNCHANGED <<worker, firstErr>>
  <2>1. Write(i, population[i], Score(population[i]))
    BY <1>2, <1>5 DEF ResultsInv, CacheIsTrue
  <2>2. Own(i)' /\ \A j \in Indices : Own(j) => Own(j)'
    BY <1>1, <2>1, WriteIsOwn DEF TypeInv
  <2>3. ASSUME ~firstErr, NEW j \in 1..taken'
        PROVE  Own(j)' \/ \E v \in Workers : worker'[v] = j
    BY <1>1, <1>3, <1>5, <2>2, <2>3 DEF ResultsInv, TakenIsDone
  <2> QED BY <1>1, <1>5, <2>3
          DEF ResultsInv, CacheIsTrue, BusyEvaluate, TakenIsDone, RankedByOwnResults
<1>6. CASE worker' = [worker EXCEPT ![w] = i] /\ UNCHANGED <<fitness, results, firstErr>>
  <2>1. /\ worker'[w] = i
        /\ \A v \in Workers : v # w => worker'[v] = worker[v]
    BY <1>6 DEF TypeInv, LoopTypeOK
  <2>2. ASSUME ~firstErr, NEW j \in 1..taken'
        PROVE  Own(j)' \/ \E v \in Workers : worker'[v] = j
    <3>1. CASE j = i
      BY <2>1, <3>1
    <3>2. CASE j \in 1..taken
      <4>1. CASE Own(j)
        BY <1>1, <1>6, <4>1 DEF Own
      <4>2. CASE \E v \in Workers : worker[v] = j
        BY <1>1, <1>3, <2>1, <3>2, <4>2, IndexIsNotIdle
      <4> QED BY <1>1, <2>2, <3>2, <4>1, <4>2 DEF ResultsInv, TakenIsDone
    <3> QED BY <1>3, <3>1, <3>2
  <2> QED BY <1>1, <1>6, <2>2
          DEF ResultsInv, CacheIsTrue, BusyEvaluate, TakenIsDone, RankedByOwnResults
<1> QED BY <1>0, <1>4, <1>5, <1>6 DEF Take, gene

LEMMA EvaluatedResults ==
  ASSUME TypeInv, ResultsInv, NEW w \in Workers, Evaluated(w)
  PROVE  ResultsInv'
<1>0. PICK i \in Indices : i = worker[w]
  BY DEF TypeInv, LoopTypeOK, Evaluated
<1> DEFINE gene == ClampChromosome(population[i])
<1>1. /\ i # Idle /\ phase = "evaluate" /\ phase' = phase
      /\ population' = population /\ taken' = taken /\ firstErr' = firstErr
  BY <1>0 DEF TypeInv, LoopTypeOK, Evaluated, ResultsInv, BusyEvaluate
<1>2. gene = population[i]
  BY <1>1, GenesAreSound DEF TypeInv, LoopTypeOK
<1>3. /\ Write(i, gene, Score(gene))
      /\ cache' = [g \in DOMAIN cache \cup {gene} |-> IF g = gene THEN Score(g) ELSE cache[g]]
      /\ worker' = [worker EXCEPT ![w] = Idle]
  BY <1>0 DEF Evaluated
<1> HIDE DEF gene
<1>4. Own(i)' /\ \A j \in Indices : Own(j) => Own(j)'
  BY <1>1, <1>2, <1>3, WriteIsOwn DEF TypeInv
<1>5. CacheIsTrue'
  BY <1>3 DEF ResultsInv, CacheIsTrue
<1>6. TakenIsDone'
  <2>1. ASSUME ~firstErr, NEW j \in 1..taken
        PROVE  Own(j)' \/ \E v \in Workers : worker'[v] = j
    <3>1. j \in Indices
      BY EngineAssumption DEF TypeInv, LoopTypeOK, Indices
    <3>2. CASE j = i
      BY <1>4, <3>2
    <3>3. CASE j # i
      BY <1>0, <1>1, <1>3, <1>4, <2>1, <3>1, <3>3 DEF ResultsInv, TakenIsDone, TypeInv, LoopTypeOK
    <3> QED BY <3>2, <3>3
  <2> QED BY <1>1, <2>1 DEF TakenIsDone
<1> QED BY <1>1, <1>5, <1>6 DEF ResultsInv, BusyEvaluate, RankedByOwnResults

\* Every index was taken, no worker is at one and there was no error: every
\* index has its result.
LEMMA WorkersDoneResults ==
  ASSUME TypeInv, ResultsInv, WorkersDone
  PROVE  ResultsInv'
<1>1. UNCHANGED <<population, fitness, results, cache, taken, worker, firstErr>>
      /\ ((phase' = "rank" /\ ~firstErr) \/ phase' = "failed")
  BY DEF WorkersDone, AfterEvaluation
<1>2. ASSUME ~firstErr, NEW i \in Indices PROVE Own(i)
  BY <1>2, IndexIsNotIdle DEF WorkersDone, ResultsInv, TakenIsDone, Indices
<1> QED BY <1>1, <1>2
        DEF ResultsInv, CacheIsTrue, BusyEvaluate, TakenIsDone, RankedByOwnResults, Own,
            WorkersDone

LEMMA GenerationResults ==
  ASSUME TypeInv, ResultsInv, Generation
  PROVE  ResultsInv'
<1>1. /\ \A w \in Workers : worker'[w] = Idle
      /\ cache' = cache /\ phase = "rank"
  BY DEF Generation, ResultsInv, BusyEvaluate
<1>2. \/ phase' = "save" /\ UNCHANGED <<population, fitness, results>>
      \/ phase' = "evaluate" /\ taken' = 0
  BY DEF Generation, EvaluateNext
<1> QED BY <1>1, <1>2
        DEF ResultsInv, CacheIsTrue, BusyEvaluate, TakenIsDone, RankedByOwnResults

LEMMA NextResults == TypeInv /\ ResultsInv /\ [Next]_vars => ResultsInv'
<1> SUFFICES ASSUME TypeInv, ResultsInv, [Next]_vars PROVE ResultsInv'
  OBVIOUS
<1> USE DEF ResultsInv, CacheIsTrue, BusyEvaluate, TakenIsDone, RankedByOwnResults, Own
<1>1. ASSUME NEW w \in Workers, EvaluateFails(w) PROVE ResultsInv'
  <2>1. \A v \in Workers : worker'[v] # Idle => worker[v] # Idle
    BY <1>1 DEF EvaluateFails, TypeInv, LoopTypeOK
  <2>2. phase = "evaluate"
    BY <1>1 DEF EvaluateFails
  <2> QED BY <1>1, <2>1, <2>2 DEF EvaluateFails
<1>2. CASE SaveChallenger
  BY <1>2 DEF SaveChallenger, LoopIsOver
<1>3. CASE RunFails
  BY <1>3 DEF RunFails, LoopIsOver
<1>4. CASE Cancel
  BY <1>4 DEF Cancel
<1>5. CASE UNCHANGED vars
  BY <1>5 DEF vars
<1> QED BY <1>1, <1>2, <1>3, <1>4, <1>5, TakeResults, EvaluatedResults, WorkersDoneResults,
           GenerationResults
        DEF Next, EngineStep, WorkerStep, Returned

\* Whatever workers took, whatever the cache had and whoever failed, a
\* population is ranked by its own results and no others.
THEOREM RankedByOwn == Spec => []RankedByOwnResults
<1>1. Init => TypeInv /\ ResultsInv
  BY InitTyped, InitResults
<1>2. TypeInv /\ ResultsInv /\ [Next]_vars => (TypeInv /\ ResultsInv)'
  BY NextTyped, NextResults
<1>3. ResultsInv => RankedByOwnResults
  BY DEF ResultsInv
<1> QED BY <1>1, <1>2, <1>3, PTL DEF Spec
-----------------------------------------------------------------------------
(***************************************************************************)
(* The best of the run is saved.                                           *)
(***************************************************************************)

\* The first of the ranking has the greatest score of its population.
LEMMA BestOutscores ==
  ASSUME TypeInv, ResultsInv, phase \in {"rank", "save"}
  PROVE  /\ Ranks[1] \in Indices /\ Best.of = {Best.gene}
         /\ Best.gene = population[Ranks[1]] /\ Best.score = Score(Best.gene)
         /\ \A i \in Indices : Score(population[i]) <= Best.score
<1>1. /\ Ranks[1] \in Indices
      /\ \A i \in Indices : fitness[i] <= fitness[Ranks[1]]
  BY FirstIsBest DEF TypeInv, LoopTypeOK
<1>2. \A i \in Indices : results[i] = {population[i]} /\ fitness[i] = Score(population[i])
  BY DEF ResultsInv, RankedByOwnResults
<1> QED BY <1>1, <1>2 DEF Best

\* It outscores everything that was evaluated so far.
LEMMA BestOfTheRun ==
  ASSUME TypeInv, ResultsInv, BestInv, phase \in {"rank", "save"}, NEW gene \in DOMAIN cache
  PROVE  Score(gene) <= Best.score
<1>1. PICK i \in Indices : Score(gene) <= Score(population[i])
  BY DEF BestInv, BestStays
<1>2. Score(population[i]) <= Best.score
  BY BestOutscores
<1>3. Score(gene) \in Int /\ Score(population[i]) \in Int /\ Best.score \in Int
  BY GenesAreSound, RankedIsGenes DEF TypeInv, LoopTypeOK
<1> QED BY <1>1, <1>2, <1>3

\* The first of the ranking is the first of the next population.
LEMMA BestIsInherited ==
  ASSUME TypeInv, ResultsInv, Generation, phase' = "evaluate"
  PROVE  population'[1] = Best.gene /\ 1 \in Indices
<1>1. PICK bred \in [Elites + 1 .. PopSize -> Genes] :
        population' = [i \in Indices |-> IF i <= Elites THEN Ranked(population)[i] ELSE bred[i]]
  BY DEF Generation, EvaluateNext
<1>2. 1 \in Indices /\ 1 <= Elites
  BY RankedIsGenes, IndicesAreFinite DEF TypeInv
<1> QED BY <1>1, <1>2 DEF Ranked, Best

LEMMA InitBest == Init => BestInv
BY DEF Init, BestInv, BestStays, SavedLast, SavedIsBest

LEMMA EvaluatedBest ==
  ASSUME TypeInv, ResultsInv, BestInv, NEW w \in Workers, Evaluated(w)
  PROVE  BestInv'
<1>0. PICK i \in Indices : i = worker[w]
  BY DEF TypeInv, LoopTypeOK, Evaluated
<1>1. population[i] = ClampChromosome(population[i]) /\ Score(population[i]) \in Int
  BY GenesAreSound DEF TypeInv, LoopTypeOK
<1>2. DOMAIN cache' = DOMAIN cache \cup {population[i]} /\ population' = population
  BY <1>0, <1>1 DEF Evaluated
<1>3. BestStays'
  BY <1>1, <1>2 DEF BestInv, BestStays
<1>4. saved = {} /\ saved' = {}
  BY DEF ResultsInv, BusyEvaluate, BestInv, SavedLast, Evaluated
<1> QED BY <1>3, <1>4 DEF BestInv, SavedLast, SavedIsBest

LEMMA GenerationBest ==
  ASSUME TypeInv, ResultsInv, BestInv, Generation
  PROVE  BestInv'
<1>1. /\ phase = "rank" /\ cache' = cache /\ saved = {} /\ saved' = {}
  BY DEF Generation, BestInv, SavedLast
<1>2. CASE UNCHANGED population
  BY <1>1, <1>2 DEF BestInv, BestStays, SavedLast, SavedIsBest
<1>3. CASE phase' = "evaluate"
  <2>1. population'[1] = Best.gene /\ 1 \in Indices /\ Best.score = Score(Best.gene)
    BY <1>1, <1>3, BestIsInherited, BestOutscores
  <2>2. \A gene \in DOMAIN cache : Score(gene) <= Score(population'[1])
    BY <1>1, <2>1, BestOfTheRun
  <2> QED BY <1>1, <2>1, <2>2 DEF BestInv, BestStays, SavedLast, SavedIsBest
<1> QED BY <1>2, <1>3 DEF Generation, EvaluateNext

LEMMA SaveBest ==
  ASSUME TypeInv, ResultsInv, BestInv, SaveChallenger
  PROVE  BestInv'
<1>1. phase \in {"rank", "save"} /\ UNCHANGED <<population, cache>> /\ phase' = "saved"
  BY DEF SaveChallenger, LoopIsOver
<1>2. /\ Ranks[1] \in Indices /\ Best.of = {Best.gene}
      /\ Best.gene = population[Ranks[1]] /\ Best.score = Score(Best.gene)
  BY <1>1, BestOutscores
<1>3. ClampChromosome(Best.gene) = Best.gene
  BY <1>2, GenesAreSound DEF TypeInv, LoopTypeOK
<1>4. saved' = {[gene |-> Best.gene, of |-> Best.of, score |-> Best.score]}
  BY <1>3 DEF SaveChallenger
<1>5. \A gene \in DOMAIN cache : Score(gene) <= Best.score
  BY <1>1, BestOfTheRun
<1>6. ASSUME NEW s \in saved'
      PROVE  s.of = {s.gene} /\ s.score = Score(s.gene) /\ s.score = Best.score
  BY <1>2, <1>4
<1>7. SavedIsBest'
  BY <1>1, <1>5, <1>6 DEF SavedIsBest
<1> QED BY <1>1, <1>7 DEF BestInv, BestStays, SavedLast

LEMMA NextBest == TypeInv /\ ResultsInv /\ BestInv /\ [Next]_vars => BestInv'
<1> SUFFICES ASSUME TypeInv, ResultsInv, BestInv, [Next]_vars PROVE BestInv'
  OBVIOUS
<1>1. ASSUME UNCHANGED <<population, cache, saved>>, phase = "saved" => phase' = "saved"
      PROVE  BestInv'
  BY <1>1 DEF BestInv, BestStays, SavedLast, SavedIsBest
<1>2. ASSUME NEW w \in Workers, Take(w) PROVE BestInv'
  BY <1>1, <1>2 DEF Take
<1>3. ASSUME NEW w \in Workers, EvaluateFails(w) PROVE BestInv'
  BY <1>1, <1>3 DEF EvaluateFails
<1>4. CASE WorkersDone
  BY <1>1, <1>4 DEF WorkersDone
<1>5. CASE RunFails
  BY <1>1, <1>5 DEF RunFails, LoopIsOver
<1>6. CASE Cancel
  BY <1>1, <1>6 DEF Cancel
<1>7. CASE UNCHANGED vars
  BY <1>1, <1>7 DEF vars
<1> QED BY <1>2, <1>3, <1>4, <1>5, <1>6, <1>7, EvaluatedBest, GenerationBest, SaveBest
        DEF Next, EngineStep, WorkerStep, Returned

\* The challenger is the best gene that any generation of the run evaluated,
\* and its score and its report are its own.
THEOREM BestIsSaved == Spec => []SavedIsBest
<1>1. Init => TypeInv /\ ResultsInv /\ BestInv
  BY InitTyped, InitResults, InitBest
<1>2. TypeInv /\ ResultsInv /\ BestInv /\ [Next]_vars => (TypeInv /\ ResultsInv /\ BestInv)'
  BY NextTyped, NextResults, NextBest
<1>3. BestInv => SavedIsBest
  BY DEF BestInv
<1> QED BY <1>1, <1>2, <1>3, PTL DEF Spec

-----------------------------------------------------------------------------
(***************************************************************************)
(* The patience and the ramp.                                              *)
(***************************************************************************)

LEMMA InitStop == Init => StopInv
BY DEF Init, StopInv, GenerationsAreSpent, HistoryStays, StopIsEarned

\* Some index has the history's best score, so the first of the ranking is not
\* below it.
LEMMA BestDoesNotFall ==
  ASSUME TypeInv, ResultsInv, StopInv, phase \in {"rank", "save"}, generation > 0
  PROVE  historyBest <= Best.score
<1>1. PICK i \in Indices : historyBest <= Score(population[i])
  BY DEF StopInv, HistoryStays
<1>2. Score(population[i]) <= Best.score
  BY BestOutscores
<1>3. Score(population[i]) \in Int /\ Best.score \in Int /\ historyBest \in Int
  BY GenesAreSound, RankedIsGenes DEF TypeInv, LoopTypeOK
<1> QED BY <1>1, <1>2, <1>3

\* What a generation does to the counters, by its cases.
LEMMA GenerationCounts ==
  ASSUME TypeInv, ResultsInv, StopInv, Generation
  PROVE  /\ generation \in Nat /\ generation' = generation + 1 /\ Len(bests) = generation
         /\ bests \in Seq(Int) /\ bests' = Append(bests, Best.score) /\ Best.score \in Int
         /\ historyBest \in Int /\ patience \in Nat /\ patience < Patience /\ ramp \in Nat
         /\ generation = 0 => ramp = 0 /\ patience = 0
         /\ generation > 0 => /\ Patience * ramp + patience + 1 <= generation
                              /\ historyBest <= bests[generation - patience]
                              /\ historyBest <= Best.score
         /\ \/ /\ patience' = 0 /\ ramp' = ramp /\ historyBest' = Best.score /\ phase' # "save"
            \/ /\ generation > 0 /\ historyBest' = historyBest
               /\ Best.score - historyBest < MinDelta
               /\ \/ /\ patience' = patience + 1 /\ patience' < Patience
                     /\ ramp' = ramp /\ phase' # "save"
                  \/ /\ patience + 1 = Patience /\ ramp' \in Nat /\ ramp' <= ramp + 1
                     /\ \/ phase' = "save"
                        \/ phase' # "save" /\ patience' = 0
<1>1. /\ generation \in Nat /\ generation' = generation + 1 /\ Len(bests) = generation
      /\ bests \in Seq(Int) /\ bests' = Append(bests, Best.score) /\ Best.score \in Int
      /\ historyBest \in Int /\ patience \in Nat /\ patience < Patience /\ ramp \in Nat
      /\ phase = "rank"
  BY RankedIsGenes, EngineAssumption
     DEF TypeInv, LoopTypeOK, Generation, PatienceIsLeft, Running
<1>2. /\ generation = 0 => ramp = 0 /\ patience = 0
      /\ generation > 0 => /\ Patience * ramp + patience + 1 <= generation
                           /\ historyBest <= bests[generation - patience]
  BY <1>1 DEF StopInv, GenerationsAreSpent, Running
<1>3. generation > 0 => historyBest <= Best.score
  BY <1>1, BestDoesNotFall
<1> DEFINE count == IF Improves THEN 0 ELSE patience + 1
           ramps == IF count >= Patience THEN Least(ramp + 1, RampsToMax) ELSE ramp
           stops == count >= Patience /\ ramps = RampsToMax
<1>4. /\ historyBest' = IF Improves THEN Best.score ELSE historyBest
      /\ ramp' = ramps
      /\ patience' = IF count >= Patience /\ ~stops THEN 0 ELSE count
      /\ phase' = IF stops THEN "save" ELSE "evaluate"
  <2> HIDE DEF count, ramps, stops
  <2> QED BY DEF Generation, EvaluateNext, PatienceAfterRamp, count, ramps, stops
<1>5. CASE Improves
  <2>1. ~(count >= Patience)
    BY <1>5, EngineAssumption
  <2> QED BY <1>1, <1>2, <1>3, <1>4, <1>5, <2>1
<1>6. CASE ~Improves
  <2>1. generation > 0 /\ Best.score - historyBest < MinDelta /\ historyBest' = historyBest
    BY <1>1, <1>4, <1>6, EngineAssumption DEF Improves
  <2>2. ramps \in Nat /\ ramps <= ramp + 1 /\ (count < Patience => ramps = ramp)
    BY <1>1, <1>6, EngineAssumption DEF Least
  <2>3. count = patience + 1
    BY <1>6
  <2> HIDE DEF ramps, count
  <2>4. CASE count >= Patience
    <3>1. patience + 1 = Patience
      BY <1>1, <2>3, <2>4, EngineAssumption
    <3> QED BY <1>1, <1>2, <1>3, <1>4, <2>1, <2>2, <2>3, <2>4, <3>1
  <2>5. CASE ~(count >= Patience)
    <3>1. count < Patience
      BY <1>1, <2>3, <2>5, EngineAssumption
    <3> QED BY <1>1, <1>2, <1>3, <1>4, <2>1, <2>2, <2>3, <2>5, <3>1
  <2> QED BY <2>4, <2>5
<1> QED BY <1>5, <1>6

\* One more ramp takes the patience once more.
LEMMA OneMoreRamp ==
  ASSUME NEW a \in Nat, NEW b \in Nat, NEW c \in Nat, b <= c + 1
  PROVE  a * b \in Int /\ a * b <= a * c + a
<1>1. PICK d \in Nat : c + 1 = b + d
  <2>1. c + 1 - b \in Nat /\ c + 1 = b + (c + 1 - b)
    OBVIOUS
  <2> QED BY <2>1
<1>2. a * (b + d) = a * b + a * d /\ a * (c + 1) = a * c + a
  OBVIOUS
<1>3. a * d \in Nat /\ a * b \in Nat /\ a * c \in Nat
  OBVIOUS
<1> QED BY <1>1, <1>2, <1>3

LEMMA GenerationStop ==
  ASSUME TypeInv, ResultsInv, StopInv, Generation
  PROVE  StopInv'
<1>0. /\ generation \in Nat /\ generation' = generation + 1 /\ Len(bests) = generation
      /\ bests \in Seq(Int) /\ bests' = Append(bests, Best.score) /\ Best.score \in Int
      /\ historyBest \in Int /\ patience \in Nat /\ patience < Patience /\ ramp \in Nat
      /\ Patience \in Nat /\ MinDelta \in Nat
  BY GenerationCounts, EngineAssumption
<1> DEFINE used == Patience * ramp
<1>u. used \in Nat
  BY <1>0
<1>1. HistoryStays'
  <2>1. historyBest' = Best.score \/ (generation > 0 /\ historyBest' = historyBest)
    BY GenerationCounts
  <2>2. historyBest' <= Best.score
    BY <2>1, GenerationCounts
  <2>3. /\ phase = "rank" /\ Ranks[1] \in Indices /\ Best.gene = population[Ranks[1]]
        /\ Best.score = Score(Best.gene)
    BY BestOutscores DEF Generation
  <2>4. CASE UNCHANGED population
    BY <2>2, <2>3, <2>4 DEF HistoryStays
  <2>5. CASE phase' = "evaluate"
    BY <2>2, <2>3, <2>5, BestIsInherited DEF HistoryStays
  <2> QED BY <2>4, <2>5 DEF Generation, EvaluateNext
<1>2. /\ Len(bests') = generation' /\ bests'[generation'] = Best.score
      /\ \A k \in 1..generation : bests'[k] = bests[k] /\ bests[k] \in Int
  BY <1>0
<1>3. CASE patience' = 0 /\ ramp' = ramp /\ historyBest' = Best.score /\ phase' # "save"
  <2>1. used < generation'
    <3>1. CASE generation = 0
      <4>1. used = 0
        BY <1>0, <3>1, GenerationCounts
      <4> QED BY <1>0, <3>1, <4>1
    <3>2. CASE generation > 0
      <4>1. used + patience + 1 <= generation
        BY <3>2, GenerationCounts
      <4> QED BY <1>0, <1>u, <4>1
    <3> QED BY <1>0, <3>1, <3>2
  <2>2. generation' # 0 /\ generation' - patience' = generation'
        /\ used + patience' + 1 <= generation' /\ Patience * ramp' = used
    BY <1>0, <1>u, <1>3, <2>1
  <2>3. historyBest' <= bests'[generation' - patience']
    BY <1>0, <1>2, <1>3, <2>2
  <2> QED BY <1>1, <1>2, <1>3, <2>1, <2>2, <2>3
          DEF StopInv, GenerationsAreSpent, StopIsEarned
<1>4. CASE /\ generation > 0 /\ historyBest' = historyBest
           /\ patience' = patience + 1 /\ ramp' = ramp /\ phase' # "save"
  <2>1. used + patience + 1 <= generation /\ historyBest <= bests[generation - patience]
    BY <1>4, GenerationCounts
  <2> HIDE DEF used
  <2>2. /\ used + patience' + 1 <= generation' /\ used < generation'
        /\ generation' # 0 /\ generation' - patience' = generation - patience
        /\ generation - patience \in 1..generation
    BY <1>0, <1>u, <1>4, <2>1
  <2>3. historyBest' <= bests'[generation' - patience']
    BY <1>2, <1>4, <2>1, <2>2
  <2>4. Patience * ramp' = used
    BY <1>4 DEF used
  <2> QED BY <1>1, <1>2, <1>4, <2>2, <2>3, <2>4
          DEF StopInv, GenerationsAreSpent, StopIsEarned
<1>5. CASE /\ generation > 0 /\ historyBest' = historyBest
           /\ Best.score - historyBest < MinDelta
           /\ patience + 1 = Patience /\ ramp' \in Nat /\ ramp' <= ramp + 1
           /\ (phase' = "save" \/ (phase' # "save" /\ patience' = 0))
  <2>1. used + patience + 1 <= generation /\ historyBest <= bests[generation - patience]
        /\ historyBest <= Best.score
    BY <1>5, GenerationCounts
  <2> DEFINE next == Patience * ramp'
  <2>2. next \in Int /\ next <= used + Patience
    <3>1. ramp' \in Nat /\ ramp' <= ramp + 1 /\ ramp \in Nat /\ Patience \in Nat
      BY <1>0, <1>5
    <3> QED BY <3>1, OneMoreRamp, Zenon
  <2> HIDE DEF used, next
  <2>3. next < generation' /\ generation - patience \in 1..generation
        /\ generation' - Patience = generation - patience
    BY <1>0, <1>u, <1>5, <2>1, <2>2
  <2>4. bests'[generation'] - bests'[generation' - Patience] < MinDelta
    BY <1>0, <1>2, <1>5, <2>1, <2>3
  <2>5. StopIsEarned'
    BY <1>2, <2>3, <2>4 DEF StopIsEarned, next
  <2>6. ASSUME patience' = 0
        PROVE  /\ generation' # 0 /\ next + patience' + 1 <= generation'
               /\ historyBest' <= bests'[generation' - patience']
    <3>1. generation' - patience' = generation'
      BY <1>0, <2>6
    <3> QED BY <1>0, <1>2, <1>5, <2>1, <2>2, <2>3, <2>6, <3>1
  <2> QED BY <1>1, <1>5, <2>5, <2>6 DEF StopInv, GenerationsAreSpent, Running, next
<1> QED BY <1>3, <1>4, <1>5, GenerationCounts

LEMMA NextStop == TypeInv /\ ResultsInv /\ StopInv /\ [Next]_vars => StopInv'
<1> SUFFICES ASSUME TypeInv, ResultsInv, StopInv, [Next]_vars PROVE StopInv'
  OBVIOUS
<1>1. ASSUME UNCHANGED <<population, generation, historyBest, patience, ramp, bests>>,
             Running' => Running, phase' = "save" => phase = "save"
      PROVE  StopInv'
  BY <1>1 DEF StopInv, GenerationsAreSpent, HistoryStays, StopIsEarned
<1> USE DEF Running, ranking
<1>2. ASSUME NEW w \in Workers, Take(w) PROVE StopInv'
  BY <1>1, <1>2 DEF Take
<1>3. ASSUME NEW w \in Workers, Evaluated(w) PROVE StopInv'
  BY <1>1, <1>3 DEF Evaluated
<1>4. ASSUME NEW w \in Workers, EvaluateFails(w) PROVE StopInv'
  BY <1>1, <1>4 DEF EvaluateFails
<1>5. CASE WorkersDone
  BY <1>1, <1>5 DEF WorkersDone, AfterEvaluation
<1>6. CASE SaveChallenger
  BY <1>1, <1>6 DEF SaveChallenger
<1>7. CASE RunFails
  BY <1>1, <1>7 DEF RunFails
<1>8. CASE Cancel
  BY <1>1, <1>8 DEF Cancel
<1>9. CASE UNCHANGED vars
  BY <1>1, <1>9 DEF vars
<1> QED BY <1>2, <1>3, <1>4, <1>5, <1>6, <1>7, <1>8, <1>9, GenerationStop
        DEF Next, EngineStep, WorkerStep, Returned

\* Every ramp took as many generations as the patience says, and an early stop
\* ends that many in which the best score did not rise enough.
THEOREM EarlyStopIsEarned == Spec => []StopIsEarned
<1>1. Init => TypeInv /\ ResultsInv /\ StopInv
  BY InitTyped, InitResults, InitStop
<1>2. TypeInv /\ ResultsInv /\ StopInv /\ [Next]_vars => (TypeInv /\ ResultsInv /\ StopInv)'
  BY NextTyped, NextResults, NextStop
<1>3. StopInv => StopIsEarned
  BY DEF StopInv
<1> QED BY <1>1, <1>2, <1>3, PTL DEF Spec
=============================================================================
