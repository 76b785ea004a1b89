---------------------------- MODULE EvolutionLoop ----------------------------
(***************************************************************************)
(* RunEpoch (ga/engine.go): one run of the genetic engine.  A population   *)
(* is evaluated by workers that share a queue of indices and a cache of    *)
(* results; it is ranked, its best are kept, and the rest is bred anew,    *)
(* until the generations are used up or the mutation ramp is.              *)
(*                                                                         *)
(* A gene that is sampled, mutated or crossed over may be any of Raw, once *)
(* it is repaired; which parents a tournament selects is left out.  Scores *)
(* are integers, of a function that is the same in the whole run.  Genes   *)
(* that a Fingerprint takes for the same are the same gene: fields differ  *)
(* by more than a millionth, and hashes do not collide.                    *)
(***************************************************************************)
EXTENDS Genome, Sequences, FiniteSets

CONSTANTS
  Raw,             \* what sampling, mutation and crossover may leave
  Score(_),        \* the score of a chromosome
  Workers,         \* goroutines of evaluatePopulation
  PopSize, EliteCount, MaxGenerations,
  MinDelta,        \* EarlyStopMinDelta
  Patience,        \* EarlyStopPatience
  RampsToMax       \* ramps after which probability and scale are at their limit

ASSUME EngineAssumption ==
  /\ Raw \subseteq RawChromosome /\ Raw # {}
  /\ \A gene \in Raw : Score(ClampChromosome(gene)) \in Int
  /\ PopSize \in Nat \ {0, 1} /\ EliteCount \in Nat \ {0}
  /\ MaxGenerations \in Nat \ {0} /\ MinDelta \in Nat \ {0}
  /\ Patience \in Nat \ {0} /\ RampsToMax \in Nat \ {0}

Genes == {ClampChromosome(gene) : gene \in Raw}
Indices == 1..PopSize
Idle == 0

VARIABLES
  population, fitness,
  results,      \* of each index, whose evaluation its result is: one gene, at first none
  cache,        \* of each gene that was evaluated, its score
  taken,        \* indices that workers have taken from the queue
  worker,       \* the index each worker evaluates
  firstErr,
  canceled,     \* the context of the run
  phase,
  generation,   \* generationsRun
  historyBest, patience,
  ramp,         \* times mutProb and mutScale were raised
  bests,        \* the best score of each generation
  saved         \* gene and score of the challenger that was saved

ranking == <<generation, historyBest, patience, ramp, bests>>
vars == <<population, fitness, results, cache, taken, worker, firstErr, canceled, phase,
          ranking, saved>>

\* Every variable has its type.  A gene is sound (docs/strategy-math-engine.md,
\* 7.3): what mutation and crossover spoil is repaired before it is evaluated or
\* inherited.
LoopTypeOK ==
  /\ population \in [Indices -> Genes] /\ \A i \in Indices : IsSound(population[i])
  /\ fitness \in [Indices -> Int]
  /\ results \in [Indices -> {{}} \cup {{gene} : gene \in Genes}]
  /\ DOMAIN cache \subseteq Genes /\ \A gene \in DOMAIN cache : cache[gene] \in Int
  /\ taken \in 0..PopSize
  /\ worker \in [Workers -> Indices \cup {Idle}]
  /\ {firstErr, canceled} \subseteq BOOLEAN
  /\ phase \in {"evaluate", "rank", "save", "saved", "failed"}
  /\ generation \in 0..MaxGenerations /\ bests \in Seq(Int) /\ Len(bests) = generation
  /\ historyBest \in Int /\ patience \in 0..Patience /\ ramp \in 0..RampsToMax

-----------------------------------------------------------------------------
(***************************************************************************)
(* evaluatePopulation.                                                     *)
(***************************************************************************)

\* The slices fitness and results are made anew: their elements are zero.
EvaluateNext(next) ==
  /\ population' = next
  /\ fitness' = [i \in Indices |-> 0]
  /\ results' = [i \in Indices |-> {}]
  /\ taken' = 0
  /\ phase' = "evaluate"

\* A tenth of the rest of the first population, rounded half up.
InheritCount == ((PopSize - 1) + 5) \div 10

\* initializePopulation: the champion or the default seed, some elites as they
\* are, and genes that are mutated or sampled.
Init ==
  /\ \E seed \in Genes, elites \in {<<>>} \cup {<<gene>> : gene \in Genes} :
       population \in
         {p \in [Indices -> Genes] :
            /\ p[1] = seed
            /\ elites # <<>> => \A i \in 1..InheritCount : p[i + 1] = elites[1]}
  /\ fitness = [i \in Indices |-> 0]
  /\ results = [i \in Indices |-> {}]
  /\ taken = 0 /\ phase = "evaluate"
  /\ cache = [gene \in {} |-> 0]
  /\ worker = [w \in Workers |-> Idle]
  /\ firstErr = FALSE /\ canceled = FALSE
  /\ generation = 0 /\ historyBest = 0 /\ patience = 0 /\ ramp = 0 /\ bests = <<>>
  /\ saved = {}

Write(i, gene, score) ==
  /\ fitness' = [fitness EXCEPT ![i] = score]
  /\ results' = [results EXCEPT ![i] = {gene}]

\* A worker takes the next index.  With the context canceled there is an error
\* and the worker goes on, to empty the queue; what the cache has is copied.
Take(w) ==
  LET i == taken + 1
      gene == ClampChromosome(population[i])
  IN /\ phase = "evaluate" /\ taken < PopSize /\ worker[w] = Idle
     /\ taken' = i
     /\ \/ /\ canceled
           /\ firstErr' = TRUE
           /\ UNCHANGED <<fitness, results, worker>>
        \/ /\ ~canceled /\ gene \in DOMAIN cache
           /\ Write(i, gene, cache[gene])
           /\ UNCHANGED <<worker, firstErr>>
        \/ /\ ~canceled /\ gene \notin DOMAIN cache
           /\ worker' = [worker EXCEPT ![w] = i]
           /\ UNCHANGED <<fitness, results, firstErr>>
     /\ UNCHANGED <<population, cache, canceled, phase, ranking, saved>>

\* Evaluate returns: the result has its place, and the next one finds it in
\* the cache.
Evaluated(w) ==
  LET gene == ClampChromosome(population[worker[w]]) IN
  /\ worker[w] # Idle
  /\ Write(worker[w], gene, Score(gene))
  /\ cache' = [g \in DOMAIN cache \cup {gene} |-> IF g = gene THEN Score(g) ELSE cache[g]]
  /\ worker' = [worker EXCEPT ![w] = Idle]
  /\ UNCHANGED <<population, taken, firstErr, canceled, phase, ranking, saved>>

\* Evaluate fails, with the context or without.
EvaluateFails(w) ==
  /\ worker[w] # Idle
  /\ worker' = [worker EXCEPT ![w] = Idle]
  /\ firstErr' = TRUE
  /\ UNCHANGED <<population, fitness, results, cache, taken, canceled, phase, ranking, saved>>

\* Mutant: the error of a worker is not returned.
Forgiven == "rank"

AfterEvaluation == IF firstErr THEN "failed" ELSE "rank"

\* wg.Wait: every worker has found the queue empty.
WorkersDone ==
  /\ phase = "evaluate" /\ taken = PopSize /\ \A w \in Workers : worker[w] = Idle
  /\ phase' = AfterEvaluation
  /\ UNCHANGED <<population, fitness, results, cache, taken, worker, firstErr, canceled,
                 ranking, saved>>

-----------------------------------------------------------------------------
(***************************************************************************)
(* The generations.                                                        *)
(***************************************************************************)

\* sortPopulation: the indices by fitness, equal ones in their order.
IsBefore(i, j) == fitness[i] > fitness[j] \/ (fitness[i] = fitness[j] /\ i < j)
Ranks == [n \in Indices |->
            CHOOSE i \in Indices : Cardinality({j \in Indices : IsBefore(j, i)}) = n - 1]
Ranked(seq) == [i \in Indices |-> seq[Ranks[i]]]

\* Mutant: the genes are sorted and the results are not.
UnrankedBest == [gene |-> population[Ranks[1]], of |-> results[1], score |-> fitness[Ranks[1]]]

Best == [gene |-> population[Ranks[1]], of |-> results[Ranks[1]], score |-> fitness[Ranks[1]]]

\* The first generation is an improvement on nothing.
Improves == generation = 0 \/ Best.score - historyBest >= MinDelta

\* Mutant: patience is not counted anew after a ramp.
KeptPatience(count) == count

PatienceAfterRamp(count) == 0

\* Fewer than all.
Elites == Least(EliteCount, PopSize - 1)

\* A generation: rank, count the patience and raise the ramp; at its limit the
\* loop is left, else the elites stay and the others are bred.
Generation ==
  LET count == IF Improves THEN 0 ELSE patience + 1
      ramps == IF count >= Patience THEN Least(ramp + 1, RampsToMax) ELSE ramp
      stops == count >= Patience /\ ramps = RampsToMax
  IN /\ phase = "rank" /\ generation < MaxGenerations /\ ~canceled
     /\ generation' = generation + 1
     /\ bests' = Append(bests, Best.score)
     /\ historyBest' = IF Improves THEN Best.score ELSE historyBest
     /\ ramp' = ramps
     /\ patience' = IF count >= Patience /\ ~stops THEN PatienceAfterRamp(count) ELSE count
     /\ \/ /\ stops /\ phase' = "save"
           /\ UNCHANGED <<population, fitness, results, taken>>
        \/ /\ ~stops
           /\ \E bred \in [Elites + 1 .. PopSize -> Genes] :
                EvaluateNext([i \in Indices |-> IF i <= Elites THEN Ranked(population)[i]
                                                              ELSE bred[i]])
     /\ UNCHANGED <<cache, worker, firstErr, canceled, saved>>

\* The last generation is bred and evaluated, or there was an early stop.
LoopIsOver == phase = "save" \/ (phase = "rank" /\ generation = MaxGenerations)

\* The best of the last population is encoded and saved, with the context.
SaveChallenger ==
  /\ LoopIsOver /\ ~canceled
  /\ saved' = {[gene |-> ClampChromosome(Best.gene), of |-> Best.of, score |-> Best.score]}
  /\ phase' = "saved"
  /\ UNCHANGED <<population, fitness, results, cache, taken, worker, firstErr, canceled,
                 ranking>>

\* The canceled context is noticed between generations or by the database,
\* which may also fail without it.
RunFails ==
  /\ LoopIsOver \/ (phase = "rank" /\ canceled)
  /\ phase' = "failed"
  /\ UNCHANGED <<population, fitness, results, cache, taken, worker, firstErr, canceled,
                 ranking, saved>>

Cancel ==
  /\ ~canceled /\ phase \notin {"saved", "failed"}
  /\ canceled' = TRUE
  /\ UNCHANGED <<population, fitness, results, cache, taken, worker, firstErr, phase, ranking,
                 saved>>

WorkerStep(w) == Take(w) \/ Evaluated(w) \/ EvaluateFails(w)
EngineStep == WorkersDone \/ Generation \/ SaveChallenger \/ RunFails

\* RunEpoch has returned.  Nothing else may stop: a deadlock is an error.
Returned == phase \in {"saved", "failed"} /\ UNCHANGED vars

Next == EngineStep \/ Cancel \/ Returned \/ \E w \in Workers : WorkerStep(w)

Spec == Init /\ [][Next]_vars

-----------------------------------------------------------------------------
(***************************************************************************)
(* Properties.                                                             *)
(***************************************************************************)

\* A population is ranked by its own results: whichever worker took which
\* index, and whatever the cache or an error did, no gene is ranked by the
\* zero of an evaluation that never was, or by the result of another.
RankedByOwnResults ==
  phase \in {"rank", "save"} =>
    \A i \in Indices : results[i] = {population[i]} /\ fitness[i] = Score(population[i])

\* docs/evolution-engine.md, 2.6: the challenger is the best gene of all that
\* were evaluated in the run, in whichever generation, and the report and the
\* score that are saved with it are its own.
SavedIsBest ==
  \A s \in saved :
    /\ s.of = {s.gene} /\ s.score = Score(s.gene)
    /\ \A gene \in DOMAIN cache : Score(gene) <= s.score

\* docs/evolution-engine.md, 2.7: each ramp, and so an early stop, takes as
\* many generations as the patience says in which the best score did not rise
\* enough.
StopIsEarned ==
  /\ ramp > 0 => Patience * ramp < Len(bests)
  /\ phase = "save" => bests[generation] - bests[generation - Patience] < MinDelta
=============================================================================
