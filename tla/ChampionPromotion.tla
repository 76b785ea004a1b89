-------------------------- MODULE ChampionPromotion --------------------------
(***************************************************************************)
(* The champion parameter pack of one strategy and symbol: promotions      *)
(* replace it in Postgres and invalidate the Redis cache, ticks and the    *)
(* champion API read it through the cache.                                 *)
(*                                                                         *)
(* A promotion is modelled statement by statement, as Postgres runs it     *)
(* under READ COMMITTED: a statement sees what was committed when it       *)
(* began, waits for rows locked by another transaction, and looks again    *)
(* at those rows only.                                                     *)
(***************************************************************************)
EXTENDS Naturals, FiniteSets

CONSTANTS
  Genes,       \* gene_records of the strategy and symbol
  NoGene,      \* none of them
  Tasks,       \* evolution tasks a promotion may name
  NoTask,      \* among Tasks when a promotion may name a gene without a task
  Promoters,   \* promotions that run at the same time
  Loaders,     \* lookups that run at the same time
  RedisFails,  \* a call to Redis may fail
  MaxRollbacks \* bounds the promotions that are rolled back

ASSUME PromotionAssumption ==
  /\ NoGene \notin Genes
  /\ RedisFails \in BOOLEAN
  /\ MaxRollbacks \in Nat

VARIABLES
  role,        \* committed gene_records.role
  updated,     \* committed gene_records.updated_at
  clock,       \* the times given out, in updates of a challenger
  promoter,    \* the promotions: where they are, their rows, their rank
  loader,      \* the lookups: where they are and what they read
  cache,       \* the champion key of Redis
  rollbacks    \* promotions rolled back so far

vars == <<role, updated, clock, promoter, loader, cache, rollbacks>>

Roles == {"challenger", "champion", "retired"}

\* Every variable has its type.
TypeOK ==
  /\ role \in [Genes -> Roles]
  /\ updated \in [Genes -> Nat]
  /\ clock \in Nat
  /\ promoter \in
       [Promoters -> [at : {"idle", "gene", "retire", "wait", "commit", "invalidate"},
                      task : Tasks \cup {NoTask}, gene : Genes \cup {NoGene},
                      old : SUBSET Genes, rank : Nat]]
  /\ loader \in [Loaders -> [at : {"idle", "miss", "set"}, gene : Genes \cup {NoGene}]]
  /\ cache \in Genes \cup {NoGene}
  /\ rollbacks \in 0..MaxRollbacks

IdlePromoter == [at |-> "idle", task |-> NoTask, gene |-> NoGene, old |-> {}, rank |-> 0]
IdleLoader == [at |-> "idle", gene |-> NoGene]

\* The challengers have been saved by evolution tasks.
Init ==
  /\ role = [g \in Genes |-> "challenger"]
  /\ updated = [g \in Genes |-> 0]
  /\ clock = 0
  /\ promoter = [p \in Promoters |-> IdlePromoter]
  /\ loader = [l \in Loaders |-> IdleLoader]
  /\ cache = NoGene
  /\ rollbacks = 0

Champions == {g \in Genes : role[g] = "champion"}

-----------------------------------------------------------------------------
(***************************************************************************)
(* PromoteEvolutionTask.                                                   *)
(***************************************************************************)

InTransaction(p) == promoter[p].at \in {"gene", "retire", "wait", "commit"}

\* Mutant: the task is read without FOR UPDATE.
TaskNeverHeld(t) == FALSE

TaskHeld(t) == t # NoTask /\ \E p \in Promoters : InTransaction(p) /\ promoter[p].task = t

\* Rows a promotion has locked: its challenger, and the champions it retires.
RowsHeld(p) ==
  CASE promoter[p].at \in {"retire", "wait"} -> {promoter[p].gene}
    [] promoter[p].at = "commit" -> {promoter[p].gene} \cup promoter[p].old
    [] OTHER -> {}

HeldByOthers(p, rows) == \E q \in Promoters \ {p} : RowsHeld(q) \cap rows # {}

\* The transaction begins with the task row, if there is one.
LockTask(p, t, g) ==
  /\ promoter[p].at = "idle"
  /\ ~TaskHeld(t)
  /\ promoter' = [promoter EXCEPT ![p] =
                    [IdlePromoter EXCEPT !.at = "gene", !.task = t, !.gene = g]]
  /\ UNCHANGED <<role, updated, clock, loader, cache, rollbacks>>

\* Mutant: any gene may be promoted, a retired one too.
AnyGene(g) == TRUE

IsChallenger(g) == role[g] = "challenger"

\* The gene row, once nobody else holds it; it must be a challenger.
LockGene(p) ==
  LET g == promoter[p].gene IN
  /\ promoter[p].at = "gene"
  /\ ~HeldByOthers(p, {g})
  /\ promoter' = IF IsChallenger(g) THEN [promoter EXCEPT ![p].at = "retire"]
                 ELSE [promoter EXCEPT ![p] = IdlePromoter]
  /\ UNCHANGED <<role, updated, clock, loader, cache, rollbacks>>

\* UPDATE ... WHERE role = 'champion' begins: the rows it can see, ...
RetireBegin(p) ==
  /\ promoter[p].at = "retire"
  /\ promoter' = [promoter EXCEPT ![p].at = "wait", ![p].old = Champions]
  /\ UNCHANGED <<role, updated, clock, loader, cache, rollbacks>>

\* ... and ends: those still champions once their rows are free.  The update
\* of the challenger follows, with the time; its row is held already.
RetireEnd(p) ==
  /\ promoter[p].at = "wait"
  /\ ~HeldByOthers(p, promoter[p].old)
  /\ clock' = clock + 1
  /\ promoter' = [promoter EXCEPT ![p].at = "commit", ![p].old = @ \cap Champions,
                                  ![p].rank = clock']
  /\ UNCHANGED <<role, updated, loader, cache, rollbacks>>

RolesAfter(p) ==
  [g \in Genes |-> IF g = promoter[p].gene THEN "champion"
                   ELSE IF g \in promoter[p].old THEN "retired" ELSE role[g]]

Commit(p) ==
  /\ promoter[p].at = "commit"
  /\ role' = RolesAfter(p)
  /\ updated' = [updated EXCEPT ![promoter[p].gene] = promoter[p].rank]
  /\ promoter' = [promoter EXCEPT ![p] = [IdlePromoter EXCEPT !.at = "invalidate"]]
  /\ UNCHANGED <<clock, loader, cache, rollbacks>>

\* A statement fails or the client is gone: everything is rolled back.
Rollback(p) ==
  /\ InTransaction(p)
  /\ rollbacks < MaxRollbacks
  /\ rollbacks' = rollbacks + 1
  /\ promoter' = [promoter EXCEPT ![p] = IdlePromoter]
  /\ UNCHANGED <<role, updated, clock, loader, cache>>

\* The cached pack is deleted, or Redis fails: the promotion stands.
Invalidate(p) ==
  /\ promoter[p].at = "invalidate"
  /\ cache' \in {NoGene} \cup (IF RedisFails THEN {cache} ELSE {})
  /\ promoter' = [promoter EXCEPT ![p] = IdlePromoter]
  /\ UNCHANGED <<role, updated, clock, loader, rollbacks>>

-----------------------------------------------------------------------------
(***************************************************************************)
(* loadChampionParamPack and GetChampionGenome.                            *)
(***************************************************************************)

\* Redis has nothing, or does not answer.  (A hit ends the lookup.)
MissCache(l) ==
  /\ loader[l].at = "idle"
  /\ cache = NoGene \/ RedisFails
  /\ loader' = [loader EXCEPT ![l].at = "miss"]
  /\ UNCHANGED <<role, updated, clock, promoter, cache, rollbacks>>

\* Mutant: the role is not part of the query.
AnyLatest == {g \in Genes : \A h \in Genes : updated[h] <= updated[g]}

\* WHERE role = 'champion' ORDER BY updated_at DESC.
Latest == {g \in Champions : \A h \in Champions : updated[h] <= updated[g]}

\* The database is read; without a champion the lookup is an error.
ReadChampion(l) ==
  /\ loader[l].at = "miss"
  /\ \/ /\ Latest = {}
        /\ loader' = [loader EXCEPT ![l] = IdleLoader]
     \/ \E g \in Latest : loader' = [loader EXCEPT ![l] = [at |-> "set", gene |-> g]]
  /\ UNCHANGED <<role, updated, clock, promoter, cache, rollbacks>>

\* What was read is cached; a failure is ignored.
SetCache(l) ==
  /\ loader[l].at = "set"
  /\ cache' \in {loader[l].gene} \cup (IF RedisFails THEN {cache} ELSE {})
  /\ loader' = [loader EXCEPT ![l] = IdleLoader]
  /\ UNCHANGED <<role, updated, clock, promoter, rollbacks>>

\* Mutant: the pack is cached without a TTL.
NeverExpires ==
  /\ FALSE
  /\ UNCHANGED vars

\* Its five minutes are over.
Expire ==
  /\ cache # NoGene
  /\ cache' = NoGene
  /\ UNCHANGED <<role, updated, clock, promoter, loader, rollbacks>>

-----------------------------------------------------------------------------

PromoterStep(p) ==
  \/ \E t \in Tasks, g \in Genes : LockTask(p, t, g)
  \/ LockGene(p) \/ RetireBegin(p) \/ RetireEnd(p) \/ Commit(p) \/ Rollback(p) \/ Invalidate(p)

LoaderStep(l) == MissCache(l) \/ ReadChampion(l) \/ SetCache(l)

Next ==
  \/ \E p \in Promoters : PromoterStep(p)
  \/ \E l \in Loaders : LoaderStep(l)
  \/ Expire

Spec == Init /\ [][Next]_vars

(***************************************************************************)
(* A lookup that has begun ends, and Redis expires keys.  Nobody has to    *)
(* promote, to retry, or to look anything up.                              *)
(***************************************************************************)
FairSpec ==
  /\ Spec
  /\ \A l \in Loaders : WF_vars(ReadChampion(l)) /\ WF_vars(SetCache(l))
  /\ WF_vars(Expire)

-----------------------------------------------------------------------------
(***************************************************************************)
(* Properties.                                                             *)
(***************************************************************************)

\* docs/evolution-engine.md, chapter 6: there are never two champions.  The
\* code ensures it for promotions that name the same task, whose row they lock.
OneChampion == Cardinality(Champions) <= 1

\* A retired gene never comes back, though the request that names it may have
\* been sent when it was a challenger (the role is read under the row lock).
RetiredForGood ==
  [][\A g \in Genes : role[g] = "retired" => role'[g] = "retired"]_vars

\* Ticks only ever get a pack somebody promoted: nothing unapproved is
\* cached or about to be.
OnlyPromotedIsServed ==
  \A g \in {cache} \cup {loader[l].gene : l \in Loaders} :
    g # NoGene => role[g] # "challenger"

\* A replaced champion is forgotten for good, whatever a failing Redis or a
\* slow lookup left in the cache: the TTL bounds it.
RetiredIsForgotten == \A g \in Genes : role[g] = "retired" ~> [](cache # g)
=============================================================================
