----------------------- MODULE ChampionPromotionProofs -----------------------
(***************************************************************************)
(* Theorems about ChampionPromotion, for any number of genes, tasks,       *)
(* promotions, lookups and rollbacks.                                      *)
(*                                                                         *)
(* Row locks carry the argument: a promotion beyond LockGene holds its     *)
(* challenger alone (ChallengerHeld), and what it is about to retire has   *)
(* been a champion (RetiresChampions), so no commit turns a retired gene   *)
(* into a champion or a challenger.  That there is one champion needs the  *)
(* lock of the task row: if all promotions name the same task only one of  *)
(* them runs at a time (Alone), and it sees the champion it replaces.      *)
(***************************************************************************)
EXTENDS ChampionPromotion, FiniteSetTheorems, TLAPS

\* A promotion past LockGene holds its gene, which is a challenger, alone.
ChallengerHeld ==
  \A p \in Promoters :
    promoter[p].at \in {"retire", "wait", "commit"} =>
      /\ promoter[p].gene \in Genes
      /\ IsChallenger(promoter[p].gene)
      /\ \A q \in Promoters \ {p} :
           promoter[q].at \in {"retire", "wait", "commit"} => promoter[q].gene # promoter[p].gene

\* A promotion past LockTask names a gene of the strategy.
GeneNamed == \A p \in Promoters : promoter[p].at = "gene" => promoter[p].gene \in Genes

\* What a promotion is about to retire has been a champion.
RetiresChampions ==
  \A p \in Promoters : \A g \in promoter[p].old : role[g] # "challenger"

\* The inductive invariant.
IInv ==
  /\ TypeOK
  /\ GeneNamed
  /\ ChallengerHeld
  /\ RetiresChampions
  /\ OnlyPromotedIsServed

\* The challengers saved by evolution satisfy the invariant.
LEMMA InvInit == Init => IInv
  BY PromotionAssumption DEF Init, IInv, TypeOK, GeneNamed, ChallengerHeld, RetiresChampions,
       OnlyPromotedIsServed, IdlePromoter, IdleLoader, Roles

\* The states of a promotion, as in TypeOK.
Transactions ==
  [at : {"idle", "gene", "retire", "wait", "commit", "invalidate"}, task : Tasks \cup {NoTask},
   gene : Genes \cup {NoGene}, old : SUBSET Genes, rank : Nat]

LEMMA TransactionStep ==
  ASSUME NEW r \in Transactions, NEW rows \in SUBSET Genes, NEW rank \in Nat
  PROVE  /\ [r EXCEPT !.at = "wait", !.old = rows] \in Transactions
         /\ [r EXCEPT !.at = "commit", !.old = rows, !.rank = rank] \in Transactions
  BY DEF Transactions

\* Every step keeps the types.
LEMMA StepTypes == TypeOK /\ [Next]_vars => TypeOK'
  <1> SUFFICES ASSUME TypeOK, [Next]_vars PROVE TypeOK'
    OBVIOUS
  <1> USE DEF TypeOK, IdlePromoter, IdleLoader, Roles
  <1>1. CASE UNCHANGED vars
    BY <1>1 DEF vars
  <1>2. ASSUME NEW p \in Promoters, PromoterStep(p) PROVE TypeOK'
    <2>1. ASSUME NEW t \in Tasks, NEW g \in Genes, LockTask(p, t, g) PROVE TypeOK'
      BY <2>1 DEF LockTask
    <2>2. CASE LockGene(p)
      <3>1. CASE IsChallenger(promoter[p].gene)
        BY <2>2, <3>1 DEF LockGene
      <3>2. CASE ~IsChallenger(promoter[p].gene)
        BY <2>2, <3>2 DEF LockGene
      <3> QED
        BY <3>1, <3>2
    <2>3. CASE RetireBegin(p)
      <3>1. promoter' = [promoter EXCEPT ![p] = [promoter[p] EXCEPT !.at = "wait", !.old = Champions]]
        BY <2>3 DEF RetireBegin
      <3>2. promoter[p] \in Transactions /\ Champions \in SUBSET Genes
        BY DEF Champions, Transactions
      <3>3. [promoter[p] EXCEPT !.at = "wait", !.old = Champions] \in Transactions
        BY <3>2, TransactionStep, Zenon
      <3>4. promoter' \in [Promoters -> Transactions]
        BY <3>1, <3>3 DEF Transactions
      <3> QED
        BY <2>3, <3>4 DEF RetireBegin, Transactions
    <2>4. CASE RetireEnd(p)
      <3>1. promoter' = [promoter EXCEPT ![p] =
                           [promoter[p] EXCEPT !.at = "commit", !.old = @ \cap Champions,
                                               !.rank = clock + 1]]
        BY <2>4 DEF RetireEnd
      <3>2. /\ promoter[p] \in Transactions
            /\ promoter[p].old \cap Champions \in SUBSET Genes
            /\ clock + 1 \in Nat
        BY DEF Champions, Transactions
      <3>3. [promoter[p] EXCEPT !.at = "commit", !.old = @ \cap Champions, !.rank = clock + 1]
              \in Transactions
        BY <3>2, TransactionStep, Zenon
      <3>4. promoter' \in [Promoters -> Transactions]
        BY <3>1, <3>3 DEF Transactions
      <3> QED
        BY <2>4, <3>4 DEF RetireEnd, Transactions
    <2>5. CASE Commit(p)
      <3>1. promoter' = [promoter EXCEPT ![p] = [IdlePromoter EXCEPT !.at = "invalidate"]]
        BY <2>5 DEF Commit
      <3>2. promoter' \in [Promoters -> Transactions]
        BY <3>1 DEF Transactions
      <3>3. role' \in [Genes -> Roles]
        BY <2>5 DEF Commit, RolesAfter
      <3>4. updated' \in [Genes -> Nat]
        BY <2>5 DEF Commit
      <3> QED
        BY <2>5, <3>2, <3>3, <3>4 DEF Commit, Transactions
    <2>6. CASE Rollback(p)
      BY <2>6, PromotionAssumption DEF Rollback
    <2>7. CASE Invalidate(p)
      BY <2>7 DEF Invalidate
    <2> QED
      BY <1>2, <2>1, <2>2, <2>3, <2>4, <2>5, <2>6, <2>7 DEF PromoterStep
  <1>3. ASSUME NEW l \in Loaders, LoaderStep(l) PROVE TypeOK'
    BY <1>3 DEF LoaderStep, MissCache, ReadChampion, SetCache, Latest, Champions
  <1>4. CASE Expire
    BY <1>4 DEF Expire
  <1> QED
    BY <1>1, <1>2, <1>3, <1>4 DEF Next

\* A commit is the only step that changes roles: it makes a challenger
\* champion and retires no challenger.
LEMMA CommitRoles ==
  ASSUME IInv, NEW p \in Promoters, Commit(p)
  PROVE  \A g \in Genes :
           /\ role'[g] = "challenger" <=> role[g] = "challenger" /\ g # promoter[p].gene
           /\ role[g] = "retired" => role'[g] = "retired"
           /\ role'[g] = "champion" => role[g] = "champion" \/ g = promoter[p].gene
  BY DEF IInv, TypeOK, ChallengerHeld, RetiresChampions, IsChallenger, Commit, RolesAfter

LEMMA RolesStay ==
  ASSUME [Next]_vars, \A p \in Promoters : ~Commit(p)
  PROVE  role' = role
  BY DEF Next, vars, PromoterStep, LoaderStep, LockTask, LockGene, RetireBegin, RetireEnd,
       Rollback, Invalidate, MissCache, ReadChampion, SetCache, Expire

\* The locks of promotions are kept by every step.
LEMMA LocksStep ==
  IInv /\ [Next]_vars => GeneNamed' /\ ChallengerHeld' /\ RetiresChampions'
  <1> SUFFICES ASSUME IInv, [Next]_vars PROVE GeneNamed' /\ ChallengerHeld' /\ RetiresChampions'
    OBVIOUS
  <1> USE DEF IInv, GeneNamed, ChallengerHeld, RetiresChampions
  <1>1. CASE UNCHANGED <<role, promoter>>
    BY <1>1 DEF IsChallenger
  <1>2. ASSUME NEW p \in Promoters, PromoterStep(p)
        PROVE  GeneNamed' /\ ChallengerHeld' /\ RetiresChampions'
    <2>1. ASSUME NEW t \in Tasks, NEW g \in Genes, LockTask(p, t, g)
          PROVE  GeneNamed' /\ ChallengerHeld' /\ RetiresChampions'
      BY <2>1 DEF LockTask, TypeOK, IdlePromoter, IsChallenger
    <2>2. CASE LockGene(p)
      <3>1. \A q \in Promoters \ {p} :
              promoter[q].at \in {"retire", "wait", "commit"} => promoter[q].gene # promoter[p].gene
        BY <2>2 DEF LockGene, HeldByOthers, RowsHeld
      <3> QED
        BY <2>2, <3>1 DEF LockGene, TypeOK, IdlePromoter, IsChallenger
    <2>3. CASE RetireBegin(p)
      BY <2>3 DEF RetireBegin, TypeOK, Champions, IsChallenger
    <2>4. CASE RetireEnd(p)
      BY <2>4 DEF RetireEnd, TypeOK, IsChallenger
    <2>5. CASE Commit(p)
      <3>1. /\ promoter' = [promoter EXCEPT ![p] = [IdlePromoter EXCEPT !.at = "invalidate"]]
            /\ promoter[p].at = "commit"
        BY <2>5 DEF Commit
      <3>2. \A q \in Promoters : q # p => promoter'[q] = promoter[q]
        BY <3>1 DEF TypeOK
      <3>3. promoter'[p].at = "invalidate" /\ promoter'[p].old = {}
        BY <3>1 DEF TypeOK, IdlePromoter
      <3>4. GeneNamed'
        BY <3>2, <3>3
      <3>5. ChallengerHeld'
        BY <2>5, <3>1, <3>2, <3>3, CommitRoles DEF IsChallenger
      <3>6. RetiresChampions'
        BY <2>5, <3>2, <3>3, CommitRoles DEF TypeOK
      <3> QED
        BY <3>4, <3>5, <3>6
    <2>6. CASE Rollback(p)
      BY <2>6 DEF Rollback, TypeOK, IdlePromoter, IsChallenger
    <2>7. CASE Invalidate(p)
      BY <2>7 DEF Invalidate, TypeOK, IdlePromoter, IsChallenger
    <2> QED
      BY <1>2, <2>1, <2>2, <2>3, <2>4, <2>5, <2>6, <2>7 DEF PromoterStep
  <1> QED
    BY <1>1, <1>2 DEF Next, vars, LoaderStep, MissCache, ReadChampion, SetCache, Expire

\* Nothing that is cached, or about to be, was ever only a challenger.
LEMMA ServedStep == IInv /\ [Next]_vars => OnlyPromotedIsServed'
  <1> SUFFICES ASSUME IInv, [Next]_vars PROVE OnlyPromotedIsServed'
    OBVIOUS
  <1> USE DEF IInv, OnlyPromotedIsServed
  <1>1. \A g \in Genes : role[g] # "challenger" => role'[g] # "challenger"
    BY CommitRoles, RolesStay
  <1>2. ASSUME NEW p \in Promoters, PromoterStep(p) PROVE OnlyPromotedIsServed'
    <2>1. cache' \in {NoGene, cache} /\ loader' = loader
      BY <1>2 DEF PromoterStep, LockTask, LockGene, RetireBegin, RetireEnd, Commit, Rollback,
           Invalidate
    <2> QED
      BY <1>1, <2>1 DEF TypeOK
  <1>3. ASSUME NEW l \in Loaders, LoaderStep(l) PROVE OnlyPromotedIsServed'
    <2>1. CASE MissCache(l)
      BY <2>1 DEF MissCache, TypeOK
    <2>2. CASE ReadChampion(l)
      BY <2>2 DEF ReadChampion, Latest, Champions, IdleLoader, TypeOK
    <2>3. CASE SetCache(l)
      BY <2>3 DEF SetCache, IdleLoader, TypeOK
    <2> QED
      BY <1>3, <2>1, <2>2, <2>3 DEF LoaderStep
  <1>4. CASE Expire
    BY <1>4 DEF Expire
  <1>5. CASE UNCHANGED vars
    BY <1>5 DEF vars
  <1> QED
    BY <1>2, <1>3, <1>4, <1>5 DEF Next

LEMMA Inductive == Spec => []IInv
  <1>1. IInv /\ [Next]_vars => IInv'
    BY StepTypes, LocksStep, ServedStep DEF IInv
  <1> QED
    BY <1>1, InvInit, PTL DEF Spec

\* Roles, times, transactions and the cache keep their types.
THEOREM TypeCorrect == Spec => []TypeOK
  <1>1. IInv => TypeOK
    BY DEF IInv
  <1> QED
    BY <1>1, Inductive, PTL

\* Whatever Redis and concurrent promotions do, GetChampionGenome and ticks
\* only get packs that were promoted.
THEOREM ServesPromoted == Spec => []OnlyPromotedIsServed
  <1>1. IInv => OnlyPromotedIsServed
    BY DEF IInv
  <1> QED
    BY <1>1, Inductive, PTL

\* However many promotions run, with or without a task, none brings a
\* retired gene back.
THEOREM RetiresForGood == Spec => RetiredForGood
  <1>1. IInv /\ [Next]_vars => \A g \in Genes : role[g] = "retired" => role'[g] = "retired"
    BY CommitRoles, RolesStay
  <1> QED
    BY <1>1, Inductive, PTL DEF Spec, RetiredForGood

-----------------------------------------------------------------------------
(***************************************************************************)
(* Promotions that all name the same task.                                 *)
(***************************************************************************)

OneTask == NoTask \notin Tasks /\ \A t, u \in Tasks : t = u

\* The task row is held by one promotion, which knows the only champion.
Alone ==
  /\ \A p \in Promoters : InTransaction(p) => promoter[p].task \in Tasks
  /\ \A p, q \in Promoters : InTransaction(p) /\ InTransaction(q) => p = q
  /\ \A p \in Promoters : promoter[p].at \in {"wait", "commit"} => Champions \subseteq promoter[p].old
  /\ \A g, h \in Champions : g = h

LEMMA AloneStep ==
  ASSUME OneTask, IInv, Alone, [Next]_vars
  PROVE  Alone'
  <1> USE DEF Alone, InTransaction
  <1> USE DEF IInv
  <1>1. CASE UNCHANGED <<role, promoter>>
    BY <1>1 DEF Champions
  <1>2. ASSUME NEW p \in Promoters, NEW t \in Tasks, NEW g \in Genes, LockTask(p, t, g) PROVE Alone'
    <2>1. \A q \in Promoters : ~InTransaction(q)
      BY <1>2 DEF LockTask, TaskHeld, OneTask
    <2> QED
      BY <1>2, <2>1 DEF LockTask, IdlePromoter, TypeOK, Champions
  <1>3. ASSUME NEW p \in Promoters,
               LockGene(p) \/ RetireBegin(p) \/ RetireEnd(p) \/ Rollback(p) \/ Invalidate(p)
        PROVE  Alone'
    <2>1. Champions' = Champions
      BY <1>3 DEF LockGene, RetireBegin, RetireEnd, Rollback, Invalidate, Champions
    <2>2. CASE LockGene(p)
      BY <2>1, <2>2 DEF LockGene, TypeOK, IdlePromoter
    <2>3. CASE RetireBegin(p)
      BY <2>1, <2>3 DEF RetireBegin, TypeOK
    <2>4. CASE RetireEnd(p)
      BY <2>1, <2>4 DEF RetireEnd, TypeOK
    <2>5. CASE Rollback(p)
      BY <2>1, <2>5 DEF Rollback, TypeOK, IdlePromoter
    <2>6. CASE Invalidate(p)
      BY <2>1, <2>6 DEF Invalidate, TypeOK, IdlePromoter
    <2> QED
      BY <1>3, <2>2, <2>3, <2>4, <2>5, <2>6
  <1>4. ASSUME NEW p \in Promoters, Commit(p) PROVE Alone'
    <2>1. \A q \in Promoters : ~InTransaction(q)'
      BY <1>4 DEF Commit, TypeOK, IdlePromoter
    <2>2. \A g \in Genes : g \in Champions' => g = promoter[p].gene
      BY <1>4 DEF Commit, RolesAfter, Champions, TypeOK
    <2> QED
      BY <2>1, <2>2 DEF Champions
  <1> QED
    BY <1>1, <1>2, <1>3, <1>4 DEF Next, vars, PromoterStep, LoaderStep, MissCache, ReadChampion,
         SetCache, Expire

\* When every promotion names the one task, FOR UPDATE on its row leaves at
\* most one champion, for any number of promotions and genes.
THEOREM OneChampionOfTask == OneTask /\ Spec => []OneChampion
  <1> SUFFICES ASSUME OneTask PROVE Spec => []OneChampion
    OBVIOUS
  <1>1. Init => Alone
    BY DEF Init, Alone, InTransaction, IdlePromoter, Champions
  <1>2. IInv /\ Alone /\ [Next]_vars => Alone'
    BY AloneStep
  <1>3. Alone => OneChampion
    <2> SUFFICES ASSUME Alone PROVE OneChampion
      OBVIOUS
    <2>1. CASE Champions = {}
      BY <2>1, FS_EmptySet DEF OneChampion
    <2>2. CASE Champions # {}
      <3>1. PICK g \in Champions : Champions = {g}
        BY <2>2 DEF Alone
      <3> QED
        BY <3>1, FS_Singleton DEF OneChampion
    <2> QED
      BY <2>1, <2>2
  <1> QED
    BY <1>1, <1>2, <1>3, Inductive, PTL DEF Spec
=============================================================================
