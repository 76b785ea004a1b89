--------------------------------- MODULE Lots ---------------------------------
(***************************************************************************)
(* Spot lots, in their order: what SpotLedger and SpotReplay share.  Cost  *)
(* prices are left out; a cold-sealed lot is one of its type.              *)
(***************************************************************************)
EXTENDS Naturals, Sequences, Functions

LotTypes == {"DEAD_STACK", "FLOATING", "COLD_SEALED"}

\* Amounts by lot: those of a type, and zero for the others.
Amounts(ls, type) == [i \in DOMAIN ls |-> IF ls[i].type = type THEN ls[i].amount ELSE 0]

Total(ls, type) == SumFunction(Amounts(ls, type))

\* One lot for every positive amount of a seed.
SeedLots(seed) ==
  LET lot(type) == IF seed[type] > 0 THEN <<[type |-> type, amount |-> seed[type]]>> ELSE <<>>
  IN lot("DEAD_STACK") \o lot("FLOATING") \o lot("COLD_SEALED")
=============================================================================
