-------------------------- MODULE ReplayConstraints --------------------------
(***************************************************************************)
(* What the spot and the margin ledger of a backtest share: the            *)
(* constraints of a trade (quant.TradingConstraints) and the rounding of a *)
(* quantity (adapters/backtest/run.go).                                    *)
(***************************************************************************)
EXTENDS Integers

CONSTANTS
  LotStep, LotMin, MinOrder,   \* TradingConstraints
  FeePct                       \* the fee rate, in percent

ASSUME ConstraintsAssumption ==
  LotStep \in Nat \ {0} /\ LotMin \in Nat /\ MinOrder \in Nat \ {0} /\ FeePct \in 0..100

\* Mutant of FloorToStep: rounds up.
CeilToStep(x) == ((x + LotStep - 1) \div LotStep) * LotStep

FloorToStep(x) == (x \div LotStep) * LotStep
=============================================================================
