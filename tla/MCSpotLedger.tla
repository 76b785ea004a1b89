----------------------------- MODULE MCSpotLedger -----------------------------
(***************************************************************************)
(* SpotLedger on a small portfolio.                                        *)
(***************************************************************************)
EXTENDS SpotLedger

\* Enough dead stack to split a lot, enough floating stack to sell twice.
MCSeed ==
  [type \in LotTypes |-> CASE type = "DEAD_STACK" -> 2
                           [] type = "FLOATING" -> 1
                           [] type = "COLD_SEALED" -> 1]
=============================================================================
