---------------------------- MODULE MCBacktestRuns ----------------------------
(***************************************************************************)
(* Two requests at once whose ranges overlap and may end in the future.    *)
(* r1 asks for both symbols, from the middle of bar 1, whose first bar of  *)
(* btc after that is worthless; r2 for one: a range whose first bar the    *)
(* exchange never had, which fails at once or after other bars have been   *)
(* stored, the last bars of another range, or whatever is stored.          *)
(***************************************************************************)
EXTENDS BacktestRuns

CONSTANTS r1, r2, btc, eth

Timed(symbols, start, end, limit) ==
  [symbols |-> symbols, timed |-> TRUE, start |-> start, end |-> end, evalStart |-> start,
   limit |-> limit]

MCRequests ==
  [r \in Calls |->
    IF r = r1 THEN {Timed(<<btc, eth>>, 3, 7, 0)}
    ELSE {Timed(<<eth>>, 0, 8, 0), Timed(<<eth>>, 4, 8, 2),
          [symbols |-> <<eth>>, timed |-> FALSE, evalStart |-> 2, limit |-> 0]}]

MCGaps == {<<eth, 0>>}
MCStored == {{}, {1, 3}}
MCWorthless == {<<btc, 2>>}
=============================================================================
