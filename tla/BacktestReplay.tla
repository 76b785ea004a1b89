---------------------------- MODULE BacktestReplay ----------------------------
(***************************************************************************)
(* RunBacktest: the bars of one window, and the ledger that the terms of   *)
(* the run select.  Prices, months and what Step() answers are inputs.     *)
(***************************************************************************)
EXTENDS SpotReplay, MarginReplay

CONSTANTS
  Prices, Months,        \* of bars; a price 0 is a bar without one
  MaxBars,               \* bound on the window
  Seeds,                 \* what the buckets may hold at first
  Terms,                 \* direction and leverage that are asked for
  SpotOutputs,           \* what Step() may return on a spot ledger
  MarginOutputs          \* ... and on a margin ledger

ASSUME WindowAssumption ==
  /\ Prices \subseteq Nat /\ Months \subseteq Nat /\ Months # {} /\ MaxBars \in Nat
  /\ Seeds \subseteq [LotTypes -> Nat]
  /\ Terms \subseteq [direction : Directions, leverage : Nat \ {0}]
  /\ SpotOutputs \subseteq OutputsOf(SpotIntents)
  /\ MarginOutputs \subseteq OutputsOf(MarginIntents)

VARIABLES
  bar,                   \* bars that were evaluated
  month,                 \* of the last bar
  last                   \* price and output of the last bar; at first, the price of the first

replayVars == <<svars, mvars, bar, month, last>>

\* useMarginLedger
UseMargin == terms.leverage > 1 \/ terms.direction \in {"short", "long_short"}

\* Every variable has its type.
ReplayTypeOK ==
  /\ SpotTypeOK /\ MarginTypeOK
  /\ bar \in 0..MaxBars /\ month \in Months

ReplayInit ==
  /\ bar = 0 /\ month = Min(Months)
  /\ \E price \in Prices \ {0} :
       last = [price |-> price, output |-> [conversions |-> <<>>, macro |-> <<>>, micro |-> <<>>]]
  /\ \E seed \in Seeds : SpotInit(seed, month)
  /\ \E asked \in Terms :
       MarginInit(asked, IF spot.usdt > 0 THEN spot.usdt ELSE Equity(spot, last.price))

\* The next bar, of the same month or a later one.  The first one that is
\* evaluated has the price the account was opened at.
Bar(price, output) ==
  /\ bar < MaxBars /\ bar' = bar + 1
  /\ bar = 0 => price = last.price /\ month' = month
  /\ month' \in {m \in Months : m >= month}
  /\ last' = [price |-> price, output |-> output]

ReplaySpotBar ==
  \E price \in Prices, output \in SpotOutputs :
    ~UseMargin /\ Bar(price, output) /\ SpotBar(month', price, bar = 0, output) /\ UNCHANGED mvars

ReplayMarginBar ==
  \E price \in Prices, output \in MarginOutputs :
    UseMargin /\ Bar(price, output) /\ MarginBar(price, output) /\ UNCHANGED svars

ReplayNext == ReplaySpotBar \/ ReplayMarginBar

ReplaySpec == ReplayInit /\ [][ReplayNext]_replayVars

-----------------------------------------------------------------------------
(***************************************************************************)
(* Properties of the spot ledger.                                          *)
(***************************************************************************)

\* The buckets are the sums of the lots, after any sequence of conversions,
\* purchases and sales that are cut to what there is.
LotsAreBuckets == \A type \in LotTypes : Total(spot.lots, type) = spot.bucket[type]

\* Replaying a bar makes nobody richer: at the bar's own price the account is
\* worth at most what it was worth before plus what was injected.
NoMoneyFromNothing ==
  [][ReplaySpotBar =>
       Equity(spot', last'.price) <= Equity(spot, last'.price) + (injected' - injected)]_replayVars

\* Every month after the first that has an evaluated bar was paid in once,
\* also when its first bars have no price or a month has none at all.
InjectedOncePerMonth ==
  bar > 0 /\ ~UseMargin => injected = MonthlyInject * (Cardinality(curve) - 1)

(***************************************************************************)
(* Properties of the margin ledger.                                        *)
(***************************************************************************)

\* Frozen margin is the margin of the positions, and balance and margin are
\* the deposit, the realized profit and the fees of opening.
MarginAddsUp ==
  /\ account.frozen = account.positions["LONG"].margin + account.positions["SHORT"].margin
  /\ account.balance + account.frozen
       = terms.deposit + account.realized - account.fees["OPEN"]
=============================================================================
