------------------------------ MODULE SpotReplay ------------------------------
(***************************************************************************)
(* The spot ledger of a backtest (adapters/backtest/run.go): what          *)
(* RunBacktest does with one bar.  Step() is any function that returns     *)
(* conversions and intents; its answer is an input of the bar.             *)
(*                                                                         *)
(* Amounts are integers: USDT, and the asset in units of which LotStep is  *)
(* a multiple.  Quotients are rounded down.  Slippage is left out: the     *)
(* price is the price of execution.  Lots have no cost price.              *)
(***************************************************************************)
EXTENDS ReplayConstraints, Lots, FiniteSetsExt, SequencesExt

CONSTANTS
  MonthlyInject,               \* SpawnPolicy.MonthlyInjectUSDT
  Deposits                     \* what InitialAvailableUSDT may be

ASSUME ReplayAssumption ==
  MonthlyInject \in Nat /\ Deposits \subseteq Nat

\* What Step() may answer, and what an intent of its asks for.
Conversions == [from : LotTypes, to : LotTypes, amount : Int]
SpotIntents == [action : {"BUY", "SELL"}, type : LotTypes, amount : Int, qty : Int]
OutputsOf(intents) == [conversions : Seq(Conversions), macro : Seq(intents), micro : Seq(intents)]

VARIABLES
  spot,       \* usdt, the bucket of each lot type, the lots in their order
  injected,   \* totalInjected, without what the run began with
  lastMonth,
  curve       \* the months that have a point in the equity curve

svars == <<spot, injected, lastMonth, curve>>

AfterFee(x) == (x * (100 - FeePct)) \div 100

Btc(s) == s.bucket["DEAD_STACK"] + s.bucket["FLOATING"] + s.bucket["COLD_SEALED"]

\* totalEquity
Equity(s, price) == s.usdt + Btc(s) * price

SpotTypeOK ==
  /\ spot \in [usdt : Nat, bucket : [LotTypes -> Nat],
               lots : Seq([type : LotTypes, amount : Nat \ {0}])]
  /\ injected \in Nat /\ lastMonth \in Nat /\ curve \subseteq Nat

\* initialPortfolio and initialLots, at the first bar that is evaluated.
SpotInit(seed, month) ==
  /\ \E usdt \in Deposits : spot = [usdt |-> usdt, bucket |-> seed, lots |-> SeedLots(seed)]
  /\ injected = 0 /\ lastMonth = month /\ curve = {}

-----------------------------------------------------------------------------

\* Mutant of ConsumeLots: it stops after one lot.
ConsumeFirst(lots, type, amount) ==
  LET i == SelectInSeq(lots, LAMBDA lot : lot.type = type)
      left == lots[i].amount - Min({amount, lots[i].amount})
  IN IF i = 0 THEN lots
     ELSE IF left > 0 THEN [lots EXCEPT ![i].amount = left] ELSE RemoveAt(lots, i)

\* consumeLots: the oldest lots of the type first; a lot that is used up goes.
ConsumeLots(lots, type, amount) ==
  FoldLeft(LAMBDA acc, lot :
             LET used == IF lot.type = type THEN Min({lot.amount, acc.left}) ELSE 0 IN
             [left |-> acc.left - used,
              out |-> IF used = lot.amount THEN acc.out
                      ELSE Append(acc.out, [lot EXCEPT !.amount = @ - used])],
           [left |-> amount, out |-> <<>>], lots).out

\* applyLedgerConversions for one conversion, with moveLots: a new lot takes
\* the place of what was consumed.
Convert(s, c) ==
  LET move == Min({c.amount, s.bucket[c.from]}) IN
  IF <<c.from, c.to>> \notin {<<"DEAD_STACK", "FLOATING">>, <<"FLOATING", "COLD_SEALED">>}
     \/ move <= 0
  THEN s
  ELSE [s EXCEPT !.bucket[c.from] = @ - move, !.bucket[c.to] = @ + move,
                 !.lots = Append(ConsumeLots(s.lots, c.from, move),
                                 [type |-> c.to, amount |-> move])]

\* applyBuy.  The whole amount is spent, also what is lost by rounding.
Buy(s, intent, price) ==
  LET spend == Min({intent.amount, s.usdt})
      qty == FloorToStep(AfterFee(spend) \div price)
  IN IF spend < MinOrder \/ qty < LotMin \/ qty <= 0 THEN s
     ELSE [s EXCEPT !.usdt = @ - spend, !.bucket[intent.type] = @ + qty,
                    !.lots = Append(@, [type |-> intent.type, amount |-> qty])]

\* applySell: floating lots only, whatever lot type the intent names.
Sell(s, intent, price) ==
  LET qty == FloorToStep(Min({intent.qty, s.bucket["FLOATING"]})) IN
  IF qty < LotMin \/ qty <= 0 \/ qty * price < MinOrder THEN s
  ELSE [s EXCEPT !.usdt = @ + AfterFee(qty * price), !.bucket["FLOATING"] = @ - qty,
                 !.lots = ConsumeLots(@, "FLOATING", qty)]

\* applyIntents for one intent.
Apply(s, intent, price) ==
  IF intent.action = "BUY" THEN Buy(s, intent, price) ELSE Sell(s, intent, price)

\* Conversions, then macro intents, then micro intents, all at the bar's close.
Replay(s, output, price) ==
  FoldLeft(LAMBDA acc, intent : Apply(acc, intent, price),
           FoldLeft(Convert, s, output.conversions), output.macro \o output.micro)

\* Mutant: only the month after the last one brings an injection.
InjectsNextMonth(month, first) == MonthlyInject > 0 /\ ~first /\ month = lastMonth + 1

\* The first bar of another month brings the monthly injection; the bar that
\* is evaluated first does not.
Injects(month, first) == MonthlyInject > 0 /\ ~first /\ month # lastMonth

\* One bar of RunBacktest's loop.  A bar without a price is skipped.
SpotBar(month, price, first, output) ==
  IF price <= 0 THEN UNCHANGED svars
  ELSE LET flow == IF Injects(month, first) THEN MonthlyInject ELSE 0 IN
       /\ spot' = Replay([spot EXCEPT !.usdt = @ + flow], output, price)
       /\ injected' = injected + flow
       /\ lastMonth' = IF flow > 0 THEN month ELSE lastMonth
       /\ curve' = curve \cup {month}
=============================================================================
