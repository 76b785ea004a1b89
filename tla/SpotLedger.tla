------------------------------ MODULE SpotLedger ------------------------------
(***************************************************************************)
(* The semantic ledger of one instance: its spot lots, the three buckets   *)
(* of its portfolio row (DeadBTC, FloatBTC, ColdSealedBTC), its orders and *)
(* its trade records.  A tick may release dead lots and record new orders; *)
(* a delta_report settles an order and books its fill.                     *)
(*                                                                         *)
(* Tick and report transactions both lock the portfolio row before they    *)
(* read or write the ledger, so each is one action here.  Amounts are      *)
(* small integers; prices and fees do not change what moves where.  What   *)
(* Step() decides is a choice within the limits it keeps to.  How commands *)
(* and reports travel is TradePipeline's subject: here an order may be     *)
(* executed more than once (by restarted agents), and a report may be      *)
(* processed late, out of order and again.                                 *)
(***************************************************************************)
EXTENDS Lots, FiniteSets

CONSTANTS
  Bars,          \* closed bars by open time
  Engines,       \* engines of Step() that may order something
  Seed,          \* initial amount by lot type
  MaxBuy,        \* bounds the quantity a BUY may fill
  MaxReports     \* bounds the reports agents make

OrderIds == Engines \X Bars

ASSUME LedgerAssumption ==
  /\ Bars \subseteq Nat \ {0}
  /\ Engines \subseteq {"MACRO", "MICRO"}
  /\ Seed \in [LotTypes -> Nat]
  /\ MaxBuy \in Nat \ {0} /\ MaxReports \in Nat

VARIABLES
  lots,        \* spot_lots by created_at
  bucket,      \* dead_btc, float_btc and cold_sealed_btc of portfolio_states
  synced,      \* its usdt_balance is the balance of the exchange account now
  lastBar,     \* its last_processed_bar_time
  orders,      \* spot_executions
  trades,      \* trade_records
  reports,     \* delta_reports agents have made
  audited,     \* those with an audit row: processed
  current      \* those whose balance is that of the account now

vars == <<lots, bucket, synced, lastBar, orders, trades, reports, audited, current>>

Statuses == {"absent", "pending", "filled", "failed"}

\* The order of a report that names none.
NoOrder == <<"NONE", 0>>

\* Every variable has its type; no amount is ever negative.
TypeOK ==
  /\ lots \in Seq([type : LotTypes, amount : Nat])
  /\ bucket \in [LotTypes -> Nat]
  /\ synced \in BOOLEAN /\ lastBar \in Nat
  /\ orders \in [OrderIds -> [status : Statuses, action : {"BUY", "SELL"},
                              type : LotTypes, qty : Nat]]
  /\ trades \subseteq [order : OrderIds, action : {"BUY", "SELL"}, qty : Nat]
  /\ reports \subseteq [order : OrderIds \cup {NoOrder}, attempt : Nat,
                        status : {"FILLED", "FAILED", "UNREAD", "SNAPSHOT"}, qty : Nat]
  /\ audited \subseteq reports /\ current \subseteq reports

NoCommand == [action |-> "BUY", type |-> "DEAD_STACK", qty |-> 0]

WithStatus(status, cmd) ==
  [status |-> status, action |-> cmd.action, type |-> cmd.type, qty |-> cmd.qty]

-----------------------------------------------------------------------------
(***************************************************************************)
(* Lots.                                                                   *)
(***************************************************************************)

Minus(a, b) == IF a > b THEN a - b ELSE 0

\* What each lot gives when qty is taken from the lots of a type, oldest first.
Taken(ls, type, qty) ==
  [i \in DOMAIN ls |->
     LET rest == Minus(qty, SumFunctionOnSet(Amounts(ls, type), 1..(i - 1)))
     IN IF Amounts(ls, type)[i] < rest THEN Amounts(ls, type)[i] ELSE rest]

\* Lots that give some of their amount and keep the rest: one at most.
Split(ls, taken) == {i \in DOMAIN ls : 0 < taken[i] /\ taken[i] < ls[i].amount}

\* createInstance: the lots of createInitialLots.
Init ==
  /\ lots = SeedLots(Seed)
  /\ bucket = Seed
  /\ synced = TRUE /\ lastBar = 0
  /\ orders = [o \in OrderIds |-> WithStatus("absent", NoCommand)]
  /\ trades = {} /\ reports = {} /\ audited = {} /\ current = {}

\* The new lots a release leaves behind.
SplitOff(ls, taken) ==
  IF Split(ls, taken) = {} THEN <<>>
  ELSE <<[type |-> "FLOATING", amount |-> taken[CHOOSE i \in Split(ls, taken) : TRUE]]>>

\* Mutant: a split lot keeps its amount.
ReleasedLotsCopied(ls, qty) ==
  LET taken == Taken(ls, "DEAD_STACK", qty) IN
  [i \in DOMAIN ls |->
     IF taken[i] = 0 \/ i \in Split(ls, taken) THEN ls[i] ELSE [ls[i] EXCEPT !.type = "FLOATING"]]
  \o SplitOff(ls, taken)

\* applyLedgerConversion, DEAD_STACK to FLOATING: a lot that moves as a whole
\* changes its type, the one that is split leaves a new lot behind.  (The soft
\* and the hard release of one Step are taken together.)
ReleasedLots(ls, qty) ==
  LET taken == Taken(ls, "DEAD_STACK", qty) IN
  [i \in DOMAIN ls |->
     IF taken[i] = 0 THEN ls[i]
     ELSE IF i \in Split(ls, taken) THEN [ls[i] EXCEPT !.amount = @ - taken[i]]
     ELSE [ls[i] EXCEPT !.type = "FLOATING"]]
  \o SplitOff(ls, taken)

\* Mutant: the oldest lot has to cover the whole sale.
ReducedOldest(ls, type, qty) ==
  [i \in DOMAIN ls |->
     IF Amounts(ls, type)[i] = 0 \/ \E j \in 1..(i - 1) : Amounts(ls, type)[j] > 0
     THEN ls[i] ELSE [ls[i] EXCEPT !.amount = @ - qty]]

\* reduceSpotLots, whose lots are enough.
ReducedLots(ls, type, qty) ==
  [i \in DOMAIN ls |-> [ls[i] EXCEPT !.amount = @ - Taken(ls, type, qty)[i]]]

-----------------------------------------------------------------------------
(***************************************************************************)
(* The tick.                                                               *)
(***************************************************************************)

\* Mutant: the sale is not limited to the bucket.
MicroOversells(floating) ==
  {[action |-> "BUY", type |-> "FLOATING", qty |-> 0]}
    \cup {[action |-> "SELL", type |-> "FLOATING", qty |-> q] : q \in 1..floating + 1}

\* Commands Step() may emit, given the floating amount it counts on: the
\* macro engine buys dead stack, the micro engine buys or sells floating, and
\* it sells no more than there is in the bucket.
MacroCommands == {[action |-> "BUY", type |-> "DEAD_STACK", qty |-> 0]}

MicroCommands(floating) ==
  {[action |-> "BUY", type |-> "FLOATING", qty |-> 0]}
    \cup {[action |-> "SELL", type |-> "FLOATING", qty |-> q] : q \in 1..floating}

\* What the soft and the hard release of one Step may come to.
Releases == 0..Total(lots, "DEAD_STACK")

\* tick: the release is applied to lots and buckets, the commands are
\* recorded as pending, the bar is marked processed.
Tick(bar) ==
  /\ bar > lastBar
  /\ \E release \in Releases :
       /\ lots' = ReleasedLots(lots, release)
       /\ bucket' = [bucket EXCEPT !["DEAD_STACK"] = Minus(@, release),
                                   !["FLOATING"] = @ + release]
  /\ \E macro \in SUBSET MacroCommands,
        micro \in {{}} \cup {{c} : c \in MicroCommands(bucket'["FLOATING"])} :
       orders' = [o \in OrderIds |->
         LET new == IF o[1] = "MACRO" THEN macro ELSE micro
         IN IF o[2] = bar /\ new # {} /\ orders[o].status = "absent"
            THEN WithStatus("pending", CHOOSE c \in new : TRUE) ELSE orders[o]]
  /\ lastBar' = bar
  /\ UNCHANGED <<synced, trades, reports, audited, current>>

-----------------------------------------------------------------------------
(***************************************************************************)
(* The agent and the exchange.                                             *)
(***************************************************************************)

Attempts(o) == Cardinality({r \in reports : r.order = o})

Report(o, status, qty) == [order |-> o, attempt |-> Attempts(o) + 1, status |-> status, qty |-> qty]

MayReport == Cardinality(reports) < MaxReports

MayExecute(o) == orders[o].status # "absent" /\ MayReport

\* executeCommand: the exchange fills the order, a SELL up to its quantity,
\* and the report carries the balance read right after.  When that read fails
\* the trade is reported as FAILED, without a balance.
Execute(o) ==
  LET most == IF orders[o].action = "SELL" THEN orders[o].qty ELSE MaxBuy IN
  /\ MayExecute(o)
  /\ \/ \E qty \in 1..most : /\ reports' = reports \cup {Report(o, "FILLED", qty)}
                            /\ current' = {Report(o, "FILLED", qty)}
     \/ /\ reports' = reports \cup {Report(o, "UNREAD", 0)}
        /\ current' = {}
  /\ synced' = FALSE
  /\ UNCHANGED <<lots, bucket, lastBar, orders, trades, audited>>

\* A report without a trade: its balance is the account's as it was.
SendReport(report) ==
  /\ reports' = reports \cup {report}
  /\ current' = IF report.status = "UNREAD" THEN current ELSE current \cup {report}
  /\ UNCHANGED <<lots, bucket, synced, lastBar, orders, trades, audited>>

\* The exchange or the agent refuses it.
Refuse(o) ==
  /\ MayExecute(o)
  /\ \E status \in {"FAILED", "UNREAD"} : SendReport(Report(o, status, 0))

\* sendSnapshot of an agent that connects.
SendSnapshot ==
  /\ MayReport
  /\ SendReport(Report(NoOrder, "SNAPSHOT", 0))

-----------------------------------------------------------------------------
(***************************************************************************)
(* processDeltaReport.                                                     *)
(***************************************************************************)

\* Mutant: the audit log is the only protection against booking twice.
IsKnown(o) == orders[o].status # "absent"

IsPending(o) == orders[o].status = "pending"

\* reduceSpotLots fails: the lots cannot cover the sale.
IsShort(cmd, qty) == cmd.action = "SELL" /\ qty > Total(lots, cmd.type)

\* Mutant: the fill does not reach the portfolio row.
LedgerWithoutBucket(cmd, qty) ==
  /\ lots' = IF cmd.action = "BUY" THEN Append(lots, [type |-> cmd.type, amount |-> qty])
             ELSE ReducedLots(lots, cmd.type, qty)
  /\ UNCHANGED bucket

\* applyFilledExecution: a lot more, or less in the oldest lots, and the
\* same in the bucket, which is kept from going below zero.
ApplyFill(cmd, qty) ==
  IF cmd.action = "BUY"
  THEN /\ lots' = Append(lots, [type |-> cmd.type, amount |-> qty])
       /\ bucket' = [bucket EXCEPT ![cmd.type] = @ + qty]
  ELSE /\ lots' = ReducedLots(lots, cmd.type, qty)
       /\ bucket' = [bucket EXCEPT ![cmd.type] = Minus(@, qty)]

\* createTradeRecord: ON CONFLICT (client_order_id) DO NOTHING.
RecordTrade(o, qty) ==
  trades' = IF \E t \in trades : t.order = o THEN trades
            ELSE trades \cup {[order |-> o, action |-> orders[o].action, qty |-> qty]}

\* processExecutionReport on a pending order: it is settled, and a fill is
\* booked; a sale that cannot be covered rolls everything back.
SettleOrder(r) ==
  LET o == r.order IN
  /\ r.order # NoOrder
  /\ IsPending(o)
  /\ orders' = [orders EXCEPT ![o].status = IF r.status = "FILLED" THEN "filled" ELSE "failed"]
  /\ IF r.status = "FILLED"
       THEN /\ ~IsShort(orders[o], r.qty)
            /\ ApplyFill(orders[o], r.qty)
            /\ RecordTrade(o, r.qty)
       ELSE UNCHANGED <<lots, bucket, trades>>

\* An order settled before, or a snapshot without an order: only balances.
OnlyBalance(r) ==
  /\ r.order # NoOrder => ~IsPending(r.order)
  /\ UNCHANGED <<orders, lots, bucket, trades>>

\* A report_id that is audited is acknowledged and changes nothing, any other
\* report also replaces the balance (updatePortfolioBalanceSnapshot), if it
\* carries one, whatever was reported after it.
ProcessReport(r) ==
  /\ r \in reports
  /\ r \notin audited
  /\ SettleOrder(r) \/ OnlyBalance(r)
  /\ IF r.status = "UNREAD" THEN UNCHANGED synced ELSE synced' = (r \in current)
  /\ audited' = audited \cup {r}
  /\ UNCHANGED <<lastBar, reports, current>>

-----------------------------------------------------------------------------

Next ==
  \/ \E bar \in Bars : Tick(bar)
  \/ \E o \in OrderIds : Execute(o) \/ Refuse(o)
  \/ SendSnapshot
  \/ \E r \in reports : ProcessReport(r)

Spec == Init /\ [][Next]_vars

-----------------------------------------------------------------------------
(***************************************************************************)
(* Properties.                                                             *)
(***************************************************************************)

\* The buckets of the portfolio row are the sums of the lots, through every
\* order of releases, purchases, sales and rollbacks.
BucketsMatchLots == \A type \in LotTypes : bucket[type] = Total(lots, type)

Traded(action) == SumFunction([t \in {t \in trades : t.action = action} |-> t.qty])

AllTypes(f) == f["DEAD_STACK"] + f["FLOATING"] + f["COLD_SEALED"]

\* Nothing appears and nothing is lost: the lots hold the seed plus what the
\* trade records bought less what they sold, each order counted once however
\* often it was executed, reported or re-sent.
LotsMatchTrades ==
  AllTypes([type \in LotTypes |-> Total(lots, type)]) + Traded("SELL")
    = AllTypes(Seed) + Traded("BUY")

\* docs/strategy-math-engine.md, 7.2: no order exceeds the floating stack that
\* can be sold.  Step() does not know of pending sales, so two may count on
\* the same stack; but a sale is short only if another one was booked.
\* Releases, purchases, failures and repeated reports never take what a sale
\* counts on.
OnlySalesCompete ==
  \A o \in OrderIds :
    IsPending(o) /\ orders[o].action = "SELL" /\ orders[o].qty > bucket["FLOATING"] =>
      \E p \in OrderIds \ {o} : orders[p].action = "SELL" /\ orders[p].status = "filled"
=============================================================================
