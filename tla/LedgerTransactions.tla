-------------------------- MODULE LedgerTransactions --------------------------
(***************************************************************************)
(* What the transactions over the ledger rows promise: each one takes      *)
(* effect as a whole, at one moment, or not at all.  SpotLedger,           *)
(* TradePipeline and InstanceLifecycle take this for granted when they     *)
(* model a tick or a report as one action; LedgerLocks, where the          *)
(* transactions run statement by statement, is shown to implement it.      *)
(***************************************************************************)
EXTENDS Naturals

CONSTANTS
  Instances,     \* strategy instances of one user
  Ticks,         \* transactions of tick()
  Reports,       \* transactions of delta_reports that name an order
  Snapshots,     \* transactions of delta_reports that name none
  Requests,      \* transactions of Start, Stop and Delete
  Orders,        \* rows of spot_executions, pending at first
  InstanceOf,    \* the instance of a tick, a report or a request
  BarOf,         \* the bar of a tick
  OrderOf,       \* the order of a report
  Filled,        \* the reports that say FILLED
  WithBalance,   \* the reports that carry a USDT balance
  TargetOf,      \* the status a request asks for
  Untouched      \* the balance no report has written

Txs == Ticks \cup Reports \cup Snapshots \cup Requests
Statuses == {"RUNNING", "STOPPED", "ERROR", "DELETED"}

VARIABLES
  status,        \* of each instance
  portfolio,     \* of each instance: bar, balance, and what its buckets hold:
                 \* the releases of ticks and the fills of reports
  lots,          \* of each instance: the releases and fills its lots hold
  execution,     \* status of each order
  outcome        \* of each transaction

lvars == <<status, portfolio, lots, execution, outcome>>

PortfolioRows ==
  [bar : Nat, buckets : SUBSET (Ticks \cup Reports), usdt : Reports \cup Snapshots \cup {Untouched}]

Init ==
  /\ status \in [Instances -> {"RUNNING", "STOPPED"}]
  /\ portfolio = [i \in Instances |-> [bar |-> 0, buckets |-> {}, usdt |-> Untouched]]
  /\ lots = [i \in Instances |-> {}]
  /\ execution = [o \in Orders |-> "pending"]
  /\ outcome = [t \in Txs |-> "none"]

Ends(t, how) == outcome[t] = "none" /\ outcome' = [outcome EXCEPT ![t] = how]

\* A tick steps a new bar of a running instance; its release moves lots and
\* buckets together.
Tick(t) ==
  LET i == InstanceOf[t] IN
  /\ t \in Ticks
  /\ Ends(t, "committed")
  /\ status[i] = "RUNNING" /\ BarOf[t] > portfolio[i].bar
  /\ portfolio' = [portfolio EXCEPT ![i].bar = BarOf[t], ![i].buckets = @ \cup {t}]
  /\ lots' = [lots EXCEPT ![i] = @ \cup {t}]
  /\ UNCHANGED <<status, execution>>

\* The portfolio with the balance of a report, if it has one.
WithUsdt(rows, r) ==
  IF r \in WithBalance THEN [rows EXCEPT ![InstanceOf[r]].usdt = r] ELSE rows

\* A fill of a pending order enters lots and buckets together, and settles it.
Book(r) ==
  LET i == InstanceOf[r] IN
  /\ r \in Filled
  /\ Ends(r, "committed")
  /\ execution[OrderOf[r]] = "pending"
  /\ execution' = [execution EXCEPT ![OrderOf[r]] = "filled"]
  /\ lots' = [lots EXCEPT ![i] = @ \cup {r}]
  /\ portfolio' = WithUsdt([portfolio EXCEPT ![i].buckets = @ \cup {r}], r)
  /\ UNCHANGED status

\* Any other report of a pending order fails it.
Refuse(r) ==
  /\ r \in Reports \ Filled
  /\ Ends(r, "committed")
  /\ execution[OrderOf[r]] = "pending"
  /\ execution' = [execution EXCEPT ![OrderOf[r]] = "failed"]
  /\ portfolio' = WithUsdt(portfolio, r)
  /\ UNCHANGED <<status, lots>>

\* A report of a settled order brings its balance only.
Repeat(r) ==
  /\ r \in Reports
  /\ Ends(r, "committed")
  /\ execution[OrderOf[r]] # "pending"
  /\ portfolio' = WithUsdt(portfolio, r)
  /\ UNCHANGED <<status, lots, execution>>

\* A snapshot brings its balance to instances of the user, all at once.
Snapshot(s) ==
  /\ s \in Snapshots
  /\ Ends(s, "committed")
  /\ \E S \in SUBSET Instances :
       portfolio' = [i \in Instances |->
         IF i \in S THEN [portfolio[i] EXCEPT !.usdt = s] ELSE portfolio[i]]
  /\ UNCHANGED <<status, lots, execution>>

\* A request, or the error of a tick, moves an instance to another status.
Allowed(from, to) ==
  \/ from = "RUNNING" /\ to \in {"STOPPED", "ERROR", "DELETED"}
  \/ from = "STOPPED" /\ to \in {"RUNNING", "DELETED"}
  \/ from = "ERROR" /\ to = "DELETED"

Move(t) ==
  LET i == InstanceOf[t] IN
  /\ t \in Requests \cup Ticks
  /\ Ends(t, IF t \in Ticks THEN "failed" ELSE "committed")
  /\ \E to \in Statuses : /\ Allowed(status[i], to)
                          /\ t \in Ticks => to = "ERROR"
                          /\ status' = [status EXCEPT ![i] = to]
  /\ UNCHANGED <<portfolio, lots, execution>>

\* It changes nothing: rolled back, refused or skipped.
Nothing(t) ==
  /\ \E how \in {"committed", "failed"} : Ends(t, how)
  /\ UNCHANGED <<status, portfolio, lots, execution>>

Next ==
  \E t \in Txs : \/ Tick(t) \/ Book(t) \/ Refuse(t) \/ Repeat(t) \/ Snapshot(t)
                 \/ Move(t) \/ Nothing(t)

Spec == Init /\ [][Next]_lvars
=============================================================================
