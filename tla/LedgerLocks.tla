------------------------------ MODULE LedgerLocks ------------------------------
(***************************************************************************)
(* The transactions of ticks, reports and requests, one action per         *)
(* statement that may have to wait for a row lock.  Under READ COMMITTED a *)
(* SELECT ... FOR UPDATE returns the row as last committed once it has the *)
(* lock, an INSERT locks the row its foreign key names FOR KEY SHARE, and  *)
(* locks are held until the transaction ends.  A transaction that waits in *)
(* a cycle is rolled back by the server.                                   *)
(*                                                                         *)
(* A row struct read by a transaction is its copy of the row: what it      *)
(* writes later is computed from the copy.  The lots that a transaction    *)
(* locks are locked only by holders of their portfolio row, and runtime    *)
(* rows by holders of their instance row, so neither is waited for here.   *)
(***************************************************************************)
EXTENDS Naturals, FiniteSets

CONSTANTS
  Instances, Ticks, Reports, Snapshots, Requests, Orders,
  InstanceOf, BarOf, OrderOf, Filled, WithBalance, TargetOf, Untouched

ASSUME LocksAssumption ==
  /\ Instances # {}
  /\ Ticks \cap Reports = {} /\ Snapshots \cap (Ticks \cup Reports) = {}
  /\ Requests \cap (Ticks \cup Reports \cup Snapshots) = {}
  /\ InstanceOf \in [Ticks \cup Reports \cup Requests -> Instances]
  /\ BarOf \in [Ticks -> Nat \ {0}]
  /\ OrderOf \in [Reports -> Orders]
  /\ Filled \subseteq Reports /\ WithBalance \subseteq Reports
  /\ TargetOf \in [Requests -> {"RUNNING", "STOPPED", "DELETED"}]

VARIABLES
  status,      \* strategy_instances.status
  portfolio,   \* committed portfolio_states rows
  lots,        \* committed spot_lots: the releases and fills they hold
  execution,   \* committed spot_executions.status
  pc,          \* the statement each transaction is at
  local,       \* the variables of each transaction's function
  held         \* row locks: transaction, row and mode

vars == <<status, portfolio, lots, execution, pc, local, held>>
data == <<status, portfolio, lots, execution>>

\* Where a transaction is over.
Over == {"committed", "failed"}

Outcome == [t \in Ticks \cup Reports \cup Snapshots \cup Requests |->
              IF pc[t] \in Over THEN pc[t] ELSE "none"]

Ledger == INSTANCE LedgerTransactions WITH outcome <- Outcome

Txs == Ledger!Txs

Tables == {"instance", "portfolio"}
Rows == (Tables \X Instances) \cup ({"execution"} \X Orders)

\* FOR UPDATE conflicts with every lock, FOR KEY SHARE only with FOR UPDATE.
Modes == {"update", "key share"}

\* What the functions keep: the instance whose portfolio is next or was last
\* (at), those a snapshot has to visit (rest) and has updated (visited), the
\* portfolio row as it was read (copy), what a report does to its order.
Locals == [at : Instances, rest : SUBSET Instances, visited : SUBSET Instances,
           copy : Ledger!PortfolioRows, settles : {"no", "filled", "failed"}]

EmptyRow == [bar |-> 0, buckets |-> {}, usdt |-> Untouched]

FirstLocal(t) ==
  [at |-> IF t \in Snapshots THEN CHOOSE i \in Instances : TRUE ELSE InstanceOf[t],
   rest |-> {}, visited |-> {}, copy |-> EmptyRow, settles |-> "no"]

At(t) == local[t].at

Statements == {"instance", "execution", "portfolio", "references", "begin", "commit", "mark"}

RowsOK ==
  /\ status \in [Instances -> Ledger!Statuses]
  /\ portfolio \in [Instances -> Ledger!PortfolioRows]
  /\ lots \in [Instances -> SUBSET (Ticks \cup Reports)]
  /\ execution \in [Orders -> {"pending", "filled", "failed"}]

ControlOK ==
  /\ pc \in [Txs -> Over \cup Statements]
  /\ local \in [Txs -> Locals]
  /\ held \subseteq [tx : Txs, row : Rows, mode : Modes]

\* Every variable has its type.
TypeOK == RowsOK /\ ControlOK

First(t) == CASE t \in Ticks \cup Requests -> "instance"
              [] t \in Reports -> "execution"
              [] t \in Snapshots -> "begin"

Init ==
  /\ status \in [Instances -> {"RUNNING", "STOPPED"}]
  /\ portfolio = [i \in Instances |-> EmptyRow]
  /\ lots = [i \in Instances |-> {}]
  /\ execution = [o \in Orders |-> "pending"]
  /\ pc = [t \in Txs |-> First(t)]
  /\ local = [t \in Txs |-> FirstLocal(t)]
  /\ held = {}

-----------------------------------------------------------------------------
(***************************************************************************)
(* Locks.                                                                  *)
(***************************************************************************)

Conflict(l, mode) == l.mode = "update" \/ mode = "update"

Blockers(t, row, mode) == {l \in held : l.tx # t /\ l.row = row /\ Conflict(l, mode)}

IsFree(t, row, mode) == Blockers(t, row, mode) = {}

\* A statement that locks a row, once nobody else's lock conflicts.
Lock(t, row, mode) ==
  /\ IsFree(t, row, mode)
  /\ held' = held \cup {[tx |-> t, row |-> row, mode |-> mode]}

\* A transaction ends and lets its locks go; its variables are gone.
End(t, how) ==
  /\ pc' = [pc EXCEPT ![t] = how]
  /\ local' = [local EXCEPT ![t] = FirstLocal(t)]
  /\ held' = {l \in held : l.tx # t}

Goto(t, next) == pc' = [pc EXCEPT ![t] = next]

\* The lock a transaction wants next; none at the other statements.
Wanted(t) ==
  CASE pc[t] \in {"instance", "mark"} -> {<<"instance", At(t)>>} \X {"update"}
    [] pc[t] = "execution" -> {<<"execution", OrderOf[t]>>} \X {"update"}
    [] pc[t] = "portfolio" -> {<<"portfolio", At(t)>>} \X {"update"}
    [] pc[t] = "references" -> {<<"instance", At(t)>>} \X {"key share"}
    [] OTHER -> {}

WaitsFor(t, u) == \E w \in Wanted(t) : \E l \in Blockers(t, w[1], w[2]) : l.tx = u

\* Whom the members of S wait for.
Awaited(S) == {u \in Txs : \E v \in S : WaitsFor(v, u)}

\* t waits for itself through others: it is in every set that has whom t waits
\* for and whom the members of the set wait for.
InCycle(t) == \A S \in SUBSET Txs : Awaited(S \cup {t}) \subseteq S => t \in S

\* The server rolls a transaction that waits in a cycle back.  Tick() then
\* marks its instance as failed, the hub only logs the error of a report.
BreakDeadlock(t) ==
  /\ Wanted(t) # {} /\ InCycle(t)
  /\ End(t, IF t \in Ticks THEN "mark" ELSE "failed")
  /\ UNCHANGED data

-----------------------------------------------------------------------------
(***************************************************************************)
(* tick.                                                                   *)
(***************************************************************************)

\* The instance is locked; if it does not run the tick is skipped.
TickLocksInstance(t) ==
  /\ pc[t] = "instance"
  /\ IF status[At(t)] = "RUNNING"
       THEN /\ Lock(t, <<"instance", At(t)>>, "update")
            /\ Goto(t, "portfolio") /\ UNCHANGED local
       ELSE /\ IsFree(t, <<"instance", At(t)>>, "update")
            /\ End(t, "committed")
  /\ UNCHANGED data

\* Mutant: the portfolio is read without FOR UPDATE.
TickReadsPortfolio(t) ==
  /\ pc[t] = "portfolio"
  /\ local' = [local EXCEPT ![t].copy = portfolio[At(t)]]
  /\ Goto(t, "commit")
  /\ UNCHANGED <<data, held>>

\* The portfolio is locked and read; a bar that was processed is skipped.
TickLocksPortfolio(t) ==
  /\ pc[t] = "portfolio"
  /\ IF BarOf[t] > portfolio[At(t)].bar
       THEN /\ Lock(t, <<"portfolio", At(t)>>, "update")
            /\ local' = [local EXCEPT ![t].copy = portfolio[At(t)]]
            /\ Goto(t, "commit")
       ELSE /\ IsFree(t, <<"portfolio", At(t)>>, "update")
            /\ End(t, "committed")
  /\ UNCHANGED data

\* applyLedgerConversion moves lots and writes the buckets computed from the
\* copy; the bar is written; commit.
TickCommits(t) ==
  LET copy == local[t].copy IN
  /\ pc[t] = "commit"
  /\ portfolio' = [portfolio EXCEPT ![At(t)].bar = BarOf[t],
                                    ![At(t)].buckets = copy.buckets \cup {t}]
  /\ lots' = [lots EXCEPT ![At(t)] = @ \cup {t}]
  /\ End(t, "committed")
  /\ UNCHANGED <<status, execution>>

\* markError of a tick that was rolled back: one transaction, one row.
MarkError(t) ==
  /\ pc[t] = "mark"
  /\ IsFree(t, <<"instance", At(t)>>, "update")
  /\ status' = IF status[At(t)] = "RUNNING" THEN [status EXCEPT ![At(t)] = "ERROR"] ELSE status
  /\ End(t, "failed")
  /\ UNCHANGED <<portfolio, lots, execution>>

-----------------------------------------------------------------------------
(***************************************************************************)
(* processDeltaReport with an order.                                       *)
(***************************************************************************)

\* The execution row is locked and its status decides.  A report that books
\* nothing and carries no balance needs no portfolio.
ReportLocksExecution(r) ==
  LET o == OrderOf[r]
      how == IF execution[o] # "pending" THEN "no"
             ELSE IF r \in Filled THEN "filled" ELSE "failed"
  IN /\ pc[r] = "execution"
     /\ Lock(r, <<"execution", o>>, "update")
     /\ local' = [local EXCEPT ![r].settles = how]
     /\ Goto(r, IF how = "filled" \/ r \in WithBalance THEN "portfolio" ELSE "commit")
     /\ UNCHANGED data

\* applyFilledExecution, or updatePortfolioBalanceSnapshot when nothing is
\* booked, locks the portfolio and reads it.
ReportLocksPortfolio(r) ==
  /\ pc[r] = "portfolio"
  /\ Lock(r, <<"portfolio", At(r)>>, "update")
  /\ local' = [local EXCEPT ![r].copy = portfolio[At(r)]]
  /\ Goto(r, IF local[r].settles = "filled" THEN "references" ELSE "commit")
  /\ UNCHANGED data

\* The lot of a purchase (addSpotLot) and the trade record are inserted; both
\* have a foreign key to the instance.
ReportInserts(r) ==
  /\ pc[r] = "references"
  /\ Lock(r, <<"instance", At(r)>>, "key share")
  /\ Goto(r, "commit")
  /\ UNCHANGED <<data, local>>

\* The order is settled, the bucket computed from the copy and the balance as
\* it was reported are written; commit.
ReportCommits(r) ==
  LET i == At(r)
      how == local[r].settles
      booked == IF how = "filled"
                THEN [portfolio EXCEPT ![i].buckets = local[r].copy.buckets \cup {r}] ELSE portfolio
  IN /\ pc[r] = "commit"
     /\ execution' = IF how = "no" THEN execution ELSE [execution EXCEPT ![OrderOf[r]] = how]
     /\ lots' = IF how = "filled" THEN [lots EXCEPT ![i] = @ \cup {r}] ELSE lots
     /\ portfolio' = IF r \in WithBalance THEN [booked EXCEPT ![i].usdt = r] ELSE booked
     /\ End(r, "committed")
     /\ UNCHANGED status

-----------------------------------------------------------------------------
(***************************************************************************)
(* processBalanceSnapshot: a report without an order, which every agent    *)
(* sends when it connects, updates all instances of the user.  The query   *)
(* that lists them has no ORDER BY, so they come in any order.             *)
(***************************************************************************)

\* The next instance is one of S; when there is none the snapshot commits.
NextInstance(s, S, visited) ==
  IF S = {}
  THEN Goto(s, "commit") /\ local' = [local EXCEPT ![s].visited = visited]
  ELSE \E i \in S : /\ Goto(s, "portfolio")
                    /\ local' = [local EXCEPT ![s].at = i, ![s].rest = S \ {i},
                                              ![s].visited = visited]

\* Mutant: the query locks the first instance it finds FOR UPDATE.
SnapshotLocksInstance(s) ==
  /\ pc[s] = "begin"
  /\ \E i \in Instances : /\ status[i] # "DELETED"
                          /\ Lock(s, <<"instance", i>>, "update")
                          /\ NextInstance(s, {i}, {})
  /\ UNCHANGED data

SnapshotBegins(s) ==
  /\ pc[s] = "begin"
  /\ NextInstance(s, {i \in Instances : status[i] # "DELETED"}, {})
  /\ UNCHANGED <<data, held>>

\* updatePortfolioBalanceSnapshot for one instance.
SnapshotLocksPortfolio(s) ==
  /\ pc[s] = "portfolio"
  /\ Lock(s, <<"portfolio", At(s)>>, "update")
  /\ NextInstance(s, local[s].rest, local[s].visited \cup {At(s)})
  /\ UNCHANGED data

SnapshotCommits(s) ==
  /\ pc[s] = "commit"
  /\ portfolio' = [i \in Instances |->
       IF i \in local[s].visited THEN [portfolio[i] EXCEPT !.usdt = s] ELSE portfolio[i]]
  /\ End(s, "committed")
  /\ UNCHANGED <<status, lots, execution>>

-----------------------------------------------------------------------------
(***************************************************************************)
(* Start, Stop (transition) and Delete: one transaction, one row.          *)
(***************************************************************************)

From(target) == CASE target = "RUNNING" -> {"STOPPED"}
                  [] target = "STOPPED" -> {"RUNNING"}
                  [] target = "DELETED" -> Ledger!Statuses \ {"DELETED"}

Request(q) ==
  LET i == At(q)
      allowed == status[i] \in From(TargetOf[q])
  IN /\ pc[q] = "instance"
     /\ IsFree(q, <<"instance", i>>, "update")
     /\ status' = IF allowed THEN [status EXCEPT ![i] = TargetOf[q]] ELSE status
     /\ End(q, IF allowed THEN "committed" ELSE "failed")
     /\ UNCHANGED <<portfolio, lots, execution>>

-----------------------------------------------------------------------------

Statement(t) ==
  \/ t \in Ticks /\ (TickLocksInstance(t) \/ TickLocksPortfolio(t) \/ TickCommits(t) \/ MarkError(t))
  \/ t \in Reports /\ (\/ ReportLocksExecution(t) \/ ReportLocksPortfolio(t)
                       \/ ReportInserts(t) \/ ReportCommits(t))
  \/ t \in Snapshots /\ (SnapshotBegins(t) \/ SnapshotLocksPortfolio(t) \/ SnapshotCommits(t))
  \/ t \in Requests /\ Request(t)

\* Everything has ended.  A state in which something has not, and nothing can
\* go on, would be reported as a deadlock by TLC.
AllOver == (\A t \in Txs : pc[t] \in Over) /\ UNCHANGED vars

Next ==
  \/ \E t \in Txs : Statement(t) \/ BreakDeadlock(t)
  \/ AllOver

Spec == Init /\ [][Next]_vars

-----------------------------------------------------------------------------
(***************************************************************************)
(* Properties.                                                             *)
(***************************************************************************)

\* Ticks, reports, snapshots and requests take effect as a whole and at one
\* moment, whatever statements of others run in between: no transaction writes
\* a bucket, a bar or a status computed from a row that another one has
\* replaced, and an order is settled once.
TakesEffectAtOnce == Ledger!Spec

\* What deadlocks there are.  A tick holds its instance and wants the
\* portfolio, and a fill holds that portfolio and wants a reference to the
\* instance.  Or snapshots of one user wait for each other, as many as there
\* are.  No other mix of transactions waits for itself.
TickAndFill(tick, r) ==
  /\ tick \in Ticks /\ r \in Filled /\ At(tick) = At(r)
  /\ pc[tick] = "portfolio" /\ pc[r] = "references"
  /\ WaitsFor(tick, r) /\ WaitsFor(r, tick)

SnapshotsAmongThemselves(S) ==
  S \subseteq Snapshots /\ \A s \in S : \E u \in S \ {s} : WaitsFor(s, u)

KnownDeadlocks ==
  \A t \in Txs : InCycle(t) =>
    \/ \E u \in Txs : TickAndFill(t, u) \/ TickAndFill(u, t)
    \/ \E S \in SUBSET Snapshots : t \in S /\ SnapshotsAmongThemselves(S)
=============================================================================
