-------------------------- MODULE LedgerLocksProofs --------------------------
(***************************************************************************)
(* That transactions take effect at once, for any number of instances,     *)
(* ticks, reports, snapshots and requests.  The invariant says which locks *)
(* a transaction holds at each statement and that, while it holds them,    *)
(* what it has read is still what is stored.  A step of one transaction    *)
(* cannot disturb that of another (Frame), because what it writes it has   *)
(* locked, and locks exclude each other.                                   *)
(***************************************************************************)
EXTENDS LedgerLocks, TLAPS

Holds(t, row, mode) == [tx |-> t, row |-> row, mode |-> mode] \in held

Exclusive ==
  \A l, m \in held : l.tx # m.tx /\ l.row = m.row => l.mode # "update"

TickKeeps(t) ==
  /\ At(t) = InstanceOf[t]
  /\ pc[t] \in {"portfolio", "commit"} =>
       /\ Holds(t, <<"instance", At(t)>>, "update")
       /\ status[At(t)] = "RUNNING"
  /\ pc[t] = "commit" =>
       /\ Holds(t, <<"portfolio", At(t)>>, "update")
       /\ local[t].copy = portfolio[At(t)]
       /\ BarOf[t] > portfolio[At(t)].bar

ReportKeeps(r) ==
  /\ At(r) = InstanceOf[r]
  /\ pc[r] \in {"portfolio", "references", "commit"} =>
       /\ Holds(r, <<"execution", OrderOf[r]>>, "update")
       /\ local[r].settles = IF execution[OrderOf[r]] # "pending" THEN "no"
                             ELSE IF r \in Filled THEN "filled" ELSE "failed"
  /\ pc[r] \in {"references", "commit"} /\ (r \in WithBalance \/ local[r].settles = "filled") =>
         /\ Holds(r, <<"portfolio", At(r)>>, "update")
         /\ local[r].copy = portfolio[At(r)]
  /\ pc[r] = "references" => local[r].settles = "filled"

SnapshotKeeps(s) == \A i \in local[s].visited : Holds(s, <<"portfolio", i>>, "update")

RequestKeeps(q) == At(q) = InstanceOf[q]

Keeps(t) ==
  /\ t \in Ticks => TickKeeps(t)
  /\ t \in Reports => ReportKeeps(t)
  /\ t \in Snapshots => SnapshotKeeps(t)
  /\ t \in Requests => RequestKeeps(t)

Kept == TypeOK /\ Exclusive /\ \A t \in Txs : Keeps(t)

-----------------------------------------------------------------------------

LEMMA FirstTyped ==
  /\ EmptyRow \in Ledger!PortfolioRows
  /\ \A t \in Txs : FirstLocal(t) \in Locals
  <1>1. EmptyRow \in Ledger!PortfolioRows
    BY DEF EmptyRow, Ledger!PortfolioRows
  <1>2. ASSUME NEW t \in Txs PROVE FirstLocal(t) \in Locals
    <2>1. (IF t \in Snapshots THEN CHOOSE i \in Instances : TRUE ELSE InstanceOf[t]) \in Instances
      BY LocksAssumption DEF Txs, Ledger!Txs
    <2> QED
      BY <1>1, <2>1 DEF FirstLocal, Locals
  <1> QED
    BY <1>1, <1>2

\* Types of the variables hold in the initial states.
LEMMA TypeInit == Init => TypeOK
  <1> SUFFICES ASSUME Init PROVE TypeOK
    OBVIOUS
  <1>1. \A t \in Txs : First(t) \in Statements
    BY DEF First, Txs, Ledger!Txs, Statements
  <1> QED
    BY <1>1, FirstTyped DEF Init, TypeOK, RowsOK, ControlOK, Ledger!Statuses

\* The rows that are locked exist.
LEMMA RowsTyped ==
  /\ \A i \in Instances : <<"instance", i>> \in Rows /\ <<"portfolio", i>> \in Rows
  /\ \A o \in Orders : <<"execution", o>> \in Rows
  /\ "update" \in Modes /\ "key share" \in Modes
  BY DEF Rows, Tables, Modes

\* What Lock, End and Goto do to the types of held, pc and local.
LEMMA LockTyped ==
  ASSUME ControlOK, NEW t \in Txs, NEW row \in Rows, NEW mode \in Modes, Lock(t, row, mode)
  PROVE  held' \subseteq [tx : Txs, row : Rows, mode : Modes]
  BY DEF Lock, ControlOK

LEMMA EndTyped ==
  ASSUME ControlOK, NEW t \in Txs, NEW how \in Over \cup {"mark"}, End(t, how)
  PROVE  ControlOK'
  BY FirstTyped DEF End, ControlOK, Statements

LEMMA GotoTyped ==
  ASSUME ControlOK, NEW t \in Txs, NEW to \in Statements, Goto(t, to)
  PROVE  pc' \in [Txs -> Over \cup Statements]
  BY DEF Goto, ControlOK

\* What a transaction uses has its type.
LEMMA UsesTyped ==
  ASSUME TypeOK, NEW t \in Txs
  PROVE  /\ At(t) \in Instances /\ local[t] \in Locals
         /\ portfolio[At(t)] \in Ledger!PortfolioRows
         /\ status[At(t)] \in Ledger!Statuses
         /\ t \in Reports => OrderOf[t] \in Orders
  BY LocksAssumption DEF TypeOK, RowsOK, ControlOK, Locals, At

LEMMA TickTyped ==
  ASSUME TypeOK, NEW t \in Txs, t \in Ticks,
         TickLocksInstance(t) \/ TickLocksPortfolio(t) \/ TickCommits(t) \/ MarkError(t)
  PROVE  TypeOK'
  <1>0. /\ At(t) \in Instances /\ local[t] \in Locals /\ RowsOK /\ ControlOK
        /\ <<"instance", At(t)>> \in Rows /\ <<"portfolio", At(t)>> \in Rows
        /\ "update" \in Modes
    BY UsesTyped, RowsTyped DEF TypeOK
  <1>1. CASE TickLocksInstance(t)
    <2>1. RowsOK'
      BY <1>0, <1>1 DEF TickLocksInstance, data, RowsOK
    <2>2. CASE status[At(t)] = "RUNNING"
      <3>1. Lock(t, <<"instance", At(t)>>, "update") /\ Goto(t, "portfolio") /\ UNCHANGED local
        BY <1>1, <2>2 DEF TickLocksInstance
      <3> QED BY <1>0, <2>1, <3>1, LockTyped, GotoTyped DEF TypeOK, ControlOK, Statements
    <2>3. CASE status[At(t)] # "RUNNING"
      <3>1. End(t, "committed")
        BY <1>1, <2>3 DEF TickLocksInstance
      <3> QED BY <1>0, <2>1, <3>1, EndTyped DEF TypeOK, Over
    <2> QED BY <2>2, <2>3
  <1>2. CASE TickLocksPortfolio(t)
    <2>1. RowsOK'
      BY <1>0, <1>2 DEF TickLocksPortfolio, data, RowsOK
    <2>2. CASE BarOf[t] > portfolio[At(t)].bar
      <3>1. /\ Lock(t, <<"portfolio", At(t)>>, "update") /\ Goto(t, "commit")
            /\ local' = [local EXCEPT ![t].copy = portfolio[At(t)]]
        BY <1>2, <2>2 DEF TickLocksPortfolio
      <3>2. local' \in [Txs -> Locals]
        BY <1>0, <3>1, UsesTyped DEF ControlOK, Locals
      <3> QED BY <1>0, <2>1, <3>1, <3>2, LockTyped, GotoTyped DEF TypeOK, ControlOK, Statements
    <2>3. CASE ~(BarOf[t] > portfolio[At(t)].bar)
      <3>1. End(t, "committed")
        BY <1>2, <2>3 DEF TickLocksPortfolio
      <3> QED BY <1>0, <2>1, <3>1, EndTyped DEF TypeOK, Over
    <2> QED BY <2>2, <2>3
  <1>3. CASE TickCommits(t)
    <2>1. BarOf[t] \in Nat /\ local[t].copy.buckets \in SUBSET (Ticks \cup Reports)
      BY <1>0, LocksAssumption DEF Locals, Ledger!PortfolioRows
    <2>2. portfolio' \in [Instances -> Ledger!PortfolioRows]
      BY <1>0, <1>3, <2>1 DEF TickCommits, RowsOK, Ledger!PortfolioRows
    <2>3. RowsOK'
      BY <1>0, <1>3, <2>2 DEF TickCommits, RowsOK
    <2> QED BY <1>0, <1>3, <2>3, EndTyped DEF TickCommits, TypeOK, Over
  <1>4. CASE MarkError(t)
    <2>1. RowsOK'
      BY <1>0, <1>4 DEF MarkError, RowsOK, Ledger!Statuses
    <2> QED BY <1>0, <1>4, <2>1, EndTyped DEF MarkError, TypeOK, Over
  <1> QED
    BY <1>1, <1>2, <1>3, <1>4

LEMMA ReportTyped ==
  ASSUME TypeOK, NEW t \in Txs, t \in Reports,
         \/ ReportLocksExecution(t) \/ ReportLocksPortfolio(t)
         \/ ReportInserts(t) \/ ReportCommits(t)
  PROVE  TypeOK'
  <1>0. /\ At(t) \in Instances /\ local[t] \in Locals /\ RowsOK /\ ControlOK
        /\ <<"instance", At(t)>> \in Rows /\ <<"portfolio", At(t)>> \in Rows
        /\ OrderOf[t] \in Orders /\ <<"execution", OrderOf[t]>> \in Rows
        /\ "update" \in Modes /\ "key share" \in Modes
    BY UsesTyped, RowsTyped DEF TypeOK
  <1>1. CASE ReportLocksExecution(t)
    <2>1. RowsOK'
      BY <1>0, <1>1 DEF ReportLocksExecution, data, RowsOK
    <2>2. local' \in [Txs -> Locals]
      BY <1>0, <1>1 DEF ReportLocksExecution, ControlOK, Locals
    <2>3. pc' \in [Txs -> Over \cup Statements]
      BY <1>0, <1>1 DEF ReportLocksExecution, Goto, ControlOK, Statements
    <2>4. Lock(t, <<"execution", OrderOf[t]>>, "update")
      BY <1>1 DEF ReportLocksExecution
    <2> QED BY <1>0, <2>1, <2>2, <2>3, <2>4, LockTyped DEF TypeOK, ControlOK
  <1>2. CASE ReportLocksPortfolio(t)
    <2>1. RowsOK'
      BY <1>0, <1>2 DEF ReportLocksPortfolio, data, RowsOK
    <2>2. local' \in [Txs -> Locals]
      BY <1>0, <1>2, UsesTyped DEF ReportLocksPortfolio, ControlOK, Locals
    <2>3. pc' \in [Txs -> Over \cup Statements]
      BY <1>0, <1>2 DEF ReportLocksPortfolio, Goto, ControlOK, Statements
    <2>4. Lock(t, <<"portfolio", At(t)>>, "update")
      BY <1>2 DEF ReportLocksPortfolio
    <2> QED BY <1>0, <2>1, <2>2, <2>3, <2>4, LockTyped DEF TypeOK, ControlOK
  <1>3. CASE ReportInserts(t)
    <2>1. RowsOK' /\ UNCHANGED local
      BY <1>0, <1>3 DEF ReportInserts, data, RowsOK
    <2>2. pc' \in [Txs -> Over \cup Statements]
      BY <1>0, <1>3 DEF ReportInserts, Goto, ControlOK, Statements
    <2>3. Lock(t, <<"instance", At(t)>>, "key share")
      BY <1>3 DEF ReportInserts
    <2>4. held' \subseteq [tx : Txs, row : Rows, mode : Modes]
      BY <1>0, <2>3, LockTyped
    <2> QED
      BY <1>0, <2>1, <2>2, <2>4 DEF TypeOK, ControlOK
  <1>4. CASE ReportCommits(t)
    <2>1. local[t].copy.buckets \in SUBSET (Ticks \cup Reports) /\ local[t].settles \in {"no", "filled", "failed"}
      BY <1>0 DEF Locals, Ledger!PortfolioRows
    <2>2. portfolio' \in [Instances -> Ledger!PortfolioRows]
      <3> DEFINE booked == IF local[t].settles = "filled"
                           THEN [portfolio EXCEPT ![At(t)].buckets = local[t].copy.buckets \cup {t}]
                           ELSE portfolio
      <3>1. booked \in [Instances -> Ledger!PortfolioRows]
        <4>1. local[t].copy.buckets \cup {t} \in SUBSET (Ticks \cup Reports)
          BY <2>1
        <4> QED BY <1>0, <4>1 DEF RowsOK, Ledger!PortfolioRows
      <3>2. portfolio' = IF t \in WithBalance THEN [booked EXCEPT ![At(t)].usdt = t] ELSE booked
        BY <1>4 DEF ReportCommits
      <3> HIDE DEF booked
      <3>3. [booked EXCEPT ![At(t)].usdt = t] \in [Instances -> Ledger!PortfolioRows]
        BY <1>0, <3>1 DEF Ledger!PortfolioRows
      <3> QED BY <3>1, <3>2, <3>3
    <2>3. RowsOK'
      BY <1>0, <1>4, <2>1, <2>2 DEF ReportCommits, RowsOK
    <2> QED BY <1>0, <1>4, <2>3, EndTyped DEF ReportCommits, TypeOK, Over
  <1> QED
    BY <1>1, <1>2, <1>3, <1>4

LEMMA SnapshotTyped ==
  ASSUME TypeOK, NEW t \in Txs, t \in Snapshots,
         SnapshotBegins(t) \/ SnapshotLocksPortfolio(t) \/ SnapshotCommits(t)
  PROVE  TypeOK'
  <1>0. /\ At(t) \in Instances /\ local[t] \in Locals /\ RowsOK /\ ControlOK
        /\ <<"portfolio", At(t)>> \in Rows /\ "update" \in Modes
    BY UsesTyped, RowsTyped DEF TypeOK
  <1>1. CASE SnapshotBegins(t) \/ SnapshotLocksPortfolio(t)
    <2>1. PICK S \in SUBSET Instances, visited \in SUBSET Instances : NextInstance(t, S, visited)
      BY <1>0, <1>1 DEF SnapshotBegins, SnapshotLocksPortfolio, Locals
    <2>2. local' \in [Txs -> Locals]
      <3>0. \A x \in Locals : local \in [Txs -> Locals] =>
               [local EXCEPT ![t] = x] \in [Txs -> Locals]
        OBVIOUS
      <3>1. CASE S = {}
        <4>1. local' = [local EXCEPT ![t] = [local[t] EXCEPT !.visited = visited]]
          BY <2>1, <3>1 DEF NextInstance
        <4>2. [local[t] EXCEPT !.visited = visited] \in Locals
          BY <1>0 DEF Locals
        <4> QED BY <1>0, <3>0, <4>1, <4>2 DEF ControlOK
      <3>2. CASE S # {}
        <4>1. PICK i \in S : local' = [local EXCEPT ![t].at = i, ![t].rest = S \ {i},
                                                    ![t].visited = visited]
          BY <2>1, <3>2 DEF NextInstance
        <4>2. local' = [local EXCEPT ![t] =
                         [local[t] EXCEPT !.at = i, !.rest = S \ {i}, !.visited = visited]]
          BY <1>0, <4>1 DEF ControlOK, Locals
        <4>3. [local[t] EXCEPT !.at = i, !.rest = S \ {i}, !.visited = visited] \in Locals
          BY <1>0 DEF Locals
        <4> QED BY <1>0, <3>0, <4>2, <4>3 DEF ControlOK
      <3> QED BY <3>1, <3>2
    <2>3. pc' \in [Txs -> Over \cup Statements]
      BY <1>0, <2>1 DEF NextInstance, Goto, ControlOK, Statements
    <2>4. held' \subseteq [tx : Txs, row : Rows, mode : Modes]
      BY <1>0, <1>1, LockTyped DEF SnapshotBegins, SnapshotLocksPortfolio, ControlOK
    <2>5. RowsOK'
      BY <1>0, <1>1 DEF SnapshotBegins, SnapshotLocksPortfolio, data, RowsOK
    <2> QED BY <2>2, <2>3, <2>4, <2>5 DEF TypeOK, ControlOK
  <1>2. CASE SnapshotCommits(t)
    <2>1. portfolio' \in [Instances -> Ledger!PortfolioRows]
      BY <1>0, <1>2 DEF SnapshotCommits, Ledger!PortfolioRows, RowsOK
    <2>2. RowsOK'
      BY <1>0, <1>2, <2>1 DEF SnapshotCommits, RowsOK
    <2> QED BY <1>0, <1>2, <2>2, EndTyped DEF SnapshotCommits, TypeOK, Over
  <1> QED
    BY <1>1, <1>2

\* Types of the variables hold after every step.
LEMMA TypeStep ==
  ASSUME TypeOK, NEW t \in Txs, Statement(t) \/ BreakDeadlock(t)
  PROVE  TypeOK'
  <1>1. ASSUME t \in Requests, Request(t) PROVE TypeOK'
    <2>1. RowsOK' /\ \E how \in Over : End(t, how)
      BY <1>1, LocksAssumption, UsesTyped DEF Request, TypeOK, RowsOK, Ledger!Statuses, Over
    <2> QED BY <2>1, EndTyped DEF TypeOK
  <1>2. CASE BreakDeadlock(t)
    <2>1. RowsOK' /\ \E how \in Over \cup {"mark"} : End(t, how)
      BY <1>2 DEF BreakDeadlock, data, TypeOK, RowsOK, Over
    <2> QED BY <2>1, EndTyped DEF TypeOK
  <1> QED
    BY <1>1, <1>2, TickTyped, ReportTyped, SnapshotTyped DEF Statement

\* LedgerLocks: every variable keeps its type.
THEOREM TypeCorrect == Spec => []TypeOK
  <1>1. TypeOK /\ [Next]_vars => TypeOK'
    <2> SUFFICES ASSUME TypeOK, [Next]_vars PROVE TypeOK'
      OBVIOUS
    <2>1. CASE UNCHANGED vars
      BY <2>1 DEF vars, TypeOK, RowsOK, ControlOK
    <2> QED BY <2>1, TypeStep DEF Next, AllOver
  <1> QED BY <1>1, TypeInit, PTL DEF Spec

-----------------------------------------------------------------------------
(***************************************************************************)
(* A step of one transaction and the others.                               *)
(***************************************************************************)

\* Of pc, local and held a step of t changes only what is its own.
OnlyItsOwn(t) ==
  \A u \in Txs \ {t} :
    /\ pc'[u] = pc[u] /\ local'[u] = local[u]
    /\ \A row \in Rows, mode \in Modes : Holds(u, row, mode)' <=> Holds(u, row, mode)

\* No other transaction has row locked FOR UPDATE.
NotOthers(t, row) == \A u \in Txs \ {t} : ~Holds(u, row, "update")

\* A step of t writes no row that another transaction has locked.
OnlyUnlocked(t) ==
  /\ \A i \in Instances : status'[i] # status[i] => NotOthers(t, <<"instance", i>>)
  /\ \A i \in Instances : portfolio'[i] # portfolio[i] => NotOthers(t, <<"portfolio", i>>)
  /\ \A o \in Orders : execution'[o] # execution[o] => NotOthers(t, <<"execution", o>>)

\* Then what other transactions rely on still holds.
LEMMA Frame ==
  ASSUME Kept, TypeOK', NEW t \in Txs, OnlyItsOwn(t), OnlyUnlocked(t), NEW u \in Txs, u # t
  PROVE  Keeps(u)'
  <1>0. /\ pc'[u] = pc[u] /\ local'[u] = local[u] /\ At(u)' = At(u)
        /\ \A row \in Rows, mode \in Modes : Holds(u, row, mode)' <=> Holds(u, row, mode)
        /\ At(u) \in Instances /\ Keeps(u)
        /\ local[u].visited \subseteq Instances
        /\ u \in Reports => OrderOf[u] \in Orders
    BY UsesTyped DEF OnlyItsOwn, At, Kept, Locals
  <1>1. ASSUME u \in Ticks PROVE TickKeeps(u)'
    <2>1. TickKeeps(u) /\ <<"instance", At(u)>> \in Rows /\ <<"portfolio", At(u)>> \in Rows
          /\ "update" \in Modes
      BY <1>0, <1>1, RowsTyped DEF Keeps
    <2>2. Holds(u, <<"instance", At(u)>>, "update") => status'[At(u)] = status[At(u)]
      BY <1>0 DEF OnlyUnlocked, NotOthers
    <2>3. Holds(u, <<"portfolio", At(u)>>, "update") => portfolio'[At(u)] = portfolio[At(u)]
      BY <1>0 DEF OnlyUnlocked, NotOthers
    <2> QED BY <1>0, <2>1, <2>2, <2>3 DEF TickKeeps
  <1>2. ASSUME u \in Reports PROVE ReportKeeps(u)'
    <2>1. /\ ReportKeeps(u) /\ <<"portfolio", At(u)>> \in Rows
          /\ <<"execution", OrderOf[u]>> \in Rows /\ "update" \in Modes
      BY <1>0, <1>2, RowsTyped DEF Keeps
    <2>2. Holds(u, <<"execution", OrderOf[u]>>, "update") =>
             execution'[OrderOf[u]] = execution[OrderOf[u]]
      BY <1>0, <1>2 DEF OnlyUnlocked, NotOthers
    <2>3. Holds(u, <<"portfolio", At(u)>>, "update") => portfolio'[At(u)] = portfolio[At(u)]
      BY <1>0 DEF OnlyUnlocked, NotOthers
    <2> QED BY <1>0, <2>1, <2>2, <2>3 DEF ReportKeeps
  <1>3. ASSUME u \in Snapshots PROVE SnapshotKeeps(u)'
    BY <1>0, <1>3, RowsTyped DEF Keeps, SnapshotKeeps
  <1>4. ASSUME u \in Requests PROVE RequestKeeps(u)'
    BY <1>0, <1>4 DEF Keeps, RequestKeeps
  <1> QED BY <1>1, <1>2, <1>3, <1>4 DEF Keeps

\* Locks exclude each other.
LEMMA LockedOut ==
  ASSUME Exclusive, NEW t \in Txs, NEW row \in Rows,
         Holds(t, row, "update") \/ IsFree(t, row, "update")
  PROVE  NotOthers(t, row)
  BY DEF Exclusive, Holds, NotOthers, IsFree, Blockers, Conflict

LEMMA LockOwn ==
  ASSUME Kept, NEW t \in Txs, NEW row \in Rows, NEW mode \in Modes, Lock(t, row, mode)
  PROVE  /\ Exclusive' /\ Holds(t, row, mode)'
         /\ \A u \in Txs, r \in Rows, m \in Modes : Holds(u, r, m) => Holds(u, r, m)'
         /\ \A u \in Txs \ {t}, r \in Rows, m \in Modes : Holds(u, r, m)' <=> Holds(u, r, m)
  <1>1. Exclusive'
    BY DEF Kept, Exclusive, Lock, IsFree, Blockers, Conflict
  <1> QED BY <1>1 DEF Lock, Holds

LEMMA EndOwn ==
  ASSUME Kept, NEW t \in Txs, NEW how \in Over \cup {"mark"}, End(t, how)
  PROVE  /\ Exclusive' /\ OnlyItsOwn(t) /\ pc'[t] = how
         /\ Keeps(t)'
  <1>1. Exclusive'
    BY DEF Kept, Exclusive, End
  <1>2. OnlyItsOwn(t)
    BY DEF OnlyItsOwn, End, Holds, Kept, TypeOK, ControlOK
  <1>3. pc'[t] = how /\ local'[t] = FirstLocal(t)
    BY DEF End, Kept, TypeOK, ControlOK
  <1>4. Keeps(t)'
    BY <1>3, LocksAssumption
       DEF Keeps, TickKeeps, ReportKeeps, SnapshotKeeps, RequestKeeps, At, FirstLocal, Over
  <1> QED BY <1>1, <1>2, <1>3, <1>4

-----------------------------------------------------------------------------
(***************************************************************************)
(* Each statement keeps the locks exclusive and what its own transaction   *)
(* relies on, touches nothing of the others and writes what it has locked. *)
(***************************************************************************)

Behaves(t) == Exclusive' /\ OnlyItsOwn(t) /\ OnlyUnlocked(t) /\ Keeps(t)'

LEMMA NothingWritten == ASSUME UNCHANGED data, NEW t \in Txs PROVE OnlyUnlocked(t)
  BY DEF data, OnlyUnlocked

LEMMA TickBehaves ==
  ASSUME Kept, NEW t \in Txs, t \in Ticks,
         TickLocksInstance(t) \/ TickLocksPortfolio(t) \/ TickCommits(t) \/ MarkError(t)
  PROVE  Behaves(t)
  <1>0. /\ At(t) \in Instances /\ TickKeeps(t) /\ Exclusive /\ TypeOK
        /\ <<"instance", At(t)>> \in Rows /\ <<"portfolio", At(t)>> \in Rows
        /\ "update" \in Modes
        /\ t \notin Reports \cup Snapshots \cup Requests
    BY UsesTyped, RowsTyped, LocksAssumption DEF Kept, Keeps
  <1>1. ASSUME End(t, "committed"), UNCHANGED data PROVE Behaves(t)
    BY <1>1, EndOwn, NothingWritten DEF Behaves, Over
  <1>2. CASE TickLocksInstance(t)
    <2>1. CASE status[At(t)] = "RUNNING"
      <3>1. /\ Lock(t, <<"instance", At(t)>>, "update") /\ Goto(t, "portfolio")
            /\ UNCHANGED <<local, data>>
        BY <1>2, <2>1 DEF TickLocksInstance
      <3>2. Exclusive' /\ OnlyItsOwn(t) /\ OnlyUnlocked(t)
        BY <1>0, <3>1, LockOwn, NothingWritten DEF OnlyItsOwn, Goto, TypeOK, ControlOK
      <3>3. pc'[t] = "portfolio" /\ At(t)' = At(t) /\ Holds(t, <<"instance", At(t)>>, "update")'
        BY <1>0, <3>1, LockOwn DEF Goto, TypeOK, ControlOK, At
      <3>4. TickKeeps(t)'
        BY <1>0, <2>1, <3>1, <3>3 DEF TickKeeps, data
      <3> QED BY <1>0, <3>2, <3>4 DEF Behaves, Keeps
    <2> QED BY <1>1, <1>2, <2>1 DEF TickLocksInstance
  <1>3. CASE TickLocksPortfolio(t)
    <2>1. CASE BarOf[t] > portfolio[At(t)].bar
      <3>1. /\ Lock(t, <<"portfolio", At(t)>>, "update") /\ Goto(t, "commit") /\ UNCHANGED data
            /\ local' = [local EXCEPT ![t].copy = portfolio[At(t)]]
        BY <1>3, <2>1 DEF TickLocksPortfolio
      <3>2. Exclusive' /\ OnlyItsOwn(t) /\ OnlyUnlocked(t)
        BY <1>0, <3>1, LockOwn, NothingWritten DEF OnlyItsOwn, Goto, TypeOK, ControlOK
      <3>3. /\ pc'[t] = "commit" /\ At(t)' = At(t) /\ local'[t].copy = portfolio[At(t)]
            /\ Holds(t, <<"instance", At(t)>>, "update")'
            /\ Holds(t, <<"portfolio", At(t)>>, "update")'
            /\ status[At(t)] = "RUNNING"
        <4>1. pc[t] = "portfolio"
          BY <1>3 DEF TickLocksPortfolio
        <4>2. local'[t] = [local[t] EXCEPT !.copy = portfolio[At(t)]] /\ pc'[t] = "commit"
          BY <1>0, <3>1 DEF TypeOK, ControlOK, Goto
        <4>3. local'[t].copy = portfolio[At(t)] /\ At(t)' = At(t)
          BY <1>0, <4>2, UsesTyped DEF Locals, At
        <4> QED BY <1>0, <3>1, <4>1, <4>2, <4>3, LockOwn DEF TickKeeps
      <3>4. TickKeeps(t)'
        BY <1>0, <2>1, <3>1, <3>3 DEF TickKeeps, data
      <3> QED BY <1>0, <3>2, <3>4 DEF Behaves, Keeps
    <2> QED BY <1>1, <1>3, <2>1 DEF TickLocksPortfolio
  <1>4. CASE TickCommits(t)
    <2>1. pc[t] = "commit" /\ End(t, "committed") /\ UNCHANGED <<status, execution>>
      BY <1>4 DEF TickCommits
    <2>2. NotOthers(t, <<"portfolio", At(t)>>)
      BY <1>0, <2>1, LockedOut DEF TickKeeps
    <2>3. \A i \in Instances : portfolio'[i] # portfolio[i] => i = At(t)
      BY <1>0, <1>4 DEF TickCommits, TypeOK, RowsOK
    <2> QED BY <2>1, <2>2, <2>3, EndOwn DEF Behaves, OnlyUnlocked, Over
  <1>5. CASE MarkError(t)
    <2>1. End(t, "failed") /\ UNCHANGED <<portfolio, execution>>
      BY <1>5 DEF MarkError
    <2>2. NotOthers(t, <<"instance", At(t)>>)
      BY <1>0, <1>5, LockedOut DEF MarkError
    <2>3. \A i \in Instances : status'[i] # status[i] => i = At(t)
      BY <1>0, <1>5 DEF MarkError, TypeOK, RowsOK
    <2> QED BY <2>1, <2>2, <2>3, EndOwn DEF Behaves, OnlyUnlocked, Over
  <1> QED BY <1>2, <1>3, <1>4, <1>5

LEMMA ReportBehaves ==
  ASSUME Kept, NEW t \in Txs, t \in Reports,
         \/ ReportLocksExecution(t) \/ ReportLocksPortfolio(t)
         \/ ReportInserts(t) \/ ReportCommits(t)
  PROVE  Behaves(t)
  <1>0. /\ At(t) \in Instances /\ ReportKeeps(t) /\ Exclusive /\ TypeOK /\ local[t] \in Locals
        /\ <<"instance", At(t)>> \in Rows /\ <<"portfolio", At(t)>> \in Rows
        /\ <<"execution", OrderOf[t]>> \in Rows /\ OrderOf[t] \in Orders
        /\ "update" \in Modes /\ "key share" \in Modes
        /\ t \notin Ticks \cup Snapshots \cup Requests
    BY UsesTyped, RowsTyped, LocksAssumption DEF Kept, Keeps
  <1>1. CASE ReportLocksExecution(t)
    <2> DEFINE how == IF execution[OrderOf[t]] # "pending" THEN "no"
                      ELSE IF t \in Filled THEN "filled" ELSE "failed"
               next == IF how = "filled" \/ t \in WithBalance THEN "portfolio" ELSE "commit"
    <2>1. /\ Lock(t, <<"execution", OrderOf[t]>>, "update") /\ Goto(t, next) /\ UNCHANGED data
          /\ local' = [local EXCEPT ![t].settles = how]
      BY <1>1 DEF ReportLocksExecution
    <2>2. Exclusive' /\ OnlyItsOwn(t) /\ OnlyUnlocked(t)
      BY <1>0, <2>1, LockOwn, NothingWritten DEF OnlyItsOwn, Goto, TypeOK, ControlOK
    <2>3. local'[t] = [local[t] EXCEPT !.settles = how] /\ pc'[t] = next
      BY <1>0, <2>1 DEF TypeOK, ControlOK, Goto
    <2>4. /\ local'[t].settles = how /\ At(t)' = At(t)
          /\ Holds(t, <<"execution", OrderOf[t]>>, "update")'
      <3>1. local'[t].settles = how /\ At(t)' = At(t)
        BY <1>0, <2>3 DEF At, Locals
      <3>2. Holds(t, <<"execution", OrderOf[t]>>, "update")'
        BY <1>0, <2>1, LockOwn
      <3> QED BY <3>1, <3>2
    <2>5. ReportKeeps(t)'
      BY <1>0, <2>1, <2>3, <2>4 DEF ReportKeeps, data
    <2> QED BY <1>0, <2>2, <2>5 DEF Behaves, Keeps
  <1>2. CASE ReportLocksPortfolio(t)
    <2> DEFINE next == IF local[t].settles = "filled" THEN "references" ELSE "commit"
    <2>1. /\ Lock(t, <<"portfolio", At(t)>>, "update") /\ Goto(t, next) /\ UNCHANGED data
          /\ local' = [local EXCEPT ![t].copy = portfolio[At(t)]] /\ pc[t] = "portfolio"
      BY <1>2 DEF ReportLocksPortfolio
    <2>2. Exclusive' /\ OnlyItsOwn(t) /\ OnlyUnlocked(t)
      BY <1>0, <2>1, LockOwn, NothingWritten DEF OnlyItsOwn, Goto, TypeOK, ControlOK
    <2>3. local'[t] = [local[t] EXCEPT !.copy = portfolio[At(t)]] /\ pc'[t] = next
      BY <1>0, <2>1 DEF TypeOK, ControlOK, Goto
    <2>4. /\ local'[t].settles = local[t].settles /\ At(t)' = At(t)
          /\ local'[t].copy = portfolio[At(t)]
          /\ Holds(t, <<"execution", OrderOf[t]>>, "update")'
          /\ Holds(t, <<"portfolio", At(t)>>, "update")'
      <3>1. local'[t].settles = local[t].settles /\ At(t)' = At(t)
            /\ local'[t].copy = portfolio[At(t)]
        BY <1>0, <2>3, UsesTyped DEF At, Locals
      <3>2. Holds(t, <<"execution", OrderOf[t]>>, "update")
        BY <1>0, <2>1 DEF ReportKeeps
      <3>3. Holds(t, <<"execution", OrderOf[t]>>, "update")'
        BY <1>0, <2>1, <3>2, LockOwn
      <3>4. Holds(t, <<"portfolio", At(t)>>, "update")'
        BY <1>0, <2>1, <3>1, LockOwn
      <3> QED BY <3>1, <3>3, <3>4
    <2>5. ReportKeeps(t)'
      BY <1>0, <2>1, <2>3, <2>4 DEF ReportKeeps, data
    <2> QED BY <1>0, <2>2, <2>5 DEF Behaves, Keeps
  <1>3. CASE ReportInserts(t)
    <2>1. /\ Lock(t, <<"instance", At(t)>>, "key share") /\ Goto(t, "commit")
          /\ UNCHANGED <<data, local>> /\ pc[t] = "references"
      BY <1>3 DEF ReportInserts
    <2>2. Exclusive' /\ OnlyItsOwn(t) /\ OnlyUnlocked(t)
      BY <1>0, <2>1, LockOwn, NothingWritten DEF OnlyItsOwn, Goto, TypeOK, ControlOK
    <2>3. local'[t] = local[t] /\ pc'[t] = "commit" /\ At(t)' = At(t)
      BY <1>0, <2>1 DEF TypeOK, ControlOK, Goto, At
    <2>4. /\ Holds(t, <<"execution", OrderOf[t]>>, "update")'
          /\ Holds(t, <<"portfolio", At(t)>>, "update")'
      <3>1. /\ Holds(t, <<"execution", OrderOf[t]>>, "update")
            /\ Holds(t, <<"portfolio", At(t)>>, "update")
        BY <1>0, <2>1 DEF ReportKeeps
      <3>2. Holds(t, <<"portfolio", At(t)>>, "update")'
        BY <1>0, <2>1, <2>3, <3>1, LockOwn
      <3> QED BY <1>0, <2>1, <3>1, <3>2, LockOwn
    <2>5. ReportKeeps(t)'
      BY <1>0, <2>1, <2>3, <2>4 DEF ReportKeeps, data
    <2> QED BY <1>0, <2>2, <2>5 DEF Behaves, Keeps
  <1>4. CASE ReportCommits(t)
    <2>1. pc[t] = "commit" /\ End(t, "committed") /\ UNCHANGED status
      BY <1>4 DEF ReportCommits
    <2>2. \A o \in Orders : execution'[o] # execution[o] => o = OrderOf[t]
      BY <1>0, <1>4 DEF ReportCommits, TypeOK, RowsOK
    <2>3. \A i \in Instances : portfolio'[i] # portfolio[i] =>
             i = At(t) /\ (t \in WithBalance \/ local[t].settles = "filled")
      BY <1>0, <1>4 DEF ReportCommits, TypeOK, RowsOK
    <2>4. NotOthers(t, <<"execution", OrderOf[t]>>)
      BY <1>0, <2>1, LockedOut DEF ReportKeeps
    <2>5. t \in WithBalance \/ local[t].settles = "filled" => NotOthers(t, <<"portfolio", At(t)>>)
      BY <1>0, <2>1, LockedOut DEF ReportKeeps
    <2> QED BY <2>1, <2>2, <2>3, <2>4, <2>5, EndOwn DEF Behaves, OnlyUnlocked, Over
  <1> QED BY <1>1, <1>2, <1>3, <1>4

LEMMA SnapshotBehaves ==
  ASSUME Kept, NEW t \in Txs, t \in Snapshots,
         SnapshotBegins(t) \/ SnapshotLocksPortfolio(t) \/ SnapshotCommits(t)
  PROVE  Behaves(t)
  <1>0. /\ At(t) \in Instances /\ SnapshotKeeps(t) /\ Exclusive /\ TypeOK /\ local[t] \in Locals
        /\ <<"portfolio", At(t)>> \in Rows /\ "update" \in Modes
        /\ t \notin Ticks \cup Reports \cup Requests
    BY UsesTyped, RowsTyped, LocksAssumption DEF Kept, Keeps
  <1>1. ASSUME NEW S \in SUBSET Instances, NEW visited \in SUBSET Instances,
               NextInstance(t, S, visited)
        PROVE  /\ local'[t].visited = visited
               /\ \A u \in Txs \ {t} : pc'[u] = pc[u] /\ local'[u] = local[u]
    <2>1. CASE S = {}
      <3>1. local' = [local EXCEPT ![t].visited = visited] /\ Goto(t, "commit")
        BY <1>1, <2>1 DEF NextInstance
      <3> QED BY <1>0, <3>1 DEF Goto, TypeOK, ControlOK, Locals
    <2>2. CASE S # {}
      <3>1. PICK i \in S : /\ Goto(t, "portfolio")
                           /\ local' = [local EXCEPT ![t].at = i, ![t].rest = S \ {i},
                                                     ![t].visited = visited]
        BY <1>1, <2>2 DEF NextInstance
      <3> QED BY <1>0, <3>1 DEF Goto, TypeOK, ControlOK, Locals
    <2> QED BY <2>1, <2>2
  <1>2. CASE SnapshotBegins(t)
    <2>1. /\ UNCHANGED <<data, held>>
          /\ NextInstance(t, {i \in Instances : status[i] # "DELETED"}, {})
      BY <1>2 DEF SnapshotBegins
    <2>2. /\ local'[t].visited = {}
          /\ \A u \in Txs \ {t} : pc'[u] = pc[u] /\ local'[u] = local[u]
      BY <1>1, <2>1
    <2>3. OnlyItsOwn(t) /\ Exclusive'
      BY <1>0, <2>1, <2>2 DEF OnlyItsOwn, Holds, Exclusive
    <2> QED BY <1>0, <2>1, <2>2, <2>3, NothingWritten DEF Behaves, Keeps, SnapshotKeeps
  <1>3. CASE SnapshotLocksPortfolio(t)
    <2>1. /\ UNCHANGED data /\ Lock(t, <<"portfolio", At(t)>>, "update")
          /\ NextInstance(t, local[t].rest, local[t].visited \cup {At(t)})
      BY <1>3 DEF SnapshotLocksPortfolio
    <2>2. /\ local'[t].visited = local[t].visited \cup {At(t)}
          /\ \A u \in Txs \ {t} : pc'[u] = pc[u] /\ local'[u] = local[u]
      <3>1. local[t].rest \in SUBSET Instances /\ local[t].visited \cup {At(t)} \in SUBSET Instances
        BY <1>0 DEF Locals
      <3> QED BY <1>1, <2>1, <3>1
    <2>3. OnlyItsOwn(t) /\ Exclusive'
      BY <1>0, <2>1, <2>2, LockOwn DEF OnlyItsOwn
    <2>4. SnapshotKeeps(t)'
      <3>1. \A i \in local[t].visited : <<"portfolio", i>> \in Rows
        BY <1>0, RowsTyped DEF Locals
      <3>2. \A i \in local[t].visited : Holds(t, <<"portfolio", i>>, "update")'
        BY <1>0, <2>1, <3>1, LockOwn DEF SnapshotKeeps
      <3>3. LET p == <<"portfolio", At(t)>> IN [tx |-> t, row |-> p, mode |-> "update"] \in held'
        BY <2>1 DEF Lock
      <3> QED BY <2>2, <3>2, <3>3 DEF SnapshotKeeps, Holds
    <2> QED BY <1>0, <2>1, <2>3, <2>4, NothingWritten DEF Behaves, Keeps
  <1>4. CASE SnapshotCommits(t)
    <2>1. End(t, "committed") /\ UNCHANGED <<status, execution>>
      BY <1>4 DEF SnapshotCommits
    <2>2. \A i \in Instances : portfolio'[i] # portfolio[i] => i \in local[t].visited
      BY <1>4 DEF SnapshotCommits
    <2>3. \A i \in local[t].visited : NotOthers(t, <<"portfolio", i>>)
      BY <1>0, RowsTyped, LockedOut DEF SnapshotKeeps, Locals
    <2> QED BY <2>1, <2>2, <2>3, EndOwn DEF Behaves, OnlyUnlocked, Over
  <1> QED BY <1>2, <1>3, <1>4

LEMMA StepBehaves ==
  ASSUME Kept, NEW t \in Txs, Statement(t) \/ BreakDeadlock(t)
  PROVE  Behaves(t)
  <1>1. ASSUME t \in Requests, Request(t) PROVE Behaves(t)
    <2>0. /\ At(t) \in Instances /\ Exclusive /\ <<"instance", At(t)>> \in Rows /\ TypeOK
      BY UsesTyped, RowsTyped DEF Kept
    <2>1. /\ UNCHANGED <<portfolio, execution>> /\ \E how \in Over : End(t, how)
          /\ \A i \in Instances : status'[i] # status[i] => i = At(t)
      BY <1>1, <2>0 DEF Request, TypeOK, RowsOK, Over
    <2>2. NotOthers(t, <<"instance", At(t)>>)
      BY <1>1, <2>0, LockedOut DEF Request
    <2> QED BY <2>1, <2>2, EndOwn DEF Behaves, OnlyUnlocked
  <1>2. CASE BreakDeadlock(t)
    <2>1. UNCHANGED data /\ \E how \in Over \cup {"mark"} : End(t, how)
      BY <1>2 DEF BreakDeadlock, Over
    <2> QED BY <2>1, EndOwn, NothingWritten DEF Behaves
  <1> QED
    BY <1>1, <1>2, TickBehaves, ReportBehaves, SnapshotBehaves DEF Statement

LEMMA KeptInit == Init => Kept
  <1> SUFFICES ASSUME Init PROVE Kept
    OBVIOUS
  <1>1. TypeOK /\ Exclusive
    BY TypeInit DEF Init, Exclusive
  <1>2. ASSUME NEW t \in Txs PROVE Keeps(t)
    <2>1. pc[t] = First(t) /\ local[t] = FirstLocal(t)
      BY <1>2 DEF Init
    <2> QED
      BY <1>2, <2>1, LocksAssumption
         DEF Keeps, TickKeeps, ReportKeeps, SnapshotKeeps, RequestKeeps, At, First, FirstLocal
  <1> QED BY <1>1, <1>2 DEF Kept

LEMMA KeptStep == Kept /\ [Next]_vars => Kept'
  <1> SUFFICES ASSUME Kept, [Next]_vars PROVE Kept'
    OBVIOUS
  <1>1. CASE UNCHANGED vars
    BY <1>1 DEF vars, Kept, TypeOK, RowsOK, ControlOK, Exclusive, Keeps, TickKeeps, ReportKeeps,
                SnapshotKeeps, RequestKeeps, At, Holds
  <1>2. ASSUME NEW t \in Txs, Statement(t) \/ BreakDeadlock(t) PROVE Kept'
    <2>1. TypeOK'
      BY <1>2, TypeStep DEF Kept
    <2>2. Behaves(t)
      BY <1>2, StepBehaves
    <2> QED BY <2>1, <2>2, Frame DEF Kept, Behaves
  <1> QED BY <1>1, <1>2 DEF Next, AllOver

-----------------------------------------------------------------------------
(***************************************************************************)
(* Refinement: the last statement of a transaction is its step in          *)
(* LedgerTransactions, all others change nothing there.                    *)
(***************************************************************************)

LEMMA EndMapped ==
  ASSUME TypeOK, NEW t \in Txs, NEW how \in Over, End(t, how), pc[t] \notin Over
  PROVE  Ledger!Ends(t, how)
  BY DEF Ledger!Ends, Outcome, End, TypeOK, ControlOK, Txs, Ledger!Txs, Over

\* A statement that is not the last one.
LEMMA GoesOnMapped ==
  ASSUME TypeOK, NEW t \in Txs, pc[t] \notin Over, UNCHANGED data,
         NEW to \in Statements, pc' = [pc EXCEPT ![t] = to]
  PROVE  UNCHANGED Ledger!lvars
  <1>1. to \notin Over
    BY DEF Statements, Over
  <1>2. Outcome' = Outcome
    BY <1>1 DEF Outcome, TypeOK, ControlOK, Txs, Ledger!Txs
  <1> QED BY <1>2 DEF data, Ledger!lvars

LEMMA EndsWithNothing ==
  ASSUME TypeOK, NEW t \in Txs, NEW how \in Over, End(t, how), pc[t] \notin Over, UNCHANGED data
  PROVE  Ledger!Nothing(t)
  BY EndMapped DEF Ledger!Nothing, data, Over

Mapped(t) ==
  \/ UNCHANGED Ledger!lvars
  \/ \/ Ledger!Tick(t) \/ Ledger!Book(t) \/ Ledger!Refuse(t) \/ Ledger!Repeat(t)
     \/ Ledger!Snapshot(t) \/ Ledger!Move(t) \/ Ledger!Nothing(t)

LEMMA TickMapped ==
  ASSUME Kept, NEW t \in Txs, t \in Ticks,
         TickLocksInstance(t) \/ TickLocksPortfolio(t) \/ TickCommits(t) \/ MarkError(t)
  PROVE  Mapped(t)
  <1>0. TypeOK /\ TickKeeps(t) /\ At(t) \in Instances
    BY UsesTyped DEF Kept, Keeps
  <1>1. CASE TickLocksInstance(t)
    <2>1. pc[t] \notin Over /\ UNCHANGED data
          /\ (pc' = [pc EXCEPT ![t] = "portfolio"] \/ End(t, "committed"))
      BY <1>1 DEF TickLocksInstance, Goto, Over
    <2> QED BY <1>0, <2>1, GoesOnMapped, EndsWithNothing DEF Mapped, Over, Statements
  <1>2. CASE TickLocksPortfolio(t)
    <2>1. pc[t] \notin Over /\ UNCHANGED data
          /\ (pc' = [pc EXCEPT ![t] = "commit"] \/ End(t, "committed"))
      BY <1>2 DEF TickLocksPortfolio, Goto, Over
    <2> QED BY <1>0, <2>1, GoesOnMapped, EndsWithNothing DEF Mapped, Over, Statements
  <1>3. CASE TickCommits(t)
    <2>1. pc[t] = "commit" /\ End(t, "committed") /\ UNCHANGED <<status, execution>>
      BY <1>3 DEF TickCommits
    <2>2. /\ At(t) = InstanceOf[t] /\ status[InstanceOf[t]] = "RUNNING"
          /\ local[t].copy = portfolio[At(t)] /\ BarOf[t] > portfolio[InstanceOf[t]].bar
      BY <1>0, <2>1 DEF TickKeeps
    <2>3. Ledger!Ends(t, "committed")
      BY <1>0, <2>1, EndMapped DEF Over
    <2>4. portfolio' = [portfolio EXCEPT ![InstanceOf[t]].bar = BarOf[t],
                                         ![InstanceOf[t]].buckets = @ \cup {t}]
      BY <1>0, <1>3, <2>2 DEF TickCommits, TypeOK, RowsOK, Ledger!PortfolioRows
    <2>5. lots' = [lots EXCEPT ![InstanceOf[t]] = @ \cup {t}]
      BY <1>3, <2>2 DEF TickCommits
    <2> QED BY <2>1, <2>2, <2>3, <2>4, <2>5 DEF Ledger!Tick, Mapped
  <1>4. CASE MarkError(t)
    <2>1. pc[t] = "mark" /\ End(t, "failed") /\ UNCHANGED <<portfolio, lots, execution>>
          /\ At(t) = InstanceOf[t]
      BY <1>0, <1>4 DEF MarkError, TickKeeps
    <2>2. Ledger!Ends(t, "failed")
      BY <1>0, <2>1, EndMapped DEF Over
    <2>3. CASE status[At(t)] = "RUNNING"
      <3>1. status' = [status EXCEPT ![InstanceOf[t]] = "ERROR"]
        BY <1>4, <2>1, <2>3 DEF MarkError
      <3> QED BY <2>1, <2>2, <2>3, <3>1 DEF Ledger!Move, Ledger!Allowed, Ledger!Statuses, Mapped
    <2>4. CASE status[At(t)] # "RUNNING"
      BY <1>4, <2>1, <2>2, <2>4 DEF MarkError, Ledger!Nothing, Mapped
    <2> QED BY <2>3, <2>4
  <1> QED BY <1>1, <1>2, <1>3, <1>4

LEMMA ReportMapped ==
  ASSUME Kept, NEW t \in Txs, t \in Reports,
         \/ ReportLocksExecution(t) \/ ReportLocksPortfolio(t)
         \/ ReportInserts(t) \/ ReportCommits(t)
  PROVE  Mapped(t)
  <1>0. TypeOK /\ ReportKeeps(t) /\ At(t) \in Instances /\ OrderOf[t] \in Orders
    BY UsesTyped DEF Kept, Keeps
  <1>1. CASE ReportLocksExecution(t) \/ ReportLocksPortfolio(t) \/ ReportInserts(t)
    <2>1. pc[t] \notin Over /\ UNCHANGED data /\ \E to \in Statements : pc' = [pc EXCEPT ![t] = to]
      BY <1>1 DEF ReportLocksExecution, ReportLocksPortfolio, ReportInserts, Goto, Over, Statements
    <2> QED BY <1>0, <2>1, GoesOnMapped DEF Mapped
  <1>2. CASE ReportCommits(t)
    <2> DEFINE i == InstanceOf[t]
               how == local[t].settles
    <2>1. pc[t] = "commit" /\ End(t, "committed") /\ UNCHANGED status /\ At(t) = i
      BY <1>0, <1>2 DEF ReportCommits, ReportKeeps
    <2>2. how = IF execution[OrderOf[t]] # "pending" THEN "no"
                ELSE IF t \in Filled THEN "filled" ELSE "failed"
      BY <1>0, <2>1 DEF ReportKeeps
    <2>3. Ledger!Ends(t, "committed")
      BY <1>0, <2>1, EndMapped DEF Over
    <2>4. CASE how = "filled"
      <3>1. t \in Filled /\ execution[OrderOf[t]] = "pending" /\ local[t].copy = portfolio[i]
        BY <1>0, <2>1, <2>2, <2>4 DEF ReportKeeps
      <3>2. /\ execution' = [execution EXCEPT ![OrderOf[t]] = "filled"]
            /\ lots' = [lots EXCEPT ![i] = @ \cup {t}]
        BY <1>2, <2>1, <2>4 DEF ReportCommits
      <3>3. [portfolio EXCEPT ![i].buckets = local[t].copy.buckets \cup {t}]
              = [portfolio EXCEPT ![i].buckets = @ \cup {t}]
        BY <3>1
      <3>4. portfolio' = Ledger!WithUsdt([portfolio EXCEPT ![i].buckets = @ \cup {t}], t)
        BY <1>2, <2>1, <2>4, <3>3 DEF ReportCommits, Ledger!WithUsdt
      <3> QED BY <2>1, <2>3, <3>1, <3>2, <3>4 DEF Ledger!Book, Mapped
    <2>5. CASE how = "failed"
      <3>1. /\ t \in Reports \ Filled /\ execution[OrderOf[t]] = "pending"
            /\ execution' = [execution EXCEPT ![OrderOf[t]] = "failed"] /\ lots' = lots
            /\ portfolio' = Ledger!WithUsdt(portfolio, t)
        BY <1>2, <2>1, <2>2, <2>5 DEF ReportCommits, Ledger!WithUsdt
      <3> QED BY <2>1, <2>3, <3>1 DEF Ledger!Refuse, Mapped
    <2>6. CASE how = "no"
      <3>1. /\ execution[OrderOf[t]] # "pending" /\ execution' = execution /\ lots' = lots
            /\ portfolio' = Ledger!WithUsdt(portfolio, t)
        BY <1>2, <2>1, <2>2, <2>6 DEF ReportCommits, Ledger!WithUsdt
      <3> QED BY <2>1, <2>3, <3>1 DEF Ledger!Repeat, Mapped
    <2> QED BY <2>2, <2>4, <2>5, <2>6
  <1> QED BY <1>1, <1>2

LEMMA SnapshotMapped ==
  ASSUME Kept, NEW t \in Txs, t \in Snapshots,
         SnapshotBegins(t) \/ SnapshotLocksPortfolio(t) \/ SnapshotCommits(t)
  PROVE  Mapped(t)
  <1>0. TypeOK /\ local[t].visited \in SUBSET Instances
    BY UsesTyped DEF Kept, Locals
  <1>1. CASE SnapshotBegins(t) \/ SnapshotLocksPortfolio(t)
    <2>1. pc[t] \notin Over /\ UNCHANGED data /\ \E to \in Statements : pc' = [pc EXCEPT ![t] = to]
      BY <1>1 DEF SnapshotBegins, SnapshotLocksPortfolio, NextInstance, Goto, Over, Statements
    <2> QED BY <1>0, <2>1, GoesOnMapped DEF Mapped
  <1>2. CASE SnapshotCommits(t)
    <2>1. pc[t] \notin Over /\ End(t, "committed") /\ UNCHANGED <<status, lots, execution>>
      BY <1>2 DEF SnapshotCommits, Over
    <2>2. Ledger!Ends(t, "committed")
      BY <1>0, <2>1, EndMapped DEF Over
    <2> QED BY <1>0, <1>2, <2>1, <2>2 DEF SnapshotCommits, Ledger!Snapshot, Mapped
  <1> QED BY <1>1, <1>2

LEMMA RequestMapped ==
  ASSUME Kept, NEW t \in Txs, t \in Requests, Request(t)
  PROVE  Mapped(t)
  <1>0. /\ TypeOK /\ At(t) = InstanceOf[t] /\ status[At(t)] \in Ledger!Statuses
        /\ TargetOf[t] \in {"RUNNING", "STOPPED", "DELETED"} /\ t \notin Ticks
    BY UsesTyped, LocksAssumption DEF Kept, Keeps, RequestKeeps
  <1>1. pc[t] \notin Over /\ UNCHANGED <<portfolio, lots, execution>>
    BY DEF Request, Over
  <1>2. CASE status[At(t)] \in From(TargetOf[t])
    <2>1. End(t, "committed") /\ status' = [status EXCEPT ![InstanceOf[t]] = TargetOf[t]]
      BY <1>0, <1>2 DEF Request
    <2>2. Ledger!Ends(t, "committed")
      BY <1>0, <1>1, <2>1, EndMapped DEF Over
    <2>3. Ledger!Allowed(status[InstanceOf[t]], TargetOf[t]) /\ TargetOf[t] \in Ledger!Statuses
      BY <1>0, <1>2 DEF From, Ledger!Allowed, Ledger!Statuses
    <2> QED BY <1>0, <1>1, <2>1, <2>2, <2>3 DEF Ledger!Move, Mapped
  <1>3. CASE status[At(t)] \notin From(TargetOf[t])
    <2>1. End(t, "failed") /\ UNCHANGED data
      BY <1>1, <1>3 DEF Request, data
    <2> QED BY <1>0, <1>1, <2>1, EndsWithNothing DEF Mapped, Over
  <1> QED BY <1>2, <1>3

LEMMA BreakMapped ==
  ASSUME Kept, NEW t \in Txs, BreakDeadlock(t)
  PROVE  Mapped(t)
  <1>1. pc[t] \notin Over /\ UNCHANGED data /\ TypeOK
    BY DEF BreakDeadlock, Wanted, Over, Kept
  <1>2. CASE t \in Ticks
    <2>1. pc' = [pc EXCEPT ![t] = "mark"]
      BY <1>2 DEF BreakDeadlock, End
    <2> QED BY <1>1, <2>1, GoesOnMapped DEF Mapped, Statements
  <1>3. CASE t \notin Ticks
    <2>1. End(t, "failed")
      BY <1>3 DEF BreakDeadlock
    <2> QED BY <1>1, <2>1, EndsWithNothing DEF Mapped, Over
  <1> QED BY <1>2, <1>3

LEMMA InitMapped == Init => Ledger!Init
  <1> SUFFICES ASSUME Init PROVE Ledger!Init
    OBVIOUS
  <1>1. \A t \in Txs : pc[t] = First(t) /\ First(t) \notin Over
    BY DEF Init, First, Txs, Ledger!Txs, Over
  <1>2. Outcome = [t \in Ledger!Txs |-> "none"]
    BY <1>1 DEF Outcome, Txs, Ledger!Txs
  <1> QED BY <1>2 DEF Init, Ledger!Init, EmptyRow

\* LedgerLocks: ticks, reports, snapshots and requests that run statement by
\* statement, lock rows and are rolled back in deadlocks do what
\* LedgerTransactions says: each takes effect as a whole and at one moment.
THEOREM AppliesAtOnce == Spec => TakesEffectAtOnce
  <1>1. Kept /\ [Next]_vars => [Ledger!Next]_(Ledger!lvars)
    <2> SUFFICES ASSUME Kept, [Next]_vars PROVE [Ledger!Next]_(Ledger!lvars)
      OBVIOUS
    <2>1. CASE UNCHANGED vars
      BY <2>1 DEF vars, Ledger!lvars, Outcome
    <2>2. ASSUME NEW t \in Txs, Statement(t) \/ BreakDeadlock(t) PROVE [Ledger!Next]_(Ledger!lvars)
      <3>1. Mapped(t)
        BY <2>2, TickMapped, ReportMapped, SnapshotMapped, RequestMapped, BreakMapped DEF Statement
      <3> QED BY <3>1 DEF Mapped, Ledger!Next, Txs
    <2> QED BY <2>1, <2>2 DEF Next, AllOver
  <1> QED
    BY <1>1, InitMapped, KeptInit, KeptStep, PTL DEF Spec, TakesEffectAtOnce, Ledger!Spec
-----------------------------------------------------------------------------
(***************************************************************************)
(* Who may wait for whom.  Every lock belongs to a transaction that has    *)
(* taken it and not ended, so that a statement tells what is held.         *)
(***************************************************************************)
\* A lock is held by a transaction that has taken it and not ended.
Accounted(l) ==
  LET t == l.tx IN
  \/ /\ t \in Ticks /\ l.mode = "update"
     /\ \/ l.row = <<"instance", At(t)>> /\ pc[t] \in {"portfolio", "commit"}
        \/ l.row = <<"portfolio", At(t)>> /\ pc[t] = "commit"
  \/ /\ t \in Reports
     /\ \/ /\ l.row = <<"execution", OrderOf[t]>> /\ l.mode = "update"
           /\ pc[t] \in {"portfolio", "references", "commit"}
        \/ /\ l.row = <<"portfolio", At(t)>> /\ l.mode = "update"
           /\ pc[t] \in {"references", "commit"}
        \/ l.row = <<"instance", At(t)>> /\ l.mode = "key share" /\ pc[t] = "commit"
  \/ /\ t \in Snapshots /\ pc[t] \in {"portfolio", "commit"} /\ l.mode = "update"
     /\ \E i \in local[t].visited : l.row = <<"portfolio", i>>

Accounts == \A l \in held : Accounted(l)

\* The statements of a transaction of each kind.
Placed ==
  \A t \in Txs :
    /\ t \in Ticks => pc[t] \in {"instance", "portfolio", "commit", "mark"} \cup Over
    /\ t \in Reports => pc[t] \in {"execution", "portfolio", "references", "commit"} \cup Over
    /\ t \in Snapshots => pc[t] \in {"begin", "portfolio", "commit"} \cup Over
    /\ t \in Requests => pc[t] \in {"instance"} \cup Over

\* The locks of t are accounted for after its step.
OwnAccounted(t) == \A l \in held' : l.tx = t => Accounted(l)'

LEMMA EndAccounted ==
  ASSUME NEW t \in Txs, NEW how, End(t, how)
  PROVE  OwnAccounted(t)
BY DEF End, OwnAccounted

LEMMA LockAccounted ==
  ASSUME Accounts, NEW t \in Txs, NEW row, NEW mode, Lock(t, row, mode),
         Accounted([tx |-> t, row |-> row, mode |-> mode])',
         \A l \in held : l.tx = t /\ Accounted(l) => Accounted(l)'
  PROVE  OwnAccounted(t)
BY DEF Lock, OwnAccounted, Accounts

LEMMA KindsDiffer ==
  /\ \A t \in Ticks : t \notin Reports \cup Snapshots \cup Requests
  /\ \A t \in Reports : t \notin Ticks \cup Snapshots \cup Requests
  /\ \A t \in Snapshots : t \notin Ticks \cup Reports \cup Requests
  /\ \A t \in Requests : t \notin Ticks \cup Reports \cup Snapshots
BY LocksAssumption

LEMMA TickAccounted ==
  ASSUME Kept, Accounts, NEW t \in Txs, t \in Ticks,
         TickLocksInstance(t) \/ TickLocksPortfolio(t) \/ TickCommits(t) \/ MarkError(t)
  PROVE  OwnAccounted(t) /\ pc'[t] \in {"instance", "portfolio", "commit", "mark"} \cup Over
<1>0. TypeOK /\ ControlOK /\ t \notin Reports \cup Snapshots \cup Requests /\ local[t] \in Locals
  BY KindsDiffer, UsesTyped DEF Kept, TypeOK
<1>1. ASSUME NEW how \in Over, End(t, how)
      PROVE  OwnAccounted(t) /\ pc'[t] \in {"instance", "portfolio", "commit", "mark"} \cup Over
  BY <1>0, <1>1, EndAccounted DEF End, ControlOK, Over
<1>2. CASE /\ pc[t] = "instance" /\ Lock(t, <<"instance", At(t)>>, "update")
           /\ Goto(t, "portfolio") /\ UNCHANGED local
  <2>1. pc'[t] = "portfolio" /\ At(t)' = At(t)
    BY <1>0, <1>2 DEF Goto, ControlOK, At
  <2>2. Accounted([tx |-> t, row |-> <<"instance", At(t)>>, mode |-> "update"])'
    BY <2>1 DEF Accounted
  <2>3. \A l \in held : l.tx = t /\ Accounted(l) => Accounted(l)'
    BY <1>0, <1>2, <2>1 DEF Accounted
  <2> QED BY <1>2, <2>1, <2>2, <2>3, LockAccounted
<1>3. CASE /\ pc[t] = "portfolio" /\ Lock(t, <<"portfolio", At(t)>>, "update")
           /\ Goto(t, "commit") /\ local' = [local EXCEPT ![t].copy = portfolio[At(t)]]
  <2>1. pc'[t] = "commit" /\ At(t)' = At(t)
    BY <1>0, <1>3 DEF Goto, ControlOK, At, Locals
  <2>2. Accounted([tx |-> t, row |-> <<"portfolio", At(t)>>, mode |-> "update"])'
    BY <2>1 DEF Accounted
  <2>3. \A l \in held : l.tx = t /\ Accounted(l) => Accounted(l)'
    BY <1>0, <1>3, <2>1 DEF Accounted
  <2> QED BY <1>3, <2>1, <2>2, <2>3, LockAccounted
<1> QED BY <1>1, <1>2, <1>3 DEF TickLocksInstance, TickLocksPortfolio, TickCommits, MarkError, Over

LEMMA ReportAccounted ==
  ASSUME Kept, Accounts, NEW t \in Txs, t \in Reports,
         \/ ReportLocksExecution(t) \/ ReportLocksPortfolio(t)
         \/ ReportInserts(t) \/ ReportCommits(t)
  PROVE  OwnAccounted(t) /\ pc'[t] \in {"execution", "portfolio", "references", "commit"} \cup Over
<1>0. TypeOK /\ ControlOK /\ t \notin Ticks \cup Snapshots \cup Requests /\ local[t] \in Locals
  BY KindsDiffer, UsesTyped DEF Kept, TypeOK
<1>1. CASE ReportLocksExecution(t)
  <2>1. /\ pc[t] = "execution" /\ Lock(t, <<"execution", OrderOf[t]>>, "update")
        /\ At(t)' = At(t) /\ pc'[t] \in {"portfolio", "commit"}
    BY <1>0, <1>1 DEF ReportLocksExecution, Goto, ControlOK, At, Locals
  <2>2. Accounted([tx |-> t, row |-> <<"execution", OrderOf[t]>>, mode |-> "update"])'
    BY <2>1 DEF Accounted
  <2>3. \A l \in held : l.tx = t /\ Accounted(l) => Accounted(l)'
    BY <1>0, <2>1 DEF Accounted
  <2> QED BY <2>1, <2>2, <2>3, LockAccounted
<1>2. CASE ReportLocksPortfolio(t)
  <2>1. /\ pc[t] = "portfolio" /\ Lock(t, <<"portfolio", At(t)>>, "update")
        /\ At(t)' = At(t) /\ pc'[t] \in {"references", "commit"}
    BY <1>0, <1>2 DEF ReportLocksPortfolio, Goto, ControlOK, At, Locals
  <2>2. Accounted([tx |-> t, row |-> <<"portfolio", At(t)>>, mode |-> "update"])'
    BY <2>1 DEF Accounted
  <2>3. \A l \in held : l.tx = t /\ Accounted(l) => Accounted(l)'
    BY <1>0, <2>1 DEF Accounted
  <2> QED BY <2>1, <2>2, <2>3, LockAccounted
<1>3. CASE ReportInserts(t)
  <2>1. /\ pc[t] = "references" /\ Lock(t, <<"instance", At(t)>>, "key share")
        /\ At(t)' = At(t) /\ pc'[t] = "commit"
    BY <1>0, <1>3 DEF ReportInserts, Goto, ControlOK, At
  <2>2. Accounted([tx |-> t, row |-> <<"instance", At(t)>>, mode |-> "key share"])'
    BY <2>1 DEF Accounted
  <2>3. \A l \in held : l.tx = t /\ Accounted(l) => Accounted(l)'
    BY <1>0, <2>1 DEF Accounted
  <2> QED BY <2>1, <2>2, <2>3, LockAccounted
<1>4. CASE ReportCommits(t)
  <2>1. End(t, "committed")
    BY <1>4 DEF ReportCommits
  <2> QED BY <1>0, <2>1, EndAccounted DEF End, ControlOK, Over
<1> QED BY <1>1, <1>2, <1>3, <1>4

LEMMA SnapshotAccounted ==
  ASSUME Kept, Accounts, NEW t \in Txs, t \in Snapshots,
         SnapshotBegins(t) \/ SnapshotLocksPortfolio(t) \/ SnapshotCommits(t)
  PROVE  OwnAccounted(t) /\ pc'[t] \in {"begin", "portfolio", "commit"} \cup Over
<1>0. TypeOK /\ ControlOK /\ t \notin Ticks \cup Reports \cup Requests /\ local[t] \in Locals
  BY KindsDiffer, UsesTyped DEF Kept, TypeOK
<1>1. ASSUME NEW S \in SUBSET Instances, NEW visited \in SUBSET Instances,
             NextInstance(t, S, visited)
      PROVE  local'[t].visited = visited /\ pc'[t] \in {"portfolio", "commit"}
  <2>1. CASE S = {}
    <3>1. local' = [local EXCEPT ![t].visited = visited] /\ Goto(t, "commit")
      BY <1>1, <2>1 DEF NextInstance
    <3> QED BY <1>0, <3>1 DEF Goto, ControlOK, Locals
  <2>2. CASE S # {}
    <3>1. PICK i \in S : /\ Goto(t, "portfolio")
                         /\ local' = [local EXCEPT ![t].at = i, ![t].rest = S \ {i},
                                                   ![t].visited = visited]
      BY <1>1, <2>2 DEF NextInstance
    <3> QED BY <1>0, <3>1 DEF Goto, ControlOK, Locals
  <2> QED BY <2>1, <2>2
<1>2. CASE SnapshotBegins(t)
  <2>1. /\ pc[t] = "begin" /\ held' = held
        /\ NextInstance(t, {i \in Instances : status[i] # "DELETED"}, {})
    BY <1>2 DEF SnapshotBegins
  <2>2. \A l \in held : l.tx # t
    BY <1>0, <2>1 DEF Accounts, Accounted
  <2>3. pc'[t] \in {"portfolio", "commit"}
    BY <1>1, <2>1
  <2> QED BY <2>1, <2>2, <2>3 DEF OwnAccounted
<1>3. CASE SnapshotLocksPortfolio(t)
  <2>1. /\ pc[t] = "portfolio" /\ Lock(t, <<"portfolio", At(t)>>, "update")
        /\ NextInstance(t, local[t].rest, local[t].visited \cup {At(t)})
    BY <1>3 DEF SnapshotLocksPortfolio
  <2>2. local'[t].visited = local[t].visited \cup {At(t)} /\ pc'[t] \in {"portfolio", "commit"}
    <3>1. local[t].rest \in SUBSET Instances /\ local[t].visited \cup {At(t)} \in SUBSET Instances
      BY <1>0 DEF Locals, At
    <3> QED BY <1>1, <2>1, <3>1
  <2> DEFINE i == At(t)
  <2>3. \A l \in held : l.tx = t /\ Accounted(l) => Accounted(l)'
    BY <1>0, <2>2 DEF Accounted
  <2>4. PICK j : j = At(t)
    OBVIOUS
  <2>5. Accounted([tx |-> t, row |-> <<"portfolio", j>>, mode |-> "update"])'
    BY <2>2, <2>4 DEF Accounted
  <2> QED BY <2>1, <2>2, <2>3, <2>4, <2>5, LockAccounted
<1>4. CASE SnapshotCommits(t)
  <2>1. End(t, "committed")
    BY <1>4 DEF SnapshotCommits
  <2> QED BY <1>0, <2>1, EndAccounted DEF End, ControlOK, Over
<1> QED BY <1>2, <1>3, <1>4

LEMMA PlacedStep ==
  ASSUME Kept, Accounts, Placed, NEW t \in Txs, Statement(t) \/ BreakDeadlock(t)
  PROVE  Accounts' /\ Placed'
<1>0. ControlOK
  BY DEF Kept, TypeOK
<1>1. /\ OwnAccounted(t)
      /\ t \in Ticks => pc'[t] \in {"instance", "portfolio", "commit", "mark"} \cup Over
      /\ t \in Reports => pc'[t] \in {"execution", "portfolio", "references", "commit"} \cup Over
      /\ t \in Snapshots => pc'[t] \in {"begin", "portfolio", "commit"} \cup Over
      /\ t \in Requests => pc'[t] \in {"instance"} \cup Over
  <2>1. ASSUME t \in Requests, Request(t) PROVE OwnAccounted(t) /\ pc'[t] \in Over
    BY <1>0, <2>1, EndAccounted DEF Request, End, ControlOK, Over
  <2>2. ASSUME BreakDeadlock(t)
        PROVE  OwnAccounted(t) /\ pc'[t] = IF t \in Ticks THEN "mark" ELSE "failed"
    BY <1>0, <2>2, EndAccounted DEF BreakDeadlock, End, ControlOK
  <2> QED BY <2>1, <2>2, TickAccounted, ReportAccounted, SnapshotAccounted, KindsDiffer
          DEF Statement, Over
<1>2. \A u \in Txs \ {t} : pc'[u] = pc[u] /\ local'[u] = local[u]
  BY StepBehaves DEF Behaves, OnlyItsOwn
<1>3. \A l \in held' : l.tx # t => l \in held
  <2>1. \A l \in held' : l \in [tx : Txs, row : Rows, mode : Modes]
    BY TypeStep DEF Kept, TypeOK, ControlOK
  <2>2. ASSUME NEW l \in held', l.tx # t PROVE l \in held
    <3>1. l.tx \in Txs \ {t} /\ l.row \in Rows /\ l.mode \in Modes
          /\ l = [tx |-> l.tx, row |-> l.row, mode |-> l.mode]
      BY <2>1, <2>2
    <3>2. Holds(l.tx, l.row, l.mode)' <=> Holds(l.tx, l.row, l.mode)
      BY <3>1, StepBehaves DEF Behaves, OnlyItsOwn
    <3> QED BY <3>1, <3>2 DEF Holds
  <2> QED BY <2>2
<1>4. ASSUME NEW l \in held', l.tx # t PROVE Accounted(l)'
  <2>1. Accounted(l) /\ l.tx \in Txs
    BY <1>0, <1>3, <1>4 DEF Accounts, ControlOK
  <2>2. pc'[l.tx] = pc[l.tx] /\ local'[l.tx] = local[l.tx]
    BY <1>2, <1>4, <2>1
  <2> QED BY <2>1, <2>2 DEF Accounted, At
<1>5. Accounts'
  BY <1>1, <1>4 DEF Accounts, OwnAccounted
<1>6. Placed'
  BY <1>1, <1>2 DEF Placed
<1> QED BY <1>5, <1>6

LEMMA PlacedInit == Init => Accounts /\ Placed
BY KindsDiffer DEF Init, Accounts, Placed, First

LEMMA PlacedNext == Kept /\ Accounts /\ Placed /\ [Next]_vars => Accounts' /\ Placed'
<1> SUFFICES ASSUME Kept, Accounts, Placed, [Next]_vars PROVE Accounts' /\ Placed'
  OBVIOUS
<1>1. CASE UNCHANGED vars
  BY <1>1 DEF vars, Accounts, Placed, Accounted, At
<1> QED BY <1>1, PlacedStep DEF Next, AllOver
-----------------------------------------------------------------------------
(***************************************************************************)
(* Deadlocks.  What is said of a state in which locks are exclusive, each  *)
(* is accounted for and each transaction is at a statement of its kind.    *)
(***************************************************************************)

Steady == Kept /\ Accounts /\ Placed

\* Whom a transaction waits for has the row it wants.
LEMMA WaitsForHolder ==
  ASSUME Accounts, NEW t \in Txs, NEW u \in Txs, WaitsFor(t, u)
  PROVE  /\ u # t
         /\ \E l \in held : /\ l.tx = u /\ Accounted(l)
                            /\ \/ /\ l.row = <<"instance", At(t)>>
                                  /\ pc[t] \in {"instance", "mark"}
                               \/ /\ l.row = <<"instance", At(t)>> /\ l.mode = "update"
                                  /\ pc[t] = "references"
                               \/ l.row = <<"execution", OrderOf[t]>> /\ pc[t] = "execution"
                               \/ l.row = <<"portfolio", At(t)>> /\ pc[t] = "portfolio"
<1>1. PICK w \in Wanted(t) : \E l \in Blockers(t, w[1], w[2]) : l.tx = u
  BY DEF WaitsFor
<1>2. PICK l \in Blockers(t, w[1], w[2]) : l.tx = u
  BY <1>1
<1>3. l \in held /\ l.tx # t /\ l.row = w[1] /\ (l.mode = "update" \/ w[2] = "update")
  BY DEF Blockers, Conflict
<1>4. /\ pc[t] \in {"instance", "mark"} => w[1] = <<"instance", At(t)>>
      /\ pc[t] = "references" => w[1] = <<"instance", At(t)>> /\ w[2] = "key share"
      /\ pc[t] = "execution" => w[1] = <<"execution", OrderOf[t]>>
      /\ pc[t] = "portfolio" => w[1] = <<"portfolio", At(t)>>
      /\ pc[t] \in {"instance", "mark", "references", "execution", "portfolio"}
  BY DEF Wanted
<1> QED BY <1>2, <1>3, <1>4 DEF Accounts

\* An instance is waited for as a tick holds it, or a fill that has inserted
\* its references; an order, as a report of it goes on; a portfolio, as one
\* transaction has it.
LEMMA Holders ==
  ASSUME Steady, NEW t \in Txs, NEW u \in Txs, WaitsFor(t, u)
  PROVE  /\ pc[t] = "references" =>
              /\ u \in Ticks /\ At(u) = At(t) /\ pc[u] \in {"portfolio", "commit"}
              /\ Holds(u, <<"instance", At(t)>>, "update")
         /\ pc[t] \in {"instance", "mark"} =>
              \/ u \in Ticks /\ pc[u] \in {"portfolio", "commit"}
              \/ u \in Reports /\ pc[u] = "commit"
         /\ pc[t] = "execution" => u \in Reports /\ pc[u] \in {"portfolio", "references", "commit"}
         /\ pc[t] = "portfolio" =>
              /\ Holds(u, <<"portfolio", At(t)>>, "update")
              /\ \/ u \in Ticks /\ pc[u] = "commit"
                 \/ u \in Reports /\ pc[u] \in {"references", "commit"} /\ At(u) = At(t)
                 \/ u \in Snapshots /\ pc[u] \in {"portfolio", "commit"}
         /\ pc[t] \in {"references", "instance", "mark", "execution", "portfolio"}
         /\ u # t
<1>1. Accounts /\ ControlOK
  BY DEF Steady, Kept, TypeOK
<1>2. PICK l \in held :
        /\ l.tx = u /\ Accounted(l)
        /\ \/ l.row = <<"instance", At(t)>> /\ pc[t] \in {"instance", "mark"}
           \/ l.row = <<"instance", At(t)>> /\ l.mode = "update" /\ pc[t] = "references"
           \/ l.row = <<"execution", OrderOf[t]>> /\ pc[t] = "execution"
           \/ l.row = <<"portfolio", At(t)>> /\ pc[t] = "portfolio"
  BY <1>1, WaitsForHolder
<1>3. l = [tx |-> u, row |-> l.row, mode |-> l.mode]
  BY <1>1, <1>2 DEF ControlOK
<1>4. u # t
  BY <1>1, WaitsForHolder
<1> DEFINE i == At(t)
           o == OrderOf[t]
           Of(table, x) == l.row = <<table, x>>
<1>t. /\ \A x : Of("instance", i) => ~Of("portfolio", x) /\ ~Of("execution", x)
      /\ \A x : Of("portfolio", i) => ~Of("instance", x) /\ ~Of("execution", x)
      /\ \A x : Of("execution", o) => ~Of("instance", x) /\ ~Of("portfolio", x)
      /\ \A x : Of("instance", i) /\ Of("instance", x) => x = i
      /\ \A x : Of("portfolio", i) /\ Of("portfolio", x) => x = i
  OBVIOUS
<1>a. \/ /\ u \in Ticks /\ l.mode = "update"
         /\ \/ Of("instance", At(u)) /\ pc[u] \in {"portfolio", "commit"}
            \/ Of("portfolio", At(u)) /\ pc[u] = "commit"
      \/ /\ u \in Reports
         /\ \/ /\ Of("execution", OrderOf[u]) /\ l.mode = "update"
               /\ pc[u] \in {"portfolio", "references", "commit"}
            \/ /\ Of("portfolio", At(u)) /\ l.mode = "update"
               /\ pc[u] \in {"references", "commit"}
            \/ Of("instance", At(u)) /\ l.mode = "key share" /\ pc[u] = "commit"
      \/ /\ u \in Snapshots /\ pc[u] \in {"portfolio", "commit"} /\ l.mode = "update"
         /\ \E x \in local[u].visited : Of("portfolio", x)
  BY <1>2 DEF Accounted
<1>b. /\ Of("instance", i) /\ l.mode = "update" => Holds(u, <<"instance", i>>, "update")
      /\ Of("portfolio", i) /\ l.mode = "update" => Holds(u, <<"portfolio", i>>, "update")
  BY <1>2, <1>3 DEF Holds
<1>c. \/ Of("instance", i) /\ pc[t] \in {"instance", "mark"}
      \/ Of("instance", i) /\ l.mode = "update" /\ pc[t] = "references"
      \/ Of("execution", o) /\ pc[t] = "execution"
      \/ Of("portfolio", i) /\ pc[t] = "portfolio"
  BY <1>2
<1> HIDE DEF Of
<1>5. CASE pc[t] = "references"
  BY <1>a, <1>b, <1>c, <1>t, <1>4, <1>5
<1>6. CASE pc[t] \in {"instance", "mark"}
  BY <1>a, <1>c, <1>t, <1>4, <1>6
<1>7. CASE pc[t] = "execution"
  BY <1>a, <1>c, <1>t, <1>4, <1>7
<1>8. CASE pc[t] = "portfolio"
  BY <1>a, <1>b, <1>c, <1>t, <1>4, <1>8
<1> QED BY <1>2, <1>5, <1>6, <1>7, <1>8

\* An exclusive row has one holder, so who wants a portfolio or a reference
\* waits for one transaction.
LEMMA WaitsForOne ==
  ASSUME Steady, NEW t \in Txs, NEW u \in Txs, NEW v \in Txs,
         WaitsFor(t, u), WaitsFor(t, v), pc[t] \in {"portfolio", "references"}
  PROVE  u = v
<1>1. \E row : Holds(u, row, "update") /\ Holds(v, row, "update")
  BY Holders
<1> QED BY <1>1 DEF Holds, Steady, Kept, Exclusive

\* Who is in a cycle waits for somebody, ...
LEMMA CycleWaits ==
  ASSUME NEW t \in Txs, InCycle(t)
  PROVE  \E u \in Txs : WaitsFor(t, u)
<1>1. SUFFICES ASSUME \A u \in Txs : ~WaitsFor(t, u) PROVE FALSE
  OBVIOUS
<1>2. Awaited({} \cup {t}) \subseteq {}
  BY <1>1 DEF Awaited
<1> QED BY <1>2 DEF InCycle

\* ... and somebody waits for it who is waited for in turn.
LEMMA CycleIsWaitedFor ==
  ASSUME NEW t \in Txs, InCycle(t)
  PROVE  \E v, w \in Txs : WaitsFor(v, t) /\ WaitsFor(w, v)
<1> DEFINE W == {v \in Txs : WaitsFor(v, t)}
<1>1. SUFFICES ASSUME \A v \in W : \A w \in Txs : ~WaitsFor(w, v) PROVE FALSE
  OBVIOUS
<1> DEFINE S == Txs \ (W \cup {t})
<1>2. t \notin W
  BY DEF WaitsFor, Blockers
<1>3. ASSUME NEW u \in Awaited(S \cup {t}) PROVE u \in S
  <2>1. PICK v \in S \cup {t} : u \in Txs /\ WaitsFor(v, u)
    BY <1>3 DEF Awaited
  <2>2. u # t
    BY <1>2, <2>1
  <2>3. u \notin W
    BY <1>1, <2>1
  <2> QED BY <2>1, <2>2, <2>3
<1>4. Awaited(S \cup {t}) \subseteq S /\ S \in SUBSET Txs /\ t \notin S
  BY <1>3
<1> HIDE DEF S
<1> QED BY <1>4 DEF InCycle

\* If it waits for one transaction only, that one is in a cycle too.
LEMMA CycleGoesOn ==
  ASSUME NEW t \in Txs, InCycle(t), NEW u \in Txs, WaitsFor(t, u),
         \A v \in Txs : WaitsFor(t, v) => v = u
  PROVE  InCycle(u)
<1>1. SUFFICES ASSUME NEW S \in SUBSET Txs, Awaited(S \cup {u}) \subseteq S
               PROVE  u \in S
  BY DEF InCycle
<1>2. Awaited(S \cup {u} \cup {t}) \subseteq S \cup {u}
  BY <1>1 DEF Awaited
<1>3. t \in S \cup {u}
  BY <1>2 DEF InCycle
<1>4. t # u
  BY DEF WaitsFor, Blockers
<1> QED BY <1>1, <1>3, <1>4 DEF Awaited

\* Ticks: a tick in a cycle wants a portfolio, and a fill that has it waits for
\* the instance.
LEMMA TickDeadlock ==
  ASSUME Steady, NEW t \in Txs, t \in Ticks, InCycle(t)
  PROVE  \E r \in Txs : TickAndFill(t, r)
<1>1. PICK v \in Txs, w \in Txs : WaitsFor(v, t) /\ WaitsFor(w, v)
  BY CycleIsWaitedFor
<1>2. PICK u \in Txs : WaitsFor(t, u)
  BY CycleWaits
<1>3. pc[t] = "portfolio"
  BY <1>1, <1>2, Holders, KindsDiffer
<1>4. pc[v] = "references" /\ v \in Reports
  BY <1>1, <1>3, Holders, KindsDiffer DEF Steady, Placed
<1>5. At(t) = At(v)
  BY <1>1, <1>4, Holders
<1>6. v \in Filled /\ Holds(v, <<"portfolio", At(v)>>, "update")
  BY <1>4 DEF Steady, Kept, Keeps, ReportKeeps
<1>7. WaitsFor(t, v)
  <2> DEFINE l == [tx |-> v, row |-> <<"portfolio", At(v)>>, mode |-> "update"]
  <2>1. l \in held /\ v # t
    BY <1>1, <1>6, Holders DEF Holds
  <2>2. <<<<"portfolio", At(t)>>, "update">> \in Wanted(t)
    BY <1>3 DEF Wanted
  <2>3. l \in Blockers(t, <<"portfolio", At(t)>>, "update")
    BY <1>5, <2>1 DEF Blockers, Conflict
  <2> QED BY <2>2, <2>3 DEF WaitsFor
<1> QED BY <1>1, <1>3, <1>4, <1>5, <1>6, <1>7 DEF TickAndFill

\* Reports: a report in a cycle is at its references, and the tick that has its
\* instance waits for it.
LEMMA ReportDeadlock ==
  ASSUME Steady, NEW t \in Txs, t \in Reports, InCycle(t)
  PROVE  \E u \in Txs : TickAndFill(u, t)
<1>1. PICK v \in Txs, w \in Txs : WaitsFor(v, t) /\ WaitsFor(w, v)
  BY CycleIsWaitedFor
<1>2. PICK u \in Txs : WaitsFor(t, u)
  BY CycleWaits
<1>3. pc[t] = "references"
  BY <1>1, <1>2, Holders, KindsDiffer DEF Steady, Placed
<1>4. InCycle(u) /\ u \in Ticks
  BY <1>2, <1>3, WaitsForOne, CycleGoesOn, Holders
<1>5. PICK r \in Txs : TickAndFill(u, r)
  BY <1>4, TickDeadlock
<1>6. WaitsFor(u, t)
  <2> DEFINE l == [tx |-> t, row |-> <<"portfolio", At(t)>>, mode |-> "update"]
  <2>1. l \in held /\ u # t /\ At(u) = At(t) /\ pc[u] = "portfolio"
    BY <1>2, <1>3, <1>5, Holders DEF Holds, Steady, Kept, Keeps, ReportKeeps, TickAndFill
  <2>2. <<<<"portfolio", At(u)>>, "update">> \in Wanted(u)
    BY <2>1 DEF Wanted
  <2>3. l \in Blockers(u, <<"portfolio", At(u)>>, "update")
    BY <2>1 DEF Blockers, Conflict
  <2> QED BY <2>2, <2>3 DEF WaitsFor
<1>7. r = t
  BY <1>5, <1>6, WaitsForOne DEF TickAndFill
<1> QED BY <1>5, <1>7

\* Snapshots: a snapshot in a cycle waits for one that is in a cycle.
LEMMA SnapshotDeadlock ==
  ASSUME Steady, NEW t \in Txs, t \in Snapshots, InCycle(t)
  PROVE  \E u \in Snapshots : u # t /\ WaitsFor(t, u) /\ InCycle(u)
<1>1. PICK u \in Txs : WaitsFor(t, u)
  BY CycleWaits
<1>2. pc[t] = "portfolio"
  BY <1>1, Holders, KindsDiffer DEF Steady, Placed, Over
<1>3. InCycle(u) /\ u # t
  BY <1>1, <1>2, WaitsForOne, CycleGoesOn, Holders
<1>4. CASE u \in Snapshots
  BY <1>1, <1>3, <1>4
<1>5. CASE u \in Ticks
  <2>1. pc[u] = "commit" /\ \E v \in Txs : WaitsFor(u, v)
    BY <1>1, <1>2, <1>3, <1>5, Holders, CycleWaits, KindsDiffer
  <2> QED BY <2>1, Holders
<1>6. CASE u \in Reports
  <2>1. PICK tick \in Txs : TickAndFill(tick, u)
    BY <1>3, <1>6, ReportDeadlock
  <2> DEFINE S == {tick, u}
  <2>2. Awaited(S \cup {t}) \subseteq S /\ S \in SUBSET Txs
    BY <1>1, <1>2, <2>1, WaitsForOne DEF Awaited, TickAndFill
  <2>3. t # tick /\ t # u
    BY <1>3, <2>1, KindsDiffer DEF TickAndFill
  <2>4. t \notin S
    BY <2>3
  <2> HIDE DEF S
  <2> QED BY <2>2, <2>4 DEF InCycle
<1> QED BY <1>1, <1>2, <1>4, <1>5, <1>6, Holders

LEMMA SteadyKnows == Steady => KnownDeadlocks
<1> SUFFICES ASSUME Steady, NEW t \in Txs, InCycle(t)
             PROVE  \/ \E u \in Txs : TickAndFill(t, u) \/ TickAndFill(u, t)
                    \/ \E S \in SUBSET Snapshots : t \in S /\ SnapshotsAmongThemselves(S)
  BY DEF KnownDeadlocks
<1>1. CASE t \in Ticks
  BY <1>1, TickDeadlock
<1>2. CASE t \in Reports
  BY <1>2, ReportDeadlock
<1>3. CASE t \in Snapshots
  <2> DEFINE S == {s \in Snapshots : InCycle(s)}
  <2>1. \A s \in S : \E u \in S \ {s} : WaitsFor(s, u)
    BY SnapshotDeadlock DEF Txs, Ledger!Txs
  <2> HIDE DEF S
  <2>2. t \in S /\ S \in SUBSET Snapshots
    BY <1>3 DEF S
  <2> QED BY <2>1, <2>2 DEF SnapshotsAmongThemselves
<1>4. CASE t \in Requests
  <2>1. PICK v \in Txs : WaitsFor(v, t)
    BY CycleIsWaitedFor
  <2> QED BY <1>4, <2>1, Holders, KindsDiffer
<1> QED BY <1>1, <1>2, <1>3, <1>4 DEF Txs, Ledger!Txs

\* A tick and a fill of its instance, or snapshots of one user among themselves:
\* nothing else that ticks, reports, snapshots and requests do ends in a
\* deadlock, however many there are.
THEOREM OnlyKnownDeadlocks == Spec => []KnownDeadlocks
<1>1. Init => Steady
  BY KeptInit, PlacedInit DEF Steady
<1>2. Steady /\ [Next]_vars => Steady'
  BY KeptStep, PlacedNext DEF Steady
<1> QED BY <1>1, <1>2, SteadyKnows, PTL DEF Spec
=============================================================================
