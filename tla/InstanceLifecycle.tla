-------------------------- MODULE InstanceLifecycle --------------------------
(***************************************************************************)
(* One strategy instance at the SaaS: the API starts, stops and deletes    *)
(* it, scans of the scheduler (one a minute, each in a goroutine of its    *)
(* own, so they overlap) tick it, a failing tick marks it as in error, and *)
(* the process shuts down and comes back.                                  *)
(*                                                                         *)
(* A transaction is one action: it locks the instance row first.  What a   *)
(* method does before or after its transaction, such as the update of the  *)
(* manager's in-memory map "active", is an action of its own.  What a      *)
(* Step() decides and where its commands go is in SpotLedger and           *)
(* TradePipeline: here a Step is the bar it was run for.                   *)
(***************************************************************************)
EXTENDS Naturals, FiniteSets

CONSTANTS
  Scans,        \* Scan goroutines that may run at the same time
  Callers,      \* API requests that may run at the same time
  MaxBar,       \* bounds the bars the market closes
  MaxCalls,     \* bounds the API calls
  MaxFailures,  \* bounds the ticks that fail
  MaxRestarts   \* bounds the restarts of the process

ASSUME LifecycleAssumption ==
  /\ {MaxBar, MaxCalls, MaxFailures, MaxRestarts} \subseteq Nat
  /\ MaxBar > 0

VARIABLES
  status,    \* strategy_instances.status
  active,    \* the instance is in Manager.active
  lastBar,   \* portfolio_states.last_processed_bar_time
  runtime,   \* runtime_states.state, as the bar whose Step made it
  steps,     \* how often Step ran and was committed, by bar
  latest,    \* the latest closed bar of the market
  scan,      \* the Scan goroutines
  caller,    \* the API requests after their transaction
  phase,     \* of the process: "up", "stopping", "persist", "write", "closed"
  copy,      \* the runtime state shutdown has read
  gaveUp,    \* a shutdown has reported that its wait ran into the timeout (errs)
  calls, failures, restarts

vars == <<status, active, lastBar, runtime, steps, latest, scan, caller, phase,
          copy, gaveUp, calls, failures, restarts>>

ledger == <<lastBar, runtime, steps>>
shut == <<copy, gaveUp>>
bounds == <<calls, failures, restarts>>

Bars == 1..MaxBar

\* Every variable has its type.
TypeOK ==
  /\ status \in {"STOPPED", "RUNNING", "ERROR", "DELETED"}
  /\ active \in BOOLEAN /\ gaveUp \in BOOLEAN
  /\ lastBar \in 0..MaxBar /\ runtime \in 0..MaxBar /\ copy \in 0..MaxBar
  /\ steps \in [Bars -> Nat]
  /\ latest \in Bars
  /\ scan \in [Scans -> [at : {"idle", "sync", "tick", "commit", "failed", "forget"},
                         listed : BOOLEAN, bar : 0..MaxBar]]
  /\ caller \in [Callers -> {"idle", "store", "delete"}]
  /\ phase \in {"up", "stopping", "persist", "write", "closed"}
  /\ calls \in 0..MaxCalls /\ failures \in 0..MaxFailures /\ restarts \in 0..MaxRestarts

IdleScan == [at |-> "idle", listed |-> FALSE, bar |-> 0]

\* Create leaves the instance stopped.
Init ==
  /\ status = "STOPPED"
  /\ active = FALSE /\ gaveUp = FALSE
  /\ lastBar = 0 /\ runtime = 0 /\ copy = 0
  /\ steps = [b \in Bars |-> 0]
  /\ latest = 1
  /\ scan = [s \in Scans |-> IdleScan]
  /\ caller = [c \in Callers |-> "idle"]
  /\ phase = "up"
  /\ calls = 0 /\ failures = 0 /\ restarts = 0

NewBar ==
  /\ latest < MaxBar
  /\ latest' = latest + 1
  /\ UNCHANGED <<status, active, ledger, scan, caller, phase, shut, bounds>>

\* sqlDB.Close ends the work of every goroutine left.
DbOpen == phase # "closed"

-----------------------------------------------------------------------------
(***************************************************************************)
(* Manager.Start, Stop and Delete.                                         *)
(***************************************************************************)

\* A request commits its transition, the update of the active map to follow.
Call(c, to, then) ==
  /\ phase = "up"
  /\ caller[c] = "idle"
  /\ calls < MaxCalls
  /\ calls' = calls + 1
  /\ status' = to
  /\ caller' = [caller EXCEPT ![c] = then]
  /\ UNCHANGED <<active, ledger, latest, scan, phase, shut, failures, restarts>>

\* transition: from STOPPED only; anything else is ErrInvalidTransition.
Start(c) == status = "STOPPED" /\ Call(c, "RUNNING", "store")

Stop(c) == status = "RUNNING" /\ Call(c, "STOPPED", "delete")

Delete(c) == Call(c, "DELETED", "delete")

FinishCall(c) ==
  /\ caller[c] # "idle"
  /\ active' = (caller[c] = "store")
  /\ caller' = [caller EXCEPT ![c] = "idle"]
  /\ UNCHANGED <<status, ledger, latest, scan, phase, shut, bounds>>

-----------------------------------------------------------------------------
(***************************************************************************)
(* Scheduler.Scan and Manager.Tick.                                        *)
(***************************************************************************)

ScanGoes(s, to) == scan' = [scan EXCEPT ![s].at = to]

\* RunningInstances reads the running instances, ...
ScanLoad(s) ==
  /\ phase = "up"
  /\ scan[s].at = "idle"
  /\ scan' = [scan EXCEPT ![s] = [at |-> "sync", listed |-> status = "RUNNING", bar |-> 0]]
  /\ UNCHANGED <<status, active, ledger, latest, caller, phase, shut, bounds>>

\* Mutant: instances are added to the map, never taken out.
SyncAdds(s) == IF scan[s].listed THEN TRUE ELSE active

\* What syncActive makes of the map.
Sync(s) == scan[s].listed

\* ... and syncActive writes what was read; the scan ticks what it listed.
ScanSync(s) ==
  /\ scan[s].at = "sync"
  /\ active' = Sync(s)
  /\ scan' = [scan EXCEPT ![s] = IF @.listed THEN [@ EXCEPT !.at = "tick"] ELSE IdleScan]
  /\ UNCHANGED <<status, ledger, latest, caller, phase, shut, bounds>>

\* tick before its transaction: the status without a lock, then the bars.
TickLoad(s) ==
  /\ DbOpen
  /\ scan[s].at = "tick"
  /\ scan' = [scan EXCEPT ![s] = IF status = "RUNNING"
                                 THEN [@ EXCEPT !.at = "commit", !.bar = latest] ELSE IdleScan]
  /\ UNCHANGED <<status, active, ledger, latest, caller, phase, shut, bounds>>

\* Mutants: a bar is processed again, or skipped.
IsLatestBar(bar) == bar >= lastBar
IsLaterBar(bar) == bar > lastBar + 1

IsNewBar(bar) == bar > lastBar

\* Mutant: the status read before the transaction is trusted.
WasRunning == TRUE

\* Read under the lock of the instance row.
IsRunning == status = "RUNNING"

\* The transaction of tick: status and bar are read again under row locks,
\* Step runs, and runtime state and bar time are committed with its effects.
TickCommit(s) ==
  LET bar == scan[s].bar IN
  /\ DbOpen
  /\ scan[s].at = "commit"
  /\ scan' = [scan EXCEPT ![s] = IdleScan]
  /\ IF IsRunning /\ IsNewBar(bar)
       THEN /\ steps' = [steps EXCEPT ![bar] = @ + 1]
            /\ lastBar' = bar
            /\ runtime' = bar
       ELSE UNCHANGED ledger
  /\ UNCHANGED <<status, active, latest, caller, phase, shut, bounds>>

\* Anything in tick fails and rolls its transaction back: no champion, no
\* closed bars, a database error.
TickFails(s) ==
  /\ DbOpen
  /\ scan[s].at \in {"tick", "commit"}
  /\ failures < MaxFailures
  /\ failures' = failures + 1
  /\ ScanGoes(s, "failed")
  /\ UNCHANGED <<status, active, ledger, latest, caller, phase, shut, calls, restarts>>

\* The status markError leaves.
ErrorStatus == IF status = "RUNNING" THEN "ERROR" ELSE status

\* markError, in a transaction of its own, ...
MarkError(s) ==
  /\ DbOpen
  /\ scan[s].at = "failed"
  /\ status' = ErrorStatus
  /\ ScanGoes(s, "forget")
  /\ UNCHANGED <<active, ledger, latest, caller, phase, shut, bounds>>

\* ... then the instance leaves the map, whatever its status was.
Forget(s) ==
  /\ scan[s].at = "forget"
  /\ active' = FALSE
  /\ scan' = [scan EXCEPT ![s] = IdleScan]
  /\ UNCHANGED <<status, ledger, latest, caller, phase, shut, bounds>>

\* Nothing is marked if the tick failed by a deadline, or if markError fails.
LeaveUnmarked(s) ==
  /\ scan[s].at = "failed"
  /\ scan' = [scan EXCEPT ![s] = IdleScan]
  /\ UNCHANGED <<status, active, ledger, latest, caller, phase, shut, bounds>>

-----------------------------------------------------------------------------
(***************************************************************************)
(* shutdown, and the next start.                                           *)
(***************************************************************************)

PhaseGoes(from, to) == phase = from /\ phase' = to

\* SIGTERM: no new requests, no new scans.
Shutdown ==
  /\ PhaseGoes("up", "stopping")
  /\ restarts < MaxRestarts
  /\ UNCHANGED <<status, active, ledger, latest, scan, caller, shut, bounds>>

\* Mutant: shutdown does not wait.
DrainedAnyway == TRUE

\* The scheduler's goroutines and the server's requests have ended.
Drained == (\A s \in Scans : scan[s].at = "idle") /\ (\A c \in Callers : caller[c] = "idle")

\* Server and scheduler have finished what was running, or shutdownTimeout is over:
\* the error is logged and kept, and shutdown goes on beside the ticks that are left.
StopWaiting ==
  /\ PhaseGoes("stopping", "persist")
  /\ \/ Drained /\ UNCHANGED gaveUp
     \/ gaveUp' = TRUE
  /\ UNCHANGED <<status, active, ledger, latest, scan, caller, copy, bounds>>

\* PersistActiveRuntimeSnapshots reads the runtime state of an active
\* instance, without a transaction, ...
PersistLoad ==
  /\ phase = "persist"
  /\ phase' = IF active THEN "write" ELSE "closed"
  /\ copy' = IF active THEN runtime ELSE copy
  /\ UNCHANGED <<status, active, ledger, latest, scan, caller, gaveUp, bounds>>

\* ... and writes what it read; then the database is closed.
PersistWrite ==
  /\ PhaseGoes("write", "closed")
  /\ runtime' = copy
  /\ UNCHANGED <<status, active, lastBar, steps, latest, scan, caller, shut, bounds>>

\* The process ends, after shutdown or in a crash, and starts again:
\* RestoreRunning fills the map before the scheduler starts.
Restart ==
  /\ restarts < MaxRestarts
  /\ restarts' = restarts + 1
  /\ phase' = "up"
  /\ active' = (status = "RUNNING")
  /\ scan' = [s \in Scans |-> IdleScan]
  /\ caller' = [c \in Callers |-> "idle"]
  /\ copy' = 0
  /\ UNCHANGED <<status, ledger, latest, gaveUp, calls, failures>>

-----------------------------------------------------------------------------

ScanStep(s) ==
  ScanLoad(s) \/ ScanSync(s) \/ TickLoad(s) \/ TickCommit(s) \/ MarkError(s) \/ Forget(s)

ShutdownStep == StopWaiting \/ PersistLoad \/ PersistWrite

Next ==
  \/ NewBar
  \/ \E c \in Callers : Start(c) \/ Stop(c) \/ Delete(c) \/ FinishCall(c)
  \/ \E s \in Scans : ScanStep(s) \/ TickFails(s) \/ LeaveUnmarked(s)
  \/ Shutdown \/ ShutdownStep \/ Restart

Spec == Init /\ [][Next]_vars

(***************************************************************************)
(* The scheduler scans every minute and goroutines run.  A shutdown ends   *)
(* and somebody starts the process again.                                  *)
(***************************************************************************)
FairSpec ==
  /\ Spec
  /\ \A s \in Scans : WF_vars(ScanStep(s))
  /\ \A c \in Callers : WF_vars(FinishCall(c))
  /\ WF_vars(ShutdownStep)
  /\ WF_vars(phase = "closed" /\ Restart)

-----------------------------------------------------------------------------
(***************************************************************************)
(* Properties.                                                             *)
(***************************************************************************)

\* Overlapping scans, restarts and delayed ticks never run Step twice for one
\* closed bar (docs/system-topology.md, 3.2: "only once").
OneStepPerBar == \A b \in Bars : steps[b] <= 1

\* A tick that began before the instance was stopped, deleted or failed does
\* not trade for it afterwards (the second status test of tick).
StepsOnlyWhileRunning == [][steps' # steps => status = "RUNNING"]_vars

\* Late errors and late requests bring no deleted instance back, and one in
\* error can only be deleted (transition's from, markError's test).
NoWayBack ==
  [][ /\ status = "DELETED" => status' = "DELETED"
      /\ status = "ERROR" => status' \in {"ERROR", "DELETED"} ]_vars

\* docs/system-topology.md, 6.4: shutdown must persist the runtime state of every
\* Step that was completed.  The code does not keep this if a tick outlasts the
\* timeout: the tick may commit between the read and the write of
\* PersistActiveRuntimeSnapshots, which writes the older state back.  What it does
\* keep: only a shutdown that reports the timeout loses a state; after any other,
\* and through crashes at any moment, the stored one is that of the last bar.
LossIsReported == runtime = lastBar \/ gaveUp

\* A running instance gets the Step of a new bar, or of a later one, unless
\* it stops running: scans come again whatever happened to the last one.
NewBarIsStepped ==
  \A b \in Bars :
    (status = "RUNNING" /\ latest = b) ~> (lastBar >= b \/ status # "RUNNING")

\* The map follows the database, through stale scans and late requests.
ActiveConverges ==
  /\ <>[](status = "RUNNING") => <>[]active
  /\ <>[](status # "RUNNING") => <>[](~active)
=============================================================================
