----------------------- MODULE InstanceLifecycleProofs -----------------------
(***************************************************************************)
(* Safety of InstanceLifecycle for any number of scans, requests, bars,    *)
(* failures and restarts.  That a bar is stepped once needs to know that   *)
(* no later bar was: Untouched.  That a shutdown which reports no timeout  *)
(* keeps the runtime state needs that nothing runs beside it while it      *)
(* persists (Quiet), so that what it read is still what is stored (Fresh). *)
(***************************************************************************)
EXTENDS InstanceLifecycle, TLAPS

Quiet == phase \in {"persist", "write", "closed"} => Drained

Fresh == phase = "write" => copy = runtime

Untouched == \A b \in Bars : b > lastBar => steps[b] = 0

Kept == gaveUp \/ (Quiet /\ Fresh /\ runtime = lastBar)

Once == TypeOK /\ Untouched /\ OneStepPerBar

Scan == [at : {"idle", "sync", "tick", "commit", "failed", "forget"},
         listed : BOOLEAN, bar : 0..MaxBar]

\* The records scans are set to are of their type.
LEMMA ScanTyped ==
  ASSUME TypeOK, NEW s \in Scans
  PROVE  /\ scan[s] \in Scan
         /\ IdleScan \in Scan
         /\ scan \in [Scans -> Scan]
         /\ \A listed \in BOOLEAN : [at |-> "sync", listed |-> listed, bar |-> 0] \in Scan
         /\ \A to \in {"tick", "failed", "forget"} : [scan[s] EXCEPT !.at = to] \in Scan
         /\ [scan[s] EXCEPT !.at = "commit", !.bar = latest] \in Scan
  <1>1. 0 \in 0..MaxBar /\ latest \in 0..MaxBar
    BY LifecycleAssumption DEF TypeOK, Bars
  <1>2. scan[s] \in Scan /\ scan \in [Scans -> Scan]
    BY DEF TypeOK, Scan
  <1> QED
    BY <1>1, <1>2 DEF Scan, IdleScan

\* Types of the variables hold in the initial states.
LEMMA TypeInit == Init => TypeOK
  <1> SUFFICES ASSUME Init PROVE TypeOK
    OBVIOUS
  <1>1. 0 \in 0..MaxBar /\ 1 \in Bars /\ 0 \in 0..MaxCalls /\ 0 \in 0..MaxFailures /\ 0 \in 0..MaxRestarts
    BY LifecycleAssumption DEF Bars
  <1> QED
    BY <1>1 DEF Init, TypeOK, IdleScan

\* Types of the variables hold after every step.
LEMMA TypeStep == TypeOK /\ [Next]_vars => TypeOK'
  <1> SUFFICES ASSUME TypeOK, [Next]_vars PROVE TypeOK'
    OBVIOUS
  <1> USE LifecycleAssumption
  <1>1. CASE UNCHANGED vars
    BY <1>1 DEF TypeOK, vars, Bars
  <1>2. CASE NewBar
    BY <1>2 DEF NewBar, TypeOK, Bars, ledger, shut, bounds
  <1>3. ASSUME NEW c \in Callers, Start(c) \/ Stop(c) \/ Delete(c) PROVE TypeOK'
    <2>1. PICK to \in {"RUNNING", "STOPPED", "DELETED"}, then \in {"store", "delete"} :
            Call(c, to, then)
      BY <1>3 DEF Start, Stop, Delete
    <2> QED
      BY <2>1 DEF Call, TypeOK, Bars, ledger, shut
  <1>4. ASSUME NEW c \in Callers, FinishCall(c) PROVE TypeOK'
    BY <1>4 DEF FinishCall, TypeOK, Bars, ledger, shut, bounds
  <1>5. ASSUME NEW s \in Scans, ScanStep(s) \/ TickFails(s) \/ LeaveUnmarked(s) PROVE TypeOK'
    <2>1. CASE ScanLoad(s)
      <3>1. scan' \in [Scans -> Scan]
        BY <2>1, ScanTyped DEF ScanLoad
      <3> QED BY <2>1, <3>1 DEF ScanLoad, TypeOK, Bars, ledger, shut, bounds, Scan
    <2>2. CASE ScanSync(s)
      <3>1. scan' \in [Scans -> Scan]
        BY <2>2, ScanTyped DEF ScanSync
      <3>2. active' \in BOOLEAN
        BY <2>2, ScanTyped DEF ScanSync, Sync, Scan
      <3> QED BY <2>2, <3>1, <3>2 DEF ScanSync, TypeOK, Bars, ledger, shut, bounds, Scan
    <2>3. CASE TickLoad(s)
      <3>1. scan' \in [Scans -> Scan]
        BY <2>3, ScanTyped DEF TickLoad
      <3> QED BY <2>3, <3>1 DEF TickLoad, TypeOK, Bars, ledger, shut, bounds, Scan
    <2>4. CASE TickCommit(s)
      <3>1. scan' \in [Scans -> Scan]
        BY <2>4, ScanTyped DEF TickCommit
      <3>2. scan[s].bar \in 0..MaxBar
        BY ScanTyped DEF Scan
      <3>3. lastBar' \in 0..MaxBar /\ runtime' \in 0..MaxBar
        BY <2>4, <3>2 DEF TickCommit, TypeOK, ledger, shut
      <3>4. steps' \in [Bars -> Nat]
        BY <2>4 DEF TickCommit, TypeOK, ledger, shut
      <3> QED BY <2>4, <3>1, <3>3, <3>4 DEF TickCommit, TypeOK, shut, bounds, Scan
    <2>5. CASE TickFails(s)
      <3>1. scan' \in [Scans -> Scan]
        BY <2>5, ScanTyped DEF TickFails, ScanGoes
      <3> QED BY <2>5, <3>1 DEF TickFails, TypeOK, Bars, ledger, shut, Scan
    <2>6. CASE MarkError(s)
      <3>1. scan' \in [Scans -> Scan]
        BY <2>6, ScanTyped DEF MarkError, ScanGoes
      <3> QED BY <2>6, <3>1 DEF MarkError, ErrorStatus, TypeOK, Bars, ledger, shut, bounds, Scan
    <2>7. CASE Forget(s)
      <3>1. scan' \in [Scans -> Scan]
        BY <2>7, ScanTyped DEF Forget
      <3> QED BY <2>7, <3>1 DEF Forget, TypeOK, Bars, ledger, shut, bounds, Scan
    <2>8. CASE LeaveUnmarked(s)
      <3>1. scan' \in [Scans -> Scan]
        BY <2>8, ScanTyped DEF LeaveUnmarked
      <3> QED BY <2>8, <3>1 DEF LeaveUnmarked, TypeOK, Bars, ledger, shut, bounds, Scan
    <2> QED
      BY <1>5, <2>1, <2>2, <2>3, <2>4, <2>5, <2>6, <2>7, <2>8 DEF ScanStep
  <1>6. CASE Shutdown \/ ShutdownStep
    BY <1>6 DEF Shutdown, ShutdownStep, StopWaiting, PersistLoad, PersistWrite, PhaseGoes,
                TypeOK, Bars, ledger, shut, bounds
  <1>7. CASE Restart
    <2>1. scan' \in [Scans -> Scan]
      BY <1>7 DEF Restart, IdleScan, Scan
    <2> QED
      BY <1>7, <2>1 DEF Restart, TypeOK, Bars, ledger, shut, Scan
  <1> QED
    BY <1>1, <1>2, <1>3, <1>4, <1>5, <1>6, <1>7 DEF Next

\* A step that runs Step is the transaction of a tick for a new bar.
LEMMA OnlyTickSteps ==
  ASSUME [Next]_vars
  PROVE  \/ UNCHANGED <<lastBar, steps>>
         \/ \E s \in Scans : TickCommit(s) /\ IsRunning /\ IsNewBar(scan[s].bar)
  <1>1. ASSUME NEW s \in Scans, ScanStep(s) \/ TickFails(s) \/ LeaveUnmarked(s)
        PROVE  UNCHANGED <<lastBar, steps>>
                 \/ (TickCommit(s) /\ IsRunning /\ IsNewBar(scan[s].bar))
    BY <1>1 DEF ScanStep, ScanLoad, ScanSync, TickLoad, TickCommit, TickFails, LeaveUnmarked, MarkError,
                Forget, ledger
  <1> QED
    BY <1>1 DEF Next, vars, NewBar, Start, Stop, Delete, Call, FinishCall, Shutdown,
                ShutdownStep, StopWaiting, PersistLoad, PersistWrite, Restart, ledger

\* No bar is stepped twice by a step.
LEMMA OnceStep == Once /\ [Next]_vars => Once'
  <1> SUFFICES ASSUME Once, [Next]_vars PROVE Once'
    OBVIOUS
  <1>1. TypeOK'
    BY TypeStep DEF Once
  <1>2. CASE UNCHANGED <<lastBar, steps>>
    BY <1>1, <1>2 DEF Once, Untouched, OneStepPerBar
  <1>3. ASSUME NEW s \in Scans, TickCommit(s), IsRunning, IsNewBar(scan[s].bar) PROVE Once'
    <2> DEFINE bar == scan[s].bar
    <2>1. bar \in Bars /\ bar > lastBar /\ lastBar \in Nat
      <3>1. TypeOK
        BY DEF Once
      <3>2. bar \in 0..MaxBar
        BY <3>1, ScanTyped DEF Scan
      <3>3. lastBar \in 0..MaxBar /\ MaxBar \in Nat
        BY <3>1, LifecycleAssumption DEF TypeOK
      <3>4. bar > lastBar
        BY <1>3 DEF IsNewBar
      <3> QED
        BY <3>2, <3>3, <3>4 DEF Bars
    <2>2. steps[bar] = 0
      BY <2>1 DEF Once, Untouched
    <2>3. lastBar' = bar /\ steps' = [steps EXCEPT ![bar] = @ + 1]
      BY <1>3 DEF TickCommit
    <2>4. Untouched'
      BY <2>1, <2>3, LifecycleAssumption DEF Once, Untouched, TypeOK, Bars
    <2>5. OneStepPerBar'
      BY <2>1, <2>2, <2>3 DEF Once, OneStepPerBar, TypeOK
    <2> QED
      BY <1>1, <2>4, <2>5 DEF Once
  <1> QED
    BY <1>2, <1>3, OnlyTickSteps

\* Until a shutdown has given up waiting, a step keeps the runtime state.
LEMMA KeptStep == TypeOK /\ Kept /\ [Next]_vars => Kept'
  <1> SUFFICES ASSUME TypeOK, Kept, [Next]_vars PROVE Kept'
    OBVIOUS
  <1>0. CASE gaveUp
    <2>1. gaveUp'
      BY <1>0 DEF vars, Next, NewBar, Start, Stop, Delete, Call, FinishCall, ScanStep, ScanLoad, ScanSync,
                  TickLoad, TickCommit, TickFails, LeaveUnmarked, MarkError, Forget, Shutdown,
                  ShutdownStep, StopWaiting, PersistLoad, PersistWrite, Restart, shut
    <2> QED
      BY <2>1 DEF Kept
  <1> SUFFICES ASSUME ~gaveUp PROVE Kept'
    BY <1>0
  <1> USE DEF Kept, Quiet, Fresh
  <1>1. CASE UNCHANGED vars
    BY <1>1 DEF vars, Drained
  <1>2. CASE NewBar
    BY <1>2 DEF NewBar, ledger, shut, Drained
  <1>3. ASSUME NEW c \in Callers, Start(c) \/ Stop(c) \/ Delete(c) PROVE Kept'
    BY <1>3 DEF Start, Stop, Delete, Call, ledger, shut
  <1>4. ASSUME NEW c \in Callers, FinishCall(c) PROVE Kept'
    BY <1>4 DEF FinishCall, ledger, shut, Drained
  <1>5. ASSUME NEW s \in Scans, ScanStep(s) \/ TickFails(s) \/ LeaveUnmarked(s) PROVE Kept'
    <2>1. phase \notin {"persist", "write", "closed"}
      BY <1>5 DEF Drained, ScanStep, ScanLoad, ScanSync, TickLoad, TickCommit, TickFails, LeaveUnmarked,
                  MarkError, Forget
    <2>2. phase' = phase
      BY <1>5 DEF ScanStep, ScanLoad, ScanSync, TickLoad, TickCommit, TickFails, LeaveUnmarked,
                  MarkError, Forget
    <2>3. runtime' = lastBar'
      BY <1>5 DEF ScanStep, ScanLoad, ScanSync, TickLoad, TickCommit, TickFails, LeaveUnmarked,
                  MarkError, Forget, ledger, shut
    <2> QED
      BY <2>1, <2>2, <2>3
  <1>6. CASE Shutdown
    BY <1>6 DEF Shutdown, PhaseGoes, ledger, shut
  <1>7. CASE StopWaiting
    BY <1>7 DEF StopWaiting, PhaseGoes, ledger, shut, Drained
  <1>8. CASE PersistLoad
    BY <1>8 DEF PersistLoad, ledger, shut, Drained
  <1>9. CASE PersistWrite
    BY <1>9 DEF PersistWrite, PhaseGoes, Drained
  <1>10. CASE Restart
    BY <1>10 DEF Restart, ledger, shut
  <1> QED
    BY <1>1, <1>2, <1>3, <1>4, <1>5, <1>6, <1>7, <1>8, <1>9, <1>10 DEF Next, ShutdownStep

\* The strengthened invariant always holds.
LEMMA OnceAlways == Spec => []Once
  <1>1. Init => Once
    BY TypeInit DEF Init, Once, Untouched, OneStepPerBar
  <1> QED
    BY <1>1, OnceStep, PTL DEF Spec

\* Every variable of the instance keeps its type, for any number of scans,
\* requests and restarts.
THEOREM TypeCorrect == Spec => []TypeOK
  <1>1. Once => TypeOK
    BY DEF Once
  <1> QED
    BY <1>1, OnceAlways, PTL

\* tick runs Step at most once for a bar, for any number of overlapping scans
\* and restarts.
THEOREM StepsOnce == Spec => []OneStepPerBar
  <1>1. Once => OneStepPerBar
    BY DEF Once
  <1> QED
    BY <1>1, OnceAlways, PTL

\* tick runs Step only for an instance that is running when it commits.
THEOREM StepsRunning == Spec => StepsOnlyWhileRunning
  <1>1. [Next]_vars => [steps' # steps => status = "RUNNING"]_vars
    BY OnlyTickSteps DEF IsRunning
  <1> QED
    BY <1>1, PTL DEF Spec, StepsOnlyWhileRunning

\* No request and no late markError brings a deleted instance back or revives
\* one in error.
THEOREM StatusIsFinal == Spec => NoWayBack
  <1> DEFINE A == /\ status = "DELETED" => status' = "DELETED"
                  /\ status = "ERROR" => status' \in {"ERROR", "DELETED"}
  <1>1. ASSUME Next PROVE A
    <2>1. ASSUME NEW s \in Scans, ScanStep(s) \/ TickFails(s) \/ LeaveUnmarked(s) PROVE A
      BY <2>1 DEF ScanStep, ScanLoad, ScanSync, TickLoad, TickCommit, TickFails, LeaveUnmarked, MarkError,
                  ErrorStatus, Forget
    <2>2. ASSUME NEW c \in Callers, Start(c) \/ Stop(c) \/ Delete(c) \/ FinishCall(c) PROVE A
      BY <2>2 DEF Start, Stop, Delete, Call, FinishCall
    <2>3. CASE NewBar \/ Shutdown \/ ShutdownStep \/ Restart
      BY <2>3 DEF NewBar, Shutdown, ShutdownStep, StopWaiting, PersistLoad, PersistWrite, Restart
    <2> QED
      BY <1>1, <2>1, <2>2, <2>3 DEF Next
  <1>2. [Next]_vars => [A]_vars
    BY <1>1
  <1> QED
    BY <1>2, PTL DEF Spec, NoWayBack

\* Through slow ticks, late requests and crashes, PersistActiveRuntimeSnapshots
\* loses the runtime state of the last processed bar only after a shutdown that
\* has reported its timeout.
THEOREM LossIsNotSilent == Spec => []LossIsReported
  <1> DEFINE Both == TypeOK /\ Kept
  <1>1. Init => Both
    BY TypeInit DEF Init, Kept, Quiet, Fresh
  <1>2. Both /\ [Next]_vars => Both'
    BY TypeStep, KeptStep
  <1>3. Both => LossIsReported
    BY DEF Kept, LossIsReported
  <1> QED
    BY <1>1, <1>2, <1>3, PTL DEF Spec
=============================================================================
