--------------------------- MODULE EpochTasksProofs ---------------------------
(***************************************************************************)
(* The safety properties of EpochTasks, for any number of tasks,           *)
(* generations, CancelTask calls and restarts.                             *)
(*                                                                         *)
(* A live run is current because Create waits for a service without a      *)
(* current task and only CancelTask, which stops the run, and the run's    *)
(* own end clear it.  A task that succeeded stays complete because its run *)
(* is beyond its progress reports and had saved its result before.         *)
(***************************************************************************)
EXTENDS EpochTasks, TLAPS

\* A run that is about to mark its success has saved the result.
SavedFirst == \A t \in Tasks : run[t] = "succeeded" => t \in challengers

\* A task that succeeded has no run, or one about to end.
SuccessIsOver == \A t \in Tasks : status[t] = "succeeded" => run[t] \in {"leave", "none"}

\* Ids beyond the last task have no row.
UnbornHasNoRow == \A t \in Tasks : t > created => status[t] = "absent"

IInv ==
  /\ TypeOK
  /\ LiveRunIsCurrent
  /\ SavedFirst
  /\ SuccessIsOver
  /\ SuccessIsComplete
  /\ UnbornHasNoRow

LEMMA InvInit == Init => IInv
  <1> SUFFICES ASSUME Init PROVE IInv
    OBVIOUS
  <1>1. TypeOK
    BY EpochAssumption DEF Init, TypeOK, Places, Tasks, NoTask, Complete
  <1>2. LiveRunIsCurrent /\ SavedFirst /\ SuccessIsOver /\ SuccessIsComplete /\ UnbornHasNoRow
    BY DEF Init, LiveRunIsCurrent, SavedFirst, SuccessIsOver, SuccessIsComplete, UnbornHasNoRow
  <1> QED
    BY <1>1, <1>2 DEF IInv

\* Ends of a task are statuses.
LEMMA EndIsStatus ==
  ASSUME TypeOK, NEW t \in Tasks, NEW final \in {"succeeded", "failed", "canceled"}
  PROVE  /\ StatusIfRunning(t, final) \in
              [Tasks -> {"absent", "running", "succeeded", "failed", "canceled"}]
         /\ \A u \in Tasks : StatusIfRunning(t, final)[u] =
              IF u = t /\ status[u] = "running" THEN final ELSE status[u]
  BY DEF TypeOK, StatusIfRunning

LEMMA TypeStep == IInv /\ [Next]_vars => TypeOK'
  <1> SUFFICES ASSUME IInv, [Next]_vars PROVE TypeOK'
    OBVIOUS
  <1> USE DEF IInv
  <1>1. CASE UNCHANGED vars
    BY <1>1 DEF vars, rows, TypeOK
  <1>2. CASE Create
    BY <1>2, EpochAssumption DEF Create, RunGoes, TypeOK, Tasks, Places
  <1>3. ASSUME NEW c \in Cancelers, CancelRow(c) PROVE TypeOK'
    <2>1. canceler[c] \in Tasks
      BY <1>3 DEF CancelRow, TypeOK
    <2>2. status' \in [Tasks -> {"absent", "running", "succeeded", "failed", "canceled"}]
      BY <1>3, <2>1, EndIsStatus DEF CancelRow
    <2> QED
      BY <1>3, <2>2 DEF CancelRow, TypeOK
  <1>4. ASSUME NEW c \in Cancelers, NEW t \in Tasks, CancelCurrent(c, t) PROVE TypeOK'
    BY <1>4 DEF CancelCurrent, TypeOK, rows
  <1>5. ASSUME NEW t \in Tasks, RunStep(t) \/ Fail(t) \/ UpdateFails(t) PROVE TypeOK'
    <2>1. CASE Evolve(t)
      BY <2>1, EpochAssumption DEF Evolve, RunGoes, TypeOK, Places, rows
    <2>2. CASE ReportProgress(t)
      BY <2>2, EpochAssumption DEF ReportProgress, RunGoes, TypeOK, Places, Complete
    <2>3. CASE Finish(t) \/ NoticeStop(t) \/ Fail(t)
      BY <2>3 DEF Finish, NoticeStop, Fail, RunGoes, TypeOK, Places, runOnly, rows
    <2>4. CASE Save(t)
      BY <2>4 DEF Save, RunGoes, TypeOK, Places, rows
    <2>5. CASE MarkEnd(t)
      <3>1. status' \in [Tasks -> {"absent", "running", "succeeded", "failed", "canceled"}]
        BY <2>5, EndIsStatus DEF MarkEnd
      <3>2. Complete \in 0..Complete
        BY EpochAssumption DEF Complete
      <3>3. CASE run[t] = "succeeded" /\ status[t] = "running"
        <4>1. progress' \in [Tasks -> 0..Complete]
          BY <2>5, <3>2, <3>3 DEF MarkEnd, TypeOK
        <4>2. best' \in [Tasks -> BOOLEAN]
          BY <2>5, <3>3 DEF MarkEnd, TypeOK
        <4> QED
          BY <2>5, <3>1, <4>1, <4>2 DEF MarkEnd, TypeOK, Places
      <3>4. CASE ~(run[t] = "succeeded" /\ status[t] = "running")
        BY <2>5, <3>1, <3>4 DEF MarkEnd, TypeOK, Places
      <3> QED
        BY <3>3, <3>4
    <2>6. CASE Leave(t)
      BY <2>6 DEF Leave, ForgetOwn, RunGoes, TypeOK, Places, rows
    <2>7. CASE UpdateFails(t)
      BY <2>7, EpochAssumption DEF UpdateFails, Fault, RunGoes, TypeOK, Places, rows
    <2> QED
      BY <1>5, <2>1, <2>2, <2>3, <2>4, <2>5, <2>6, <2>7 DEF RunStep
  <1>6. CASE Restart
    BY <1>6, EpochAssumption DEF Restart, Fault, TypeOK, Places, rows
  <1>7. ASSUME NEW c \in Cancelers, CancelFails(c) PROVE TypeOK'
    BY <1>7, EpochAssumption DEF CancelFails, Fault, TypeOK, rows
  <1> QED
    BY <1>1, <1>2, <1>3, <1>4, <1>5, <1>6, <1>7 DEF Next, Exhausted

\* No step leaves a run that nobody stopped without the service.
LEMMA LiveStep == IInv /\ [Next]_vars => LiveRunIsCurrent'
  <1> SUFFICES ASSUME IInv, [Next]_vars PROVE LiveRunIsCurrent'
    OBVIOUS
  <1> USE DEF IInv
  <1>1. CASE UNCHANGED <<current, run, stopped>>
    BY <1>1 DEF LiveRunIsCurrent
  <1>2. CASE Create
    BY <1>2 DEF Create, ServiceIsFree, RunGoes, LiveRunIsCurrent, TypeOK, Tasks, NoTask
  <1>3. ASSUME NEW c \in Cancelers, NEW t \in Tasks, CancelCurrent(c, t) PROVE LiveRunIsCurrent'
    BY <1>3 DEF CancelCurrent, LiveRunIsCurrent, TypeOK
  <1>4. ASSUME NEW t \in Tasks, RunStep(t) \/ Fail(t) \/ UpdateFails(t) PROVE LiveRunIsCurrent'
    <2>1. CASE Leave(t)
      BY <2>1 DEF Leave, ForgetOwn, RunGoes, LiveRunIsCurrent, TypeOK
    <2>2. CASE ~Leave(t)
      <3>1. /\ UNCHANGED <<current, stopped>>
            /\ run[t] # "none"
            /\ \E to \in Places : run' = [run EXCEPT ![t] = to]
        BY <1>4, <2>2 DEF RunStep, Evolve, ReportProgress, Finish, Save, NoticeStop, Fail,
             UpdateFails, MarkEnd, RunGoes, runOnly, Places
      <3> QED
        BY <3>1 DEF LiveRunIsCurrent, TypeOK
    <2> QED
      BY <2>1, <2>2
  <1>5. CASE Restart
    BY <1>5 DEF Restart, LiveRunIsCurrent
  <1> QED
    BY <1>1, <1>2, <1>3, <1>4, <1>5 DEF Next, Exhausted, vars, CancelRow, CancelFails

\* What a task that succeeded has, it keeps.
LEMMA SuccessStep ==
  IInv /\ [Next]_vars => SavedFirst' /\ SuccessIsOver' /\ SuccessIsComplete'
  <1> SUFFICES ASSUME IInv, [Next]_vars PROVE SavedFirst' /\ SuccessIsOver' /\ SuccessIsComplete'
    OBVIOUS
  <1> USE DEF IInv, SavedFirst, SuccessIsOver, SuccessIsComplete
  <1>1. CASE UNCHANGED <<status, progress, best, challengers, run>>
    BY <1>1
  <1>2. CASE Create
    BY <1>2 DEF Create, RunGoes, TypeOK
  <1>3. ASSUME NEW c \in Cancelers, CancelRow(c)
        PROVE SavedFirst' /\ SuccessIsOver' /\ SuccessIsComplete'
    <2>1. canceler[c] \in Tasks
      BY <1>3 DEF CancelRow, TypeOK
    <2>2. \A u \in Tasks : status'[u] = "succeeded" => status[u] = "succeeded"
      BY <1>3, <2>1, EndIsStatus DEF CancelRow
    <2> QED
      BY <1>3, <2>2 DEF CancelRow
  <1>4. ASSUME NEW t \in Tasks, RunStep(t) \/ Fail(t) \/ UpdateFails(t)
        PROVE SavedFirst' /\ SuccessIsOver' /\ SuccessIsComplete'
    <2>1. CASE Evolve(t) \/ Finish(t) \/ NoticeStop(t) \/ Fail(t) \/ Leave(t)
      BY <2>1 DEF Evolve, Finish, NoticeStop, Fail, Leave, RunGoes, TypeOK, runOnly, rows
    <2>2. CASE ReportProgress(t)
      BY <2>2 DEF ReportProgress, RunGoes, TypeOK
    <2>3. CASE Save(t)
      BY <2>3 DEF Save, RunGoes, TypeOK, rows
    <2>4. CASE MarkEnd(t)
      <3>1. \A u \in Tasks : u # t => status'[u] = status[u] /\ run'[u] = run[u]
                                      /\ progress'[u] = progress[u] /\ best'[u] = best[u]
        BY <2>4, EndIsStatus DEF MarkEnd, TypeOK
      <3>2. run'[t] = "leave" /\ challengers' = challengers
        BY <2>4 DEF MarkEnd, TypeOK
      <3>3. CASE run[t] = "succeeded" /\ status[t] = "running"
        <4>1. progress'[t] = Complete /\ best'[t]
          BY <2>4, <3>3 DEF MarkEnd, TypeOK
        <4> QED
          BY <3>1, <3>2, <3>3, <4>1
      <3>4. CASE ~(run[t] = "succeeded" /\ status[t] = "running")
        <4>1. UNCHANGED <<progress, best>>
          BY <2>4, <3>4 DEF MarkEnd
        <4>2. status'[t] = "succeeded" => status[t] = "succeeded"
          BY <2>4, <3>4, EndIsStatus DEF MarkEnd
        <4> QED
          BY <3>1, <3>2, <4>1, <4>2
      <3> QED
        BY <3>3, <3>4
    <2>5. CASE UpdateFails(t)
      BY <2>5 DEF UpdateFails, RunGoes, TypeOK, rows
    <2> QED
      BY <1>4, <2>1, <2>2, <2>3, <2>4, <2>5 DEF RunStep
  <1>5. CASE Restart
    BY <1>5 DEF Restart, rows
  <1> QED
    BY <1>1, <1>2, <1>3, <1>4, <1>5 DEF Next, Exhausted, vars, rows, CancelCurrent,
         CancelFails

\* Only Create makes a row, of the next task.
LEMMA UnbornStep == IInv /\ [Next]_vars => UnbornHasNoRow'
  <1> SUFFICES ASSUME IInv, [Next]_vars PROVE UnbornHasNoRow'
    OBVIOUS
  <1> USE DEF IInv, UnbornHasNoRow
  <1>1. CASE UNCHANGED <<created, status>>
    BY <1>1
  <1>2. CASE Create
    BY <1>2 DEF Create, TypeOK, Tasks
  <1>3. ASSUME NEW c \in Cancelers, CancelRow(c) PROVE UnbornHasNoRow'
    <2>1. canceler[c] \in Tasks
      BY <1>3 DEF CancelRow, TypeOK
    <2>2. \A u \in Tasks : status[u] = "absent" => status'[u] = "absent"
      BY <1>3, <2>1, EndIsStatus DEF CancelRow
    <2> QED
      BY <1>3, <2>2 DEF CancelRow
  <1>4. ASSUME NEW t \in Tasks, MarkEnd(t) PROVE UnbornHasNoRow'
    <2>1. \A u \in Tasks : status[u] = "absent" => status'[u] = "absent"
      BY <1>4, EndIsStatus DEF MarkEnd
    <2> QED
      BY <1>4, <2>1 DEF MarkEnd
  <1> QED
    BY <1>1, <1>2, <1>3, <1>4 DEF Next, Exhausted, vars, rows, CancelCurrent, RunStep, Evolve,
         ReportProgress, Finish, Save, NoticeStop, Fail, Leave, UpdateFails,
         CancelFails, Restart, runOnly

LEMMA Inductive == Spec => []IInv
  <1>1. IInv /\ [Next]_vars => IInv'
    BY TypeStep, LiveStep, SuccessStep, UnbornStep DEF IInv
  <1> QED
    BY <1>1, InvInit, PTL DEF Spec

\* Every variable of the service and its rows keeps its type, for any number
\* of tasks, generations, CancelTask calls and restarts.
THEOREM TypeCorrect == Spec => []TypeOK
  <1>1. IInv => TypeOK
    BY DEF IInv
  <1> QED
    BY <1>1, Inductive, PTL

\* However canceled runs and new ones overlap, a run nobody stopped is the
\* current task of EpochService: never two of them, and it can be canceled.
THEOREM OneLiveRun == Spec => []LiveRunIsCurrent
  <1>1. IInv => LiveRunIsCurrent
    BY DEF IInv
  <1> QED
    BY <1>1, Inductive, PTL

\* A task that succeeded has its challenger saved and named and shows 100%,
\* whatever was canceled or reported meanwhile.
THEOREM SuccessStays == Spec => []SuccessIsComplete
  <1>1. IInv => SuccessIsComplete
    BY DEF IInv
  <1> QED
    BY <1>1, Inductive, PTL

\* A task ends once: CancelTask and the run's own end never overwrite one
\* another (UPDATE ... WHERE status = 'running').
THEOREM EndsOnce == Spec => EndIsFinal
  <1>1. IInv /\ [Next]_vars =>
          \A t \in Tasks : status[t] \in {"succeeded", "failed", "canceled"} => status'[t] = status[t]
    <2> SUFFICES ASSUME IInv, [Next]_vars, NEW t \in Tasks,
                        status[t] \in {"succeeded", "failed", "canceled"}
                 PROVE  status'[t] = status[t]
      OBVIOUS
    <2> USE DEF IInv
    <2>1. CASE UNCHANGED status
      BY <2>1
    <2>2. CASE Create
      <3>1. created + 1 \in Tasks /\ created + 1 > created
        BY <2>2, EpochAssumption DEF Create, TypeOK, Tasks
      <3> QED
        BY <2>2, <3>1 DEF Create, TypeOK, UnbornHasNoRow
    <2>3. ASSUME NEW c \in Cancelers, CancelRow(c) PROVE status'[t] = status[t]
      <3>1. canceler[c] \in Tasks
        BY <2>3 DEF CancelRow, TypeOK
      <3> QED
        BY <2>3, <3>1, EndIsStatus DEF CancelRow
    <2>4. ASSUME NEW u \in Tasks, MarkEnd(u) PROVE status'[t] = status[t]
      BY <2>4, EndIsStatus DEF MarkEnd
    <2> QED
      BY <2>1, <2>2, <2>3, <2>4 DEF Next, Exhausted, vars, rows, CancelCurrent, RunStep, Evolve,
           ReportProgress, Finish, Save, NoticeStop, Fail, Leave, UpdateFails,
         CancelFails, Restart, runOnly
  <1> QED
    BY <1>1, Inductive, PTL DEF Spec, EndIsFinal
=============================================================================
