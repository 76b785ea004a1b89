------------------------------ MODULE EpochTasks ------------------------------
(***************************************************************************)
(* Evolution tasks: the API creates and cancels them, EpochService runs    *)
(* one at a time in a goroutine, and three parties write a task's row: the *)
(* run's progress, the run's end, and CancelTask.                          *)
(*                                                                         *)
(* CancelTask releases the service before the canceled run notices, so a   *)
(* new run may overlap with the end of an old one.  What a generation      *)
(* computes is left out: a run is the generation it has reached.           *)
(***************************************************************************)
EXTENDS Naturals, FiniteSets

CONSTANTS
  MaxTasks,     \* bounds the tasks created
  Generations,  \* max_generations of every task
  Cancelers,    \* CancelTask calls that run at the same time
  MaxFaults     \* bounds the ends of the process and the updates that fail

ASSUME EpochAssumption ==
  /\ MaxTasks \in Nat \ {0}
  /\ Generations \in Nat \ {0}
  /\ MaxFaults \in Nat

Tasks == 1..MaxTasks
NoTask == 0

\* Progress 100; a run reports no more than 99 before it is done.
Complete == Generations + 1

VARIABLES
  created,      \* tasks created so far, the last one's id
  status,       \* evolution_tasks.status
  progress,     \* evolution_tasks.progress, in generations
  best,         \* evolution_tasks.best_gene_id is set
  challengers,  \* tasks whose result is in gene_records
  current,      \* EpochService.currentTask
  run,          \* where the run of each task is
  generation,   \* and the generation it has reached
  stopped,      \* its context is canceled
  canceler,     \* the task each CancelTask is about to update
  faults

rows == <<status, progress, best>>
vars == <<created, rows, challengers, current, run, generation, stopped, canceler, faults>>

Places == {"none", "evolve", "report", "save", "succeeded", "failed", "canceled", "leave"}

\* Every variable has its type.
TypeOK ==
  /\ created \in 0..MaxTasks
  /\ status \in [Tasks -> {"absent", "running", "succeeded", "failed", "canceled"}]
  /\ progress \in [Tasks -> 0..Complete]
  /\ best \in [Tasks -> BOOLEAN]
  /\ challengers \subseteq Tasks
  /\ current \in Tasks \cup {NoTask}
  /\ run \in [Tasks -> Places]
  /\ generation \in [Tasks -> 0..Generations]
  /\ stopped \in [Tasks -> BOOLEAN]
  /\ canceler \in [Cancelers -> Tasks \cup {NoTask}]
  /\ faults \in 0..MaxFaults

Init ==
  /\ created = 0
  /\ status = [t \in Tasks |-> "absent"]
  /\ progress = [t \in Tasks |-> 0]
  /\ best = [t \in Tasks |-> FALSE]
  /\ challengers = {}
  /\ current = NoTask
  /\ run = [t \in Tasks |-> "none"]
  /\ generation = [t \in Tasks |-> 0]
  /\ stopped = [t \in Tasks |-> FALSE]
  /\ canceler = [c \in Cancelers |-> NoTask]
  /\ faults = 0

Fault == faults < MaxFaults /\ faults' = faults + 1

RunGoes(t, from, to) == run[t] = from /\ run' = [run EXCEPT ![t] = to]

-----------------------------------------------------------------------------
(***************************************************************************)
(* CreateAndRunTask and CancelTask.                                        *)
(***************************************************************************)

\* Mutant: the service does not look at its current task.
AlwaysFree == TRUE

ServiceIsFree == current = NoTask

\* Under the mutex from the test to the new current task; then the run starts.
Create ==
  LET t == created + 1 IN
  /\ ServiceIsFree
  /\ created < MaxTasks
  /\ created' = t
  /\ status' = [status EXCEPT ![t] = "running"]
  /\ current' = t
  /\ RunGoes(t, "none", "evolve")
  /\ UNCHANGED <<progress, best, challengers, generation, stopped, canceler, faults>>

\* CancelTask under the mutex: the current task is stopped and let go, ...
CancelCurrent(c, t) ==
  /\ canceler[c] = NoTask
  /\ status[t] # "absent"
  /\ canceler' = [canceler EXCEPT ![c] = t]
  /\ IF current = t
       THEN stopped' = [stopped EXCEPT ![t] = TRUE] /\ current' = NoTask
       ELSE UNCHANGED <<stopped, current>>
  /\ UNCHANGED <<created, rows, challengers, run, generation, faults>>

\* Mutant: the status is updated whatever it is.
StatusAlways(t, final) == [status EXCEPT ![t] = final]

\* UPDATE ... WHERE status = 'running'.
StatusIfRunning(t, final) == [status EXCEPT ![t] = IF @ = "running" THEN final ELSE @]

\* ... and its row updated, as the row of any other task is.
CancelRow(c) ==
  /\ canceler[c] # NoTask
  /\ status' = StatusIfRunning(canceler[c], "canceled")
  /\ canceler' = [canceler EXCEPT ![c] = NoTask]
  /\ UNCHANGED <<created, progress, best, challengers, current, run, generation, stopped, faults>>

\* The update fails: the error goes to the caller, who need not repeat the call.
CancelFails(c) ==
  /\ canceler[c] # NoTask
  /\ Fault
  /\ canceler' = [canceler EXCEPT ![c] = NoTask]
  /\ UNCHANGED <<created, rows, challengers, current, run, generation, stopped>>

-----------------------------------------------------------------------------
(***************************************************************************)
(* runEpoch and RunEpoch.                                                  *)
(***************************************************************************)

runOnly == <<created, rows, challengers, current, generation, stopped, canceler, faults>>

\* The next generation, if the context is not canceled; its progress is due.
Evolve(t) ==
  /\ ~stopped[t]
  /\ generation[t] < Generations
  /\ RunGoes(t, "evolve", "report")
  /\ generation' = [generation EXCEPT ![t] = @ + 1]
  /\ UNCHANGED <<created, rows, challengers, current, stopped, canceler, faults>>

\* OnProgress: the row is updated whatever its status is.
ReportProgress(t) ==
  /\ RunGoes(t, "report", "evolve")
  /\ progress' = [progress EXCEPT ![t] = generation[t]]
  /\ UNCHANGED <<created, status, best, challengers, current, generation, stopped,
                 canceler, faults>>

\* The last generation, or an early stop.
Finish(t) ==
  /\ generation[t] > 0
  /\ RunGoes(t, "evolve", "save")
  /\ UNCHANGED runOnly

\* Mutant: a result that cannot be saved is no error.
SaveNothing(t) ==
  /\ ~stopped[t]
  /\ RunGoes(t, "save", "succeeded")
  /\ UNCHANGED runOnly

\* SaveChallenger, with the run's context.
Save(t) ==
  /\ ~stopped[t]
  /\ RunGoes(t, "save", "succeeded")
  /\ challengers' = challengers \cup {t}
  /\ UNCHANGED <<created, rows, current, generation, stopped, canceler, faults>>

\* The canceled context is noticed, between generations, in an evaluation or
\* by the database.
NoticeStop(t) ==
  /\ stopped[t]
  /\ RunGoes(t, "evolve", "canceled") \/ RunGoes(t, "save", "canceled")
  /\ UNCHANGED runOnly

\* An evaluation or the database fails.
Fail(t) ==
  /\ RunGoes(t, "evolve", "failed") \/ RunGoes(t, "save", "failed")
  /\ UNCHANGED runOnly

\* Mutant: a run that fails leaves its row as it is.
MarkNothing(t) ==
  /\ run[t] \in {"succeeded", "failed", "canceled"}
  /\ run' = [run EXCEPT ![t] = "leave"]
  /\ UNCHANGED runOnly

\* The end of the run is written into the row, unless it has ended already.
MarkEnd(t) ==
  /\ run[t] \in {"succeeded", "failed", "canceled"}
  /\ status' = StatusIfRunning(t, run[t])
  /\ IF run[t] = "succeeded" /\ status[t] = "running"
       THEN /\ progress' = [progress EXCEPT ![t] = Complete]
            /\ best' = [best EXCEPT ![t] = TRUE]
       ELSE UNCHANGED <<progress, best>>
  /\ run' = [run EXCEPT ![t] = "leave"]
  /\ UNCHANGED <<created, challengers, current, generation, stopped, canceler, faults>>

\* The update of progress or of the end fails: it is logged, if at all.
UpdateFails(t) ==
  /\ Fault
  /\ \/ RunGoes(t, "report", "evolve")
     \/ \E end \in {"succeeded", "failed", "canceled"} : RunGoes(t, end, "leave")
  /\ UNCHANGED <<created, rows, challengers, current, generation, stopped, canceler>>

\* Mutant: the run that ends clears the current task, whichever it is.
ForgetAny(t) == NoTask

ForgetOwn(t) == IF current = t THEN NoTask ELSE current

\* runEpoch's deferred function.
Leave(t) ==
  /\ RunGoes(t, "leave", "none")
  /\ current' = ForgetOwn(t)
  /\ UNCHANGED <<created, rows, challengers, generation, stopped, canceler, faults>>

-----------------------------------------------------------------------------

\* The process ends, in a crash or by shutdown, which does not know of runs,
\* and starts again.
Restart ==
  /\ Fault
  /\ current' = NoTask
  /\ run' = [t \in Tasks |-> "none"]
  /\ canceler' = [c \in Cancelers |-> NoTask]
  /\ UNCHANGED <<created, rows, challengers, generation, stopped>>

RunStep(t) ==
  \/ Evolve(t) \/ ReportProgress(t) \/ Finish(t) \/ Save(t) \/ NoticeStop(t)
  \/ MarkEnd(t) \/ Leave(t)

\* Nothing is left to create, to run or to cancel.
Exhausted == created = MaxTasks /\ UNCHANGED vars

Next ==
  \/ Create
  \/ \E c \in Cancelers : CancelRow(c) \/ CancelFails(c) \/ \E t \in Tasks : CancelCurrent(c, t)
  \/ \E t \in Tasks : RunStep(t) \/ Fail(t) \/ UpdateFails(t)
  \/ Restart
  \/ Exhausted

Spec == Init /\ [][Next]_vars

(***************************************************************************)
(* A run that has begun goes on, whatever it meets, and so does a          *)
(* CancelTask.  Nobody has to create, to cancel, or to end the process,    *)
(* and nothing has to fail.                                                *)
(***************************************************************************)
FairSpec ==
  /\ Spec
  /\ \A t \in Tasks : WF_vars(RunStep(t))
  /\ \A c \in Cancelers : WF_vars(CancelRow(c))

-----------------------------------------------------------------------------
(***************************************************************************)
(* Properties.                                                             *)
(***************************************************************************)

\* A run that nobody stopped is the service's current task, however late
\* the runs canceled before it end: it can be canceled, and no second run is
\* started beside it (currentTask is compared before it is cleared).
LiveRunIsCurrent == \A t \in Tasks : run[t] # "none" /\ ~stopped[t] => current = t

\* A task ends once: of CancelTask and the run's own end, the first to reach
\* the row wins (both update it only while it is running).
EndIsFinal ==
  [][\A t \in Tasks :
       status[t] \in {"succeeded", "failed", "canceled"} => status'[t] = status[t]]_vars

\* A task that succeeded names a challenger that is saved, and shows 100%:
\* no cancellation or late progress report spoils it.
SuccessIsComplete ==
  \A t \in Tasks :
    status[t] = "succeeded" => t \in challengers /\ best[t] /\ progress[t] = Complete

\* A running task ends, canceled or not, unless the process ends before or
\* the update of its end fails: nothing repairs its row then.
RunningEnds ==
  \A t \in Tasks :
    (status[t] = "running" /\ run[t] # "none") ~> (status[t] # "running" \/ faults > 0)
=============================================================================
