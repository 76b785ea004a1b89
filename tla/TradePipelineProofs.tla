------------------------- MODULE TradePipelineProofs -------------------------
(***************************************************************************)
(* Proofs about TradePipeline, for every set of buckets and engines, every *)
(* set of exchange replies and every bound on faults.                      *)
(*                                                                         *)
(* The inductive invariant is TypeOK /\ Recorded /\ Evidence /\ OncePer-   *)
(* Process.  Recorded ties every trace of an order to its row and its      *)
(* bucket, Evidence says that whoever claims a fill can name the           *)
(* execution, OncePerProcess counts executions against restarts.  The      *)
(* registry of connections below the pipeline, AgentHub, is at the end.    *)
(***************************************************************************)
EXTENDS TradePipeline, AgentHub, TLAPS

\* Rows exist only for processed buckets, and every message, goroutine and
\* execution belongs to a row.
Recorded ==
  /\ \A o \in Orders : execution[o] # "absent" => o[1] <= lastBucket
  /\ \A o \in outbox \cup commands \cup seen : execution[o] # "absent"
  /\ \A m \in workers \cup reports : execution[m.order] # "absent"
  /\ \A o \in Orders : executed[o] > 0 => execution[o] # "absent"

\* A fill claimed by a goroutine, a report or a row happened at the exchange.
Evidence ==
  /\ \A w \in workers : ExecutesOrder(w.reply) => executed[w.order] > 0
  /\ \A r \in reports : r.status = "FILLED" => executed[r.order] > 0
  /\ \A o \in Orders : execution[o] = "filled" => executed[o] > 0
  /\ \A o \in Orders : booked[o] = (IF execution[o] = "filled" THEN 1 ELSE 0)

\* An order has at most one goroutine in a process, which still has its one
\* execution to spend until the exchange answered.
OncePerProcess ==
  /\ \A w \in workers : w.order \in seen
  /\ \A v, w \in workers : v.order = w.order => v = w
  /\ \A o \in Orders : executed[o] <= restarts + 1
  /\ \A o \in Orders \ seen : executed[o] <= restarts
  /\ \A w \in workers : w.reply = "none" => executed[w.order] <= restarts

-----------------------------------------------------------------------------

\* Every variable starts in its type.
LEMMA TypeInit == Init => TypeOK
<1> USE PipelineAssumption DEF PipelineAssumption, TypeOK
<1> SUFFICES ASSUME Init PROVE TypeOK
  OBVIOUS
<1> USE DEF Init
<1>1. /\ execution \in [Orders -> {"absent", "pending", "filled", "failed"}]
      /\ booked \in [Orders -> Nat]
      /\ executed \in [Orders -> Nat]
  OBVIOUS
<1>2. 0 \in 0..MaxFaults
  OBVIOUS
<1>3. QED
  BY <1>1, <1>2

\* Every action keeps the types.
LEMMA TypeStep == TypeOK /\ [Next]_vars => TypeOK'
<1> USE PipelineAssumption DEF PipelineAssumption, TypeOK
<1> SUFFICES ASSUME TypeOK, [Next]_vars PROVE TypeOK'
  OBVIOUS
<1> USE DEF saasVars, connVars, agentVars, worldVars
<1>1. ASSUME NEW b \in Buckets, NEW E \in SUBSET Engines, CommitTick(b, E)
      PROVE  TypeOK'
  BY <1>1 DEF CommitTick, InsertPending, DispatchNow, Orders
<1>2. CASE ScanPending
  BY <1>2 DEF ScanPending, DispatchNow, Pending
<1>3. ASSUME NEW o \in Orders, SendTradeCommand(o) PROVE TypeOK'
  BY <1>3 DEF SendTradeCommand
<1>4. ASSUME NEW r \in reports, ProcessReport(r) PROVE TypeOK'
  <2>1. r.order \in Orders
    BY DEF DeltaReports
  <2>2. reports' \subseteq DeltaReports
    BY <1>4 DEF ProcessReport
  <2>3. execution' \in [Orders -> {"absent", "pending", "filled", "failed"}]
    BY <1>4, <2>1 DEF ProcessReport, Bookable, SettledStatus
  <2>4. booked' \in [Orders -> Nat]
    BY <1>4, <2>1 DEF ProcessReport
  <2>5. QED
    BY <1>4, <2>2, <2>3, <2>4 DEF ProcessReport
<1>5. ASSUME NEW r \in reports, AbortReport(r) PROVE TypeOK'
  BY <1>5 DEF AbortReport, Fault
<1>6. ASSUME NEW o \in Orders, HandleCommand(o) PROVE TypeOK'
  <2>1. [order |-> o, connected |-> TRUE, reply |-> "none"] \in Goroutines
    BY DEF Goroutines
  <2>2. QED
    BY <1>6, <2>1 DEF HandleCommand
<1>7. ASSUME NEW o \in Orders, FailAck(o) PROVE TypeOK'
  BY <1>7 DEF FailAck, Fault
<1>8. ASSUME NEW w \in workers, PlaceOrder(w) PROVE TypeOK'
  <2>1. PICK reply \in (IF w.order \in expired THEN {"late"} ELSE Replies) :
          /\ workers' = (workers \ {w}) \cup {[w EXCEPT !.reply = reply]}
          /\ executed' = IF ExecutesOrder(reply)
                         THEN [executed EXCEPT ![w.order] = @ + 1] ELSE executed
    BY <1>8 DEF PlaceOrder
  <2>2. w.order \in Orders /\ [w EXCEPT !.reply = reply] \in Goroutines
    BY DEF Goroutines
  <2>3. executed' \in [Orders -> Nat]
    BY <2>1, <2>2
  <2>4. QED
    BY <1>8, <2>1, <2>2, <2>3 DEF PlaceOrder
<1>9. ASSUME NEW w \in workers, NEW ok \in BOOLEAN, SendReport(w, ok) PROVE TypeOK'
  <2>1. [order |-> w.order, process |-> restarts, priced |-> w.reply \in {"full", "cut"},
         status |-> ReportStatus(w.reply, ok)] \in DeltaReports
    BY DEF ReportStatus, DeltaReports, Goroutines
  <2>2. QED
    BY <1>9, <2>1 DEF SendReport
<1>10. CASE Connect
  BY <1>10 DEF Connect
<1>11. ASSUME NEW o \in Orders, Expire(o) PROVE TypeOK'
  BY <1>11 DEF Expire
<1>12. Orphaned \subseteq Goroutines
  BY DEF Orphaned, Goroutines
<1>13. CASE AgentLosesLink
  <2>1. reports' \subseteq DeltaReports /\ workers' \subseteq Goroutines /\ faults' \in 0..MaxFaults
    BY <1>13, <1>12 DEF AgentLosesLink, EndSession, EntryBreaks, Fault
  <2>2. QED
    BY <1>13, <2>1 DEF AgentLosesLink, EndSession, EntryBreaks
<1>14. CASE HubLosesLink
  <2>1. faults' \in 0..MaxFaults /\ reports' \subseteq DeltaReports
    BY <1>14 DEF HubLosesLink, Fault
  <2>2. QED
    BY <1>14, <2>1 DEF HubLosesLink, EntryBreaks
<1>15. CASE UnregisterCompares \/ UnregisterDeletes
  BY <1>15 DEF UnregisterCompares, UnregisterDeletes
<1>16. CASE AgentDropsClosed
  BY <1>16, <1>12 DEF AgentDropsClosed, EndSession
<1>17. CASE RestartAgent
  <2>1. restarts' \in Nat /\ faults' \in 0..MaxFaults /\ reports' \subseteq DeltaReports
    BY <1>17 DEF RestartAgent, EntryBreaks, Fault
  <2>2. QED
    BY <1>17, <2>1 DEF RestartAgent, EntryBreaks
<1>18. CASE RestartSaas
  <2>1. faults' \in 0..MaxFaults
    BY <1>18 DEF RestartSaas, Fault
  <2>2. QED
    BY <1>18, <2>1 DEF RestartSaas
<1>19. CASE UNCHANGED vars
  BY <1>19 DEF vars
<1>20. QED
  BY <1>1, <1>2, <1>3, <1>4, <1>5, <1>6, <1>7, <1>8, <1>9, <1>10, <1>11, <1>13,
     <1>14, <1>15, <1>16, <1>17, <1>18, <1>19 DEF Next, Saas, Agent, Environment

\* Every variable keeps its type.
THEOREM TypeCorrect == Spec => []TypeOK
  BY TypeInit, TypeStep, PTL DEF Spec

-----------------------------------------------------------------------------

\* What ProcessReport may do to the rows: nothing, or settle a pending one.
LEMMA ReportSettles ==
  ASSUME TypeOK, NEW r \in reports, ProcessReport(r)
  PROVE  \/ UNCHANGED <<execution, booked>>
         \/ /\ r.order \in Orders
            /\ execution[r.order] = "pending"
            /\ r.status = "FILLED"
            /\ execution' = [execution EXCEPT ![r.order] = "filled"]
            /\ booked' = [booked EXCEPT ![r.order] = @ + 1]
         \/ /\ r.order \in Orders
            /\ execution[r.order] = "pending"
            /\ execution' = [execution EXCEPT ![r.order] = "failed"]
            /\ UNCHANGED booked
<1>1. r.order \in Orders /\ booked \in [Orders -> Nat]
  BY DEF TypeOK, DeltaReports
<1>2. [booked EXCEPT ![r.order] = @] = booked
  BY <1>1
<1>3. CASE ~(IsPending(r.order) /\ Bookable(r))
  BY <1>3 DEF ProcessReport
<1>4. CASE IsPending(r.order) /\ Bookable(r)
  <2>1. SettledStatus(r) \in {"filled", "failed"}
    BY <1>4 DEF Bookable, SettledStatus
  <2>2. CASE SettledStatus(r) = "filled"
    BY <1>1, <1>4, <2>2 DEF ProcessReport, IsPending, SettledStatus
  <2>3. CASE SettledStatus(r) = "failed"
    BY <1>1, <1>2, <1>4, <2>3 DEF ProcessReport, IsPending
  <2>4. QED
    BY <2>1, <2>2, <2>3
<1>5. QED
  BY <1>3, <1>4

\* A goroutine that lost its connection is the same goroutine otherwise.
LEMMA OrphanedSame ==
  ASSUME TypeOK, NEW v \in Orphaned
  PROVE  \E w \in workers : /\ v = [w EXCEPT !.connected = FALSE]
                            /\ v.order = w.order
                            /\ v.reply = w.reply
  BY DEF Orphaned, TypeOK, Goroutines

-----------------------------------------------------------------------------

\* A recorded order stays recorded.
LEMMA RowsStay ==
  ASSUME TypeOK, [Next]_vars
  PROVE  /\ \A o \in Orders : execution[o] # "absent" => execution'[o] # "absent"
         /\ lastBucket' >= lastBucket
<1> USE DEF TypeOK, saasVars
<1>1. ASSUME NEW b \in Buckets, NEW E \in SUBSET Engines, CommitTick(b, E)
      PROVE  /\ \A o \in Orders : execution[o] # "absent" => execution'[o] # "absent"
             /\ lastBucket' >= lastBucket
  BY <1>1, PipelineAssumption
     DEF CommitTick, InsertPending, IsNewBucket, PipelineAssumption
<1>2. ASSUME NEW r \in reports, ProcessReport(r)
      PROVE  /\ \A o \in Orders : execution[o] # "absent" => execution'[o] # "absent"
             /\ lastBucket' >= lastBucket
  BY <1>2, ReportSettles DEF ProcessReport
<1>3. ASSUME UNCHANGED <<execution, lastBucket>>
      PROVE  /\ \A o \in Orders : execution[o] # "absent" => execution'[o] # "absent"
             /\ lastBucket' >= lastBucket
  BY <1>3
<1>4. QED
  BY <1>1, <1>2, <1>3
     DEF Next, vars, Saas, Agent, Environment, ScanPending, SendTradeCommand, AbortReport,
         HandleCommand, FailAck, PlaceOrder, SendReport, Connect, Expire, AgentLosesLink,
         HubLosesLink, UnregisterCompares, UnregisterDeletes, AgentDropsClosed,
         RestartAgent, RestartSaas

\* Every action keeps each trace of an order tied to its row.
LEMMA RecordedStep == TypeOK /\ Recorded /\ [Next]_vars => Recorded'
<1> SUFFICES ASSUME TypeOK, Recorded, [Next]_vars PROVE Recorded'
  OBVIOUS
<1> USE DEF saasVars, connVars, agentVars, worldVars
<1>a. /\ \A o \in Orders : execution[o] # "absent" => execution'[o] # "absent"
      /\ lastBucket' >= lastBucket
  BY RowsStay
<1>b. /\ lastBucket \in Nat
      /\ outbox \cup commands \cup seen \subseteq Orders
      /\ \A m \in workers \cup reports : m.order \in Orders
      /\ \A o \in Orders : o[1] \in Buckets
  BY DEF TypeOK, Goroutines, DeltaReports, Orders
<1>1. ASSUME NEW b \in Buckets, NEW E \in SUBSET Engines, CommitTick(b, E)
      PROVE  Recorded'
  <2>1. b \in Nat /\ \A o \in Orders : o[1] \in Nat
    BY <1>b, PipelineAssumption DEF PipelineAssumption
  <2>2. \A o \in Orders : execution'[o] # "absent" => o[1] <= lastBucket'
    BY <1>1, <1>b, <2>1 DEF CommitTick, InsertPending, IsNewBucket, Recorded, Orders
  <2>3. \A o \in outbox' : execution'[o] # "absent"
    <3>1. {b} \X E \subseteq Orders
      BY DEF Orders
    <3>2. \A o \in {b} \X E : execution'[o] # "absent"
      BY <1>1, <3>1 DEF CommitTick, InsertPending
    <3>3. QED
      BY <1>1, <1>a, <1>b, <3>2 DEF CommitTick, DispatchNow, Recorded
  <2>4. QED
    BY <1>1, <1>a, <1>b, <2>2, <2>3 DEF CommitTick, Recorded
<1>2. CASE ScanPending
  BY <1>2, <1>b DEF ScanPending, DispatchNow, Pending, Recorded
<1>3. ASSUME NEW o \in Orders, SendTradeCommand(o) PROVE Recorded'
  BY <1>3, <1>b DEF SendTradeCommand, Recorded
<1>4. ASSUME NEW r \in reports, ProcessReport(r) PROVE Recorded'
  <2>1. \A o \in Orders : execution'[o] # "absent" => execution[o] # "absent"
    BY <1>4, ReportSettles DEF TypeOK
  <2>2. QED
    BY <1>4, <1>a, <1>b, <2>1 DEF ProcessReport, Recorded
<1>5. ASSUME NEW r \in reports, AbortReport(r) PROVE Recorded'
  BY <1>5 DEF AbortReport, Recorded
<1>6. ASSUME NEW o \in Orders, HandleCommand(o) PROVE Recorded'
  BY <1>6, <1>b DEF HandleCommand, Recorded
<1>7. ASSUME NEW o \in Orders, FailAck(o) PROVE Recorded'
  BY <1>7, <1>b DEF FailAck, Recorded
<1>8. ASSUME NEW w \in workers, PlaceOrder(w) PROVE Recorded'
  <2>1. PICK reply :
          /\ workers' = (workers \ {w}) \cup {[w EXCEPT !.reply = reply]}
          /\ executed' = IF ExecutesOrder(reply)
                         THEN [executed EXCEPT ![w.order] = @ + 1] ELSE executed
    BY <1>8 DEF PlaceOrder
  <2>2. [w EXCEPT !.reply = reply].order = w.order
    BY DEF TypeOK, Goroutines
  <2>3. \A m \in workers' : execution[m.order] # "absent"
    BY <2>1, <2>2 DEF Recorded
  <2>4. \A o \in Orders : executed'[o] > 0 => execution[o] # "absent"
    BY <2>1, <1>b DEF Recorded, TypeOK
  <2>5. QED
    BY <1>8, <2>3, <2>4 DEF PlaceOrder, Recorded
<1>9. ASSUME NEW w \in workers, NEW ok \in BOOLEAN, SendReport(w, ok) PROVE Recorded'
  BY <1>9 DEF SendReport, Recorded
<1>10. CASE Connect
  BY <1>10 DEF Connect, Recorded
<1>11. ASSUME NEW o \in Orders, Expire(o) PROVE Recorded'
  BY <1>11 DEF Expire, Recorded
<1>12. \A v \in Orphaned : execution[v.order] # "absent"
  BY OrphanedSame DEF Recorded
<1>13. CASE AgentLosesLink
  BY <1>12, <1>13 DEF AgentLosesLink, EndSession, EntryBreaks, Recorded
<1>14. CASE HubLosesLink
  BY <1>14 DEF HubLosesLink, EntryBreaks, Recorded
<1>15. CASE UnregisterCompares \/ UnregisterDeletes
  BY <1>15 DEF UnregisterCompares, UnregisterDeletes, Recorded
<1>16. CASE AgentDropsClosed
  BY <1>12, <1>16 DEF AgentDropsClosed, EndSession, Recorded
<1>17. CASE RestartAgent
  BY <1>17 DEF RestartAgent, EntryBreaks, Recorded
<1>18. CASE RestartSaas
  BY <1>18 DEF RestartSaas, Recorded
<1>19. CASE UNCHANGED vars
  BY <1>19 DEF vars, Recorded
<1>20. QED
  BY <1>1, <1>2, <1>3, <1>4, <1>5, <1>6, <1>7, <1>8, <1>9, <1>10, <1>11, <1>13,
     <1>14, <1>15, <1>16, <1>17, <1>18, <1>19 DEF Next, Saas, Agent, Environment

-----------------------------------------------------------------------------

\* Every action keeps the evidence for each claimed fill.
LEMMA EvidenceStep == TypeOK /\ Evidence /\ [Next]_vars => Evidence'
<1> SUFFICES ASSUME TypeOK, Evidence, [Next]_vars PROVE Evidence'
  OBVIOUS
<1> USE DEF saasVars, connVars, agentVars, worldVars
<1>a. /\ execution \in [Orders -> {"absent", "pending", "filled", "failed"}]
      /\ booked \in [Orders -> Nat]
      /\ executed \in [Orders -> Nat]
      /\ restarts \in Nat
      /\ \A m \in workers \cup reports : m.order \in Orders
  BY DEF TypeOK, Goroutines, DeltaReports
<1>1. ASSUME NEW b \in Buckets, NEW E \in SUBSET Engines, CommitTick(b, E)
      PROVE  Evidence'
  <2>1. \A o \in Orders : execution'[o] = "filled" <=> execution[o] = "filled"
    BY <1>1, <1>a DEF CommitTick, InsertPending
  <2>2. QED
    BY <1>1, <2>1 DEF CommitTick, Evidence
<1>2. CASE ScanPending
  BY <1>2 DEF ScanPending, Evidence
<1>3. ASSUME NEW o \in Orders, SendTradeCommand(o) PROVE Evidence'
  BY <1>3 DEF SendTradeCommand, Evidence
<1>4. ASSUME NEW r \in reports, ProcessReport(r) PROVE Evidence'
  <2>1. /\ \A o \in Orders : execution'[o] = "filled" => executed[o] > 0
        /\ \A o \in Orders : booked'[o] = (IF execution'[o] = "filled" THEN 1 ELSE 0)
    BY <1>4, <1>a, ReportSettles DEF Evidence
  <2>2. QED
    BY <1>4, <2>1 DEF ProcessReport, Evidence
<1>5. ASSUME NEW r \in reports, AbortReport(r) PROVE Evidence'
  BY <1>5 DEF AbortReport, Evidence
<1>6. ASSUME NEW o \in Orders, HandleCommand(o) PROVE Evidence'
  BY <1>6 DEF HandleCommand, Evidence, ExecutesOrder
<1>7. ASSUME NEW o \in Orders, FailAck(o) PROVE Evidence'
  BY <1>7 DEF FailAck, Evidence
<1>8. ASSUME NEW w \in workers, PlaceOrder(w) PROVE Evidence'
  <2>1. PICK reply :
          /\ workers' = (workers \ {w}) \cup {[w EXCEPT !.reply = reply]}
          /\ executed' = IF ExecutesOrder(reply)
                         THEN [executed EXCEPT ![w.order] = @ + 1] ELSE executed
    BY <1>8 DEF PlaceOrder
  <2>2. /\ [w EXCEPT !.reply = reply].order = w.order
        /\ [w EXCEPT !.reply = reply].reply = reply
    BY DEF TypeOK, Goroutines
  <2>3. \A o \in Orders : executed[o] > 0 => executed'[o] > 0
    BY <2>1, <1>a
  <2>4. ExecutesOrder(reply) => executed'[w.order] > 0
    BY <2>1, <1>a
  <2>5. \A v \in workers' : ExecutesOrder(v.reply) => executed'[v.order] > 0
    BY <1>a, <2>1, <2>2, <2>3, <2>4 DEF Evidence
  <2>6. QED
    BY <1>8, <1>a, <2>3, <2>5 DEF PlaceOrder, Evidence
<1>9. ASSUME NEW w \in workers, NEW ok \in BOOLEAN, SendReport(w, ok) PROVE Evidence'
  <2>1. ReportStatus(w.reply, ok) = "FILLED" => executed[w.order] > 0
    BY <1>9 DEF SendReport, ReportStatus, IsError, ExecutesOrder, Evidence, TypeOK,
                Goroutines, ReplyKinds
  <2>2. \A r \in reports' : r.status = "FILLED" => executed[r.order] > 0
    BY <1>9, <2>1 DEF SendReport, Evidence
  <2>3. QED
    BY <1>9, <2>2 DEF SendReport, Evidence
<1>10. CASE Connect
  BY <1>10 DEF Connect, Evidence
<1>11. ASSUME NEW o \in Orders, Expire(o) PROVE Evidence'
  BY <1>11 DEF Expire, Evidence
<1>12. \A v \in Orphaned : ExecutesOrder(v.reply) => executed[v.order] > 0
  BY OrphanedSame DEF Evidence
<1>13. CASE AgentLosesLink
  BY <1>12, <1>13 DEF AgentLosesLink, EndSession, EntryBreaks, Evidence
<1>14. CASE HubLosesLink
  BY <1>14 DEF HubLosesLink, EntryBreaks, Evidence
<1>15. CASE UnregisterCompares \/ UnregisterDeletes
  BY <1>15 DEF UnregisterCompares, UnregisterDeletes, Evidence
<1>16. CASE AgentDropsClosed
  BY <1>12, <1>16 DEF AgentDropsClosed, EndSession, Evidence
<1>17. CASE RestartAgent
  BY <1>17 DEF RestartAgent, EntryBreaks, Evidence
<1>18. CASE RestartSaas
  BY <1>18 DEF RestartSaas, Evidence
<1>19. CASE UNCHANGED vars
  BY <1>19 DEF vars, Evidence
<1>20. QED
  BY <1>1, <1>2, <1>3, <1>4, <1>5, <1>6, <1>7, <1>8, <1>9, <1>10, <1>11, <1>13,
     <1>14, <1>15, <1>16, <1>17, <1>18, <1>19 DEF Next, Saas, Agent, Environment

-----------------------------------------------------------------------------

\* Every action keeps the count of executions within the count of processes.
LEMMA OnceStep == TypeOK /\ OncePerProcess /\ [Next]_vars => OncePerProcess'
<1> SUFFICES ASSUME TypeOK, OncePerProcess, [Next]_vars PROVE OncePerProcess'
  OBVIOUS
<1> USE DEF saasVars, connVars, agentVars, worldVars
<1>a. /\ executed \in [Orders -> Nat]
      /\ restarts \in Nat
      /\ seen \subseteq Orders
      /\ \A w \in workers : w.order \in Orders
  BY DEF TypeOK, Goroutines
<1>1. ASSUME NEW o \in Orders, HandleCommand(o) PROVE OncePerProcess'
  <2>1. CASE o \in seen
    <3>1. seen' = seen /\ workers' = workers
      BY <1>1, <2>1 DEF HandleCommand, IsDuplicate
    <3>2. QED
      BY <1>1, <3>1 DEF HandleCommand, OncePerProcess
  <2>2. CASE o \notin seen
    <3> DEFINE new == [order |-> o, connected |-> TRUE, reply |-> "none"]
    <3>1. workers' = workers \cup {new} /\ seen' = seen \cup {o}
      BY <1>1, <2>2 DEF HandleCommand, IsDuplicate
    <3>2. new.order = o /\ new.reply = "none" /\ executed[o] <= restarts
      BY <2>2 DEF OncePerProcess
    <3>3. \A w \in workers : w.order # o
      BY <2>2 DEF OncePerProcess
    <3> HIDE DEF new
    <3>4. \A v, w \in workers' : v.order = w.order => v = w
      BY <3>1, <3>2, <3>3 DEF OncePerProcess
    <3>5. QED
      BY <1>1, <3>1, <3>2, <3>4 DEF HandleCommand, OncePerProcess
  <2>3. QED
    BY <2>1, <2>2
<1>2. ASSUME NEW o \in Orders, FailAck(o) PROVE OncePerProcess'
  BY <1>2 DEF FailAck, OncePerProcess
<1>3. ASSUME NEW w \in workers, PlaceOrder(w) PROVE OncePerProcess'
  <2>1. PICK reply \in (IF w.order \in expired THEN {"late"} ELSE Replies) :
          /\ workers' = (workers \ {w}) \cup {[w EXCEPT !.reply = reply]}
          /\ executed' = IF ExecutesOrder(reply)
                         THEN [executed EXCEPT ![w.order] = @ + 1] ELSE executed
    BY <1>3 DEF PlaceOrder
  <2> DEFINE answered == [w EXCEPT !.reply = reply]
  <2>2. answered.order = w.order /\ answered.reply # "none"
    BY <2>1, PipelineAssumption DEF TypeOK, Goroutines, PipelineAssumption, ReplyKinds
  <2> HIDE DEF answered
  <2>3. workers' = (workers \ {w}) \cup {answered}
    BY <2>1 DEF answered
  <2>4. executed[w.order] <= restarts /\ w.order \in seen
    BY <1>3 DEF PlaceOrder, OncePerProcess
  <2>5. /\ \A o \in Orders : o # w.order => executed'[o] = executed[o]
        /\ executed'[w.order] <= restarts + 1
    BY <2>1, <2>4, <1>a
  <2>6. \A v \in workers' : v # answered => v \in workers /\ v.order # w.order
    BY <2>3 DEF OncePerProcess
  <2>7. \A u, v \in workers' : u.order = v.order => u = v
    BY <2>2, <2>3, <2>6 DEF OncePerProcess
  <2>8. \A v \in workers' : v.reply = "none" => executed'[v.order] <= restarts
    BY <1>a, <2>2, <2>5, <2>6 DEF OncePerProcess
  <2>9. /\ \A v \in workers' : v.order \in seen
        /\ \A o \in Orders : executed'[o] <= restarts + 1
        /\ \A o \in Orders \ seen : executed'[o] <= restarts
    BY <2>2, <2>3, <2>4, <2>5 DEF OncePerProcess
  <2>10. QED
    BY <1>3, <2>7, <2>8, <2>9 DEF PlaceOrder, OncePerProcess
<1>4. ASSUME NEW w \in workers, NEW ok \in BOOLEAN, SendReport(w, ok)
      PROVE  OncePerProcess'
  BY <1>4 DEF SendReport, OncePerProcess
<1>5. /\ \A v \in Orphaned : v.order \in seen
      /\ \A u, v \in Orphaned : u.order = v.order => u = v
      /\ \A v \in Orphaned : v.reply = "none" => executed[v.order] <= restarts
  <2>1. ASSUME NEW u \in Orphaned, NEW v \in Orphaned, u.order = v.order
        PROVE  u = v
    <3>1. PICK x \in workers : u = [x EXCEPT !.connected = FALSE] /\ u.order = x.order
      BY OrphanedSame
    <3>2. PICK y \in workers : v = [y EXCEPT !.connected = FALSE] /\ v.order = y.order
      BY OrphanedSame
    <3>3. x = y
      BY <2>1, <3>1, <3>2 DEF OncePerProcess
    <3>4. QED
      BY <3>1, <3>2, <3>3
  <2>2. QED
    BY <2>1, OrphanedSame DEF OncePerProcess
<1>6. CASE AgentLosesLink
  BY <1>5, <1>6 DEF AgentLosesLink, EndSession, EntryBreaks, OncePerProcess
<1>7. CASE AgentDropsClosed
  BY <1>5, <1>7 DEF AgentDropsClosed, EndSession, OncePerProcess
<1>8. CASE RestartAgent
  BY <1>8, <1>a DEF RestartAgent, EntryBreaks, OncePerProcess
<1>9. CASE UNCHANGED <<seen, workers, executed, restarts>>
  BY <1>9 DEF OncePerProcess
<1>10. QED
  BY <1>1, <1>2, <1>3, <1>4, <1>6, <1>7, <1>8, <1>9
     DEF Next, vars, Saas, Agent, Environment, CommitTick, ScanPending, SendTradeCommand,
         ProcessReport, AbortReport, Connect, Expire, HubLosesLink,
         UnregisterCompares, UnregisterDeletes, RestartSaas

-----------------------------------------------------------------------------

IInv == TypeOK /\ Recorded /\ Evidence /\ OncePerProcess

\* The inductive invariant holds of every behaviour.
LEMMA Inductive == Spec => []IInv
<1>1. Init => IInv
  <2>1. Init => Recorded /\ Evidence /\ OncePerProcess
    BY PipelineAssumption DEF Init, Recorded, Evidence, OncePerProcess
  <2>2. QED
    BY <2>1, TypeInit DEF IInv
<1>2. IInv /\ [Next]_vars => IInv'
  BY TypeStep, RecordedStep, EvidenceStep, OnceStep DEF IInv
<1>3. QED
  BY <1>1, <1>2, PTL DEF Spec

\* A fill is in the ledger exactly when its order is filled, and only if the
\* exchange executed it: re-dispatches, restarts, lost answers and duplicate
\* reports never book an order twice or book one that was not executed.
THEOREM LedgerSafety == Spec => []BooksOnlyExecutions
<1>1. IInv => BooksOnlyExecutions
  BY DEF IInv, TypeOK, Evidence, BooksOnlyExecutions
<1>2. QED
  BY <1>1, Inductive, PTL

\* No command is on the wire, at the agent or at the exchange without its row.
THEOREM RecordedFirst == Spec => []RecordedBeforeSent
<1>1. IInv => RecordedBeforeSent
  BY DEF IInv, Recorded, RecordedBeforeSent
<1>2. QED
  BY <1>1, Inductive, PTL

\* One agent process executes an order at most once.
THEOREM ExecutionBound == Spec => []OneExecutionPerProcess
<1>1. IInv => OneExecutionPerProcess
  BY DEF IInv, OncePerProcess, OneExecutionPerProcess
<1>2. QED
  BY <1>1, Inductive, PTL

-----------------------------------------------------------------------------

\* Every step of the pipeline is a step of the contract or leaves its three
\* variables alone.
LEMMA StepKeepsContract ==
  IInv /\ [Next]_vars => [Contract!Next]_(Contract!cvars)
<1> SUFFICES ASSUME IInv, [Next]_vars PROVE [Contract!Next]_(Contract!cvars)
  OBVIOUS
<1> USE DEF saasVars, connVars, agentVars, worldVars, Contract!cvars
<1>a. /\ execution \in [Orders -> {"absent", "pending", "filled", "failed"}]
      /\ booked \in [Orders -> Nat]
      /\ executed \in [Orders -> Nat]
      /\ \A m \in workers \cup reports : m.order \in Orders
  BY DEF IInv, TypeOK, Goroutines, DeltaReports
<1>1. ASSUME NEW b \in Buckets, NEW E \in SUBSET Engines, CommitTick(b, E)
      PROVE  Contract!Next
  <2> DEFINE S == {o \in {b} \X E : execution[o] = "absent"}
  <2>1. S \in SUBSET Orders
    BY DEF Orders
  <2>2. execution' = [o \in Orders |-> IF o \in S THEN "pending" ELSE execution[o]]
    BY <1>1 DEF CommitTick, InsertPending
  <2>3. Contract!Record(S)
    BY <1>1, <2>2 DEF CommitTick, Contract!Record
  <2>4. QED
    BY <2>1, <2>3 DEF Contract!Next
<1>2. ASSUME NEW r \in reports, ProcessReport(r)
      PROVE  [Contract!Next]_(Contract!cvars)
  <2>1. UNCHANGED executed
    BY <1>2 DEF ProcessReport
  <2>2. r.status = "FILLED" => executed[r.order] > 0
    BY DEF IInv, Evidence
  <2>3. CASE UNCHANGED <<execution, booked>>
    BY <2>1, <2>3
  <2>4. CASE /\ r.order \in Orders
             /\ execution[r.order] = "pending"
             /\ r.status = "FILLED"
             /\ execution' = [execution EXCEPT ![r.order] = "filled"]
             /\ booked' = [booked EXCEPT ![r.order] = @ + 1]
    BY <2>1, <2>2, <2>4 DEF Contract!Next, Contract!Book
  <2>5. CASE /\ r.order \in Orders
             /\ execution[r.order] = "pending"
             /\ execution' = [execution EXCEPT ![r.order] = "failed"]
             /\ UNCHANGED booked
    BY <2>1, <2>5 DEF Contract!Next, Contract!Fail
  <2>6. QED
    BY <1>2, <2>3, <2>4, <2>5, ReportSettles DEF IInv
<1>3. ASSUME NEW w \in workers, PlaceOrder(w)
      PROVE  [Contract!Next]_(Contract!cvars)
  <2>1. PICK reply :
          executed' = IF ExecutesOrder(reply)
                      THEN [executed EXCEPT ![w.order] = @ + 1] ELSE executed
    BY <1>3 DEF PlaceOrder
  <2>2. UNCHANGED <<execution, booked>>
    BY <1>3 DEF PlaceOrder
  <2>3. execution[w.order] # "absent"
    BY DEF IInv, Recorded
  <2>4. CASE ExecutesOrder(reply)
    BY <1>a, <2>1, <2>2, <2>3, <2>4 DEF Contract!Next, Contract!Execute
  <2>5. CASE ~ExecutesOrder(reply)
    BY <2>1, <2>2, <2>5
  <2>6. QED
    BY <2>4, <2>5
<1>4. CASE UNCHANGED <<execution, executed, booked>>
  BY <1>4
<1>5. QED
  BY <1>1, <1>2, <1>3, <1>4
     DEF Next, vars, Saas, Agent, Environment, ScanPending, SendTradeCommand, AbortReport,
         HandleCommand, FailAck, SendReport, Connect, Expire, AgentLosesLink,
         HubLosesLink, UnregisterCompares, UnregisterDeletes, AgentDropsClosed,
         RestartAgent, RestartSaas

\* The pipeline implements the contract of one order.
THEOREM Implements == Spec => KeepsContract
<1>1. Init => Contract!Init
  BY DEF Init, Contract!Init
<1>2. QED
  BY <1>1, StepKeepsContract, Inductive, PTL DEF Spec, KeepsContract, Contract!Spec

-----------------------------------------------------------------------------
(***************************************************************************)
(* AgentHub, the registry behind the pipeline's connection, for every set  *)
(* of connections and senders.  NoDeadEntry is inductive once the          *)
(* variables have their types: only Register makes an entry, of a          *)
(* connection about to be served, and a handler returns from where its     *)
(* connection is not the entry.                                            *)
(***************************************************************************)

HubInv == HubTypeOK /\ NoDeadEntry

\* Types of the variables hold in the initial states.
LEMMA HubTypeInit == HubInit => HubTypeOK
  <1> SUFFICES ASSUME HubInit PROVE HubTypeOK
    OBVIOUS
  <1>1. wire \in [Conns -> Seq({"auth_result", "command"})]
    BY DEF HubInit
  <1> QED
    BY <1>1 DEF HubInit, HubTypeOK, Places

\* A frame written or taken leaves sequences of frames.
LEMMA FrameWritten ==
  ASSUME HubTypeOK, NEW c \in Conns, NEW frame \in {"auth_result", "command"}, Write(c, frame)
  PROVE  wire' \in [Conns -> Seq({"auth_result", "command"})]
  <1>1. Append(wire[c], frame) \in Seq({"auth_result", "command"})
    BY DEF HubTypeOK
  <1> QED
    BY <1>1 DEF HubTypeOK, Write

LEMMA FrameTaken ==
  ASSUME HubTypeOK, NEW c \in Conns, wire[c] # <<>>, wire' = [wire EXCEPT ![c] = Tail(@)]
  PROVE  wire' \in [Conns -> Seq({"auth_result", "command"})]
  <1>1. Tail(wire[c]) \in Seq({"auth_result", "command"})
    BY DEF HubTypeOK
  <1> QED
    BY <1>1 DEF HubTypeOK

\* Types of the variables hold after every step.
LEMMA HubTypeStep == HubTypeOK /\ [HubNext]_hubVars => HubTypeOK'
  <1> SUFFICES ASSUME HubTypeOK, [HubNext]_hubVars PROVE HubTypeOK'
    OBVIOUS
  <1>1. CASE UNCHANGED hubVars
    BY <1>1 DEF HubTypeOK, hubVars
  <1>2. ASSUME NEW c \in Conns, HandlerStep(c) PROVE HubTypeOK'
    <2>1. CASE AcceptAuth(c)
      BY <2>1 DEF AcceptAuth, HandlerGoes, HubTypeOK, Places
    <2>2. CASE RejectAuth(c)
      BY <2>2 DEF RejectAuth, HandlerGoes, HubTypeOK, Places
    <2>3. CASE Register(c)
      BY <2>3 DEF Register, HandlerGoes, HubTypeOK, Places
    <2>4. CASE CloseOld(c)
      BY <2>4 DEF CloseOld, HandlerGoes, HubTypeOK, Places
    <2>5. CASE WriteAuthResult(c)
      <3>1. CASE hubEnd[c] = "open"
        BY <2>5, <3>1, FrameWritten DEF WriteAuthResult, HandlerGoes, HubTypeOK, Places
      <3>2. CASE hubEnd[c] # "open"
        BY <2>5, <3>2 DEF WriteAuthResult, HandlerGoes, HubTypeOK, Places
      <3> QED BY <3>1, <3>2
    <2>6. CASE ReadFails(c)
      BY <2>6 DEF ReadFails, HandlerGoes, HubTypeOK, Places
    <2>7. CASE UnregisterLoad(c)
      BY <2>7 DEF UnregisterLoad, HandlerGoes, HubTypeOK, Places
    <2>8. CASE UnregisterDelete(c)
      BY <2>8 DEF UnregisterDelete, HandlerGoes, HubTypeOK, Places
    <2> QED
      BY <1>2, <2>1, <2>2, <2>3, <2>4, <2>5, <2>6, <2>7, <2>8 DEF HandlerStep
  <1>3. ASSUME NEW c \in Conns, AgentStep(c) \/ LinkBreaks(c) PROVE HubTypeOK'
    <2>1. CASE Dial(c)
      BY <2>1 DEF Dial, HandlerGoes, AgentGoes, HubTypeOK, Places
    <2>2. CASE ReadAuthResult(c)
      BY <2>2, FrameTaken DEF ReadAuthResult, AgentGoes, HubTypeOK
    <2>3. CASE ReadFrame(c)
      BY <2>3, FrameTaken DEF ReadFrame, HubTypeOK
    <2>4. CASE DropsClosed(c)
      BY <2>4 DEF DropsClosed, AgentGoes, HubTypeOK
    <2>5. CASE LinkBreaks(c)
      BY <2>5 DEF LinkBreaks, AgentGoes, HubTypeOK
    <2> QED
      BY <1>3, <2>1, <2>2, <2>3, <2>4, <2>5 DEF AgentStep
  <1>4. ASSUME NEW s \in Senders, SendLoad(s) PROVE HubTypeOK'
    BY <1>4 DEF SendLoad, HubTypeOK
  <1>5. ASSUME NEW s \in Senders, SendWrite(s) PROVE HubTypeOK'
    <2>1. target[s] \in Conns
      BY <1>5 DEF SendWrite, HubTypeOK
    <2>2. wire' \in [Conns -> Seq({"auth_result", "command"})]
      BY <1>5, <2>1, FrameWritten DEF SendWrite, HubTypeOK
    <2> QED
      BY <1>5, <2>2 DEF SendWrite, HubTypeOK
  <1>6. CASE Exhausted
    BY <1>6 DEF Exhausted, HubTypeOK, hubVars
  <1> QED
    BY <1>1, <1>2, <1>3, <1>4, <1>5, <1>6 DEF HubNext

\* An entry is never left behind by a handler that returns.
LEMMA EntryStep == HubInv /\ [HubNext]_hubVars => NoDeadEntry'
  <1> SUFFICES ASSUME HubInv, [HubNext]_hubVars PROVE NoDeadEntry'
    OBVIOUS
  <1> USE DEF HubInv
  <1>1. CASE UNCHANGED <<entry, handler>>
    BY <1>1 DEF NoDeadEntry
  <1>2. ASSUME NEW c \in Conns, HandlerStep(c) PROVE NoDeadEntry'
    <2>1. CASE AcceptAuth(c)
      BY <2>1 DEF AcceptAuth, HandlerGoes, NoDeadEntry, HubTypeOK
    <2>2. CASE RejectAuth(c)
      BY <2>2 DEF RejectAuth, HandlerGoes, NoDeadEntry, HubTypeOK
    <2>3. CASE Register(c)
      BY <2>3 DEF Register, HandlerGoes, NoDeadEntry, HubTypeOK
    <2>4. CASE CloseOld(c)
      BY <2>4 DEF CloseOld, HandlerGoes, NoDeadEntry, HubTypeOK
    <2>5. CASE WriteAuthResult(c)
      BY <2>5 DEF WriteAuthResult, HandlerGoes, NoDeadEntry, HubTypeOK
    <2>6. CASE ReadFails(c)
      BY <2>6 DEF ReadFails, HandlerGoes, NoDeadEntry, HubTypeOK
    <2>7. CASE UnregisterLoad(c)
      BY <2>7 DEF UnregisterLoad, HandlerGoes, NoDeadEntry, HubTypeOK
    <2>8. CASE UnregisterDelete(c)
      BY <2>8 DEF UnregisterDelete, NoDeadEntry
    <2> QED
      BY <1>2, <2>1, <2>2, <2>3, <2>4, <2>5, <2>6, <2>7, <2>8 DEF HandlerStep
  <1>3. ASSUME NEW c \in Conns, Dial(c) PROVE NoDeadEntry'
    BY <1>3 DEF Dial, HandlerGoes, NoDeadEntry, HubTypeOK
  <1>4. ASSUME NEW c \in Conns, AgentStep(c) \/ LinkBreaks(c), ~Dial(c)
      PROVE  NoDeadEntry'
    BY <1>1, <1>4
    DEF AgentStep, LinkBreaks, ReadAuthResult, ReadFrame, DropsClosed
  <1>5. ASSUME NEW s \in Senders, SendLoad(s) \/ SendWrite(s) PROVE NoDeadEntry'
    BY <1>1, <1>5 DEF SendLoad, SendWrite
  <1> QED
    BY <1>1, <1>2, <1>3, <1>4, <1>5 DEF HubNext, Exhausted, hubVars

\* Both hold in every reachable state.
LEMMA HubInductive == HubSpec => []HubInv
  <1>1. HubInit => HubInv
    BY HubTypeInit DEF HubInv, HubInit, NoDeadEntry
  <1>2. HubInv /\ [HubNext]_hubVars => HubInv'
    BY HubTypeStep, EntryStep DEF HubInv
  <1> QED
    BY <1>1, <1>2, PTL DEF HubSpec

\* Every variable of the registry keeps its type (hub.agents, the handlers and
\* the sockets), for any number of connections, senders and commands.
THEOREM HubTypeCorrect == HubSpec => []HubTypeOK
  <1>1. HubInv => HubTypeOK
    BY DEF HubInv
  <1> QED
    BY <1>1, HubInductive, PTL

\* However register, the non-atomic unregister and the senders interleave, no
\* handler returns leaving its connection in hub.agents.
THEOREM RegistryIsServed == HubSpec => []NoDeadEntry
  <1>1. HubInv => NoDeadEntry
    BY DEF HubInv
  <1> QED
    BY <1>1, HubInductive, PTL
==============================================================================
