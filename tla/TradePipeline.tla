---------------------------- MODULE TradePipeline ----------------------------
(***************************************************************************)
(* The life of a trade command: the SaaS tick commits a pending            *)
(* spot_executions row and sends the command over the agent's websocket,   *)
(* later ticks send every pending command again, the agent executes it in  *)
(* a goroutine of its own and reports, and the hub books the report.       *)
(*                                                                         *)
(* The interesting part is what goes wrong in between: either process may  *)
(* restart, the connection may break with frames in flight, a command may  *)
(* expire, the exchange may execute an order and lose its answer, and a    *)
(* booking transaction may abort.                                          *)
(*                                                                         *)
(* Abstractions.  One instance, RUNNING all the time, and its one agent.   *)
(* Of a connection three things matter: whether the agent still runs it,   *)
(* whether the hub still reads it, and whether the hub's entry is that     *)
(* connection.  These are not the same: unregister compares and deletes in *)
(* two steps, and its Delete may take away the entry of a newer connection *)
(* that is read and answered as before.  AgentHub has the rest of the      *)
(* registry.  Quantities, lots and balances are in SpotLedger: here        *)
(* booking an order is one counter.                                        *)
(* Messages on a connection are sets, because goroutines on both sides     *)
(* race to write them; a report carries the agent process that made it, so *)
(* no two reports are equal and report_id needs no field (the agent never  *)
(* sends a report twice).                                                  *)
(***************************************************************************)
EXTENDS Naturals, FiniteSets

CONSTANTS
  Buckets,      \* the closed bars a tick may process, by open time
  Engines,      \* "MACRO" and "MICRO" in the code
  Replies,      \* how the exchange may answer an order, see ReplyKinds
  FaultKinds,   \* the faults that may happen, see AllFaults
  MaxFaults     \* bounds how many of them happen

VARIABLES
  lastBucket,   \* portfolio_states.last_processed_bar_time
  execution,    \* spot_executions.status by client_order_id
  booked,       \* times a fill entered lots, bucket and trade_records
  outbox,       \* orders some tick goroutine is about to send
  hub,          \* hub.agents entry: "none", the agent's "live" connection, one that
                \* broke ("stale"), or one whose handler has found itself there ("leaving")
  deletes,      \* handlers between unregister's compare and its Delete
  session,      \* the agent runs an authenticated session
  linked,       \* the hub reads the connection of that session
  commands,     \* command frames on the live connection, not yet read
  seen,         \* AgentClient.seen, in the memory of the agent process
  workers,      \* executeCommand goroutines of the agent process
  reports,      \* delta_report frames the hub may still read
  executed,     \* times the exchange executed the order, in whole or in part
  expired,      \* orders past their expires_at_ms
  restarts,     \* agent processes so far, less one
  faults        \* faults so far

saasVars == <<lastBucket, execution, booked, outbox>>
agentVars == <<seen, workers, restarts>>
worldVars == <<executed, expired>>
connVars == <<hub, deletes, session, linked>>
vars == <<lastBucket, execution, booked, outbox, hub, deletes, session, linked, commands,
          seen, workers, reports, executed, expired, restarts, faults>>

-----------------------------------------------------------------------------
(***************************************************************************)
(* Orders and the exchange's answers.                                      *)
(***************************************************************************)

\* buildTradeCommands: inst{id}-{engine}-{bucket}, one order per engine and bucket.
Orders == Buckets \X Engines

\* PlaceOrder's outcomes on the two exchanges.  "full": FILLED with quantities.
\* "bare": FILLED without any, as the Bitget client answers every order.  "cut"
\* and "unfilled": EXPIRED after a partial fill and after none.  "working": any
\* other status.  "refused" and "lost" come back as errors, and a lost answer
\* belongs to an order the exchange did execute.
ReplyKinds == {"full", "bare", "cut", "unfilled", "working", "refused", "lost"}

\* A broken connection, a restart of either process, a command_ack that cannot
\* be written, a report whose transaction is rolled back.
AllFaults == {"link", "agent", "saas", "ack", "abort"}

ASSUME PipelineAssumption ==
  /\ Buckets \subseteq Nat \ {0}
  /\ Replies \subseteq ReplyKinds
  /\ FaultKinds \subseteq AllFaults
  /\ MaxFaults \in Nat

ExecutesOrder(reply) == reply \in {"full", "bare", "cut", "working", "lost"}

\* "late" is validateCommand's refusal of an expired command.
IsError(reply) == reply \in {"refused", "lost", "late"}

\* Mutant: only a tick's own commands are ever sent.
PendingForgotten == {}

Pending == {o \in Orders : execution[o] = "pending"}

Goroutines ==
  [order : Orders, connected : BOOLEAN, reply : ReplyKinds \cup {"none", "late"}]

DeltaReports ==
  [order : Orders, process : Nat, priced : BOOLEAN,
   status : {"FILLED", "EXPIRED", "FAILED", "NEW"}]

\* Every variable has its type.
TypeOK ==
  /\ lastBucket \in Nat
  /\ execution \in [Orders -> {"absent", "pending", "filled", "failed"}]
  /\ booked \in [Orders -> Nat]
  /\ outbox \subseteq Orders
  /\ hub \in {"none", "live", "stale", "leaving"}
  /\ deletes \in Nat
  /\ session \in BOOLEAN /\ linked \in BOOLEAN
  /\ commands \subseteq Orders
  /\ seen \subseteq Orders
  /\ workers \subseteq Goroutines
  /\ reports \subseteq DeltaReports
  /\ executed \in [Orders -> Nat]
  /\ expired \subseteq Orders
  /\ restarts \in Nat
  /\ faults \in 0..MaxFaults

Init ==
  /\ lastBucket = 0
  /\ execution = [o \in Orders |-> "absent"]
  /\ booked = [o \in Orders |-> 0]
  /\ outbox = {}
  /\ hub = "none" /\ deletes = 0
  /\ session = FALSE /\ linked = FALSE
  /\ commands = {}
  /\ seen = {}
  /\ workers = {}
  /\ reports = {}
  /\ executed = [o \in Orders |-> 0]
  /\ expired = {}
  /\ restarts = 0
  /\ faults = 0

Fault(kind) ==
  /\ kind \in FaultKinds
  /\ faults < MaxFaults
  /\ faults' = faults + 1

-----------------------------------------------------------------------------
(***************************************************************************)
(* SaaS: the tick.                                                         *)
(***************************************************************************)

IsNewBucket(b) == b > lastBucket

\* IsAgentConnected: without an entry nothing is dispatched, be it the commands of a
\* tick that has committed or the pending ones.
DispatchNow(S) == IF hub # "none" THEN S ELSE {}

\* Mutant: the commands of a tick are sent although its rows were rolled back.
InsertNothing(S) == execution

\* INSERT ... ON CONFLICT DO NOTHING of the pending rows of a tick.
InsertPending(S) ==
  [o \in Orders |-> IF o \in S /\ execution[o] = "absent" THEN "pending" ELSE execution[o]]

\* The tick transaction for bucket b, whose Step() emitted intents for the
\* engines E: rows inserted, bucket marked processed, commands kept for sending.
CommitTick(b, E) ==
  LET new == {b} \X E IN
  /\ IsNewBucket(b)
  /\ lastBucket' = b
  /\ execution' = InsertPending(new)
  /\ outbox' = outbox \cup DispatchNow(new)
  /\ UNCHANGED <<booked, connVars, commands, agentVars, reports, worldVars, faults>>

\* DispatchPending's read: every pending row, if the agent is connected.  A
\* tick scans before its transaction; a scan that fails is only logged.
ScanPending ==
  /\ outbox' = outbox \cup DispatchNow(Pending)
  /\ UNCHANGED <<lastBucket, execution, booked, connVars, commands, agentVars,
                 reports, worldVars, faults>>

\* SendTradeCommand: writes to the hub's current entry.  A broken connection
\* swallows the frame, a missing one is an audited error; nothing is retried here.
SendTradeCommand(o) ==
  /\ o \in outbox
  /\ outbox' = outbox \ {o}
  /\ commands' = IF hub = "live" THEN commands \cup {o} ELSE commands
  /\ UNCHANGED <<lastBucket, execution, booked, connVars, agentVars, reports,
                 worldVars, faults>>

-----------------------------------------------------------------------------
(***************************************************************************)
(* SaaS: processDeltaReport.                                               *)
(***************************************************************************)

\* Mutant: EXPIRED is not known.
SettledStatusNoExpired(r) ==
  CASE r.status = "FILLED" -> "filled"
    [] r.status = "FAILED" -> "failed"
    [] OTHER -> "unsupported"

\* reportExecutionStatus; "unsupported" is its error.
SettledStatus(r) ==
  CASE r.status = "FILLED" -> "filled"
    [] r.status \in {"EXPIRED", "FAILED"} -> "failed"
    [] OTHER -> "unsupported"

\* The transaction goes through: a known status, and a fill that has a
\* positive quantity and price.
Bookable(r) ==
  /\ SettledStatus(r) # "unsupported"
  /\ SettledStatus(r) = "filled" => r.priced

\* Mutant: a report is booked whatever became of the order.
IsRecorded(o) == execution[o] # "absent"

\* Mutant: a fill reported late overrides a failure.
IsNotFilled(o) == execution[o] # "filled"

IsPending(o) == execution[o] = "pending"

\* The row is locked first, so a report settles a pending order or changes
\* nothing but balances; a rollback leaves the order pending.
ProcessReport(r) ==
  LET o == r.order IN
  /\ r \in reports
  /\ reports' = reports \ {r}
  /\ IF IsPending(o) /\ Bookable(r)
       THEN /\ execution' = [execution EXCEPT ![o] = SettledStatus(r)]
            /\ booked' = [booked EXCEPT ![o] =
                            IF SettledStatus(r) = "filled" THEN @ + 1 ELSE @]
       ELSE UNCHANGED <<execution, booked>>
  /\ UNCHANGED <<lastBucket, outbox, connVars, commands, agentVars, worldVars, faults>>

\* The transaction is rolled back for a reason this module does not see: not
\* enough lots to sell, a deadlock, a database error.  No report_ack is sent
\* and the report is gone.
AbortReport(r) ==
  /\ r \in reports
  /\ Fault("abort")
  /\ reports' = reports \ {r}
  /\ UNCHANGED <<saasVars, connVars, commands, agentVars, worldVars>>

-----------------------------------------------------------------------------
(***************************************************************************)
(* Agent.                                                                  *)
(***************************************************************************)

\* Mutant: the agent does not remember its orders.
IsNeverDuplicate(o) == FALSE

IsDuplicate(o) == o \in seen

\* handleMessage: the id enters seen, then command_ack is written, and only
\* then a new order gets its goroutine.
HandleCommand(o) ==
  /\ session
  /\ o \in commands
  /\ commands' = commands \ {o}
  /\ seen' = seen \cup {o}
  /\ workers' = IF IsDuplicate(o) THEN workers
                ELSE workers \cup {[order |-> o, connected |-> TRUE, reply |-> "none"]}
  /\ UNCHANGED <<saasVars, connVars, reports, worldVars, restarts, faults>>

\* Writing command_ack fails: the id stays in seen and nothing is executed.
FailAck(o) ==
  /\ session
  /\ o \in commands
  /\ Fault("ack")
  /\ commands' = commands \ {o}
  /\ seen' = seen \cup {o}
  /\ UNCHANGED <<saasVars, connVars, workers, reports, worldVars, restarts>>

\* executeCommand up to the exchange's answer; validateCommand refuses an
\* expired command before anything is sent.
PlaceOrder(w) ==
  /\ w \in workers
  /\ w.reply = "none"
  /\ \E reply \in (IF w.order \in expired THEN {"late"} ELSE Replies) :
       /\ workers' = (workers \ {w}) \cup {[w EXCEPT !.reply = reply]}
       /\ executed' = IF ExecutesOrder(reply)
                      THEN [executed EXCEPT ![w.order] = @ + 1] ELSE executed
  /\ UNCHANGED <<saasVars, connVars, commands, seen, reports, expired, restarts, faults>>

\* The status executeCommand reports: a failed balance query turns a placed
\* order into FAILED as well.
ReportStatus(reply, balanceOK) ==
  CASE IsError(reply) \/ ~balanceOK -> "FAILED"
    [] reply \in {"cut", "unfilled"} -> "EXPIRED"
    [] reply = "working" -> "NEW"
    [] OTHER -> "FILLED"

\* executeCommand after the answer: GetBalances, then one write of the report
\* on the connection the command came from.  A failed write is only logged,
\* and a frame to a hub that closed the connection is read by nobody.  Whether
\* the connection is registered does not matter to the loop that reads it.
SendReport(w, balanceOK) ==
  /\ w \in workers
  /\ w.reply # "none"
  /\ workers' = workers \ {w}
  /\ reports' = IF w.connected /\ linked
       THEN reports \cup {[order |-> w.order, process |-> restarts,
                           priced |-> w.reply \in {"full", "cut"},
                           status |-> ReportStatus(w.reply, balanceOK)]}
       ELSE reports
  /\ UNCHANGED <<saasVars, connVars, commands, seen, worldVars, restarts, faults>>

Orphaned == {[w EXCEPT !.connected = FALSE] : w \in workers}

\* runSession: login, dial, auth, auth_result, snapshot.  The hub swaps its
\* entry and closes the one it had.
Connect ==
  /\ ~session
  /\ session' = TRUE /\ linked' = TRUE
  /\ hub' = "live"
  /\ UNCHANGED <<saasVars, deletes, commands, agentVars, reports, worldVars, faults>>

-----------------------------------------------------------------------------
(***************************************************************************)
(* Environment: time, broken connections, restarts.                        *)
(***************************************************************************)

\* The clock passes expires_at_ms.
Expire(o) ==
  /\ execution[o] # "absent"
  /\ o \notin expired
  /\ expired' = expired \cup {o}
  /\ UNCHANGED <<saasVars, connVars, commands, agentVars, reports, executed, faults>>

\* What the agent's end of a connection leaves behind: unread commands are
\* lost, the goroutines keep a dead writer, and of the reports already
\* written the hub may still read some.
EndSession ==
  /\ session' = FALSE
  /\ linked' = FALSE
  /\ commands' = {}
  /\ workers' = Orphaned
  /\ reports' \in SUBSET reports

\* The entry of the connection that broke stays until its handler unregisters.
EntryBreaks == hub' = IF hub = "live" THEN "stale" ELSE hub

\* The agent sees the connection break, the hub not yet.
AgentLosesLink ==
  /\ session
  /\ Fault("link")
  /\ EndSession
  /\ EntryBreaks
  /\ UNCHANGED <<saasVars, deletes, seen, worldVars, restarts>>

\* The hub sees the connection break, the agent not yet.
HubLosesLink ==
  /\ linked
  /\ Fault("link")
  /\ linked' = FALSE
  /\ EntryBreaks
  /\ reports' \in SUBSET reports
  /\ UNCHANGED <<saasVars, deletes, session, commands, agentVars, worldVars>>

\* The hub's read loop on a connection that broke ends, and unregister finds
\* that the entry is this connection, ...
UnregisterCompares ==
  /\ hub = "stale"
  /\ hub' = "leaving"
  /\ deletes' = deletes + 1
  /\ UNCHANGED <<saasVars, session, linked, commands, agentVars, reports, worldVars, faults>>

\* ... and deletes the entry, whatever it is by now.
UnregisterDeletes ==
  /\ deletes > 0
  /\ deletes' = deletes - 1
  /\ hub' = "none"
  /\ UNCHANGED <<saasVars, session, linked, commands, agentVars, reports, worldVars, faults>>

\* The agent's read loop or heartbeat fails on a connection the hub closed.
AgentDropsClosed ==
  /\ session /\ ~linked
  /\ EndSession
  /\ UNCHANGED <<saasVars, hub, deletes, seen, worldVars, restarts, faults>>

\* The agent process is restarted: seen and the goroutines were in its memory.
RestartAgent ==
  /\ Fault("agent")
  /\ session' = FALSE
  /\ linked' = FALSE
  /\ commands' = {}
  /\ seen' = {}
  /\ workers' = {}
  /\ restarts' = restarts + 1
  /\ reports' \in SUBSET reports
  /\ EntryBreaks
  /\ UNCHANGED <<saasVars, deletes, worldVars>>

\* The SaaS process is restarted: what is not in Postgres is gone.
RestartSaas ==
  /\ Fault("saas")
  /\ outbox' = {}
  /\ hub' = "none"
  /\ deletes' = 0
  /\ linked' = FALSE
  /\ reports' = {}
  /\ UNCHANGED <<lastBucket, execution, booked, session, commands, agentVars, worldVars>>

-----------------------------------------------------------------------------

Saas ==
  \/ \E b \in Buckets, E \in SUBSET Engines : CommitTick(b, E)
  \/ ScanPending
  \/ \E o \in Orders : SendTradeCommand(o)
  \/ \E r \in reports : ProcessReport(r) \/ AbortReport(r)

Agent ==
  \/ \E o \in Orders : HandleCommand(o) \/ FailAck(o)
  \/ \E w \in workers : PlaceOrder(w)
  \/ \E w \in workers, balanceOK \in BOOLEAN : SendReport(w, balanceOK)
  \/ Connect

Environment ==
  \/ \E o \in Orders : Expire(o)
  \/ AgentLosesLink \/ HubLosesLink \/ AgentDropsClosed
  \/ UnregisterCompares \/ UnregisterDeletes
  \/ RestartAgent \/ RestartSaas

Next == Saas \/ Agent \/ Environment

Spec == Init /\ [][Next]_vars

(***************************************************************************)
(* Fairness: the scheduler scans every minute, the agent reconnects        *)
(* forever, goroutines and read loops run.  New bars, faults, the clock    *)
(* and the exchange's choice are not assumed to happen.                    *)
(***************************************************************************)
Fairness ==
  /\ WF_vars(ScanPending)
  /\ WF_vars(Connect)
  /\ WF_vars(UnregisterCompares)
  /\ WF_vars(UnregisterDeletes)
  /\ WF_vars(AgentDropsClosed)
  /\ \A o \in Orders : WF_vars(SendTradeCommand(o)) /\ WF_vars(HandleCommand(o))
  /\ WF_vars(\E w \in workers : PlaceOrder(w))
  /\ WF_vars(\E w \in workers, ok \in BOOLEAN : SendReport(w, ok))
  /\ WF_vars(\E r \in reports : ProcessReport(r))

FairSpec == Spec /\ Fairness

-----------------------------------------------------------------------------
(***************************************************************************)
(* Properties.                                                             *)
(***************************************************************************)

Contract == INSTANCE OrderContract WITH
  Orders <- Orders, execution <- execution, executed <- executed, booked <- booked

\* The pipeline keeps the contract of one order: recorded first, booked at
\* most once and only if executed, settled for good (processExecutionReport's
\* row lock and status test, against re-dispatches and agent restarts).
KeepsContract == Contract!Spec

\* A fill is in the ledger exactly when its order is filled, and never more
\* often than the exchange executed it.
BooksOnlyExecutions ==
  \A o \in Orders :
    /\ booked[o] = (IF execution[o] = "filled" THEN 1 ELSE 0)
    /\ booked[o] <= executed[o]

\* The pending row is committed before the command is sent: no command in a
\* sender, on the wire, at the agent or at the exchange is unknown to the
\* database (docs/system-topology.md, 5.2).
RecordedBeforeSent ==
  \A o \in Orders :
    \/ o \in outbox \cup commands \cup seen
    \/ \E m \in workers \cup reports : m.order = o
    \/ executed[o] > 0
    => execution[o] # "absent"

\* However often the scheduler sends a command again, one agent process
\* places its order at most once (AgentClient.seen).
OneExecutionPerProcess == \A o \in Orders : executed[o] <= restarts + 1

ReachesAgent(o) == execution[o] = "pending" ~> (o \in seen \/ execution[o] # "pending")

\* The agent is connected, the hub reads it, and neither finds out that it has
\* no entry: the Delete of the connection before came after its own Swap.
Forgotten == linked /\ hub = "none"

\* docs/system-topology.md, 6.3: after a lost connection pending commands
\* converge by themselves around the next tick, and (4) a lost connection state
\* heals when the agent connects again.  The code keeps this, through lost frames,
\* broken connections and restarts, as long as they stop some day (DispatchPending
\* repeats a command every tick), unless the agent is forgotten for good.
PendingReachesRegistered == <>[]Forgotten \/ \A o \in Orders : ReachesAgent(o)

\* An order stays pending for good only if something failed, or if its answer
\* cannot be booked: a fill without quantities, as Bitget's client reports every
\* order, or a status the hub does not know.
UnsettledHasReason ==
  \A o \in Orders :
    <>[](execution[o] = "pending") =>
      <>(faults > 0 \/ \E w \in workers : w.order = o /\ w.reply \in {"bare", "working"})

\* docs/system-topology.md, 5.1: the agent must not place an order twice when
\* it receives its command again.
ExecutedAtMostOnce == \A o \in Orders : executed[o] <= 1
=============================================================================
