------------------------------- MODULE AgentHub -------------------------------
(***************************************************************************)
(* The hub's registry of agent connections for one user: hub.agents holds  *)
(* at most one connection, HandleConnection registers a connection once    *)
(* its token is accepted and unregisters it when its read loop ends, and   *)
(* the senders of trade commands load the entry and write to it.           *)
(*                                                                         *)
(* A connection has a handler goroutine at the hub and one runSession at   *)
(* the agent; register and unregister are modelled by the single sync.Map  *)
(* operations they consist of.  The agent runs one session at a time.      *)
(* Heartbeats, reports and acks do not touch the registry and are left     *)
(* out.  A connection is used once, so the set of them bounds how often    *)
(* the agent reconnects.                                                   *)
(***************************************************************************)
EXTENDS Naturals, Sequences, FiniteSets

CONSTANTS
  Conns,      \* connections the agent may dial
  Senders,    \* goroutines that send commands: ticks and their rescans
  MaxSends,   \* bounds the commands sent
  NoConn      \* no entry in the map

ASSUME HubAssumption == NoConn \notin Conns /\ MaxSends \in Nat

VARIABLES
  entry,      \* hub.agents of the user
  handler,    \* where each HandleConnection goroutine is
  replaced,   \* the connection its Swap returned
  hubEnd,     \* the hub's end of the socket: "open" or "closed"
  agentEnd,   \* the agent's end: "idle", "dialled", "session" or "closed"
  wire,       \* frames written to the agent and not yet read
  target,     \* the connection each sender loaded
  sends       \* commands sent so far

hubVars == <<entry, handler, replaced, hubEnd, agentEnd, wire, target, sends>>

Places == {"none", "auth", "register", "close_old", "auth_result", "loop",
           "unregister", "delete", "done"}

\* Every variable has its type.
HubTypeOK ==
  /\ entry \in Conns \cup {NoConn}
  /\ handler \in [Conns -> Places]
  /\ replaced \in [Conns -> Conns \cup {NoConn}]
  /\ hubEnd \in [Conns -> {"open", "closed"}]
  /\ agentEnd \in [Conns -> {"idle", "dialled", "session", "closed"}]
  /\ wire \in [Conns -> Seq({"auth_result", "command"})]
  /\ target \in [Senders -> Conns \cup {NoConn}]
  /\ sends \in Nat

HubInit ==
  /\ entry = NoConn
  /\ handler = [c \in Conns |-> "none"]
  /\ replaced = [c \in Conns |-> NoConn]
  /\ hubEnd = [c \in Conns |-> "closed"]
  /\ agentEnd = [c \in Conns |-> "idle"]
  /\ wire = [c \in Conns |-> <<>>]
  /\ target = [s \in Senders |-> NoConn]
  /\ sends = 0

HandlerGoes(c, from, to) ==
  /\ handler[c] = from
  /\ handler' = [handler EXCEPT ![c] = to]

\* writeJSON fails on a socket this end closed; a frame to an agent that is
\* gone may still be written.
Write(c, frame) == wire' = [wire EXCEPT ![c] = Append(@, frame)]

-----------------------------------------------------------------------------
(***************************************************************************)
(* Hub: HandleConnection, register and unregister.                         *)
(***************************************************************************)

\* The auth message is read in time and its token accepted, ...
AcceptAuth(c) ==
  /\ HandlerGoes(c, "auth", "register")
  /\ UNCHANGED <<entry, replaced, hubEnd, agentEnd, wire, target, sends>>

\* ... or the handler returns.
RejectAuth(c) ==
  /\ HandlerGoes(c, "auth", "done")
  /\ hubEnd' = [hubEnd EXCEPT ![c] = "closed"]
  /\ UNCHANGED <<entry, replaced, agentEnd, wire, target, sends>>

\* register: Swap, ...
Register(c) ==
  /\ HandlerGoes(c, "register", "close_old")
  /\ entry' = c
  /\ replaced' = [replaced EXCEPT ![c] = entry]
  /\ UNCHANGED <<hubEnd, agentEnd, wire, target, sends>>

\* Mutant: the replaced connection is left open.
KeepOld(c) ==
  /\ HandlerGoes(c, "close_old", "auth_result")
  /\ UNCHANGED <<entry, replaced, hubEnd, agentEnd, wire, target, sends>>

\* ... then close the connection it returned.
CloseOld(c) ==
  /\ HandlerGoes(c, "close_old", "auth_result")
  /\ hubEnd' = [d \in Conns |-> IF d = replaced[c] THEN "closed" ELSE hubEnd[d]]
  /\ UNCHANGED <<entry, replaced, agentEnd, wire, target, sends>>

\* auth_result is written after the connection is registered.
WriteAuthResult(c) ==
  /\ IF hubEnd[c] = "open"
       THEN /\ HandlerGoes(c, "auth_result", "loop")
            /\ Write(c, "auth_result")
       ELSE /\ HandlerGoes(c, "auth_result", "unregister")
            /\ UNCHANGED wire
  /\ UNCHANGED <<entry, replaced, hubEnd, agentEnd, target, sends>>

\* messageLoop: the read fails once either end is closed.
ReadFails(c) ==
  /\ hubEnd[c] = "closed" \/ agentEnd[c] = "closed"
  /\ HandlerGoes(c, "loop", "unregister")
  /\ UNCHANGED <<entry, replaced, hubEnd, agentEnd, wire, target, sends>>

\* Mutant: the handler believes another connection is registered.
LoadNothing(c) ==
  /\ HandlerGoes(c, "unregister", "done")
  /\ hubEnd' = [hubEnd EXCEPT ![c] = "closed"]
  /\ UNCHANGED <<entry, replaced, agentEnd, wire, target, sends>>

\* unregister: Load and compare, ...
UnregisterLoad(c) ==
  /\ IF entry = c
       THEN /\ HandlerGoes(c, "unregister", "delete")
            /\ UNCHANGED hubEnd
       ELSE /\ HandlerGoes(c, "unregister", "done")
            /\ hubEnd' = [hubEnd EXCEPT ![c] = "closed"]
  /\ UNCHANGED <<entry, replaced, agentEnd, wire, target, sends>>

\* ... then Delete, whatever the entry is by now; the deferred Close follows.
UnregisterDelete(c) ==
  /\ HandlerGoes(c, "delete", "done")
  /\ entry' = NoConn
  /\ hubEnd' = [hubEnd EXCEPT ![c] = "closed"]
  /\ UNCHANGED <<replaced, agentEnd, wire, target, sends>>

-----------------------------------------------------------------------------
(***************************************************************************)
(* Hub: SendTradeCommand.                                                  *)
(***************************************************************************)

\* IsAgentConnected and SendToAgent find an entry.
SendLoad(s) ==
  /\ target[s] = NoConn
  /\ entry # NoConn
  /\ sends < MaxSends
  /\ target' = [target EXCEPT ![s] = entry]
  /\ sends' = sends + 1
  /\ UNCHANGED <<entry, handler, replaced, hubEnd, agentEnd, wire>>

\* The command is written to the connection found, or the write fails.
SendWrite(s) ==
  LET c == target[s] IN
  /\ c # NoConn
  /\ target' = [target EXCEPT ![s] = NoConn]
  /\ IF hubEnd[c] = "open" THEN Write(c, "command") ELSE UNCHANGED wire
  /\ UNCHANGED <<entry, handler, replaced, hubEnd, agentEnd, sends>>

-----------------------------------------------------------------------------
(***************************************************************************)
(* Agent: runSession.                                                      *)
(***************************************************************************)

InUse(c) == agentEnd[c] \in {"dialled", "session"}

AgentGoes(c, to) == agentEnd' = [agentEnd EXCEPT ![c] = to]

\* Login, dial and the auth message.
Dial(c) ==
  /\ agentEnd[c] = "idle"
  /\ \A d \in Conns : ~InUse(d)
  /\ AgentGoes(c, "dialled")
  /\ HandlerGoes(c, "none", "auth")
  /\ hubEnd' = [hubEnd EXCEPT ![c] = "open"]
  /\ UNCHANGED <<entry, replaced, wire, target, sends>>

\* waitAuthResult: any other first frame ends the session.
ReadAuthResult(c) ==
  /\ agentEnd[c] = "dialled"
  /\ wire[c] # <<>>
  /\ AgentGoes(c, IF Head(wire[c]) = "auth_result" THEN "session" ELSE "closed")
  /\ wire' = [wire EXCEPT ![c] = Tail(@)]
  /\ UNCHANGED <<entry, handler, replaced, hubEnd, target, sends>>

\* The read loop of a session takes the next frame.
ReadFrame(c) ==
  /\ agentEnd[c] = "session"
  /\ wire[c] # <<>>
  /\ wire' = [wire EXCEPT ![c] = Tail(@)]
  /\ UNCHANGED <<entry, handler, replaced, hubEnd, agentEnd, target, sends>>

\* The agent's read or heartbeat fails on a connection the hub closed.
DropsClosed(c) ==
  /\ InUse(c)
  /\ hubEnd[c] = "closed"
  /\ AgentGoes(c, "closed")
  /\ UNCHANGED <<entry, handler, replaced, hubEnd, wire, target, sends>>

\* The link breaks, or the agent process ends.
LinkBreaks(c) ==
  /\ InUse(c)
  /\ AgentGoes(c, "closed")
  /\ UNCHANGED <<entry, handler, replaced, hubEnd, wire, target, sends>>

-----------------------------------------------------------------------------

HandlerStep(c) ==
  \/ AcceptAuth(c) \/ RejectAuth(c) \/ Register(c) \/ CloseOld(c) \/ WriteAuthResult(c)
  \/ ReadFails(c) \/ UnregisterLoad(c) \/ UnregisterDelete(c)

AgentStep(c) == Dial(c) \/ ReadAuthResult(c) \/ ReadFrame(c) \/ DropsClosed(c)

\* The model has no connection left.
Exhausted ==
  /\ \A c \in Conns : handler[c] = "done" /\ agentEnd[c] = "closed"
  /\ UNCHANGED hubVars

HubNext ==
  \/ \E c \in Conns : HandlerStep(c) \/ AgentStep(c) \/ LinkBreaks(c)
  \/ \E s \in Senders : SendLoad(s) \/ SendWrite(s)
  \/ Exhausted

HubSpec == HubInit /\ [][HubNext]_hubVars

(***************************************************************************)
(* Goroutines run, on both sides, and a broken connection is noticed (the  *)
(* kernel's keep-alive, there being no read deadline).  Links need not     *)
(* break, and nobody has to send.                                          *)
(***************************************************************************)
HubFairSpec ==
  /\ HubSpec
  /\ \A c \in Conns : WF_hubVars(HandlerStep(c)) /\ WF_hubVars(AgentStep(c))
  /\ \A s \in Senders : WF_hubVars(SendWrite(s))

-----------------------------------------------------------------------------
(***************************************************************************)
(* Properties.                                                             *)
(***************************************************************************)

\* No handler returns and leaves its connection registered: IsAgentConnected
\* is never true because of a connection nobody reads (deferred unregister).
NoDeadEntry == entry # NoConn => handler[entry] \notin {"none", "auth", "register", "done"}

\* A connection that lost its entry to another one ends at the agent, even if
\* the other is older and was only slow to register: the agent dials again
\* instead of waiting for commands that go elsewhere (register's Close).
ReplacedEnds ==
  \A c, d \in Conns : (replaced[d] = c /\ InUse(c)) ~> ~InUse(c)

\* The entry of a connection the agent left goes away, so that pending
\* commands wait for the next connection instead of being sent to nobody.
DeadEntryGoes ==
  \A c \in Conns : (entry = c /\ agentEnd[c] = "closed") ~> entry # c
=============================================================================
