---------------------------- MODULE OrderContract ----------------------------
(***************************************************************************)
(* What the trade pipeline promises for one order, whatever the network,   *)
(* the agent and the exchange do: an order is recorded before it can be    *)
(* executed, it is booked into the ledger at most once, only after the     *)
(* exchange executed it, and a settled order never changes again.          *)
(* TradePipeline is shown to implement this contract.                      *)
(***************************************************************************)
EXTENDS Naturals

CONSTANT Orders  \* the client_order_ids

VARIABLES
  execution,     \* the spot_executions row of each order, "absent" before it
  executed,      \* how many times the exchange executed each order
  booked         \* how many times each order entered lots, bucket and trades

cvars == <<execution, executed, booked>>

Init ==
  /\ execution = [o \in Orders |-> "absent"]
  /\ executed = [o \in Orders |-> 0]
  /\ booked = [o \in Orders |-> 0]

\* A set of new orders is recorded.
Record(S) ==
  /\ \A o \in S : execution[o] = "absent"
  /\ execution' = [o \in Orders |-> IF o \in S THEN "pending" ELSE execution[o]]
  /\ UNCHANGED <<executed, booked>>

\* The exchange executes a recorded order.
Execute(o) ==
  /\ execution[o] # "absent"
  /\ executed' = [executed EXCEPT ![o] = @ + 1]
  /\ UNCHANGED <<execution, booked>>

\* A pending order the exchange executed is booked, once.
Book(o) ==
  /\ execution[o] = "pending"
  /\ executed[o] > 0
  /\ execution' = [execution EXCEPT ![o] = "filled"]
  /\ booked' = [booked EXCEPT ![o] = @ + 1]
  /\ UNCHANGED executed

\* A pending order is given up.
Fail(o) ==
  /\ execution[o] = "pending"
  /\ execution' = [execution EXCEPT ![o] = "failed"]
  /\ UNCHANGED <<executed, booked>>

Next ==
  \/ \E S \in SUBSET Orders : Record(S)
  \/ \E o \in Orders : Execute(o) \/ Book(o) \/ Fail(o)

Spec == Init /\ [][Next]_cvars

=============================================================================
