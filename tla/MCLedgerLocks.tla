---------------------------- MODULE MCLedgerLocks ----------------------------
(***************************************************************************)
(* LedgerLocks with two instances of one user.  Instance a has two ticks   *)
(* of one bar (overlapping scans), a fill and a failure reported for one   *)
(* of its orders, and a Stop; two connections of the user have sent a      *)
(* balance snapshot, which also touches the portfolio of instance b.       *)
(***************************************************************************)
EXTENDS LedgerLocks

CONSTANTS a, b, a1, a2, ra1, ra2, s1, s2, qa, oa

MCInstanceOf == [t \in Ticks \cup Reports \cup Requests |-> a]
MCBarOf == [t \in Ticks |-> 1]
MCOrderOf == [r \in Reports |-> oa]
MCTargetOf == [q \in Requests |-> "STOPPED"]
=============================================================================
