----------------------------- MODULE KLineCoverage -----------------------------
(***************************************************************************)
(* EnsureClosedKLines (marketdata/klines.go): the table market_klines is   *)
(* inspected, the missing ranges are fetched from the public API in        *)
(* batches and upserted, and the table is inspected again.  Several calls  *)
(* run at once, each statement and each HTTP request is a step.            *)
(*                                                                         *)
(* Times are counted in milliseconds, Interval of them to a bar, and need  *)
(* not fall on the open time of a bar.  Bars are numbered: bar b opens at  *)
(* b * Interval and closes a millisecond before the next one opens.        *)
(* Prices are left out, so an upsert of a bar that is there already        *)
(* changes nothing.                                                        *)
(***************************************************************************)
EXTENDS Integers, FiniteSets, FiniteSetsExt

CONSTANTS
  Calls,      \* who may call EnsureClosedKLines
  Symbols,
  LastBar,    \* bound on the bars
  Interval,   \* the length of a bar
  Gaps,       \* <<symbol, bar>>: bars the exchange never had
  Batch,      \* BinanceMaxKLineLimit
  Stored      \* what the table may hold at first: sets of bars

ASSUME CoverageAssumption ==
  /\ Symbols # {} /\ LastBar \in Nat /\ Interval \in Nat \ {0} /\ Batch \in Nat \ {0}
  /\ Gaps \subseteq Symbols \X (0..LastBar) /\ Stored \subseteq SUBSET (0..LastBar)

VARIABLES
  klines,     \* market_klines: the bars stored of each symbol
  now,        \* the time
  call        \* the variables of each call

kvars == <<klines, now, call>>

Bars == 0..LastBar

\* When a bar opens, and the bar in which a time falls: BarOpen(BarAt(t)) is
\* floorTime of t.
BarOpen(b) == b * Interval
BarAt(t) == t \div Interval

\* The close time of a bar is not after t.
ClosedBy(b, t) == BarOpen(b + 1) - 1 <= t

Times == 0..BarOpen(LastBar + 1)

\* What the exchange has of a range now, the open bar included.
Published(symbol, first, last) ==
  {b \in first..last : BarOpen(b) <= now /\ b \in Bars /\ <<symbol, b>> \notin Gaps}

Idle == [at |-> "idle", symbol |-> CHOOSE s \in Symbols : TRUE, start |-> 0, end |-> 0,
         now |-> 0, missing |-> {}, cursor |-> 0]

CallStates == {"idle", "inspect", "fetch", "inspect again", "complete", "failed"}

CoverageTypeOK ==
  /\ klines \in [Symbols -> SUBSET Bars]
  /\ now \in Times
  /\ call \in [Calls -> [at : CallStates, symbol : Symbols, start : Bars, end : Bars,
                         now : Times, missing : SUBSET Bars, cursor : Bars]]

CoverageInit ==
  /\ klines \in [Symbols -> Stored]
  /\ now \in Times
  /\ \A s \in Symbols : \A b \in klines[s] : ClosedBy(b, now) /\ <<s, b>> \notin Gaps
  /\ call = [c \in Calls |-> Idle]

-----------------------------------------------------------------------------

\* A call begins: the end is cut to the open time of the latest closed bar, and a
\* range without a closed bar is refused.  Only then both ends are floored: the
\* call, and its report, begin with the bar in which start falls.
BeginEnsure(c, symbol, start, end) ==
  LET capped == Min({end, BarOpen(BarAt(now - Interval))}) IN
  call' = [call EXCEPT ![c] =
    IF start >= end \/ start > capped THEN [Idle EXCEPT !.at = "failed"]
    ELSE [Idle EXCEPT !.at = "inspect", !.symbol = symbol,
                      !.start = BarAt(start), !.end = BarAt(capped), !.now = now]]

\* Every bar of the range of a call is stored.
Covered(k) == (k.start..k.end) \subseteq klines[k.symbol]

\* The first range of missing bars: those up to the first bar that is not missing.
FirstRange(missing) == {b \in missing : Min(missing)..b \subseteq missing}

\* The call turns to the first missing range, or inspects again after the last.
NextRange(k, missing) ==
  IF missing = {} THEN [k EXCEPT !.at = "inspect again", !.missing = {}]
  ELSE [k EXCEPT !.at = "fetch", !.missing = missing, !.cursor = Min(missing)]

\* inspectCoverage before anything is fetched.
Inspect(c) ==
  LET k == call[c] IN
  /\ k.at = "inspect"
  /\ call' = [call EXCEPT ![c] =
       IF Covered(k) THEN [k EXCEPT !.at = "complete"]
       ELSE NextRange(k, (k.start..k.end) \ klines[k.symbol])]
  /\ UNCHANGED <<klines, now>>

\* Mutant: the cursor stays on the last bar that was stored.
CursorOnLast(rows, cursor) == IF rows = {} THEN cursor + Batch ELSE Max(rows)

\* Where the next batch starts: after the last bar that was stored, or past
\* the batch when none of its bars was closed.
CursorAfter(rows, cursor) == IF rows = {} THEN cursor + Batch ELSE Max(rows) + 1

\* One turn of the loop of fetchAndStoreRange.  The answer is empty where the
\* exchange has nothing: that fails the call.  Bars that close after the time
\* the call read are dropped, the others are upserted.
FetchBatch(c) ==
  LET k == call[c]
      range == FirstRange(k.missing)
      rows == Published(k.symbol, k.cursor, Min({Max(range), k.cursor + Batch - 1}))
      closed == {b \in rows : ClosedBy(b, k.now)}
      next == CursorAfter(closed, k.cursor)
  IN /\ k.at = "fetch"
     /\ klines' = [klines EXCEPT ![k.symbol] = @ \cup closed]
     /\ call' = [call EXCEPT ![c] =
          IF rows = {} THEN [k EXCEPT !.at = "failed", !.missing = {}]
          ELSE IF next > Max(range) THEN NextRange(k, k.missing \ range)
          ELSE [k EXCEPT !.cursor = next]]
     /\ UNCHANGED now

\* A request or a statement fails, and the call with it: what earlier batches
\* have stored stays.
CallFails(c) ==
  /\ call[c].at \in {"inspect", "fetch", "inspect again"}
  /\ call' = [call EXCEPT ![c].at = "failed", ![c].missing = {}]
  /\ UNCHANGED <<klines, now>>

\* Mutant: what was fetched is not inspected.
TrustFetched(c) ==
  /\ call[c].at = "inspect again"
  /\ call' = [call EXCEPT ![c].at = "complete"]
  /\ UNCHANGED <<klines, now>>

\* inspectCoverage at the end: what is still missing fails the call.
InspectAgain(c) ==
  /\ call[c].at = "inspect again"
  /\ call' = [call EXCEPT ![c].at = IF Covered(call[c]) THEN "complete" ELSE "failed"]
  /\ UNCHANGED <<klines, now>>

EnsureStep(c) == Inspect(c) \/ FetchBatch(c) \/ InspectAgain(c)

\* Time goes on.
Pass == now < BarOpen(LastBar + 1) /\ now' = now + 1 /\ UNCHANGED <<klines, call>>
=============================================================================
