-------------------------- MODULE BacktestRunsProofs --------------------------
(***************************************************************************)
(* Proofs about BacktestRuns: a run that succeeded has replayed what it    *)
(* reports as covered but for the bars that ReplaysUsableBars names, for   *)
(* any interval and any number of requests that fill one table, any gaps,  *)
(* batches and faults, and the row tells how the run ended.                *)
(***************************************************************************)
EXTENDS BacktestRuns, FiniteSetTheorems, WellFoundedInduction, TLAPS

-----------------------------------------------------------------------------
(***************************************************************************)
(* Least and greatest bars.                                                *)
(***************************************************************************)

\* A set of natural numbers that is not empty has a least one: the intervals
\* 0..k of its elements are finite sets, and inclusion of those is well founded.
LEMMA NatMin ==
  ASSUME NEW T \in SUBSET Nat, T # {}
  PROVE  \E n \in T : \A m \in T : n <= m
<1> DEFINE R == StrictSubsetOrdering(Nat)
           C == {0..k : k \in T}
<1>1. IsWellFoundedOn(R, FiniteSubsetsOf(Nat))
  BY FS_StrictSubsetOrderingWellFounded
<1>2. C \subseteq FiniteSubsetsOf(Nat)
  <2>1. \A k \in T : 0..k \in SUBSET Nat /\ IsFiniteSet(0..k) BY FS_Interval
  <2> QED BY <2>1 DEF FiniteSubsetsOf
<1>3. PICK c \in C : \A d \in C : ~ (<<d, c>> \in R)
  <2> HIDE DEF R, C
  <2>1. C # {} BY DEF C
  <2> QED BY <1>1, <1>2, <2>1, WFMin
<1>4. PICK n \in T : c = 0..n OBVIOUS
<1>5. ASSUME NEW m \in T, m < n PROVE FALSE
  <2>1. 0..m \in C OBVIOUS
  <2>2. 0..m \subseteq 0..n /\ 0..m # 0..n BY <1>5
  <2>3. <<0..m, 0..n>> \in R BY <2>2 DEF StrictSubsetOrdering
  <2> QED BY <1>3, <1>4, <2>1, <2>3
<1> QED BY <1>5

LEMMA FirstBar ==
  ASSUME NEW S \in SUBSET Bars, S # {}
  PROVE  Min(S) \in S /\ \A b \in S : Min(S) <= b
<1>1. \E n \in S : \A m \in S : n <= m BY CoverageAssumption, NatMin DEF Bars
<1> QED BY <1>1 DEF Min

LEMMA LatestBar ==
  ASSUME NEW S \in SUBSET Bars, S # {}
  PROVE  Max(S) \in S /\ \A b \in S : b <= Max(S)
<1> DEFINE T == {LastBar - b : b \in S}
<1>1. T \in SUBSET Nat /\ T # {}
  <2>1. \A b \in S : LastBar - b \in Nat BY CoverageAssumption DEF Bars
  <2> QED BY <2>1
<1>2. PICK n \in T : \A m \in T : n <= m
  <2> HIDE DEF T
  <2> QED BY <1>1, NatMin
<1>3. PICK top \in S : n = LastBar - top OBVIOUS
<1>4. \A b \in S : b <= top
  <2> TAKE b \in S
  <2>1. n <= LastBar - b BY <1>2
  <2> QED BY <1>3, <2>1, CoverageAssumption DEF Bars
<1>5. \E x \in S : \A y \in S : x >= y BY <1>4, CoverageAssumption DEF Bars
<1>6. Max(S) \in S /\ \A y \in S : Max(S) >= y BY <1>5 DEF Max
<1> QED BY <1>6, CoverageAssumption DEF Bars

LEMMA MinOfTwo ==
  ASSUME NEW a \in Int, NEW b \in Int
  PROVE  Min({a, b}) \in {a, b} /\ Min({a, b}) <= a /\ Min({a, b}) <= b
<1>1. \E x \in {a, b} : \A y \in {a, b} : x <= y OBVIOUS
<1>2. Min({a, b}) \in {a, b} /\ \A y \in {a, b} : Min({a, b}) <= y BY <1>1 DEF Min
<1> QED BY <1>2

\* The first missing range is there where bars are missing, and begins with the
\* first of them.
LEMMA RangeIsThere ==
  ASSUME NEW missing \in SUBSET Bars, missing # {}
  PROVE  /\ Min(missing) \in FirstRange(missing)
         /\ FirstRange(missing) \subseteq missing
         /\ Max(FirstRange(missing)) \in Bars
<1>1. Min(missing) \in missing BY FirstBar
<1>2. (Min(missing)..Min(missing)) \subseteq missing BY <1>1, CoverageAssumption DEF Bars
<1>3. Min(missing) \in FirstRange(missing) /\ FirstRange(missing) \subseteq missing
  BY <1>1, <1>2 DEF FirstRange
<1>4. FirstRange(missing) \in SUBSET Bars /\ FirstRange(missing) # {} BY <1>3
<1> QED BY <1>3, <1>4, LatestBar

-----------------------------------------------------------------------------
(***************************************************************************)
(* Times and bars.                                                         *)
(***************************************************************************)

\* Division and products of numbers, free of the names of the model.
LEMMA Floor ==
  ASSUME NEW t \in Int, NEW i \in Nat \ {0}
  PROVE  t \div i \in Int /\ (t \div i) * i <= t /\ t < (t \div i + 1) * i
  BY SMT

LEMMA Products ==
  ASSUME NEW b \in Int, NEW c \in Int, NEW i \in Nat \ {0}
  PROVE  b * i \in Int /\ (b <= c => b * i <= c * i) /\ (b < c => b * i + i <= c * i)
<1>1. b * i \in Int /\ c * i \in Int OBVIOUS
<1>2. b <= c => b * i <= c * i BY SMT
<1>3. b < c => b * i + i <= c * i BY SMT
<1> QED BY <1>1, <1>2, <1>3

\* A time falls in the bar that has opened last.
LEMMA FallsIn ==
  ASSUME NEW t \in Int
  PROVE  BarAt(t) \in Int /\ BarOpen(BarAt(t)) <= t /\ t < BarOpen(BarAt(t) + 1)
  BY Floor, CoverageAssumption DEF BarAt, BarOpen

\* Bars open in their order.
LEMMA OpenOrder ==
  ASSUME NEW b \in Int, NEW c \in Int
  PROVE  /\ BarOpen(b) \in Int
         /\ b <= c => BarOpen(b) <= BarOpen(c)
         /\ b < c => BarOpen(b) + Interval <= BarOpen(c)
  BY Products, CoverageAssumption DEF BarOpen

\* A bar that opens no later than a time is not after the bar the time falls in,
\* and the other way round.
LEMMA OpensBy ==
  ASSUME NEW b \in Int, NEW t \in Int
  PROVE  (BarOpen(b) <= t) <=> (b <= BarAt(t))
<1>1. PICK f \in Int : f = BarAt(t) /\ BarOpen(f) <= t /\ t < BarOpen(f + 1) BY FallsIn
<1>2. BarOpen(b) \in Int /\ BarOpen(f) \in Int /\ BarOpen(f + 1) \in Int BY OpenOrder
<1>3. b <= f => BarOpen(b) <= BarOpen(f) BY OpenOrder
<1>4. f + 1 <= b => BarOpen(f + 1) <= BarOpen(b) BY OpenOrder
<1> QED BY <1>1, <1>2, <1>3, <1>4

LEMMA LastTime == BarOpen(LastBar + 1) \in Nat /\ 0 \in Times
<1>1. \A n, i \in Nat : n * i \in Nat BY SMT
<1>2. BarOpen(LastBar + 1) \in Nat BY <1>1, CoverageAssumption DEF BarOpen
<1> QED BY <1>2 DEF Times

\* A sequence that is not empty is its head and its tail.
LEMMA HeadAndTail ==
  ASSUME NEW S, NEW q \in Seq(S), q # <<>>
  PROVE  /\ Head(q) \in S /\ Tail(q) \in Seq(S) /\ ToSet(q) \subseteq S
         /\ ToSet(q) = {Head(q)} \cup ToSet(Tail(q))
         /\ Len(q) > 1 => Tail(q) # <<>>
         /\ ~ (Len(q) > 1) => ToSet(q) = {Head(q)}
<1>1. Len(q) \in Nat /\ Len(q) >= 1 /\ DOMAIN q = 1..Len(q) OBVIOUS
<1>2. Head(q) = q[1] /\ Head(q) \in S /\ Tail(q) \in Seq(S) OBVIOUS
<1>3. ToSet(q) \subseteq S BY DEF ToSet
<1>4. Len(Tail(q)) = Len(q) - 1 /\ \A i \in 1..Len(q) - 1 : Tail(q)[i] = q[i + 1]
  OBVIOUS
<1>5. DOMAIN Tail(q) = 1..Len(q) - 1 BY <1>2, <1>4
<1>6. ASSUME NEW x \in ToSet(q) PROVE x = Head(q) \/ x \in ToSet(Tail(q))
  <2>1. PICK i \in 1..Len(q) : x = q[i] BY <1>1 DEF ToSet
  <2>2. CASE i = 1 BY <1>2, <2>1, <2>2
  <2>3. CASE i # 1
    <3>1. i - 1 \in 1..Len(q) - 1 /\ Tail(q)[i - 1] = x BY <1>1, <1>4, <2>1, <2>3
    <3> QED BY <1>5, <3>1 DEF ToSet
  <2> QED BY <2>2, <2>3
<1>7. ASSUME NEW x \in ToSet(Tail(q)) PROVE x \in ToSet(q)
  <2>1. PICK i \in 1..Len(q) - 1 : x = q[i + 1] BY <1>4, <1>5 DEF ToSet
  <2>2. i + 1 \in 1..Len(q) BY <1>1, <2>1
  <2> QED BY <1>1, <2>1, <2>2 DEF ToSet
<1>8. Head(q) \in ToSet(q) BY <1>1, <1>2 DEF ToSet
<1>9. Len(q) > 1 => Tail(q) # <<>>
  <2>1. Len(q) > 1 => Len(Tail(q)) # 0 BY <1>1, <1>4
  <2>2. Len(<<>>) = 0 OBVIOUS
  <2> QED BY <2>1, <2>2, Zenon
<1>10. ~ (Len(q) > 1) => ToSet(q) = {Head(q)}
  <2>1. ~ (Len(q) > 1) => ToSet(Tail(q)) = {} BY <1>1, <1>5 DEF ToSet
  <2> QED BY <1>6, <1>8, <2>1
<1> QED BY <1>2, <1>3, <1>6, <1>7, <1>8, <1>9, <1>10
-----------------------------------------------------------------------------
(***************************************************************************)
(* The steps of EnsureClosedKLines.                                        *)
(***************************************************************************)

CallType == [at : CallStates, symbol : Symbols, start : Bars, end : Bars,
             now : Times, missing : SUBSET Bars, cursor : Bars]

\* What EnsureClosedKLines was called for.
SameRange(k, l) == k.symbol = l.symbol /\ k.start = l.start /\ k.end = l.end /\ k.now = l.now

Working == {"inspect", "fetch", "inspect again"}

CallOK(k) == k.at = "fetch" => k.missing # {}

LEMMA IdleType == Idle \in CallType /\ Idle.at = "idle"
  BY CoverageAssumption, LastTime DEF Idle, CallType, CallStates, Bars

LEMMA NextRangeType ==
  ASSUME NEW k \in CallType, NEW missing \in SUBSET Bars
  PROVE  /\ NextRange(k, missing) \in CallType /\ SameRange(NextRange(k, missing), k)
         /\ NextRange(k, missing).at \in {"fetch", "inspect again"}
         /\ CallOK(NextRange(k, missing))
<1>1. CASE missing = {}
  BY <1>1 DEF NextRange, CallType, CallStates, SameRange, CallOK
<1>2. CASE missing # {}
  <2>1. Min(missing) \in Bars BY <1>2, FirstBar
  <2> QED BY <1>2, <2>1 DEF NextRange, CallType, CallStates, SameRange, CallOK
<1> QED BY <1>1, <1>2

\* A call begins on the part of its range that is closed, or fails.
LEMMA BeginStep ==
  ASSUME CoverageTypeOK, NEW c \in Calls, NEW symbol \in Symbols,
         NEW start \in Nat, NEW end \in Nat, BeginEnsure(c, symbol, start, end)
  PROVE  \E k \in CallType :
           /\ call' = [call EXCEPT ![c] = k] /\ k.at \in {"failed", "inspect"}
           /\ k.at = "inspect" => k.symbol = symbol /\ k.start = BarAt(start)
                                    /\ BarOpen(k.end) <= end
<1> DEFINE latest == BarOpen(BarAt(now - Interval))
           capped == Min({end, latest})
           begun == [Idle EXCEPT !.at = "inspect", !.symbol = symbol,
                                 !.start = BarAt(start), !.end = BarAt(capped), !.now = now]
           failed == [Idle EXCEPT !.at = "failed"]
<1>0. LastBar + 1 \in Int /\ BarOpen(LastBar + 1) \in Int /\ BarOpen(LastBar) \in Int
        /\ BarOpen(LastBar + 1) = BarOpen(LastBar) + Interval
  <2>1. BarOpen(LastBar + 1) \in Int /\ BarOpen(LastBar) \in Int
    BY OpenOrder, CoverageAssumption
  <2>2. \A i, n \in Nat : (n + 1) * i = n * i + i BY SMT
  <2> QED BY <2>1, <2>2, CoverageAssumption DEF BarOpen
<1>1. now \in Times /\ now \in Int /\ now - Interval \in Int
        /\ now - Interval <= BarOpen(LastBar)
  BY <1>0, CoverageAssumption DEF CoverageTypeOK, Times
<1>2. capped \in Int /\ capped <= end /\ capped <= BarOpen(LastBar)
  <2>1. end \in Int /\ latest \in Int /\ latest <= now - Interval
    BY <1>1, FallsIn, OpenOrder
  <2> HIDE DEF latest
  <2>2. capped \in {end, latest} /\ capped <= end /\ capped <= latest
    BY <2>1, MinOfTwo
  <2> QED BY <1>0, <1>1, <2>1, <2>2
<1>3. CASE start >= end \/ start > capped
  <2>1. failed \in CallType /\ failed.at = "failed" BY IdleType DEF CallType, CallStates, Idle
  <2>2. call' = [call EXCEPT ![c] = failed] BY <1>3 DEF BeginEnsure
  <2> QED BY <2>1, <2>2
<1>4. CASE ~ (start >= end \/ start > capped)
  <2> HIDE DEF capped
  <2>1. \A t \in Int : 0 <= t /\ t <= BarOpen(LastBar) => BarAt(t) \in Bars
    <3> SUFFICES ASSUME NEW t \in Int, 0 <= t, t <= BarOpen(LastBar) PROVE BarAt(t) \in Bars
      OBVIOUS
    <3>1. BarAt(t) \in Int /\ BarOpen(BarAt(t)) <= t BY FallsIn
    <3>2. BarOpen(0) = 0 BY CoverageAssumption DEF BarOpen
    <3>3. 0 <= BarAt(t) BY <3>2, OpensBy
    <3>4. BarOpen(BarAt(t)) <= BarOpen(LastBar) /\ BarOpen(BarAt(t)) \in Int
      BY <1>0, <3>1, OpenOrder
    <3>5. ~ (LastBar < BarAt(t))
      <4>1. LastBar < BarAt(t) => BarOpen(LastBar) + Interval <= BarOpen(BarAt(t))
        BY <3>1, OpenOrder, CoverageAssumption
      <4> QED BY <1>0, <3>4, <4>1, CoverageAssumption
    <3> QED BY <3>1, <3>3, <3>5, CoverageAssumption DEF Bars
  <2>2. BarAt(start) \in Bars /\ BarAt(capped) \in Bars
    BY <1>0, <1>2, <1>4, <2>1 DEF capped
  <2>3. BarOpen(BarAt(capped)) <= end
    <3>1. BarAt(capped) \in Int /\ BarOpen(BarAt(capped)) <= capped BY <1>2, FallsIn
    <3>2. BarOpen(BarAt(capped)) \in Int BY <3>1, OpenOrder
    <3> QED BY <1>2, <3>1, <3>2
  <2>4. begun \in CallType /\ begun.at = "inspect" /\ begun.symbol = symbol
          /\ begun.start = BarAt(start) /\ begun.end = BarAt(capped)
    BY <1>1, <2>2, IdleType DEF CallType, CallStates, Idle
  <2>5. call' = [call EXCEPT ![c] = begun] BY <1>4 DEF BeginEnsure, capped
  <2> QED BY <2>3, <2>4, <2>5
<1> QED BY <1>3, <1>4

\* One batch: the bars that were closed are stored, and the call fails, turns to
\* the next range or goes on within the range.
LEMMA FetchStep ==
  ASSUME CoverageTypeOK, NEW c \in Calls, CallOK(call[c]), FetchBatch(c)
  PROVE  /\ klines' \in [Symbols -> SUBSET Bars] /\ \A s \in Symbols : klines[s] \subseteq klines'[s]
         /\ now' = now
         /\ \E k \in CallType :
              /\ call' = [call EXCEPT ![c] = k] /\ SameRange(k, call[c])
              /\ k.at \in {"fetch", "inspect again", "failed"} /\ CallOK(k)
<1> DEFINE k == call[c]
           range == FirstRange(k.missing)
           rows == Published(k.symbol, k.cursor, Min({Max(range), k.cursor + Batch - 1}))
           closed == {b \in rows : ClosedBy(b, k.now)}
           next == CursorAfter(closed, k.cursor)
<1>1. k \in CallType BY DEF CoverageTypeOK, CallType
<1>2. k.at = "fetch" /\ k.missing \in SUBSET Bars /\ k.missing # {} /\ k.symbol \in Symbols
        /\ k.cursor \in Bars
  BY <1>1 DEF FetchBatch, CallOK, CallType
<1>3. closed \subseteq Bars BY DEF Published
<1>4. /\ klines' = [klines EXCEPT ![k.symbol] = @ \cup closed] /\ now' = now
      /\ call' = [call EXCEPT ![c] =
           IF rows = {} THEN [k EXCEPT !.at = "failed", !.missing = {}]
           ELSE IF next > Max(range) THEN NextRange(k, k.missing \ range)
           ELSE [k EXCEPT !.cursor = next]]
  BY DEF FetchBatch
<1>5. Max(range) \in Bars BY <1>2, RangeIsThere
<1>6. next \in Nat
  <2>1. CASE closed = {} BY <1>2, <2>1, CoverageAssumption DEF CursorAfter, Bars
  <2>2. CASE closed # {}
    <3> HIDE DEF closed
    <3>1. Max(closed) \in Bars BY <1>3, <2>2, LatestBar
    <3> QED BY <2>2, <3>1, CoverageAssumption DEF CursorAfter, Bars
  <2> QED BY <2>1, <2>2
<1> HIDE DEF rows, closed, next, range
<1>7. klines' \in [Symbols -> SUBSET Bars] /\ \A s \in Symbols : klines[s] \subseteq klines'[s]
  <2>1. klines \in [Symbols -> SUBSET Bars] BY DEF CoverageTypeOK
  <2> HIDE DEF k
  <2> QED BY <1>2, <1>3, <1>4, <2>1
<1> DEFINE Turned(l) ==
             /\ call' = [call EXCEPT ![c] = l] /\ SameRange(l, call[c])
             /\ l.at \in {"fetch", "inspect again", "failed"} /\ CallOK(l)
<1> SUFFICES \E l \in CallType : Turned(l) BY <1>4, <1>7
<1>8. CASE rows = {}
  <2> DEFINE l == [k EXCEPT !.at = "failed", !.missing = {}]
  <2>1. l \in CallType /\ l.at = "failed" /\ SameRange(l, k) /\ CallOK(l)
    BY <1>1 DEF CallType, CallStates, SameRange, CallOK
  <2>2. call' = [call EXCEPT ![c] = l] BY <1>4, <1>8
  <2> HIDE DEF l
  <2> QED BY <2>1, <2>2
<1>9. CASE rows # {} /\ next > Max(range)
  <2> DEFINE l == NextRange(k, k.missing \ range)
  <2>1. l \in CallType /\ SameRange(l, k) /\ l.at \in {"fetch", "inspect again"} /\ CallOK(l)
    BY <1>1, <1>2, NextRangeType
  <2>2. call' = [call EXCEPT ![c] = l] BY <1>4, <1>9
  <2> HIDE DEF l
  <2> QED BY <2>1, <2>2
<1>10. CASE rows # {} /\ ~ (next > Max(range))
  <2> DEFINE l == [k EXCEPT !.cursor = next]
  <2>1. next \in Bars BY <1>5, <1>6, <1>10, CoverageAssumption DEF Bars
  <2>2. l \in CallType /\ SameRange(l, k) /\ l.at = "fetch" /\ CallOK(l)
    BY <1>1, <1>2, <2>1 DEF CallType, SameRange, CallOK
  <2>3. call' = [call EXCEPT ![c] = l] BY <1>4, <1>10
  <2> HIDE DEF l
  <2> QED BY <2>2, <2>3
<1> QED BY <1>8, <1>9, <1>10

\* Any step of a call: its range stays, rows are only added, and it is complete
\* only with every bar of the range.
LEMMA CallStep ==
  ASSUME CoverageTypeOK, NEW c \in Calls, CallOK(call[c]), EnsureStep(c)
  PROVE  /\ klines' \in [Symbols -> SUBSET Bars] /\ \A s \in Symbols : klines[s] \subseteq klines'[s]
         /\ now' = now /\ call[c].at \in Working
         /\ \E k \in CallType :
              /\ call' = [call EXCEPT ![c] = k] /\ SameRange(k, call[c])
              /\ k.at \in Working \cup {"complete", "failed"} /\ CallOK(k)
              /\ k.at = "complete" => (k.start..k.end) \subseteq klines'[k.symbol]
<1>1. call[c] \in CallType /\ klines \in [Symbols -> SUBSET Bars]
  BY DEF CoverageTypeOK, CallType
<1>2. CASE Inspect(c)
  <2>1. UNCHANGED <<klines, now>> /\ call[c].at = "inspect" BY <1>2 DEF Inspect
  <2> DEFINE missing == (call[c].start..call[c].end) \ klines[call[c].symbol]
             l == IF Covered(call[c]) THEN [call[c] EXCEPT !.at = "complete"]
                  ELSE NextRange(call[c], missing)
  <2>2. call' = [call EXCEPT ![c] = l] BY <1>2 DEF Inspect
  <2>3. missing \in SUBSET Bars BY <1>1, CoverageAssumption DEF CallType, Bars
  <2>4. CASE Covered(call[c])
    <3>1. /\ l \in CallType /\ SameRange(l, call[c]) /\ l.at = "complete" /\ CallOK(l)
          /\ (l.start..l.end) \subseteq klines[l.symbol]
      BY <1>1, <2>4 DEF CallType, CallStates, SameRange, CallOK, Covered
    <3> HIDE DEF l
    <3> QED BY <1>1, <2>1, <2>2, <3>1 DEF Working
  <2>5. CASE ~ Covered(call[c])
    <3> HIDE DEF missing
    <3>1. l \in CallType /\ SameRange(l, call[c]) /\ l.at \in {"fetch", "inspect again"}
            /\ CallOK(l)
      BY <1>1, <2>3, <2>5, NextRangeType
    <3> HIDE DEF l
    <3> QED BY <1>1, <2>1, <2>2, <3>1 DEF Working
  <2> QED BY <2>4, <2>5
<1>3. CASE FetchBatch(c)
  <2>1. call[c].at = "fetch" BY <1>3 DEF FetchBatch
  <2>2. PICK k \in CallType :
          /\ call' = [call EXCEPT ![c] = k] /\ SameRange(k, call[c])
          /\ k.at \in {"fetch", "inspect again", "failed"} /\ CallOK(k)
    BY <1>3, FetchStep
  <2>3. klines' \in [Symbols -> SUBSET Bars] /\ (\A s \in Symbols : klines[s] \subseteq klines'[s])
          /\ now' = now
    BY <1>3, FetchStep
  <2> QED BY <2>1, <2>2, <2>3 DEF Working
<1>4. CASE InspectAgain(c)
  <2>1. UNCHANGED <<klines, now>> /\ call[c].at = "inspect again" BY <1>4 DEF InspectAgain
  <2> DEFINE l == [call[c] EXCEPT !.at = IF Covered(call[c]) THEN "complete" ELSE "failed"]
  <2>2. call' = [call EXCEPT ![c] = l] BY <1>4 DEF InspectAgain
  <2>3. /\ l \in CallType /\ SameRange(l, call[c]) /\ l.at \in {"complete", "failed"} /\ CallOK(l)
        /\ l.at = "complete" => (l.start..l.end) \subseteq klines[l.symbol]
    BY <1>1 DEF CallType, CallStates, SameRange, CallOK, Covered
  <2> HIDE DEF l
  <2> QED BY <1>1, <2>1, <2>2, <2>3 DEF Working
<1> QED BY <1>2, <1>3, <1>4 DEF EnsureStep

-----------------------------------------------------------------------------
(***************************************************************************)
(* Types.                                                                  *)
(***************************************************************************)

TypeInv == TypeOK /\ \A r \in Calls : CallOK(call[r])

LEMMA RequestType ==
  ASSUME TypeOK, NEW r \in Calls, at[r] # "new"
  PROVE  /\ request[r].symbols \in Seq(Symbols) /\ request[r].symbols # <<>>
         /\ request[r].timed \in BOOLEAN
         /\ request[r].timed => request[r].start \in Nat /\ request[r].end \in Nat
         /\ request[r].evalStart \in Int /\ request[r].limit \in Nat
  BY RequestsAssumption DEF TypeOK

LEMMA InitType == Init => TypeInv
<1> SUFFICES ASSUME Init PROVE TypeInv OBVIOUS
<1>1. CoverageTypeOK
  <2>1. klines \in [Symbols -> SUBSET Bars] /\ now \in Times
    BY CoverageAssumption DEF Init, CoverageInit, Bars
  <2>2. call \in [Calls -> CallType] BY IdleType DEF Init, CoverageInit
  <2> QED BY <2>1, <2>2 DEF CoverageTypeOK, CallType
<1>2. \A r \in Calls : CallOK(call[r])
  BY IdleType DEF Init, CoverageInit, CallOK
<1>3. /\ request \in [Calls -> {NoRequest} \cup UNION {Requests[r] : r \in Calls}]
      /\ row \in [Calls -> {"absent", "running", "succeeded", "failed"}]
      /\ artifacts \subseteq Calls /\ gone \subseteq Calls
      /\ at \in [Calls -> Steps] /\ \A r \in Calls : at[r] = "new"
  BY DEF Init, Steps
<1>4. /\ todo \in [Calls -> Seq(Symbols)]
      /\ reports \in [Calls -> [Symbols -> {NoReport} \cup (Bars \X Bars)]]
      /\ bars \in [Calls -> [Symbols -> SUBSET Bars]]
  BY DEF Init
<1> QED BY <1>1, <1>2, <1>3, <1>4 DEF TypeInv, TypeOK
\* The next symbol, while there is one.
TodoInv == \A r \in Calls : at[r] \in {"ensure", "replay"} => todo[r] # <<>>

LEMMA TodoStep == TypeInv /\ TodoInv /\ [Next]_vars => TodoInv'
<1> SUFFICES ASSUME TypeInv, TodoInv, [Next]_vars PROVE TodoInv' OBVIOUS
<1> USE DEF TodoInv
<1>0. at \in [Calls -> Steps] /\ todo \in [Calls -> Seq(Symbols)]
  BY DEF TypeInv, TypeOK
<1> SUFFICES ASSUME NEW q \in Calls, at'[q] \in {"ensure", "replay"} PROVE todo'[q] # <<>>
  OBVIOUS
<1>1. ASSUME NEW r \in Calls, Handler(r) \/ Fault(r) \/ Leave(r) PROVE todo'[q] # <<>>
  <2>1. CASE CreateRun(r)
    <3>1. PICK req \in Requests[r] :
            todo' = [todo EXCEPT ![r] = req.symbols]
              /\ at' = [at EXCEPT ![r] = IF req.timed THEN "ensure" ELSE "replay"]
      BY <2>1 DEF CreateRun, Goto
    <3>2. req.symbols # <<>> BY RequestsAssumption
    <3> QED BY <1>0, <3>1, <3>2
  <2>2. CASE EnsureReturns(r)
    <3>1. at[r] = "ensure" /\ todo[r] # <<>> /\ todo[r] \in Seq(Symbols)
      BY <1>0, <2>2 DEF EnsureReturns
    <3>2. CASE call[r].at = "failed"
      BY <1>0, <2>2, <3>2 DEF EnsureReturns, Fail, Goto
    <3>3. CASE call[r].at # "failed" /\ Len(todo[r]) > 1
      <4>1. todo' = [todo EXCEPT ![r] = Tail(todo[r])] /\ at' = at
        BY <2>2, <3>3 DEF EnsureReturns
      <4>2. Tail(todo[r]) # <<>> BY <3>1, <3>3, HeadAndTail
      <4> QED BY <1>0, <4>1, <4>2
    <3>4. CASE call[r].at # "failed" /\ ~ (Len(todo[r]) > 1)
      <4>1. todo' = [todo EXCEPT ![r] = request[r].symbols] /\ at' = [at EXCEPT ![r] = "replay"]
        BY <2>2, <3>4 DEF EnsureReturns, Goto
      <4>2. request[r].symbols # <<>> BY <3>1, RequestType DEF TypeInv
      <4> QED BY <1>0, <4>1, <4>2
    <3> QED BY <3>2, <3>3, <3>4
  <2>3. CASE ReplaySymbol(r)
    <3>1. at[r] = "replay" /\ todo[r] # <<>> /\ todo[r] \in Seq(Symbols)
      BY <1>0, <2>3 DEF ReplaySymbol
    <3>2. CASE UNCHANGED todo /\ at' = [at EXCEPT ![r] = "over"] BY <1>0, <3>2
    <3>3. CASE todo' = [todo EXCEPT ![r] = Tail(todo[r])] /\ Len(todo[r]) > 1 /\ at' = at
      <4>1. Tail(todo[r]) # <<>> BY <3>1, <3>3, HeadAndTail
      <4> QED BY <1>0, <3>3, <4>1
    <3>4. CASE todo' = [todo EXCEPT ![r] = Tail(todo[r])] /\ at' = [at EXCEPT ![r] = "save"]
      BY <1>0, <3>4
    <3> QED BY <2>3, <3>2, <3>3, <3>4 DEF ReplaySymbol, Fail, Goto
  <2>4. CASE EnsureSymbol(r) \/ EnsureRuns(r) \/ EnsureFails(r) \/ Leave(r)
    BY <2>4 DEF EnsureSymbol, EnsureRuns, EnsureFails, Leave, rvars
  <2>5. CASE Fault(r) /\ ReplayFails(r) BY <1>0, <2>5 DEF ReplayFails, Fail, Goto
  <2>6. CASE SaveResult(r) \/ SaveArtifacts(r) \/ Abandon(r)
    BY <1>0, <2>6 DEF SaveResult, SaveArtifacts, Abandon, Goto
  <2> QED BY <1>1, <2>1, <2>2, <2>3, <2>4, <2>5, <2>6 DEF Handler, Fault
<1>2. CASE Pass /\ UNCHANGED rvars BY <1>2 DEF rvars
<1>3. CASE UNCHANGED vars BY <1>3 DEF vars, rvars
<1> QED BY <1>1, <1>2, <1>3 DEF Next

\* Only a range that was asked for is ensured.
TimedInv == \A r \in Calls : at[r] = "ensure" => request[r].timed

LEMMA TimedStep == TypeInv /\ TimedInv /\ [Next]_vars => TimedInv'
<1> SUFFICES ASSUME TypeInv, TimedInv, [Next]_vars, NEW q \in Calls, at'[q] = "ensure"
             PROVE  request'[q].timed
  BY DEF TimedInv
<1> USE DEF TimedInv
<1>0. at \in [Calls -> Steps] /\ request = [r \in Calls |-> request[r]]
  BY DEF TypeInv, TypeOK
<1>1. ASSUME NEW r \in Calls, CreateRun(r) PROVE request'[q].timed
  <2>1. PICK req \in Requests[r] :
          request' = [request EXCEPT ![r] = req]
            /\ at' = [at EXCEPT ![r] = IF req.timed THEN "ensure" ELSE "replay"]
    BY <1>1 DEF CreateRun, Goto
  <2>2. req.timed \in BOOLEAN BY RequestsAssumption
  <2>3. CASE q = r BY <1>0, <2>1, <2>2, <2>3
  <2>4. CASE q # r BY <1>0, <2>1, <2>4
  <2> QED BY <2>3, <2>4
<1>2. ASSUME NEW r \in Calls, Handler(r) \/ Fault(r) \/ Leave(r), ~ CreateRun(r)
      PROVE  request' = request /\ at[q] = "ensure"
  <2>1. CASE EnsureSymbol(r) \/ EnsureRuns(r) \/ EnsureFails(r) \/ Leave(r)
    BY <2>1 DEF EnsureSymbol, EnsureRuns, EnsureFails, Leave, rvars
  <2>2. CASE EnsureReturns(r) BY <1>0, <2>2 DEF EnsureReturns, Fail, Goto
  <2>3. CASE ReplaySymbol(r) BY <1>0, <2>3 DEF ReplaySymbol, Fail, Goto
  <2>4. CASE ReplayFails(r) BY <1>0, <2>4 DEF ReplayFails, Fail, Goto
  <2>5. CASE SaveResult(r) \/ SaveArtifacts(r) \/ Abandon(r)
    BY <1>0, <2>5 DEF SaveResult, SaveArtifacts, Abandon, Goto
  <2> QED BY <1>2, <2>1, <2>2, <2>3, <2>4, <2>5 DEF Handler, Fault
<1>3. CASE Pass /\ UNCHANGED rvars BY <1>3 DEF rvars
<1>4. CASE UNCHANGED vars BY <1>4 DEF vars, rvars
<1> QED BY <1>1, <1>2, <1>3, <1>4 DEF Next

\* Only a handler that has begun is cut off.
GoneInv == \A r \in gone : at[r] # "new"

LEMMA GoneStep == TypeInv /\ GoneInv /\ [Next]_vars => GoneInv'
<1> SUFFICES ASSUME TypeInv, GoneInv, [Next]_vars PROVE GoneInv' OBVIOUS
<1>0. at \in [Calls -> Steps] BY DEF TypeInv, TypeOK
<1>1. ASSUME NEW r \in Calls, Handler(r) \/ Fault(r)
      PROVE  gone' = gone /\ \A q \in Calls : at[q] # "new" => at'[q] # "new"
  <2>1. CASE CreateRun(r)
    <3>1. at[r] = "new" /\ gone' = gone /\ \E step \in {"ensure", "replay"} : Goto(r, step)
      BY <2>1 DEF CreateRun
    <3> QED BY <1>0, <3>1 DEF Goto
  <2>2. CASE EnsureSymbol(r) \/ EnsureRuns(r) \/ EnsureFails(r)
    BY <2>2 DEF EnsureSymbol, EnsureRuns, EnsureFails, rvars
  <2>3. CASE EnsureReturns(r) BY <1>0, <2>3 DEF EnsureReturns, Fail, Goto
  <2>4. CASE ReplaySymbol(r) BY <1>0, <2>4 DEF ReplaySymbol, Fail, Goto
  <2>5. CASE ReplayFails(r) BY <1>0, <2>5 DEF ReplayFails, Fail, Goto
  <2>6. CASE SaveResult(r) \/ SaveArtifacts(r) \/ Abandon(r)
    BY <1>0, <2>6 DEF SaveResult, SaveArtifacts, Abandon, Goto
  <2> QED BY <1>1, <2>1, <2>2, <2>3, <2>4, <2>5, <2>6 DEF Handler, Fault
<1>2. ASSUME NEW r \in Calls, Leave(r) PROVE GoneInv'
  BY <1>2 DEF Leave, GoneInv
<1>3. CASE Pass /\ UNCHANGED rvars BY <1>3 DEF rvars, GoneInv
<1>4. CASE UNCHANGED vars BY <1>4 DEF vars, rvars, GoneInv
<1>5. gone \subseteq Calls BY DEF TypeInv, TypeOK
<1> QED BY <1>1, <1>2, <1>3, <1>4, <1>5 DEF Next, GoneInv

\* What EnsureClosedKLines is called with: the next symbol and the range asked for.
LEMMA EnsureBegins ==
  ASSUME TypeInv, TodoInv, TimedInv, NEW r \in Calls, EnsureSymbol(r)
  PROVE  \E k \in CallType :
           /\ call' = [call EXCEPT ![r] = k] /\ k.at \in {"failed", "inspect"}
           /\ k.at = "inspect" => k.symbol = Head(todo[r]) /\ k.start = BarAt(request[r].start)
                                    /\ BarOpen(k.end) <= request[r].end
<1>1. at[r] = "ensure" /\ BeginEnsure(r, Head(todo[r]), request[r].start, request[r].end)
  BY DEF EnsureSymbol
<1>2. Head(todo[r]) \in Symbols
  <2>1. todo[r] # <<>> /\ todo[r] \in Seq(Symbols) BY <1>1 DEF TodoInv, TypeInv, TypeOK
  <2> QED BY <2>1, HeadAndTail
<1>3. request[r].start \in Nat /\ request[r].end \in Nat
  BY <1>1, RequestType DEF TypeInv, TimedInv
<1>4. CoverageTypeOK BY DEF TypeInv, TypeOK
<1> QED BY <1>1, <1>2, <1>3, <1>4, BeginStep
LEMMA TypeStep == TypeInv /\ TodoInv /\ TimedInv /\ GoneInv /\ [Next]_vars => TypeInv'
<1> SUFFICES ASSUME TypeInv, TodoInv, TimedInv, GoneInv, [Next]_vars PROVE TypeInv' OBVIOUS
<1>0. /\ CoverageTypeOK /\ \A r \in Calls : CallOK(call[r])
      /\ klines \in [Symbols -> SUBSET Bars] /\ now \in Times /\ call \in [Calls -> CallType]
      /\ request \in [Calls -> {NoRequest} \cup UNION {Requests[r] : r \in Calls}]
      /\ \A r \in Calls : at[r] # "new" => request[r] \in Requests[r]
      /\ row \in [Calls -> {"absent", "running", "succeeded", "failed"}]
      /\ artifacts \subseteq Calls /\ gone \subseteq Calls
      /\ at \in [Calls -> Steps] /\ todo \in [Calls -> Seq(Symbols)]
      /\ reports \in [Calls -> [Symbols -> {NoReport} \cup (Bars \X Bars)]]
      /\ bars \in [Calls -> [Symbols -> SUBSET Bars]]
  BY DEF TypeInv, TypeOK, CoverageTypeOK, CallType
<1> DEFINE KV == /\ klines' \in [Symbols -> SUBSET Bars] /\ now' \in Times
                 /\ call' \in [Calls -> CallType] /\ \A q \in Calls : CallOK(call'[q])
           Req == /\ request' \in [Calls -> {NoRequest} \cup UNION {Requests[r] : r \in Calls}]
                  /\ \A q \in Calls : at'[q] # "new" => request'[q] \in Requests[q]
           RV == /\ row' \in [Calls -> {"absent", "running", "succeeded", "failed"}]
                 /\ artifacts' \subseteq Calls /\ gone' \subseteq Calls
                 /\ at' \in [Calls -> Steps] /\ todo' \in [Calls -> Seq(Symbols)]
           Out == /\ reports' \in [Calls -> [Symbols -> {NoReport} \cup (Bars \X Bars)]]
                  /\ bars' \in [Calls -> [Symbols -> SUBSET Bars]]
<1> SUFFICES KV /\ Req /\ RV /\ Out BY DEF TypeInv, TypeOK, CoverageTypeOK, CallType
<1>1. UNCHANGED kvars => KV BY <1>0 DEF kvars
<1>2. ASSUME UNCHANGED request, \A q \in Calls : at[q] = "new" => at'[q] = "new" PROVE Req
  BY <1>0, <1>2
<1>3. ASSUME NEW r \in Calls, NEW k \in CallType, CallOK(k), call' = [call EXCEPT ![r] = k],
             klines' \in [Symbols -> SUBSET Bars], now' = now
      PROVE  KV
  BY <1>0, <1>3
<1>4. \A r \in Calls : at[r] # "new" => request[r].symbols \in Seq(Symbols)
  BY RequestType DEF TypeInv
<1>5. ASSUME NEW r \in Calls, Handler(r) \/ Fault(r) \/ Leave(r) PROVE KV /\ Req /\ RV /\ Out
  <2>1. CASE CreateRun(r)
    <3>1. PICK req \in Requests[r] :
            /\ request' = [request EXCEPT ![r] = req] /\ todo' = [todo EXCEPT ![r] = req.symbols]
            /\ at' = [at EXCEPT ![r] = IF req.timed THEN "ensure" ELSE "replay"]
      BY <2>1 DEF CreateRun, Goto
    <3>2. req.symbols \in Seq(Symbols) BY RequestsAssumption
    <3>3. Req BY <1>0, <3>1
    <3>4. RV BY <1>0, <2>1, <3>1, <3>2 DEF CreateRun, Steps
    <3>5. Out BY <1>0, <2>1 DEF CreateRun
    <3>6. KV BY <1>1, <2>1 DEF CreateRun
    <3> QED BY <3>3, <3>4, <3>5, <3>6
  <2>2. CASE EnsureSymbol(r)
    <3>1. UNCHANGED <<klines, now, rvars>> BY <2>2 DEF EnsureSymbol
    <3>2. PICK k \in CallType : call' = [call EXCEPT ![r] = k] /\ k.at \in {"failed", "inspect"}
      BY <2>2, EnsureBegins
    <3>3. KV BY <1>0, <1>3, <3>1, <3>2 DEF CallOK
    <3> QED BY <1>0, <1>2, <3>1, <3>3 DEF rvars
  <2>3. CASE EnsureRuns(r)
    <3>1. UNCHANGED rvars /\ EnsureStep(r) BY <2>3 DEF EnsureRuns
    <3>2. PICK k \in CallType : call' = [call EXCEPT ![r] = k] /\ CallOK(k)
      BY <1>0, <3>1, CallStep
    <3>3. klines' \in [Symbols -> SUBSET Bars] /\ now' = now BY <1>0, <3>1, CallStep
    <3>4. KV BY <1>3, <3>2, <3>3
    <3> QED BY <1>0, <1>2, <3>1, <3>4 DEF rvars
  <2>4. CASE EnsureFails(r)
    <3>1. UNCHANGED rvars /\ UNCHANGED <<klines, now>>
            /\ call' = [call EXCEPT ![r].at = "failed", ![r].missing = {}]
      BY <2>4 DEF EnsureFails, CallFails
    <3> DEFINE k == [call[r] EXCEPT !.at = "failed", !.missing = {}]
    <3>2. k \in CallType /\ CallOK(k)
      <4>1. call[r] \in CallType BY <1>0
      <4> HIDE <1>0
      <4> QED BY <4>1 DEF CallType, CallStates, CallOK
    <3>3. call' = [call EXCEPT ![r] = k] BY <1>0, <3>1
    <3> HIDE DEF k
    <3>4. KV BY <1>0, <1>3, <3>1, <3>2, <3>3
    <3> QED BY <1>0, <1>2, <3>1, <3>4 DEF rvars
  <2>5. CASE ReplayFails(r)
    <3>1. /\ at[r] = "replay" /\ row' = [row EXCEPT ![r] = "failed"]
          /\ at' = [at EXCEPT ![r] = "over"]
          /\ UNCHANGED <<kvars, request, artifacts, todo, reports, bars, gone>>
      BY <2>5 DEF ReplayFails, Fail, Goto
    <3>2. Req BY <1>0, <1>2, <3>1
    <3>3. RV BY <1>0, <3>1 DEF Steps
    <3> QED BY <1>0, <1>1, <3>1, <3>2, <3>3
  <2>6. CASE EnsureReturns(r)
    <3>1. /\ at[r] = "ensure" /\ call' = [call EXCEPT ![r] = Idle]
          /\ UNCHANGED <<klines, now, request, artifacts, bars, gone>>
      BY <2>6 DEF EnsureReturns
    <3>2. KV BY <1>0, <1>3, <3>1, IdleType DEF CallOK
    <3>3. todo[r] # <<>> /\ Tail(todo[r]) \in Seq(Symbols)
      BY <1>0, <3>1, HeadAndTail DEF TodoInv
    <3>4. CASE call[r].at = "failed"
      <4>1. row' = [row EXCEPT ![r] = "failed"] /\ at' = [at EXCEPT ![r] = "over"]
              /\ UNCHANGED <<todo, reports>>
        BY <2>6, <3>4 DEF EnsureReturns, Fail, Goto
      <4>2. Req BY <1>0, <1>2, <3>1, <4>1
      <4>3. RV BY <1>0, <3>1, <4>1 DEF Steps
      <4> QED BY <1>0, <3>1, <3>2, <4>1, <4>2, <4>3
    <3>5. CASE call[r].at # "failed"
      <4>1. UNCHANGED row
              /\ reports' = [reports EXCEPT ![r][call[r].symbol] = <<call[r].start, call[r].end>>]
              /\ \/ todo' = [todo EXCEPT ![r] = Tail(todo[r])] /\ UNCHANGED at
                 \/ todo' = [todo EXCEPT ![r] = request[r].symbols]
                      /\ at' = [at EXCEPT ![r] = "replay"]
        BY <2>6, <3>5 DEF EnsureReturns, Goto
      <4>2. Req BY <1>0, <1>2, <3>1, <4>1
      <4>3. RV BY <1>0, <1>4, <3>1, <3>3, <4>1 DEF Steps
      <4>4. <<call[r].start, call[r].end>> \in Bars \X Bars BY <1>0 DEF CallType
      <4>5. Out BY <1>0, <3>1, <4>1, <4>4
      <4> QED BY <3>2, <4>2, <4>3, <4>5
    <3> QED BY <3>4, <3>5
  <2>7. CASE ReplaySymbol(r)
    <3>1. at[r] = "replay" /\ UNCHANGED <<kvars, request, artifacts, reports, gone>>
      BY <2>7 DEF ReplaySymbol
    <3>2. todo[r] # <<>> /\ Tail(todo[r]) \in Seq(Symbols) /\ Head(todo[r]) \in Symbols
      BY <1>0, <3>1, HeadAndTail DEF TodoInv
    <3>3. CASE row' = [row EXCEPT ![r] = "failed"] /\ at' = [at EXCEPT ![r] = "over"]
                 /\ UNCHANGED <<todo, bars>>
      <4>1. Req BY <1>0, <1>2, <3>1, <3>3
      <4>2. RV BY <1>0, <3>1, <3>3 DEF Steps
      <4> QED BY <1>0, <1>1, <3>1, <3>3, <4>1, <4>2
    <3>4. CASE /\ bars' = [bars EXCEPT ![r][Head(todo[r])] = Loaded(r, Head(todo[r]))]
               /\ todo' = [todo EXCEPT ![r] = Tail(todo[r])] /\ UNCHANGED row
               /\ UNCHANGED at \/ at' = [at EXCEPT ![r] = "save"]
      <4>1. Req BY <1>0, <1>2, <3>1, <3>4
      <4>2. RV BY <1>0, <3>1, <3>2, <3>4 DEF Steps
      <4>3. Loaded(r, Head(todo[r])) \in SUBSET Bars BY <1>0, <3>2 DEF Loaded
      <4>4. Out BY <1>0, <3>1, <3>4, <4>3
      <4> QED BY <1>1, <3>1, <4>1, <4>2, <4>4
    <3> QED BY <2>7, <3>3, <3>4 DEF ReplaySymbol, Fail, Goto
  <2>8. CASE SaveResult(r)
    <3>1. /\ at[r] = "save" /\ row' = [row EXCEPT ![r] = "succeeded"]
          /\ at' = [at EXCEPT ![r] = "artifacts"]
          /\ UNCHANGED <<kvars, request, artifacts, todo, reports, bars, gone>>
      BY <2>8 DEF SaveResult, Goto
    <3>2. Req BY <1>0, <1>2, <3>1
    <3>3. RV BY <1>0, <3>1 DEF Steps
    <3> QED BY <1>0, <1>1, <3>1, <3>2, <3>3
  <2>9. CASE SaveArtifacts(r)
    <3>1. /\ at[r] = "artifacts" /\ artifacts' = artifacts \cup {r}
          /\ at' = [at EXCEPT ![r] = "over"]
          /\ UNCHANGED <<kvars, request, row, todo, reports, bars, gone>>
      BY <2>9 DEF SaveArtifacts, Goto
    <3>2. Req BY <1>0, <1>2, <3>1
    <3>3. RV BY <1>0, <3>1 DEF Steps
    <3> QED BY <1>0, <1>1, <3>1, <3>2, <3>3
  <2>10. CASE Leave(r)
    <3>1. gone' = gone \cup {r}
            /\ UNCHANGED <<kvars, request, row, artifacts, at, todo, reports, bars>>
      BY <2>10 DEF Leave
    <3>2. Req BY <1>0, <1>2, <3>1
    <3>3. RV BY <1>0, <3>1
    <3> QED BY <1>0, <1>1, <3>1, <3>2, <3>3
  <2>11. CASE Abandon(r)
    <3>1. /\ at' = [at EXCEPT ![r] = "over"] /\ call' = [call EXCEPT ![r] = Idle]
          /\ UNCHANGED <<klines, now, request, row, artifacts, todo, reports, bars, gone>>
      BY <2>11 DEF Abandon, Goto
    <3>2. KV BY <1>0, <1>3, <3>1, IdleType DEF CallOK
    <3>3. RV BY <1>0, <3>1 DEF Steps
    <3>4. at[r] # "new" BY <2>11 DEF Abandon, GoneInv
    <3>5. Req BY <1>0, <1>2, <3>1, <3>4
    <3> QED BY <1>0, <3>1, <3>2, <3>3, <3>5
  <2> QED
    BY <1>5, <2>1, <2>2, <2>3, <2>4, <2>5, <2>6, <2>7, <2>8, <2>9, <2>10, <2>11
    DEF Handler, Fault
<1>6. CASE Pass /\ UNCHANGED rvars
  <2>1. now' \in Times BY <1>0, <1>6, LastTime DEF Pass, Times
  <2>2. KV BY <1>0, <1>6, <2>1 DEF Pass
  <2> QED BY <1>0, <1>2, <1>6, <2>2 DEF rvars
<1>7. CASE UNCHANGED vars BY <1>0, <1>1, <1>2, <1>7 DEF vars, rvars
<1> QED BY <1>5, <1>6, <1>7 DEF Next
BaseInv == TypeInv /\ TodoInv /\ TimedInv /\ GoneInv

LEMMA Base == Spec => []BaseInv
<1>1. Init => BaseInv
  <2> SUFFICES ASSUME Init PROVE BaseInv OBVIOUS
  <2>1. TypeInv BY InitType
  <2>2. gone = {} /\ \A r \in Calls : at[r] = "new" BY DEF Init
  <2> QED BY <2>1, <2>2 DEF BaseInv, TodoInv, TimedInv, GoneInv
<1>2. BaseInv /\ [Next]_vars => BaseInv'
  BY TypeStep, TodoStep, TimedStep, GoneStep DEF BaseInv
<1> QED BY <1>1, <1>2, PTL DEF Spec

\* Every variable has its type.
THEOREM TypeCorrect == Spec => []TypeOK
<1>1. BaseInv => TypeOK BY DEF BaseInv, TypeInv
<1> QED BY <1>1, Base, PTL

-----------------------------------------------------------------------------
(***************************************************************************)
(* The row.                                                                *)
(***************************************************************************)

\* How far the handler is, and what its row says; artifacts only with a result.
RowOf(r) ==
  /\ at[r] = "new" => row[r] = "absent"
  /\ at[r] \in {"ensure", "replay", "save"} => row[r] = "running"
  /\ at[r] = "artifacts" => row[r] = "succeeded"
  /\ r \in artifacts => row[r] = "succeeded"
  /\ at[r] = "over" /\ r \notin gone =>
       row[r] = "failed" \/ (row[r] = "succeeded" /\ r \in artifacts)

RowInv == \A r \in Calls : RowOf(r)

LEMMA RowStep == BaseInv /\ RowInv /\ [Next]_vars => RowInv'
<1> SUFFICES ASSUME BaseInv, RowInv, [Next]_vars, NEW q \in Calls PROVE RowOf(q)'
  BY DEF RowInv
<1>0. /\ at \in [Calls -> Steps] /\ row \in [Calls -> {"absent", "running", "succeeded", "failed"}]
      /\ RowOf(q) /\ GoneInv
  BY DEF BaseInv, TypeInv, TypeOK, RowInv
<1>1. ASSUME UNCHANGED <<row, artifacts, at, gone>> PROVE RowOf(q)'
  BY <1>0, <1>1 DEF RowOf
<1>2. ASSUME NEW r \in Calls, Handler(r) \/ Fault(r) \/ Leave(r) PROVE RowOf(q)'
  <2>1. CASE CreateRun(r)
    <3>1. /\ at[r] = "new" /\ row' = [row EXCEPT ![r] = "running"]
          /\ \E step \in {"ensure", "replay"} : at' = [at EXCEPT ![r] = step]
          /\ UNCHANGED <<artifacts, gone>>
      BY <2>1 DEF CreateRun, Goto
    <3> QED BY <1>0, <3>1 DEF RowOf
  <2>2. CASE EnsureSymbol(r) \/ EnsureRuns(r) \/ EnsureFails(r)
    BY <1>1, <2>2 DEF EnsureSymbol, EnsureRuns, EnsureFails, rvars
  <2>3. ASSUME at[r] \in {"ensure", "replay"}, Fail(r), UNCHANGED <<artifacts, gone>>
        PROVE  RowOf(q)'
    BY <1>0, <2>3 DEF RowOf, Fail, Goto
  <2>4. ASSUME at[r] \in {"ensure", "replay"}, UNCHANGED <<row, artifacts, gone>>,
               UNCHANGED at \/ at' = [at EXCEPT ![r] = "replay"] \/ at' = [at EXCEPT ![r] = "save"]
        PROVE  RowOf(q)'
    BY <1>0, <2>4 DEF RowOf
  <2>5. CASE EnsureReturns(r) BY <2>3, <2>4, <2>5 DEF EnsureReturns, Goto
  <2>6. CASE ReplaySymbol(r) BY <2>3, <2>4, <2>6 DEF ReplaySymbol, Goto
  <2>7. CASE ReplayFails(r) BY <2>3, <2>7 DEF ReplayFails
  <2>8. CASE SaveResult(r) BY <1>0, <2>8 DEF SaveResult, Goto, RowOf
  <2>9. CASE SaveArtifacts(r) BY <1>0, <2>9 DEF SaveArtifacts, Goto, RowOf
  <2>10. CASE Leave(r) BY <1>0, <2>10 DEF Leave, RowOf
  <2>11. CASE Abandon(r) BY <1>0, <2>11 DEF Abandon, Goto, RowOf
  <2> QED
    BY <1>2, <2>1, <2>2, <2>5, <2>6, <2>7, <2>8, <2>9, <2>10, <2>11 DEF Handler, Fault
<1>3. CASE Pass /\ UNCHANGED rvars BY <1>1, <1>3 DEF rvars
<1>4. CASE UNCHANGED vars BY <1>1, <1>4 DEF vars, rvars
<1> QED BY <1>2, <1>3, <1>4 DEF Next

LEMMA Rows == Spec => []RowInv
<1>1. Init => RowInv BY DEF Init, RowInv, RowOf
<1> QED BY <1>1, RowStep, Base, PTL DEF Spec

\* Every way a run can end leaves a row that tells it: failed, or succeeded with
\* its artifacts; only a handler that was cut off may leave a row that does not.
THEOREM RowTells == Spec => []RowTellsTheEnd
<1>1. BaseInv /\ RowInv => RowTellsTheEnd
  BY DEF BaseInv, TypeInv, TypeOK, RowInv, RowOf, RowTellsTheEnd
<1> QED BY <1>1, Base, Rows, PTL
-----------------------------------------------------------------------------
(***************************************************************************)
(* What a run reports, it has replayed, but for the bars it may lose.      *)
(***************************************************************************)

\* A part of the range the run asked for is reported for the symbol, and stored.
Reported(r, s) ==
  /\ reports[r][s] # NoReport
  /\ reports[r][s][1] = BarAt(request[r].start) /\ BarOpen(reports[r][s][2]) <= request[r].end
  /\ (reports[r][s][1]..reports[r][s][2]) \subseteq klines[s]

\* The bars that were replayed hold that range, but for those that may be lost.
Replayed(r, s) ==
  \A b \in reports[r][s][1]..reports[r][s][2] :
    \/ b \in bars[r][s] \/ CutByLimit(r, s, b) \/ <<s, b>> \in Worthless
    \/ b = reports[r][s][1] /\ BarOpen(b) < request[r].start

Named(r) == ToSet(request[r].symbols)

\* A call works for the next symbol of its run, on a part of the range the run
\* asked for, and is complete only with every bar of it.
CallOf(r) ==
  LET k == call[r] IN
  /\ k.at # "idle" => at[r] = "ensure"
  /\ k.at \in Working \cup {"complete"} =>
       /\ k.symbol = Head(todo[r]) /\ k.start = BarAt(request[r].start)
       /\ BarOpen(k.end) <= request[r].end
  /\ k.at = "complete" => Covered(k)

CallInv == \A r \in Calls : CallOf(r)

\* The symbols of a run that are done: first reported, then replayed.
WorkOf(r) ==
  /\ at[r] = "ensure" => \A s \in Named(r) : s \in ToSet(todo[r]) \/ Reported(r, s)
  /\ at[r] = "replay" /\ request[r].timed =>
       \A s \in Named(r) : Reported(r, s) /\ (s \in ToSet(todo[r]) \/ Replayed(r, s))
  /\ (at[r] \in {"save", "artifacts"} \/ row[r] = "succeeded") /\ request[r].timed =>
       \A s \in Named(r) : Reported(r, s) /\ Replayed(r, s)

WorkInv == \A r \in Calls : WorkOf(r)

LEMMA NamedSymbols ==
  ASSUME TypeInv, NEW r \in Calls, at[r] # "new"
  PROVE  Named(r) \subseteq Symbols
<1>1. request[r].symbols \in Seq(Symbols) /\ request[r].symbols # <<>>
  BY RequestType DEF TypeInv
<1> QED BY <1>1, HeadAndTail DEF Named

\* Bars are never taken out of the table.
LEMMA TableGrows ==
  ASSUME TypeInv, [Next]_vars
  PROVE  \A s \in Symbols : klines[s] \subseteq klines'[s]
<1>1. ASSUME UNCHANGED klines PROVE \A s \in Symbols : klines[s] \subseteq klines'[s]
  BY <1>1
<1>2. ASSUME NEW r \in Calls, EnsureRuns(r) PROVE \A s \in Symbols : klines[s] \subseteq klines'[s]
  BY <1>2, CallStep DEF EnsureRuns, TypeInv, TypeOK
<1>3. ASSUME NEW r \in Calls, Handler(r) \/ Fault(r) \/ Leave(r), ~ EnsureRuns(r)
      PROVE  UNCHANGED klines
  BY <1>3 DEF Handler, Fault, Leave, CreateRun, EnsureSymbol, EnsureReturns, ReplaySymbol,
              SaveResult, SaveArtifacts, Abandon, EnsureFails, CallFails, ReplayFails, kvars
<1>4. CASE Pass /\ UNCHANGED rvars BY <1>1, <1>4 DEF Pass
<1>5. CASE UNCHANGED vars BY <1>1, <1>5 DEF vars, kvars
<1> QED BY <1>1, <1>2, <1>3, <1>4, <1>5 DEF Next

LEMMA CallInvStep == BaseInv /\ CallInv /\ [Next]_vars => CallInv'
<1> SUFFICES ASSUME BaseInv, CallInv, [Next]_vars, NEW q \in Calls PROVE CallOf(q)'
  BY DEF CallInv
<1>0. /\ CoverageTypeOK /\ TypeInv /\ TodoInv /\ TimedInv /\ \A r \in Calls : CallOK(call[r])
      /\ klines \in [Symbols -> SUBSET Bars] /\ call \in [Calls -> CallType]
      /\ at \in [Calls -> Steps] /\ todo \in [Calls -> Seq(Symbols)] /\ CallOf(q)
      /\ request = [r \in Calls |-> request[r]]
  BY DEF BaseInv, TypeInv, TypeOK, CoverageTypeOK, CallType, CallInv
<1>1. \A s \in Symbols : klines[s] \subseteq klines'[s] BY <1>0, TableGrows
<1>2. ASSUME call'[q] = call[q], at'[q] = at[q], todo'[q] = todo[q], request'[q] = request[q]
      PROVE  CallOf(q)'
  <2>1. call[q].symbol \in Symbols BY <1>0 DEF CallType
  <2>2. Covered(call[q]) => Covered(call[q])' BY <1>1, <1>2, <2>1 DEF Covered
  <2> QED BY <1>0, <1>2, <2>2 DEF CallOf
<1>3. ASSUME call'[q].at = "idle" PROVE CallOf(q)' BY <1>3 DEF CallOf, Working
<1>4. ASSUME call'[q].at = "failed", at'[q] = "ensure" PROVE CallOf(q)'
  BY <1>4 DEF CallOf, Working
<1>5. ASSUME NEW r \in Calls, Handler(r) \/ Fault(r) \/ Leave(r) PROVE CallOf(q)'
  <2>1. CASE CreateRun(r)
    <3>1. /\ at[r] = "new" /\ UNCHANGED kvars /\ \E s \in Steps : at' = [at EXCEPT ![r] = s]
          /\ \E req, t : request' = [request EXCEPT ![r] = req] /\ todo' = [todo EXCEPT ![r] = t]
      BY <2>1 DEF CreateRun, Goto, Steps
    <3>2. CASE q = r
      <4>1. call[q].at = "idle" BY <1>0, <3>1, <3>2 DEF CallOf
      <4> QED BY <1>3, <3>1, <4>1 DEF kvars
    <3>3. CASE q # r BY <1>0, <1>2, <3>1, <3>3 DEF kvars
    <3> QED BY <3>2, <3>3
  <2>2. CASE EnsureSymbol(r)
    <3>1. at[r] = "ensure" /\ UNCHANGED rvars BY <2>2 DEF EnsureSymbol
    <3>2. PICK k \in CallType :
            /\ call' = [call EXCEPT ![r] = k] /\ k.at \in {"failed", "inspect"}
            /\ k.at = "inspect" => k.symbol = Head(todo[r]) /\ k.start = BarAt(request[r].start)
                                     /\ BarOpen(k.end) <= request[r].end
      BY <1>0, <2>2, EnsureBegins
    <3>3. CASE q = r BY <1>0, <3>1, <3>2, <3>3 DEF CallOf, Working, rvars
    <3>4. CASE q # r BY <1>0, <1>2, <3>1, <3>2, <3>4 DEF rvars
    <3> QED BY <3>3, <3>4
  <2>3. CASE EnsureRuns(r)
    <3>1. at[r] = "ensure" /\ UNCHANGED rvars /\ EnsureStep(r) BY <2>3 DEF EnsureRuns
    <3>2. call[r].at \in Working BY <1>0, <3>1, CallStep
    <3>3. PICK k \in CallType :
            /\ call' = [call EXCEPT ![r] = k] /\ SameRange(k, call[r])
            /\ k.at \in Working \cup {"complete", "failed"}
            /\ k.at = "complete" => (k.start..k.end) \subseteq klines'[k.symbol]
      BY <1>0, <3>1, CallStep
    <3>4. CASE q = r
      BY <1>0, <3>1, <3>2, <3>3, <3>4 DEF CallOf, Working, SameRange, Covered, rvars
    <3>5. CASE q # r BY <1>0, <1>2, <3>1, <3>3, <3>5 DEF rvars
    <3> QED BY <3>4, <3>5
  <2>4. CASE EnsureFails(r)
    <3>1. /\ call' = [call EXCEPT ![r].at = "failed", ![r].missing = {}] /\ UNCHANGED rvars
          /\ call[r].at \in Working
      BY <2>4 DEF EnsureFails, CallFails, Working
    <3>2. CASE q = r
      <4>1. at[q] = "ensure" BY <1>0, <3>1, <3>2 DEF CallOf, Working
      <4>2. call'[q].at = "failed" BY <1>0, <3>1, <3>2 DEF CallType
      <4> QED BY <1>4, <3>1, <4>1, <4>2 DEF rvars
    <3>3. CASE q # r BY <1>0, <1>2, <3>1, <3>3 DEF rvars
    <3> QED BY <3>2, <3>3
  <2>5. CASE EnsureReturns(r) \/ Abandon(r)
    <3>1. /\ call' = [call EXCEPT ![r] = Idle] /\ request' = request
          /\ at' = at \/ \E s \in Steps : at' = [at EXCEPT ![r] = s]
          /\ todo' = todo \/ \E t : todo' = [todo EXCEPT ![r] = t]
      BY <2>5 DEF EnsureReturns, Abandon, Fail, Goto, Steps
    <3>2. CASE q = r BY <1>0, <1>3, <3>1, <3>2, IdleType
    <3>3. CASE q # r BY <1>0, <1>2, <3>1, <3>3
    <3> QED BY <3>2, <3>3
  <2>6. CASE ReplaySymbol(r) \/ ReplayFails(r) \/ SaveResult(r) \/ SaveArtifacts(r)
    <3>1. /\ at[r] # "ensure" /\ call' = call /\ request' = request
          /\ at' = at \/ \E s \in Steps : at' = [at EXCEPT ![r] = s]
          /\ todo' = todo \/ \E t : todo' = [todo EXCEPT ![r] = t]
      BY <2>6 DEF ReplaySymbol, ReplayFails, SaveResult, SaveArtifacts, Fail, Goto, Steps, kvars
    <3>2. CASE q = r
      <4>1. call[q].at = "idle" BY <1>0, <3>1, <3>2 DEF CallOf
      <4> QED BY <1>3, <3>1, <4>1
    <3>3. CASE q # r BY <1>0, <1>2, <3>1, <3>3
    <3> QED BY <3>2, <3>3
  <2>7. CASE Leave(r) BY <1>2, <2>7 DEF Leave, kvars
  <2> QED BY <1>5, <2>1, <2>2, <2>3, <2>4, <2>5, <2>6, <2>7 DEF Handler, Fault
<1>6. CASE Pass /\ UNCHANGED rvars BY <1>2, <1>6 DEF Pass, rvars
<1>7. CASE UNCHANGED vars BY <1>2, <1>7 DEF vars, rvars, kvars
<1> QED BY <1>5, <1>6, <1>7 DEF Next
\* What a limit leaves out is older than every bar it leaves in: the rows after a
\* bar that is left out are as many as the limit, and are after any older bar too.
LEMMA LimitCutsOld ==
  ASSUME TypeInv, NEW r \in Calls, at[r] # "new", request[r].timed, NEW s \in Symbols,
         Loaded(r, s) # {},
         NEW b \in klines[s], request[r].start <= BarOpen(b), BarOpen(b) <= request[r].end,
         <<s, b>> \notin Worthless
  PROVE  b \in Loaded(r, s)
           \/ (request[r].limit > 0 /\ \A c \in Loaded(r, s) : b < c)
<1> DEFINE rows == {c \in klines[s] :
                      request[r].timed => request[r].start <= BarOpen(c)
                                            /\ BarOpen(c) <= request[r].end}
           Later(c) == {later \in rows : later > c}
<1>1. /\ request[r].start \in Nat /\ request[r].end \in Nat /\ request[r].limit \in Nat
  BY RequestType DEF TypeInv
<1>2. klines[s] \subseteq Bars /\ rows \subseteq Int /\ b \in rows
  BY <1>1, CoverageAssumption DEF TypeInv, TypeOK, CoverageTypeOK, Bars
<1>3. \A c : c \in Loaded(r, s) <=>
             /\ c \in rows /\ <<s, c>> \notin Worthless
             /\ request[r].limit = 0 \/ Cardinality(Later(c)) < request[r].limit
  BY DEF Loaded
<1>4. IsFiniteSet(rows)
  <2>1. IsFiniteSet(Bars) BY FS_Interval, CoverageAssumption DEF Bars
  <2>2. rows \in SUBSET Bars BY <1>2
  <2> QED BY <2>1, <2>2, FS_Subset
<1> SUFFICES ASSUME b \notin Loaded(r, s), NEW c \in Loaded(r, s)
             PROVE  request[r].limit > 0 /\ b < c
  OBVIOUS
<1>5. \A d \in rows : Cardinality(Later(d)) \in Nat /\ IsFiniteSet(Later(d))
  <2> TAKE d \in rows
  <2>1. Later(d) \in SUBSET rows OBVIOUS
  <2>2. IsFiniteSet(Later(d)) BY <1>4, <2>1, FS_Subset
  <2> QED BY <2>2, FS_CardinalityType
<1>6. c \in rows BY <1>3
<1>7. request[r].limit # 0 /\ ~ (Cardinality(Later(b)) < request[r].limit)
        /\ Cardinality(Later(c)) < request[r].limit
  BY <1>2, <1>3
<1>8. ASSUME ~ (b < c) PROVE FALSE
  <2>1. Later(b) \in SUBSET Later(c) BY <1>2, <1>6, <1>8
  <2>2. Cardinality(Later(b)) <= Cardinality(Later(c)) BY <1>5, <1>6, <2>1, FS_Subset
  <2> HIDE DEF Later
  <2> QED BY <1>1, <1>2, <1>5, <1>6, <1>7, <2>2
<1> QED BY <1>1, <1>7, <1>8

LEMMA NoReportIsNone == \A a, b : <<a, b>> # NoReport
<1> SUFFICES ASSUME NEW a, NEW b, <<a, b>> = <<>> PROVE FALSE BY DEF NoReport
<1>1. Len(<<a, b>>) = 2 /\ Len(<<>>) = 0 OBVIOUS
<1> QED BY <1>1

\* What a run has done stays done while the table grows.
LEMMA WorkStays ==
  ASSUME TypeInv, [Next]_vars, NEW r \in Calls, WorkOf(r),
         RowOf(r), UNCHANGED <<request[r], row[r], at[r], todo[r], reports[r], bars[r]>>
  PROVE  WorkOf(r)'
<1>1. CASE at[r] = "new" BY <1>1 DEF WorkOf, RowOf
<1>2. CASE at[r] # "new"
  <2>1. \A s \in Symbols : klines[s] \subseteq klines'[s] BY TableGrows
  <2>2. Named(r)' = Named(r) /\ Named(r) \subseteq Symbols BY <1>2, NamedSymbols DEF Named
  <2>3. \A s \in Symbols : Reported(r, s) => Reported(r, s)' BY <2>1 DEF Reported
  <2>4. \A s \in Symbols : Replayed(r, s) => Replayed(r, s)' BY DEF Replayed, CutByLimit
  <2>5. UNCHANGED <<request[r], row[r], at[r], todo[r]>> OBVIOUS
  <2> QED BY <2>2, <2>3, <2>4, <2>5 DEF WorkOf
<1> QED BY <1>1, <1>2
\* A report of the symbol at the head, from a call that is complete.
LEMMA ReportStep ==
  ASSUME BaseInv, CallInv, RowInv, WorkInv, NEW r \in Calls, EnsureReturns(r),
         call[r].at = "complete"
  PROVE  WorkOf(r)'
<1>0. /\ TypeInv /\ TimedInv /\ TodoInv /\ call[r] \in CallType /\ at \in [Calls -> Steps]
      /\ todo \in [Calls -> Seq(Symbols)] /\ reports \in [Calls -> [Symbols -> {NoReport} \cup (Bars \X Bars)]]
      /\ WorkOf(r) /\ CallOf(r) /\ RowOf(r)
  BY DEF BaseInv, TypeInv, TypeOK, CoverageTypeOK, CallType, CallInv, RowInv, WorkInv
<1>a. PICK symbol \in Symbols : symbol = call[r].symbol BY <1>0 DEF CallType
<1>b. PICK report : report = <<call[r].start, call[r].end>> OBVIOUS
<1>1. /\ at[r] = "ensure" /\ UNCHANGED <<klines, now, request, row, artifacts, bars, gone>>
      /\ reports' = [reports EXCEPT ![r][symbol] = report]
      /\ IF Len(todo[r]) > 1
         THEN todo' = [todo EXCEPT ![r] = Tail(todo[r])] /\ at' = at
         ELSE todo' = [todo EXCEPT ![r] = request[r].symbols] /\ at' = [at EXCEPT ![r] = "replay"]
  BY <1>a, <1>b DEF EnsureReturns, Goto
<1>2. row[r] = "running" /\ request[r].timed BY <1>0, <1>1 DEF RowOf, TimedInv
<1>3. /\ ToSet(todo[r]) = {Head(todo[r])} \cup ToSet(Tail(todo[r])) /\ symbol = Head(todo[r])
      /\ ~ (Len(todo[r]) > 1) => ToSet(todo[r]) = {Head(todo[r])}
  <2>1. todo[r] # <<>> /\ todo[r] \in Seq(Symbols) BY <1>0, <1>1 DEF TodoInv
  <2>2. symbol = Head(todo[r]) BY <1>0, <1>a DEF CallOf
  <2> QED BY <2>1, <2>2, HeadAndTail
<1>4. Named(r)' = Named(r) /\ Named(r) \subseteq Symbols
  BY <1>0, <1>1, NamedSymbols DEF Named
<1>5. Reported(r, symbol)'
  <2>1. /\ report # NoReport /\ report[1] = call[r].start /\ report[2] = call[r].end
        /\ call[r].start = BarAt(request[r].start) /\ BarOpen(call[r].end) <= request[r].end
        /\ (call[r].start..call[r].end) \subseteq klines[symbol]
    BY <1>0, <1>a, <1>b, NoReportIsNone DEF CallOf, Covered
  <2>2. reports'[r][symbol] = report BY <1>0, <1>1
  <2> QED BY <1>1, <2>1, <2>2 DEF Reported
<1>6. \A s \in Symbols : Reported(r, s) => Reported(r, s)'
  <2> TAKE s \in Symbols
  <2>1. CASE s = symbol BY <1>5, <2>1
  <2>2. CASE s # symbol
    <3>1. reports'[r][s] = reports[r][s] BY <1>0, <1>1, <2>2
    <3> QED BY <1>1, <3>1 DEF Reported
  <2> QED BY <2>1, <2>2
<1>7. \A s \in Named(r) : s \in ToSet(Tail(todo[r])) \/ Reported(r, s)'
  <2> TAKE s \in Named(r)
  <2>1. s \in ToSet(todo[r]) \/ Reported(r, s) BY <1>0, <1>1 DEF WorkOf
  <2> QED BY <1>3, <1>4, <1>5, <1>6, <2>1
<1>8. CASE Len(todo[r]) > 1
  <2>1. todo'[r] = Tail(todo[r]) /\ at'[r] = "ensure" /\ row'[r] = "running"
    BY <1>0, <1>1, <1>2, <1>8
  <2>2. \A s \in Named(r)' : s \in ToSet(todo'[r]) \/ Reported(r, s)' BY <1>4, <1>7, <2>1
  <2> QED BY <2>1, <2>2 DEF WorkOf
<1>9. CASE ~ (Len(todo[r]) > 1)
  <2>1. todo'[r] = request[r].symbols /\ at'[r] = "replay" /\ row'[r] = "running"
    BY <1>0, <1>1, <1>2, <1>9
  <2>2. \A s \in Named(r) : Reported(r, s)'
    <3> TAKE s \in Named(r)
    <3>1. s \in ToSet(todo[r]) \/ Reported(r, s) BY <1>0, <1>1 DEF WorkOf
    <3> QED BY <1>3, <1>4, <1>5, <1>6, <1>9, <3>1
  <2>3. \A s \in Named(r) : s \in ToSet(todo'[r]) BY <2>1 DEF Named
  <2>4. \A s \in Named(r)' : Reported(r, s)' /\ s \in ToSet(todo'[r]) BY <1>4, <2>2, <2>3
  <2> QED BY <2>1, <2>4 DEF WorkOf
<1> QED BY <1>8, <1>9

\* The bars of the symbol at the head are replayed.
LEMMA ReplayStep ==
  ASSUME BaseInv, RowInv, WorkInv, NEW r \in Calls, ReplaySymbol(r), UNCHANGED row
  PROVE  WorkOf(r)'
<1>0. /\ TypeInv /\ TodoInv /\ at \in [Calls -> Steps] /\ todo \in [Calls -> Seq(Symbols)]
      /\ row \in [Calls -> {"absent", "running", "succeeded", "failed"}]
      /\ bars \in [Calls -> [Symbols -> SUBSET Bars]] /\ WorkOf(r) /\ RowOf(r)
      /\ klines \in [Symbols -> SUBSET Bars]
  BY DEF BaseInv, TypeInv, TypeOK, CoverageTypeOK, RowInv, WorkInv
<1>a. PICK symbol \in Symbols : symbol = Head(todo[r])
  <2>1. todo[r] # <<>> /\ todo[r] \in Seq(Symbols) BY <1>0 DEF TodoInv, ReplaySymbol
  <2> QED BY <2>1, HeadAndTail
<1>1. at[r] = "replay" /\ row[r] = "running" /\ UNCHANGED <<kvars, request, reports>>
  BY <1>0 DEF ReplaySymbol, RowOf
<1>2. /\ ~ \A b \in Loaded(r, symbol) : BarOpen(b) < request[r].evalStart
      /\ bars' = [bars EXCEPT ![r][symbol] = Loaded(r, symbol)]
      /\ todo' = [todo EXCEPT ![r] = Tail(todo[r])]
      /\ IF Len(todo[r]) > 1 THEN at' = at ELSE at' = [at EXCEPT ![r] = "save"]
  <2>1. ~ Fail(r) BY <1>0, <1>1 DEF Fail
  <2> QED BY <1>a, <2>1 DEF ReplaySymbol, Goto
<1>3. /\ ToSet(todo[r]) = {symbol} \cup ToSet(Tail(todo[r]))
      /\ ~ (Len(todo[r]) > 1) => ToSet(todo[r]) = {symbol}
  <2>1. todo[r] # <<>> /\ todo[r] \in Seq(Symbols) BY <1>0, <1>1 DEF TodoInv
  <2> QED BY <1>a, <2>1, HeadAndTail
<1> SUFFICES ASSUME request[r].timed PROVE WorkOf(r)'
  <2>1. at'[r] \in {"replay", "save"} /\ row'[r] = "running" /\ request' = request
    BY <1>0, <1>1, <1>2
  <2> QED BY <2>1 DEF WorkOf
<1>4. Named(r)' = Named(r) /\ Named(r) \subseteq Symbols
  BY <1>0, <1>1, NamedSymbols DEF Named
<1>5. \A s \in Symbols : Reported(r, s) => Reported(r, s)'
  BY <1>1 DEF Reported, kvars
<1>6. Reported(r, symbol) => Replayed(r, symbol)'
  <2> SUFFICES ASSUME Reported(r, symbol),
                      NEW b \in reports[r][symbol][1]..reports[r][symbol][2]
               PROVE  \/ b \in Loaded(r, symbol)
                      \/ (request[r].limit > 0 /\ Loaded(r, symbol) # {}
                            /\ \A c \in Loaded(r, symbol) : b < c)
                      \/ <<symbol, b>> \in Worthless
                      \/ b = reports[r][symbol][1] /\ BarOpen(b) < request[r].start
    <3>1. bars'[r][symbol] = Loaded(r, symbol) /\ reports' = reports /\ request' = request
      BY <1>0, <1>1, <1>2, <1>3
    <3> QED BY <3>1 DEF Replayed, CutByLimit
  <2>1. Loaded(r, symbol) # {} BY <1>2
  <2>2. request[r].start \in Nat /\ request[r].end \in Nat BY <1>0, <1>1, RequestType DEF TypeInv
  <2>3. reports[r][symbol] \in {NoReport} \cup (Bars \X Bars) BY <1>0, <1>3 DEF TypeInv, TypeOK
  <2>4. reports[r][symbol][1] = BarAt(request[r].start) /\ reports[r][symbol][2] \in Int
          /\ BarOpen(reports[r][symbol][2]) <= request[r].end /\ b \in klines[symbol]
    BY <2>3, CoverageAssumption DEF Reported, Bars
  <2>5. PICK first \in Int, last \in Int :
          /\ first = reports[r][symbol][1] /\ last = reports[r][symbol][2]
          /\ first = BarAt(request[r].start) /\ BarOpen(last) <= request[r].end
          /\ b \in Int /\ first <= b /\ b <= last
    BY <2>2, <2>4, FallsIn
  <2>6. BarOpen(b) \in Int /\ BarOpen(b) <= request[r].end
    <3>1. BarOpen(b) \in Int /\ BarOpen(last) \in Int /\ BarOpen(b) <= BarOpen(last)
      BY <2>5, OpenOrder
    <3> QED BY <2>2, <2>5, <3>1
  <2>7. BarOpen(b) < request[r].start => b = first
    <3>1. BarOpen(b) <= request[r].start => b <= BarAt(request[r].start) BY <2>2, <2>5, OpensBy
    <3> QED BY <2>2, <2>5, <2>6, <3>1
  <2>8. CASE BarOpen(b) < request[r].start BY <2>5, <2>7, <2>8
  <2>9. CASE <<symbol, b>> \in Worthless BY <2>9
  <2>10. CASE request[r].start <= BarOpen(b) /\ <<symbol, b>> \notin Worthless
    BY <1>0, <1>1, <1>3, <2>1, <2>4, <2>6, <2>10, LimitCutsOld
  <2> QED BY <2>2, <2>6, <2>8, <2>9, <2>10
<1>7. \A s \in Symbols \ {symbol} : Replayed(r, s) => Replayed(r, s)'
  <2> TAKE s \in Symbols \ {symbol}
  <2>1. bars'[r][s] = bars[r][s] /\ reports' = reports /\ request' = request
    BY <1>0, <1>1, <1>2
  <2> QED BY <2>1 DEF Replayed, CutByLimit
<1>8. \A s \in Named(r) : Reported(r, s)' /\ (s \in ToSet(Tail(todo[r])) \/ Replayed(r, s)')
  <2> TAKE s \in Named(r)
  <2>1. Reported(r, s) /\ (s \in ToSet(todo[r]) \/ Replayed(r, s)) BY <1>0, <1>1 DEF WorkOf
  <2> QED BY <1>3, <1>4, <1>5, <1>6, <1>7, <2>1
<1>9. CASE Len(todo[r]) > 1
  <2>1. todo'[r] = Tail(todo[r]) /\ at'[r] = "replay" /\ row'[r] = "running"
    BY <1>0, <1>1, <1>2, <1>9
  <2>2. \A s \in Named(r)' : Reported(r, s)' /\ (s \in ToSet(todo'[r]) \/ Replayed(r, s)')
    BY <1>4, <1>8, <2>1
  <2> QED BY <2>1, <2>2 DEF WorkOf
<1>10. CASE ~ (Len(todo[r]) > 1)
  <2>1. at'[r] = "save" BY <1>0, <1>2, <1>10
  <2>2. \A s \in Named(r) : Reported(r, s)' /\ Replayed(r, s)'
    <3> TAKE s \in Named(r)
    <3>1. Reported(r, s) /\ (s \in ToSet(todo[r]) \/ Replayed(r, s)) BY <1>0, <1>1 DEF WorkOf
    <3> QED BY <1>3, <1>4, <1>5, <1>6, <1>7, <1>10, <3>1
  <2>3. \A s \in Named(r)' : Reported(r, s)' /\ Replayed(r, s)' BY <1>4, <2>2
  <2> QED BY <2>1, <2>3 DEF WorkOf
<1> QED BY <1>9, <1>10
\* A step of one run leaves the others as they are.
LEMMA OtherRuns ==
  ASSUME TypeInv, NEW r \in Calls, NEW q \in Calls \ {r}, Handler(r) \/ Fault(r) \/ Leave(r)
  PROVE  UNCHANGED <<request[q], row[q], at[q], todo[q], reports[q], bars[q]>>
<1>0. /\ at \in [Calls -> Steps] /\ todo \in [Calls -> Seq(Symbols)]
      /\ row \in [Calls -> {"absent", "running", "succeeded", "failed"}]
      /\ reports \in [Calls -> [Symbols -> {NoReport} \cup (Bars \X Bars)]]
      /\ bars \in [Calls -> [Symbols -> SUBSET Bars]] /\ request = [c \in Calls |-> request[c]]
  BY DEF TypeInv, TypeOK
<1>1. ASSUME Fail(r), UNCHANGED <<request, todo, reports, bars>>
      PROVE  UNCHANGED <<request[q], row[q], at[q], todo[q], reports[q], bars[q]>>
  BY <1>0, <1>1 DEF Fail, Goto
<1>2. CASE CreateRun(r) BY <1>0, <1>2 DEF CreateRun, Goto
<1>3. CASE EnsureSymbol(r) \/ EnsureRuns(r) \/ EnsureFails(r)
  BY <1>3 DEF EnsureSymbol, EnsureRuns, EnsureFails, rvars
<1>4. CASE EnsureReturns(r)
  <2>1. CASE call[r].at = "failed" BY <1>1, <1>4, <2>1 DEF EnsureReturns
  <2>2. CASE call[r].at # "failed" BY <1>0, <1>4, <2>2 DEF EnsureReturns, Goto
  <2> QED BY <2>1, <2>2
<1>5. CASE ReplaySymbol(r)
  <2>1. CASE \A b \in Loaded(r, Head(todo[r])) : BarOpen(b) < request[r].evalStart
    BY <1>1, <1>5, <2>1 DEF ReplaySymbol
  <2>2. CASE ~ \A b \in Loaded(r, Head(todo[r])) : BarOpen(b) < request[r].evalStart
    BY <1>0, <1>5, <2>2 DEF ReplaySymbol, Goto
  <2> QED BY <2>1, <2>2
<1>6. CASE ReplayFails(r) BY <1>1, <1>6 DEF ReplayFails
<1>7. CASE SaveResult(r) \/ SaveArtifacts(r) \/ Abandon(r) \/ Leave(r)
  BY <1>0, <1>7 DEF SaveResult, SaveArtifacts, Abandon, Leave, Goto
<1> QED BY <1>2, <1>3, <1>4, <1>5, <1>6, <1>7 DEF Handler, Fault

LEMMA WorkStep == BaseInv /\ CallInv /\ RowInv /\ WorkInv /\ [Next]_vars => WorkInv'
<1> SUFFICES ASSUME BaseInv, CallInv, RowInv, WorkInv, [Next]_vars, NEW q \in Calls
             PROVE  WorkOf(q)'
  BY DEF WorkInv
<1>0. /\ TypeInv /\ at \in [Calls -> Steps] /\ WorkOf(q) /\ RowOf(q)
      /\ row \in [Calls -> {"absent", "running", "succeeded", "failed"}]
      /\ request = [c \in Calls |-> request[c]] /\ todo \in [Calls -> Seq(Symbols)]
  BY DEF BaseInv, TypeInv, TypeOK, RowInv, WorkInv
<1>1. ASSUME UNCHANGED <<request[q], row[q], at[q], todo[q], reports[q], bars[q]>>
      PROVE  WorkOf(q)'
  BY <1>0, <1>1, WorkStays
<1>2. ASSUME Fail(q) PROVE WorkOf(q)'
  <2>1. row'[q] = "failed" /\ at'[q] = "over" BY <1>0, <1>2 DEF Fail, Goto
  <2> QED BY <2>1 DEF WorkOf
<1>3. ASSUME \/ at[q] \in {"save", "artifacts"} /\ at'[q] \in {"save", "artifacts", "over"}
             \/ at'[q] = "over" /\ row'[q] = row[q],
             UNCHANGED <<klines, request, reports, bars>>
      PROVE  WorkOf(q)'
  BY <1>0, <1>3 DEF WorkOf, Named, Reported, Replayed, CutByLimit
<1>4. ASSUME Handler(q) \/ Fault(q) \/ Leave(q) PROVE WorkOf(q)'
  <2>1. CASE CreateRun(q)
    <3>1. PICK req \in Requests[q] :
            /\ request' = [request EXCEPT ![q] = req] /\ todo' = [todo EXCEPT ![q] = req.symbols]
            /\ at' = [at EXCEPT ![q] = IF req.timed THEN "ensure" ELSE "replay"]
            /\ row' = [row EXCEPT ![q] = "running"]
      BY <2>1 DEF CreateRun, Goto
    <3>2. req.timed \in BOOLEAN BY RequestsAssumption
    <3>3. /\ request'[q] = req /\ todo'[q] = req.symbols /\ row'[q] = "running"
          /\ at'[q] = IF req.timed THEN "ensure" ELSE "replay"
      BY <1>0, <3>1
    <3>4. \A s \in Named(q)' : s \in ToSet(todo'[q]) BY <3>3 DEF Named
    <3>5. CASE req.timed
      <4>1. at'[q] = "ensure" BY <3>3, <3>5
      <4> QED BY <3>3, <3>4, <4>1 DEF WorkOf
    <3>6. CASE ~ req.timed
      <4>1. at'[q] = "replay" /\ ~ request'[q].timed BY <3>3, <3>6
      <4> QED BY <3>3, <4>1 DEF WorkOf
    <3> QED BY <3>5, <3>6
  <2>2. CASE EnsureSymbol(q) \/ EnsureRuns(q) \/ EnsureFails(q)
    BY <1>1, <2>2 DEF EnsureSymbol, EnsureRuns, EnsureFails, rvars
  <2>3. CASE EnsureReturns(q)
    <3>1. CASE call[q].at = "failed" BY <1>2, <2>3, <3>1 DEF EnsureReturns
    <3>2. CASE call[q].at = "complete" BY <2>3, <3>2, ReportStep
    <3> QED BY <2>3, <3>1, <3>2 DEF EnsureReturns
  <2>4. CASE ReplaySymbol(q)
    <3>1. CASE UNCHANGED row BY <2>4, <3>1, ReplayStep
    <3>2. CASE Fail(q) BY <1>2, <3>2
    <3> QED BY <2>4, <3>1, <3>2 DEF ReplaySymbol
  <2>5. CASE ReplayFails(q) BY <1>2, <2>5 DEF ReplayFails
  <2>6. CASE SaveResult(q)
    <3>1. at[q] = "save" /\ at'[q] = "artifacts" /\ UNCHANGED <<klines, request, reports, bars>>
      BY <1>0, <2>6 DEF SaveResult, Goto, kvars
    <3> QED BY <1>3, <3>1
  <2>7. CASE SaveArtifacts(q)
    <3>1. at[q] = "artifacts" /\ at'[q] = "over" /\ UNCHANGED <<klines, request, reports, bars>>
      BY <1>0, <2>7 DEF SaveArtifacts, Goto, kvars
    <3> QED BY <1>3, <3>1
  <2>8. CASE Abandon(q)
    <3>1. at'[q] = "over" /\ row'[q] = row[q] /\ UNCHANGED <<klines, request, reports, bars>>
      BY <1>0, <2>8 DEF Abandon, Goto
    <3> QED BY <1>3, <3>1
  <2>9. CASE Leave(q) BY <1>1, <2>9 DEF Leave
  <2> QED BY <1>4, <2>1, <2>2, <2>3, <2>4, <2>5, <2>6, <2>7, <2>8, <2>9 DEF Handler, Fault
<1>5. ASSUME NEW r \in Calls, r # q, Handler(r) \/ Fault(r) \/ Leave(r) PROVE WorkOf(q)'
  BY <1>0, <1>1, <1>5, OtherRuns
<1>6. CASE Pass /\ UNCHANGED rvars BY <1>1, <1>6 DEF rvars
<1>7. CASE UNCHANGED vars BY <1>1, <1>7 DEF vars, rvars
<1> QED BY <1>4, <1>5, <1>6, <1>7 DEF Next

LEMMA Work == Spec => [](CallInv /\ WorkInv)
<1>1. Init => CallInv /\ WorkInv
  <2> SUFFICES ASSUME Init, NEW r \in Calls PROVE CallOf(r) /\ WorkOf(r)
    BY DEF CallInv, WorkInv
  <2>1. at[r] = "new" /\ row[r] = "absent" /\ call[r] = Idle BY DEF Init, CoverageInit
  <2> QED BY <2>1, IdleType DEF CallOf, WorkOf, Working
<1> QED BY <1>1, CallInvStep, WorkStep, Base, Rows, PTL DEF Spec

\* Of every range that a run which succeeded reports, it has replayed every bar but
\* those that the limit leaves out, the first one when the request starts after it
\* opened, and those with a worthless close: none is lost to other runs, to a
\* failed batch or to a hole.
THEOREM Replays == Spec => []ReplaysUsableBars
<1>1. WorkInv => ReplaysUsableBars
  BY DEF WorkInv, WorkOf, Named, Reported, Replayed, ReplaysUsableBars
<1> QED BY <1>1, Work, PTL
=============================================================================
