----------------------------- MODULE BacktestRuns -----------------------------
(***************************************************************************)
(* CreateBacktest (api/handler_backtest.go): the row of the run, the       *)
(* market data of each symbol (KLineCoverage), the replay of each symbol,  *)
(* the result in the row and then, in a transaction of its own, the        *)
(* account, order, position, log and report rows.  All of it runs in the   *)
(* request, with the request's context: once that is cancelled every       *)
(* statement fails, the one that would mark the row as failed included.    *)
(***************************************************************************)
EXTENDS KLineCoverage, Sequences, SequencesExt

CONSTANTS
  Requests,   \* what each client may ask for: symbols, timed, start, end, evalStart, limit
  Worthless   \* <<symbol, bar>>: bars that come with a close of zero or less

\* A valid request names at least one symbol.  A range with only one end is left out:
\* nothing is ensured for it.  Start and end are any milliseconds.
ASSUME RequestsAssumption ==
  \A r \in Calls : \A req \in Requests[r] :
    /\ req.symbols \in Seq(Symbols) \ {<<>>} /\ req.timed \in BOOLEAN
    /\ req.timed => req.start \in Nat /\ req.end \in Nat
    /\ req.evalStart \in Int /\ req.limit \in Nat

VARIABLES
  request,    \* of each run, once it is valid
  row,        \* backtest_runs.status, "absent" before it
  artifacts,  \* the runs that have rows in bt_account, ..., bt_reports
  at,         \* the step of each handler
  todo,       \* the symbols it has still to treat
  reports,    \* of each run and symbol: the coverage report, if there is one
  bars,       \* of each run and symbol: the bars that were replayed
  gone        \* the runs that were cut off: their context is cancelled, their
              \* process died, or the database refused a write

rvars == <<request, row, artifacts, at, todo, reports, bars, gone>>
vars == <<kvars, rvars>>

Steps == {"new", "ensure", "replay", "save", "artifacts", "over"}
NoReport == <<>>
NoRequest == [symbols |-> <<>>]

\* Every variable has its type.
TypeOK ==
  /\ CoverageTypeOK
  /\ request \in [Calls -> {NoRequest} \cup UNION {Requests[r] : r \in Calls}]
  /\ \A r \in Calls : at[r] # "new" => request[r] \in Requests[r]
  /\ row \in [Calls -> {"absent", "running", "succeeded", "failed"}]
  /\ artifacts \subseteq Calls /\ gone \subseteq Calls
  /\ at \in [Calls -> Steps]
  /\ todo \in [Calls -> Seq(Symbols)]
  /\ reports \in [Calls -> [Symbols -> {NoReport} \cup (Bars \X Bars)]]
  /\ bars \in [Calls -> [Symbols -> SUBSET Bars]]

Init ==
  /\ CoverageInit
  /\ request = [r \in Calls |-> NoRequest]
  /\ row = [r \in Calls |-> "absent"]
  /\ artifacts = {} /\ gone = {}
  /\ at = [r \in Calls |-> "new"]
  /\ todo = [r \in Calls |-> <<>>]
  /\ reports = [r \in Calls |-> [s \in Symbols |-> NoReport]]
  /\ bars = [r \in Calls |-> [s \in Symbols |-> {}]]

Goto(r, step) == at' = [at EXCEPT ![r] = step]

\* The request is valid: its row is created.  Without a time range nothing is
\* ensured (ensureMarketData).
CreateRun(r) ==
  /\ at[r] = "new" /\ r \notin gone
  /\ row' = [row EXCEPT ![r] = "running"]
  /\ \E req \in Requests[r] :
       /\ request' = [request EXCEPT ![r] = req]
       /\ todo' = [todo EXCEPT ![r] = req.symbols]
       /\ Goto(r, IF req.timed THEN "ensure" ELSE "replay")
  /\ UNCHANGED <<kvars, artifacts, reports, bars, gone>>

\* Mutant: a failure is answered without the update of the row.
AnswerOnly(r) == UNCHANGED row /\ Goto(r, "over")

\* Mutant: a status that the table's check constraint does not know.
FailAsError(r) == row' = [row EXCEPT ![r] = "error"] /\ Goto(r, "over")

\* runBacktest fails: the row says so.
Fail(r) == row' = [row EXCEPT ![r] = "failed"] /\ Goto(r, "over")

\* EnsureClosedKLines is called for the next symbol.
EnsureSymbol(r) ==
  /\ at[r] = "ensure" /\ call[r].at = "idle" /\ r \notin gone
  /\ BeginEnsure(r, Head(todo[r]), request[r].start, request[r].end)
  /\ UNCHANGED <<klines, now, rvars>>

EnsureRuns(r) == at[r] = "ensure" /\ r \notin gone /\ EnsureStep(r) /\ UNCHANGED rvars

\* An HTTP request, an upsert or a query fails: the run ends with the error.
EnsureFails(r) == CallFails(r) /\ UNCHANGED rvars

ReplayFails(r) ==
  /\ at[r] = "replay" /\ Fail(r)
  /\ UNCHANGED <<kvars, request, artifacts, todo, reports, bars, gone>>

Fault(r) == r \notin gone /\ (EnsureFails(r) \/ ReplayFails(r))

\* Mutant: the error of a symbol is dropped with its report.
SkipSymbol(r) ==
  /\ at[r] = "ensure" /\ call[r].at \in {"complete", "failed"} /\ r \notin gone
  /\ reports' = [reports EXCEPT ![r][call[r].symbol] = <<call[r].start, call[r].end>>]
  /\ IF Len(todo[r]) > 1
       THEN todo' = [todo EXCEPT ![r] = Tail(@)] /\ UNCHANGED at
       ELSE todo' = [todo EXCEPT ![r] = request[r].symbols] /\ Goto(r, "replay")
  /\ call' = [call EXCEPT ![r] = Idle]
  /\ UNCHANGED <<klines, now, request, row, artifacts, bars, gone>>

\* The call has returned: an error ends the run, otherwise its report is kept.
EnsureReturns(r) ==
  /\ at[r] = "ensure" /\ call[r].at \in {"complete", "failed"} /\ r \notin gone
  /\ IF call[r].at = "failed" THEN Fail(r) /\ UNCHANGED <<todo, reports>>
     ELSE /\ reports' = [reports EXCEPT ![r][call[r].symbol] = <<call[r].start, call[r].end>>]
          /\ UNCHANGED row
          /\ IF Len(todo[r]) > 1
               THEN todo' = [todo EXCEPT ![r] = Tail(@)] /\ UNCHANGED at
               ELSE todo' = [todo EXCEPT ![r] = request[r].symbols] /\ Goto(r, "replay")
  /\ call' = [call EXCEPT ![r] = Idle]
  /\ UNCHANGED <<klines, now, request, artifacts, bars, gone>>

\* loadBacktestBars: the rows of the range as it was asked for, not as it was
\* ensured; with a limit, the latest of them; then without the worthless ones.
Loaded(r, symbol) ==
  LET req == request[r]
      rows == {b \in klines[symbol] :
                 req.timed => req.start <= BarOpen(b) /\ BarOpen(b) <= req.end}
      latest == {b \in rows :
                   req.limit = 0 \/ Cardinality({later \in rows : later > b}) < req.limit}
  IN {b \in latest : <<symbol, b>> \notin Worthless}

\* The next symbol is loaded and replayed; no bars, or none to evaluate, is an
\* error.  RunBacktest itself is the subject of BacktestReplay.
ReplaySymbol(r) ==
  LET symbol == Head(todo[r]) IN
  /\ at[r] = "replay" /\ r \notin gone
  /\ IF \A b \in Loaded(r, symbol) : BarOpen(b) < request[r].evalStart
     THEN Fail(r) /\ UNCHANGED <<todo, bars>>
     ELSE /\ bars' = [bars EXCEPT ![r][symbol] = Loaded(r, symbol)]
          /\ todo' = [todo EXCEPT ![r] = Tail(@)]
          /\ IF Len(todo[r]) > 1 THEN UNCHANGED at ELSE Goto(r, "save")
          /\ UNCHANGED row
  /\ UNCHANGED <<kvars, request, artifacts, reports, gone>>

\* Mutant: the artifacts are written before the result.
ArtifactsFirst(r) ==
  /\ at[r] = "save" /\ r \notin gone
  /\ artifacts' = artifacts \cup {r}
  /\ Goto(r, "artifacts")
  /\ UNCHANGED <<kvars, request, row, todo, reports, bars, gone>>

\* Status and result are written in one update.
SaveResult(r) ==
  /\ at[r] = "save" /\ r \notin gone
  /\ row' = [row EXCEPT ![r] = "succeeded"]
  /\ Goto(r, "artifacts")
  /\ UNCHANGED <<kvars, request, artifacts, todo, reports, bars, gone>>

\* persistBacktestArtifacts, one transaction.
SaveArtifacts(r) ==
  /\ at[r] = "artifacts" /\ r \notin gone
  /\ artifacts' = artifacts \cup {r}
  /\ Goto(r, "over")
  /\ UNCHANGED <<kvars, request, row, todo, reports, bars, gone>>

\* The client leaves, the process dies, or the result or the artifacts cannot
\* be written: the handler returns without another attempt.
Leave(r) ==
  /\ at[r] \notin {"new", "over"} /\ gone' = gone \cup {r}
  /\ UNCHANGED <<kvars, request, row, artifacts, at, todo, reports, bars>>

\* Whatever the handler does next fails; nothing is written any more.
Abandon(r) ==
  /\ r \in gone /\ at[r] # "over" /\ Goto(r, "over")
  /\ call' = [call EXCEPT ![r] = Idle]
  /\ UNCHANGED <<klines, now, request, row, artifacts, todo, reports, bars, gone>>

Handler(r) ==
  \/ CreateRun(r) \/ EnsureSymbol(r) \/ EnsureRuns(r) \/ EnsureReturns(r)
  \/ ReplaySymbol(r) \/ SaveResult(r) \/ SaveArtifacts(r) \/ Abandon(r)

Next == (\E r \in Calls : Handler(r) \/ Fault(r) \/ Leave(r)) \/ (Pass /\ UNCHANGED rvars)

\* Handlers run, and the HTTP client gives up after its timeout.  Faults are not
\* promised.
Spec == Init /\ [][Next]_vars /\ \A r \in Calls : WF_vars(Handler(r))

-----------------------------------------------------------------------------
(***************************************************************************)
(* Properties.                                                             *)
(***************************************************************************)

\* The limit of the request left the bar out: it is older than all that were replayed.
CutByLimit(r, s, b) ==
  request[r].limit > 0 /\ bars[r][s] # {} /\ \A c \in bars[r][s] : b < c

\* docs/system-topology.md, 6.5: a backtest is never computed from a window with
\* missing bars.  What the code keeps of this, whichever other runs fill the table:
\* of every range that a run which succeeded reports, it has replayed every bar but
\* those that the limit leaves out, the first one when the request starts after it
\* opened, and those with a worthless close.  No bar is lost to what other runs
\* store, to a failed batch or to a hole.
ReplaysUsableBars ==
  \A r \in Calls : row[r] = "succeeded" /\ request[r].timed =>
    \A s \in ToSet(request[r].symbols) :
      /\ reports[r][s] # NoReport
      /\ \A b \in reports[r][s][1]..reports[r][s][2] :
           \/ b \in bars[r][s] \/ CutByLimit(r, s, b) \/ <<s, b>> \in Worthless
           \/ b = reports[r][s][1] /\ BarOpen(b) < request[r].start

\* Every way a run can end leaves a row that tells it: an error is recorded as
\* one, and orders, positions and the report are there exactly with a result.
\* Only a handler that was cut off may leave a row running, or a result bare.
RowTellsTheEnd ==
  /\ \A r \in artifacts : row[r] = "succeeded"
  /\ \A r \in Calls \ gone : at[r] = "over" =>
       row[r] = "failed" \/ (row[r] = "succeeded" /\ r \in artifacts)

\* A handler ends, whatever the exchange answers and however long its range is.
HandlerEnds == \A r \in Calls : at[r] = "ensure" ~> at[r] = "over"
=============================================================================
