# B-Alpha in TLA+

B-Alpha trades spot bitcoin for its users. A SaaS process runs one strategy
`Step()` per closed bar, records what it wants to trade and sends the commands
to an agent on the user's machine. The agent holds the exchange keys, places the
orders and reports back, and the SaaS books the reports into a ledger. Beside
that, an evolution service breeds parameter packs, an operator promotes one of
them to be the champion the ticks trade with, and backtests replay stored market
data against a pack.

These modules model the parts of it that are hard to test: commands and reports
over a connection that breaks, two processes that restart, goroutines and
transactions that overlap, tables that several requests fill. TLC checks each on
a small instance; the theorems in the `*Proofs` modules hold for every value of
the constants and are checked by TLAPS. `PROJECT.json` maps every definition to the lines it models.

    tlc -config TradePipeline_faults.cfg TradePipeline    # a run
    tlapm TradePipelineProofs.tla                         # the proofs of a module

Paths below are relative to `src/`.

## 1. Inventory

### The trade command pipeline
*Code:* `internal/saas/instance/manager.go` (`tick`, `buildTradeCommands`,
`DispatchPending`), `internal/saas/ws/hub.go` (`SendTradeCommand`),
`internal/agent/ws/client.go` (`handleMessage`, `executeCommand`),
`internal/agent/exchange/{binance,bitget}.go`, `internal/saas/ws/portfolio.go`.

*State:* `spot_executions` rows, `portfolio_states.last_processed_bar_time`,
the hub's connection, frames in both directions, the agent's `seen` set and its
goroutines, what the exchange really did. *Operations:* the tick commits pending
rows and sends their commands; every scan sends all pending commands again; the
agent drops duplicates, acknowledges, executes in a goroutine and writes one
report; the hub settles the row in one transaction. *Hard:* commands repeat by
design; an order may execute and its answer, its report or the whole process be
lost; a command may expire on the way; a booking may be rolled back.
*Correct when:* an order is recorded before anyone can execute it, is booked at
most once and only if it was executed, never leaves a settled status, and does
not wait for ever without a reason.

### Agent websocket hub and session
*Code:* `HandleConnection`, `register`, `unregister`, `SendToAgent` in
`internal/saas/ws/hub.go`; `runSession`, `waitAuthResult` in
`internal/agent/ws/client.go`.

*State:* `hub.agents` (one connection per user), a handler goroutine and a
socket per connection, the agent's session. *Operations:* dial, authenticate,
register (swap, then close the old one), answer, read, unregister (load,
compare, delete), send. *Hard:* the old connection is unregistered while the new
one registers, and a late delete takes the entry of its successor; commands
overtake `auth_result`. *Correct when:* the registry
never keeps a connection nobody reads, and a replaced connection ends at the
agent too.

### Semantic ledger
*Code:* `createInitialLots`, `applyLedgerConversion`, `tick`
in `manager.go`; `processDeltaReport`, `applyFilledExecution`,
`reduceSpotLots`, `createTradeRecord`, `updatePortfolioBalanceSnapshot` in
`portfolio.go`.

*State:* `spot_lots`, the three buckets and the balance of `portfolio_states`,
`spot_executions`, `trade_records`, `audit_logs`. *Operations:* seed, release of
dead stack (whole lots or one split), purchase, sale from the oldest lots, trade
record, balance snapshot. *Hard:* long sequences of them; the same fact is kept
as lots, as buckets and as trades, each updated by different code; reports come
late, out of order and repeatedly. *Correct when:* the three agree.

### Instance lifecycle, scheduler, shutdown
*Code:* `Start`, `Stop`, `Delete`, `RunningInstances`, `syncActive`, `tick`,
`markError`, `PersistActiveRuntimeSnapshots`, `RestoreRunning` in `manager.go`;
`internal/saas/cron/scheduler.go`; `shutdown` in `cmd/saas/main.go`.

*State:* `strategy_instances.status`, the in-memory map `active`, bar time and
runtime state. *Hard:* scans overlap when a tick takes longer than a minute; API
calls and errors race with ticks; shutdown races with a slow tick. *Correct
when:* a bar is stepped once and only for a running instance, the runtime state
of the last step survives unless the shutdown reports its timeout, and status and
map converge.

### Champion promotion and cache
*Code:* `PromoteEvolutionTask` in `internal/saas/api/handler_evolution.go`,
`loadChampionParamPack` in `manager.go`, `internal/saas/store/redis.go`.

*State:* roles of `gene_records`, row locks, one Redis key with a TTL. *Hard:*
promotions overlap under READ COMMITTED, where an `UPDATE ... WHERE` waits for
rows and looks only at those again; a lookup caches what it read before a
promotion. *Correct when:* there is one champion, ticks are only given promoted
packs, a retired gene stays retired and its cached pack goes.

### Row locks of ticks and reports
*Code:* the transactions of `tick` and `markError` (`manager.go:449-632`),
`transition` and `Delete`, and of `processDeltaReport` and
`processBalanceSnapshot` (`portfolio.go`).

*State:* the committed rows of instances, portfolios, lots and executions, the
row locks, the row structs each function has read. *Operations:* each statement
that may wait: `SELECT ... FOR UPDATE`, an insert that key-share-locks the row its
foreign key names, an update, the commit. *Hard:* ticks lock the instance and then
the portfolio, reports the execution, the portfolio and then (by a foreign key)
the instance; what is written is computed from a struct read earlier. *Correct
when:* each transaction takes effect as a whole at one moment, and deadlocks are
only between those that are known to have them.

### Evolution tasks
*Code:* `internal/saas/epoch/service.go`.

*State:* `evolution_tasks` rows, `currentTask` under a mutex, the run's context
and generation. *Operations:* create, cancel, progress, save, end. *Hard:*
`CancelTask` frees the service before the canceled run has ended; three parties
write the row. *Correct when:* at most one run is live, a task ends once, and one
that succeeded is complete.

### Genetic engine and genome
*Code:* `RunEpoch`, `evaluatePopulation`, `sortPopulation` in
`internal/saas/ga/engine.go`; `ClampChromosome` in `internal/quant/genome.go`;
`internal/strategies/example/evolvable.go`.

*State:* population, fitness and results (three slices that belong together), the
queue and the cache of an evaluation, generation, best score, patience, ramp.
*Operations:* evaluate with workers, rank, count patience, raise the ramp, breed,
save the challenger. *Hard:* workers share a cache and an error; elites are
evaluated again; repairs of a gene depend on one another. *Correct when:* genes
are sound, each is ranked by its own result, the best one is saved, and an early
stop took its patience.

### Market data and backtest requests
*Code:* `internal/saas/marketdata/klines.go`,
`internal/saas/api/handler_backtest.go`.

*State:* `market_klines`, which all requests share, `backtest_runs` rows and the
artifacts of a run. *Operations:* inspect a range, fetch what is missing in
batches, upsert, inspect again; then load, replay, save the result and, in a
second transaction, the artifacts. *Hard:* the exchange lacks bars, batches fail
half way, requests fill one table at once, a range may start or end inside a bar,
the request's context may be cancelled anywhere. *Correct when:* what a run reports as covered is what it replayed (but for
bars that the code is known to lose, see section 3), and its row says how it ended.

### Backtest ledgers
*Code:* `internal/adapters/backtest/run.go`.

*State:* spot: USDT, three buckets, lots, the month of the last injection; margin:
balance, frozen margin, two positions, realized profit and fees. *Operations:* per
bar, injection, conversions, macro and micro intents. *Hard:* everything is
rounded to lot steps and cut to what there is; the same amounts are kept as lots
and as buckets, as margin and as positions. *Correct when:* they agree, and
replaying makes nobody richer.

### The rest
| component | code | state and operations | hard / correct when |
|---|---|---|---|
| Quantitative core | `internal/quant/*.go` | pure functions: indicators, macro and micro engine, lots | floats; release has boundaries |
| Example strategy | `internal/strategies/example` | `Step()`, soft and hard dead release | sells and releases within its limits |
| Quota | `handler_instance.go` | count, then create | two requests at the limit |
| Exchange clients | `internal/agent/exchange` | signed HTTP, answers mapped to statuses | what a report can claim |
| HTTP API, auth, config, store | `internal/saas/{api,auth,config,store}` | stateless handlers over the database | — |
| Web frontend | `web-frontend` | presentation | — |

### How they interact
The scheduler's scan calls `DispatchPending` and `tick` of the manager; `tick`
reads the champion (Redis, then Postgres), locks instance and portfolio rows,
calls `Step()`, writes ledger and pending orders, and after the commit sends
commands through the hub. The hub and the agent share one websocket. Reports
enter at the hub and change the same ledger rows under the same portfolio lock.
The API changes instance status, promotes genes and runs backtests in the
request; the epoch service runs the engine and writes tasks and challengers. The
engine and the backtests read the same `market_klines` and call the same
`Step()`. Everything durable is in Postgres; `active`, `seen`,
`hub.agents`, `currentTask` live in memory and are lost with their process.

The hazards of this code, each at its line and with the properties that would
catch it going wrong, are in `PROJECT.json`.

## 2. Modules

| module | models | size of its state |
|---|---|---|
| `OrderContract` | the promise for one order: recorded, executed, booked or given up | 3 variables |
| `TradePipeline` | the pipeline, with faults; implements `OrderContract` | 16 |
| `AgentHub` | registry, handshake, replacement, sends | 8 |
| `Lots` | lot types, their totals, the lots of a seed; of both ledgers | operators only |
| `SpotLedger` (`MCSpotLedger`) | lots, buckets, orders, trades, balance | 9 |
| `InstanceLifecycle` | one instance, scans, API calls, shutdown | 14 |
| `ChampionPromotion` | promotions statement by statement, lookups, cache | 7 |
| `EpochTasks` | task rows, runs, cancellation, restart | 11 |
| `LedgerTransactions` | the promise of the ledger's transactions: each takes effect at one moment | 5 |
| `LedgerLocks` (`MCLedgerLocks`) | the same transactions statement by statement; implements `LedgerTransactions` | 7 |
| `KLineCoverage` | `EnsureClosedKLines`, several calls over one table | 3 |
| `BacktestRuns` (`MCBacktestRuns`) | requests for backtests, composed with `KLineCoverage` | 3 + 8 |
| `ReplayConstraints`, `SpotReplay`, `MarginReplay` | one bar of the spot and of the margin ledger | 4, 2 |
| `BacktestReplay` (`MCBacktestReplay`) | the bars of a window, on the ledger the terms select | 4 + 2 + 3 |
| `Genome` | the repair of a chromosome | operators only |
| `EvolutionLoop` (`MCEvolutionLoop`) | `RunEpoch`, over `Genome` | 15 |

**TradePipeline.** One action per handler: `CommitTick` is the tick
transaction, `ScanPending` the read of `DispatchPending`, `SendTradeCommand`
one write to the hub's entry, `HandleCommand` the agent's handler (`seen` is
updated before the ack is written), `PlaceOrder` `executeCommand` up to the
exchange's answer, `SendReport` the rest of it, with or without a balance, and
`ProcessReport` the booking transaction, which locks the row first. `Replies`
are the answers the two clients can give. The faults (`FaultKinds`) are a
broken link, a restart of either process, a failed ack and a rolled back
booking; each counts against `MaxFaults`. Of the registry it keeps whether the
hub's entry is the agent's live connection, one that broke, one whose handler has
found itself there and is about to delete it, or none (`hub`), whether the hub
reads the agent's connection (`linked`), and how many handlers are between the
comparison and the `Delete` of `unregister` (`deletes`): these are two steps
(`UnregisterCompares`, `UnregisterDeletes`), and the second takes whatever entry is
there. The handshake and the sockets are in `AgentHub`. Its refinement mapping to `OrderContract` is by name: the three
variables of the contract are variables of the pipeline.

**AgentHub.** `register` and `unregister` are the `sync.Map` operations they
consist of, since two connections interleave there. Each handler goroutine is a
program counter (`handler`), each socket has two ends and the frames to the
agent in order, because the agent's first frame must be `auth_result`.

**SpotLedger.** Tick and report transactions lock the portfolio row before they
touch the ledger, so each is one action. Lots are a sequence by `created_at`;
`Amounts` are what they hold of one type; `Taken` is the share of each lot when
the oldest are taken first, and both release and sale are built on it. `Step()` is a choice within the limits it
keeps to (release no more than the dead stack, sell no more than the floating
bucket). Amounts are small integers: prices and fees do not decide what moves.

**InstanceLifecycle.** A transaction is one action; what a method does outside
it (`syncActive`, `active.Store`, the removal after `markError`) is another. A
Step is the bar it ran for, so `runtime = lastBar` says that the stored runtime
state is the one of the last processed bar. Shutdown has its phases: stop
waiting, read, write, close. It stops waiting when server and scheduler have
finished, or at the timeout, beside whatever still runs; `gaveUp` is then the error
in the `errs` that `shutdown` returns.

**ChampionPromotion.** Under READ COMMITTED the `UPDATE` that retires champions
is two steps: the rows it sees (`RetireBegin`) and, once they are free, those
that still qualify (`RetireEnd`). Locks are derived from where the transactions
are (`RowsHeld`, `TaskHeld`). Lookups read the cache, the database and write the
cache in three steps.

**EpochTasks.** A run is a program counter and a generation. `CancelTask` is two
steps, one under the mutex, one statement. Its update, and those of a run, may
fail without being repeated. A restart of the process leaves rows as they are.

**LedgerTransactions and LedgerLocks.** `SpotLedger`, `TradePipeline` and
`InstanceLifecycle` model a tick or a report as one action; this pair justifies
that. In `LedgerLocks` a transaction is at a statement (`pc`), holds row locks with
their modes (`held`), and keeps the row structs it has read (`local`): what it
writes is computed from the copy, so that reading without a lock loses an update.
A snapshot visits the instances of a user in any order, as its query has no
`ORDER BY`. `BreakDeadlock` is the server's detector: it rolls back a transaction
that waits in a cycle, after which a tick marks its instance, and the hub only
logs. The refinement mapping is
`INSTANCE LedgerTransactions WITH outcome <- Outcome`: rows map to themselves, and
a transaction has an outcome once its program counter is at the end.

**KLineCoverage and BacktestRuns.** Times are in milliseconds and a bar is its
number: `BarOpen` is when it opens, `BarAt` the bar a time falls in, so that
`BarOpen(BarAt(t))` is `floorTime`. `BeginEnsure` floors a range to bars, as the code
does before it looks for them; `Loaded` compares the open times with the range as it
was asked for, and leaves out the bars in `Worthless`, whose close is not positive.
A statement and an HTTP
request are one step each: `Inspect`, `FetchBatch` (fetch and upsert of one
batch, with the cursor that follows it), `InspectAgain`; `CallFails` is the failure
of any of them. `BacktestRuns` adds the handler: a row, the ensured range of each
symbol, the load (by the range that was *asked* for, with its limit), the replay,
the result and the artifacts. `gone` says that a handler was cut off; then nothing
of it is written any more.

**SpotReplay, MarginReplay, BacktestReplay.** A bar is one action; the program is
sequential. Conversions and intents are applied by folds, in the order of the
code. `Step()` is left open: its answer is an input, of the types that `OutputsOf`
gives it, and also asks for more than there is. Amounts are integers and quotients are rounded down, where the code
has floats and rounds down to the lot step.

**Genome and EvolutionLoop.** `Genome` translates `ClampChromosome` for the fields
that bound one another; the others are only clipped. In the loop a worker takes an
index, finds the gene in the cache or evaluates it, and writes score and result;
`Generation` is ranking, patience, ramp and breeding, which nothing interleaves
with. Breeding may leave any gene of `Raw`, once repaired. `EpochTasks` has the
same run as a counter of generations: it is about its row.

### Order of the work, and what is planned
Written so far are the modules above, the most important behaviour first: the
pipeline, the hub under it, the ledger behind it, then lifecycle, champions and
tasks, then the locks under the ledger, market data, backtests and the engine.
Planned, in this order:

1. `LotRelease`: `quant/lot.go` and `dead_release.go` as operators, and
   `SpotLedger`'s release against them.
2. A composition of `AgentHub` with `TradePipeline` (the entry of one is the
   `hub` of the other) as a refinement.
3. `Quota` and `ReconnectBackoff`: count and create at the limit; the reconnect
   wait, which is never reset.

## 3. Runs

| run | module | shows |
|---|---|---|
| `trade_faults` | TradePipeline | with every answer and any two faults: placed once by each agent process (`OneExecutionPerProcess`), booked once and only if executed (`BooksOnlyExecutions`), the contract kept, so also recorded before it is executed (`KeepsContract`); a pending command reaches an agent, unless the hub has forgotten its connection for good (`PendingReachesRegistered`), and without a fault it stays pending only if its answer cannot be booked (`UnsettledHasReason`) |
| `trade_twice` | TradePipeline | *violated:* an order is executed at most once. A restarted agent has forgotten `seen` |
| `hub_registry` | AgentHub | no handler leaves a dead entry (`NoDeadEntry`), the entry of a connection the agent left goes away (`DeadEntryGoes`), a replaced connection ends at the agent (`ReplacedEnds`) |
| `ledger_bars` | MCSpotLedger | buckets, lots and trades agree (`BucketsMatchLots`, `LotsMatchTrades`), and only sales can leave a sale short (`OnlySalesCompete`) |
| `instance_steps` | InstanceLifecycle | one step per bar (`OneStepPerBar`), only while running (`StepsOnlyWhileRunning`), no runtime state lost but by a shutdown that reports its timeout (`LossIsReported`); new bars are stepped (`NewBarIsStepped`) and the map follows the database (`ActiveConverges`) |
| `champion_promotes` | ChampionPromotion | promotions of one task, a failing Redis: one champion, only promoted packs served, retired for good and forgotten by the cache |
| `champion_two` | ChampionPromotion | *violated:* one champion, if the promotions name two tasks |
| `epoch_rows` | EpochTasks | two tasks, two cancellations, a restart: a live run is current, tasks end once, success is complete, a running task ends unless the process does or its last update fails |
| `locks_rows` | MCLedgerLocks | ticks, reports, snapshots and a request by statements: each takes effect as a whole at one moment (`TakesEffectAtOnce`, a refinement), and only a tick with a fill of its instance, or snapshots of one user among themselves, can deadlock (`KnownDeadlocks`) |
| `backtest_data` | MCBacktestRuns | two requests over one table: what is reported as covered was replayed, but for the bar a start lies in, those with a worthless close and those a limit cuts off (`ReplaysUsableBars`), the row tells the end (`RowTellsTheEnd`), the handler ends (`HandlerEnds`) |
| `backtest_account` | MCBacktestReplay | lots are the buckets (`LotsAreBuckets`), a month pays in once (`InjectedOncePerMonth`), margin adds up (`MarginAddsUp`), nothing is gained by rounding (`NoMoneyFromNothing`) |
| `evolution_run` | MCEvolutionLoop | genes are sound (`LoopTypeOK`) and ranked by their own results (`RankedByOwnResults`), the best of the run is saved (`SavedIsBest`), ramps and an early stop took their patience (`StopIsEarned`); the run always returns (no deadlock) |

Type invariants that are proved (section 4), and `RecordedBeforeSent` and
`NoWayBack`, are theorems and have no run of their own; those of the other
modules are checked in their runs.

The violated properties are sentences of the repository's documents, quoted in
`PROJECT.json` under "findings" with the line of the code that breaks them.

Other disagreements were met while modelling and have no run of their own.

In trading:

- Bitget's client reports every order as FILLED without quantities
  (`bitget.go:155`), which `portfolio.go:381` rejects, so it stays pending;
  `docs/system-topology.md:164` expects actual quantities.
  (`UnsettledHasReason` names this case as one of its reasons.)
- A failing balance query turns an executed order into a FAILED report
  (`client.go:411`; `docs/system-topology.md:155`).
- A connection is registered before `auth_result` is written (`hub.go:313`), so
  a command may come first and end the session (`client.go:272`;
  `docs/system-topology.md:119,126`).
- `Step()` does not subtract pending sales, so two may count on the same stack
  (`manager.go:548`; `docs/strategy-math-engine.md:337`). `OnlySalesCompete`
  states what does hold.
- Bars that close while ticks fail are skipped, only the latest is stepped
  (`manager.go:443`; `docs/system-topology.md:65`: no fewer decisions than a
  backtest). `NewBarIsStepped` asks for the new bar or a later one.
- A report that was not written before its connection broke is never repeated
  (`client.go:434`; `docs/system-topology.md:203`), nor is one whose transaction was
  the victim of a deadlock (`hub.go:364`; `docs/system-topology.md:173`): the order
  stays pending, is sent again, and a running agent drops it as a duplicate.
- `unregister` loads the entry, compares it and then deletes by user id
  (`hub.go:395-400`). A connection that registers in between loses its entry: hub
  and agent keep it alive, neither finds out, and `IsAgentConnected` is false until
  it breaks for another reason, so its pending commands may never be sent
  (`docs/system-topology.md:106,205`: a lost connection heals by reconnecting, and
  pending records converge around the next tick). `PendingReachesRegistered` names
  this as its one exception (`Forgotten`). Without the exception `trade_faults`
  fails with one broken link: the agent connects again between the two steps, the
  `Delete` takes its entry, and nothing changes any more.
- Balance snapshots carry no order; the one that is processed last wins, also if it
  was read first (`portfolio.go:313`; `docs/system-topology.md:175`).
- A tick that outlasts `shutdownTimeout` may commit a runtime state between the
  read and the write of `PersistActiveRuntimeSnapshots`, which stores the older one
  again (`manager.go:339`; `docs/system-topology.md:211`: shutdown must persist the
  runtime state of every completed `Step()`). `LossIsReported` says what does hold:
  a shutdown without an error has lost nothing. Without its `gaveUp` it fails with
  one bar, one scan and one shutdown.
- `markError` does not ask which start a failing tick belongs to: an instance that
  was stopped and started again since is put into ERROR by the old tick
  (`manager.go:638`). `ActiveConverges` only says that the map then follows.
- The macro and the micro engine each spend up to `SpendableUSDT`, and pending
  purchases are not subtracted (`step.go:126`;
  `docs/strategy-math-engine.md:36-40,197`).

In evolution and backtests:

- A lookup may cache the old champion after a promotion invalidated the key
  (`manager.go:712`, `handler_evolution.go:178`; `docs/evolution-engine.md:255`).
  `RetiredIsForgotten` states what does hold: the TTL ends it.
- A task whose process ended, or whose last update failed, stays `running` (`epoch/service.go:131`;
  `docs/evolution-engine.md:70`).
- With the default constants (patience 5, six ramps to both caps, 25 generations)
  an early stop is out of reach (`StopIsEarned`: it takes more than 30); when it
  is reached, the loop ends with the ramp that reaches the caps, without another
  stale period (`engine.go:191`; `docs/evolution-engine.md:119`).
- `ClampChromosome` moves windows apart but does not sort them first
  (`genome.go:220`; `docs/strategy-math-engine.md:343`); the result is sound all
  the same (`RepairIsSound`).
- A fingerprint rounds fields to a millionth, so a gene might be given another
  one's cached score (`engine.go:420`). `EvolutionLoop` assumes that it does not.
- The start of a range is floored to the interval when it is ensured, and reported
  so as `market_coverage` (`klines.go:142,282`), but bars are loaded from the start
  as it was asked for (`handler_backtest.go:562`), which nothing aligns. A start
  inside a bar loses this bar, though the report says that it was covered. Rows with
  a close of zero or less count as present and are left out of the replay
  (`handler_backtest.go:608`). `docs/system-topology.md:221` and
  `docs/evolution-engine.md:237` ask for whole data and a report that tells which
  was used. `ReplaysUsableBars` names both kinds of bar; without either exception
  `backtest_data` fails.
- The end of a backtest's range is cut to closed bars when it is ensured, not when
  it is loaded: bars beyond it are replayed if other requests have stored them,
  with whatever holes those left (`handler_backtest.go:564`;
  `docs/evolution-engine.md:239`). `ReplaysUsableBars` is about the covered
  range. The engine loads its windows without a coverage check (`engine.go:273`).
- A backtest's row stays `running`, or a succeeded one has no artifacts, when its
  context is cancelled or a write fails (`handler_backtest.go:132,164`);
  `RowTellsTheEnd` excepts the handlers that were cut off.
- With direction "short", a SELL without a side opens a short position, also if
  `Step()` meant to sell (`run.go:366`; `docs/strategy-math-engine.md:265`).
- A purchase of a backtest spends its whole amount though the quantity is rounded
  down (`run.go:814`), and a margin balance may become negative, there being no
  liquidation.

On the connection:

- The reconnect wait is not reset after a session that worked
  (`client.go:163-181`; `docs/system-topology.md:201`).

### Bounds, and why they are enough
- `trade_faults`: one order, two faults, all seven answers. Orders do not
  interact in this module except through the bucket test and the set of
  pending rows, and the theorems cover any number. Two faults are a restart, or a
  lost link, before and after an execution, or a fault of one side while the other
  recovers; what more of them do to safety is proved.
- `hub_registry`: two connections, two senders and three commands. A
  replacement concerns two; the second sender is for a command between the other
  one's load and write.
- `ledger_bars`: two bars, both engines, so up to four orders; seed 2 dead
  (a lot can be split), 1 floating, 1 cold; three reports, so an order can be
  executed twice and a late report meet a settled order.
- `instance_steps`: two overlapping scans, two requests, two bars, three calls
  (start, stop, start or delete), one failure, one restart or shutdown, whose wait
  may time out beside either scan.
- `champion_promotes`: two promotions, two lookups, three genes, so that a
  champion is replaced twice; one rollback.
- `epoch_rows`: two tasks (a canceled one and its successor), two cancellations,
  two generations, one restart or failing update.

- `locks_rows`: two instances of a user, two ticks of one bar (overlapping scans), a
  fill and a failure reported for one order, two snapshots, one Stop: each pair of
  transactions that share a row. The refinement is proved for any number.
- `backtest_data`: two requests, two symbols, five bars of two milliseconds, so that
  a start lies inside a bar, batches of two, one bar the exchange never had, one with
  a worthless close, a limit, two tables to begin with; a range needs several
  batches, two missing ranges occur, and the two requests overlap.
- `backtest_account`: three bars in up to three months, a bar without a price, two
  prices, a fee of 25% and a lot step of two, so that every rounding happens.
- `evolution_run`: a population of six (the least that inherits an elite), three
  genes that need repair, two workers, five generations, patience and ramps of two
  (the early stop happens). All scores are negative: an index that was not
  evaluated would win with its zero.

No run uses symmetry, so liveness is checked on the full graph. Deadlock is
checked except for `SpotLedger` (its bars and reports come to an end, and a sale
the lots cannot cover stays pending, which is what the code does), `BacktestRuns`
and `BacktestReplay` (requests and bars come to an end). `AgentHub` and
`EpochTasks` mark the end of their bounds with `Exhausted`, `LedgerLocks` with
`AllOver`, `EvolutionLoop` with `Returned`; in the last two any other end, a
transaction that waits for ever or a `wg.Wait` that does, is reported.

### Fairness, and why the code justifies it
Weak fairness only. The scheduler scans every minute (`scheduler.go:36-60`), so
`ScanPending` and the scan's steps keep coming; goroutines and read loops run on
both sides, and a handler that ends unregisters its connection
(`UnregisterCompares`, `UnregisterDeletes`); the agent reconnects for ever (`client.go:163`); a connection that
is gone is noticed (the kernel's keep-alive, there being no read deadline);
Redis expires its keys; a shutdown ends after `shutdownTimeout`, and the process
supervisor starts the process again (`docker-compose.yml:44`: unless-stopped). The
handler of a backtest runs, and its HTTP client has a timeout
(`WF_vars(Handler(r))`); that a request fails is not promised.
Nobody is assumed to call the API, to promote, to cancel or to send; bars,
faults, expiry and the exchange's choice are not assumed to happen. Faults are
bounded, so a liveness property reads "once the faults stop".

## 4. Proofs

| module | theorem | states, for every value of the constants |
|---|---|---|
| `TradePipelineProofs` | `TypeCorrect`, `LedgerSafety`, `RecordedFirst`, `ExecutionBound` | `TypeOK`, `BooksOnlyExecutions`, `RecordedBeforeSent`, `OneExecutionPerProcess` |
| | `Implements` | `Spec => KeepsContract`: the pipeline implements `OrderContract` |
| | `HubTypeCorrect`, `RegistryIsServed` | `HubTypeOK`, `NoDeadEntry`, of `AgentHub` |
| `LedgerProofs` | `TypeCorrect`, `BucketsAreLots`, `NothingIsLost`, `ShortBySales` | `TypeOK`, `BucketsMatchLots`, `LotsMatchTrades`, `OnlySalesCompete`, of `SpotLedger` |
| | `ReplayTypes`, `ReplayedLotsAdd`, `NothingGained`, `PaidInOnce`, `MarginAccounts` | `ReplayTypeOK`, `LotsAreBuckets`, `NoMoneyFromNothing`, `InjectedOncePerMonth`, `MarginAddsUp`, of `BacktestReplay` |
| `InstanceLifecycleProofs` | `TypeCorrect`, `StepsOnce`, `StepsRunning`, `StatusIsFinal` | `TypeOK`, `OneStepPerBar`, `StepsOnlyWhileRunning`, `NoWayBack` |
| | `LossIsNotSilent` | `LossIsReported` |
| `ChampionPromotionProofs` | `TypeCorrect`, `ServesPromoted`, `RetiresForGood` | `TypeOK`, `OnlyPromotedIsServed`, `RetiredForGood` |
| | `OneChampionOfTask` | `OneChampion`, assuming all promotions name one task |
| `EpochTasksProofs` | `TypeCorrect`, `OneLiveRun`, `SuccessStays`, `EndsOnce` | `TypeOK`, `LiveRunIsCurrent`, `SuccessIsComplete`, `EndIsFinal` |
| `LedgerLocksProofs` | `TypeCorrect`, `OnlyKnownDeadlocks` | `TypeOK`, `KnownDeadlocks` |
| | `AppliesAtOnce` | `Spec => TakesEffectAtOnce`: transactions under row locks implement `LedgerTransactions` |
| `BacktestRunsProofs` | `TypeCorrect`, `RowTells`, `Replays` | `TypeOK`, `RowTellsTheEnd`, `ReplaysUsableBars` |
| `EvolutionLoopProofs` | `RepairIsSound`, `SoundIsKept`, `RepairedOnce` | `ClampChromosome` makes every chromosome sound, keeps a sound one, and is idempotent |
| | `TypeCorrect`, `RankedByOwn`, `BestIsSaved`, `EarlyStopIsEarned` | `LoopTypeOK`, `RankedByOwnResults`, `SavedIsBest`, `StopIsEarned` |

The assumptions are the `ASSUME`s of the modules, which say what kind of values
the constants are, and the one condition named above, which is necessary:
`champion_two` shows it.

- *TradePipeline.* The properties are not inductive: that a report may be booked
  depends on who made it. The invariant adds `Recorded` (every command, goroutine,
  report and execution belongs to a row, every row to a processed bar),
  `Evidence` (a goroutine with an executing answer, a FILLED report and a
  filled row each imply an execution) and `OncePerProcess` (an order has at most
  one goroutine in a process, and until it got its answer the executions are at
  most the restarts). The refinement then goes step by step: the tick is
  `Record`, an executing answer `Execute`, a booking `Book` or `Fail`, anything
  else a stutter.
- *AgentHub* (in `TradePipelineProofs`, beside the pipeline it carries).
  `NoDeadEntry` is inductive with the types: only `Register` makes an
  entry, and a handler returns only when it is not the entry.
- *SpotLedger.* A total over the lots is a sum over a set that grows and whose
  members change; the lemmas of the first half say how a sum changes when one lot is
  added (`TotalWithLot`), one is split (`TotalSplits`), or each gives a share
  (`ReducedTotals`, `ReleasedTotals`), and that the shares of `Taken` come to the
  quantity asked for, if there is as much (`TakenAre`). `IInv` adds to the properties
  that only floating stack is sold (`SalesAreFloating`) and that a trade is of a filled
  order (`TradesAreFills`): an order that is booked has no trade yet, so that the trade
  is new and counts. `Minus` never cuts, since the bucket is the sum of its lots: the
  two are one invariant.
- *BacktestReplay* (in `LedgerProofs`, as its lots are those of `SpotLedger`). A bar
  is a fold over what `Step()` returned, and a sale is a fold over the lots. A fold is
  a function chosen by a recursion over sets of indices: `FoldExists` builds one, so
  the choice is not empty, and `FoldStays` shows that a set which every step keeps
  holds the result. For conversions and intents that set is `Worth`: the ledgers that
  add up and are worth at most some amount at the bar's price, which gives
  `LotsAreBuckets` and `NoMoneyFromNothing` in one argument; for margin intents it is
  `Balanced`, the accounts that add up to their deposit. `ConsumedTotals` says what a
  sale leaves of the lots, `FeesCost` and `Floors` which way the rounding goes,
  `PartOf` that a partial closing releases no more margin than there is. `Calendar`
  is what `InjectedOncePerMonth` needs to be inductive: the last month that was paid
  in has a point in the curve and no later month has one.
- *InstanceLifecycle.* `Untouched` (no bar beyond the last processed one was
  stepped) makes `OneStepPerBar` inductive. For `LossIsReported`, until a shutdown
  has given up waiting nothing runs while one persists (`Quiet`), so what it read is
  still what is stored (`Fresh`).
- *ChampionPromotion.* `ChallengerHeld` (a promotion beyond `LockGene` holds its
  challenger alone), `RetiresChampions`, `GeneNamed`; with one task `Alone` says
  that only one transaction runs and knows the champions it replaces.
- *EpochTasks.* `SavedFirst`, `SuccessIsOver`, `UnbornHasNoRow`: a task that
  succeeded has no run left that could touch its row.

- *LedgerLocks.* The invariant `Kept` adds to the types that conflicting locks are
  not held together (`Exclusive`), and for each statement which locks its
  transaction holds and that its copies are the rows as they are (`Keeps`). A
  step of another transaction cannot change a row that is locked (`Frame`,
  `LockedOut`), so the copies stay current; `TickBehaves`, `ReportBehaves` and
  `SnapshotBehaves` show `Keeps` for the one that steps. The `...Mapped` lemmas
  map each statement to a stutter but the last, which is the abstract
  transaction. A tick without its portfolio lock fails exactly there. For the
  deadlocks, `Accounts` says of every lock which statement its transaction has
  reached, and `Placed` which statements its kind has; so a waiting statement tells
  who can hold the row (`Holders`), and who waits for an exclusive row or a reference
  waits for one transaction (`WaitsForOne`). A cycle through a tick or a report then
  closes with the two of them; what is left is among snapshots.
- *BacktestRuns.* A call of `KLineCoverage` works for the first symbol its handler
  has left, on a part of the range that was asked for, and is complete only with every
  bar of it stored (`CallInv`); the table never loses a bar (`TableGrows`), so what
  another request does cannot undo it. `WorkInv` then follows the symbols: each
  is still to do, or reported, and after the load its bars hold the range, less what
  the limit cut off at its old end, the bar that the start lies in, and worthless ones.
  `FallsIn`, `OpenOrder` and `OpensBy` relate times to bars. `RowInv` relates where the handler is to its row.
- *Genome and EvolutionLoop* (one module). One lemma per field that another one bounds
  (`MidWindow`, `LongWindow`, `MomentumWindow`, `VolWindow`, `Weights`), over all
  integers: TLC sees three chromosomes, the theorem every one. In the loop, `TakenIsDone`
  says that an index that was taken has its own result or a worker at it, unless
  there was an error, and `CacheIsTrue` that a cached score is the gene's: so a
  generation that is ranked has every result, and ranking moves the three slices
  together. `BestStays` (nothing that was evaluated is better than all of the
  population) carries `SavedIsBest`; `GenerationsAreSpent` counts generations as
  ramps and patience, which an early stop must have used.

### Only model-checked
All liveness properties: they rest on fairness, which is out of the prover's
reach. Every safety property that a passing run checks is a theorem. Where an
induction is needed, over the size of a set or the length of a prefix, it is by the
least counterexample (`NatMin`), which takes no operator as a parameter.

## 5. Not modelled
- Floating-point indicators and signals (`internal/quant`, `Step()`): real
  arithmetic. Their limits appear in `SpotLedger` as the choices of a tick.
- Prices, fees and costs of lots and trades: they change no control flow but the
  test that a fill has a price (`priced` in `TradePipeline`).
- HTTP handlers without state of their own, tokens, password hashing,
  configuration, logging, and the frontend: presentation and pure I/O.
- Heartbeats and payload decoding of the websocket.
- The evaluation plan of the engine (windows, baselines, data it loads), tournament
  selection and the operators of breeding: a score is any function of a gene, and
  a bred gene any that repair can leave.
- Slippage, statistics (ROI, Sharpe, drawdown) and order records of a backtest, and
  the validation of its request.
- Several instances of one user: they share the connection and, in a snapshot, the
  balance (`LedgerLocks`); the quota that counts them is planned.
