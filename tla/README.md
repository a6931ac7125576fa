# TLA+ specifications of the trading platform

The repository is a multi-agent algorithmic trading platform in Python: agents on a
message bus turn market data into features, features into intents, intents into
risk-approved orders, and orders into fills at a simulated (paper) or real (Dhan) broker.
A dashboard starts, kills and flattens engines; a nightly job trains and promotes models.
These modules model the parts where order, interleaving or failure decides whether the
platform does what it says. `PROJECT.json` ties every definition to the source lines it
models and lists the components, hazards, runs, mutants, theorems and findings.

* [1 The system](#1-the-system)
* [2 Modules and plan](#2-modules-and-plan)
* [3 Execution: the order path](#3-execution-the-order-path)
* [4 PaperAccount: the books of the paper broker](#4-paperaccount-the-books-of-the-paper-broker)
* [5 EngineManager: engines and the kill switch](#5-enginemanager-engines-and-the-kill-switch)
* [6 DhanOrders: a plan at the real broker](#6-dhanorders-a-plan-at-the-real-broker)
* [7 RiskFlow: from a bar to an order](#7-riskflow-from-a-bar-to-an-order)
* [8 MarketData: from trades to bars](#8-marketdata-from-trades-to-bars)
* [9 Samples and Training: from bars to the live model](#9-samples-and-training-from-bars-to-the-live-model)
* [10 Backtests: jobs and replays](#10-backtests-jobs-and-replays)
* [11 LiveEngine: the path of a fill](#11-liveengine-the-path-of-a-fill)
* [12 What each run shows](#12-what-each-run-shows)
* [13 What is proved](#13-what-is-proved)
* [14 Findings and known deviations](#14-findings-and-known-deviations)
* [15 What is not modelled](#15-what-is-not-modelled)

## 1 The system

### How it runs

An engine is one asyncio event loop. Agents subscribe to topics of an in-memory bus whose
`publish` awaits the subscribers one after another in the publisher's task, so the chain
tick -> bar -> features -> intent -> approval -> order runs to its end inside the task
that brought the tick, unless a handler really suspends. With the paper broker nothing
suspends except the order limiter's sleep in front of `place_order`; with Dhan every
broker call does. A live engine has four tasks that call into the agents: the feed, the
update pump, the manage loop (timer) and the API's requests. A replay (backtest) is one
task without limiter: everything is sequential.

### Components

| Component (source) | State | Operations | What makes it correct |
|---|---|---|---|
| Execution agent (`agents/execution.py`) | used tokens, plans, working orders, bracket stops, orders seen, net position, halted | approval, place, update, progress, bracket, cancel, chase, TTL, KILL / RESUME / FLATTEN, reconcile | an approval is acted on once and never exceeded; every live order can be cancelled; halt stops orders; stops do not outlive positions |
| Paper broker (`brokers/paper.py`) | orders, position, cash, fees, update queues | place, modify, cancel, tick / bar matching, liquidate, subscribe | position and cash equal the fills; margin respected; updates reach every subscriber once |
| Paper store (`brokers/paper_store.py`) | the same in a database, one row per write | save, load, reset | a restart restores a state the running process was in |
| Simulated broker (`backtest/sim_broker.py`) | as the paper broker | slippage and volume rules for bars | same life cycle as the paper broker |
| Trading engine (`agents/engine.py`) | the agents, broker, tasks | start, stop, sync, run_live, step, square-off, drain updates | the portfolio follows the broker's fills; wiring is the same live and in replay |
| Risk agent (`agents/risk.py`) | halted, trades, losses, spent fills, marks | evaluate an intent, KILL / RESUME, count fills | caps hold however many approvals are in flight; exits always pass |
| Signal agent (`agents/signal.py`) | pending intent per symbol, last features | decide, build intent, clear on fill or rejection | at most one intent in flight per symbol, and none for ever |
| Portfolio (`agents/portfolio.py`) | positions, realized PnL, fees, peak equity | apply fill, mark, roll day, sync | equals the broker's book |
| Data agent (`agents/data.py`, `agents/base.py`) | one bar builder per symbol, last volumes, feature buffers | tick, bar, close window, flush, warm up | volume is counted once; every window is closed |
| Monitor agent (`agents/monitor.py`) | counters, heartbeats, alerts | record, alert, kill, flatten, health | a silent agent is noticed |
| Message bus (`core/bus.py`) | subscriptions, streams | publish, subscribe, ack | in-memory: every handler once, in order |
| Dhan adapter (`brokers/dhan.py`, `dhan_instruments.py`, `base.py`) | correlation and order ids, cached orders, rate limiter, feed state | place, modify, cancel, poll, stream, reconcile, retry | an order is sent once; filled quantities never regress |
| Engine manager, kill switch, event hub (`api/engines.py`, `api/events.py`) | engines by mode, tasks, latch file, subscriber queues | start, stop, kill, resume, flatten, reset, publish | no engine starts or keeps running under a pulled switch; no engine without an owner |
| Jobs (`api/jobs.py`) | job rows, queue, worker, thread | submit, run, start, stop | every job ends once, after at most one replay |
| Authentication (`api/auth.py`, `api/deps.py`) | password hash, attempts, sessions | login, lock out, authenticate, logout | sessions end when they should |
| Registry, promotion (`training/registry.py`, `promote.py`) | versions, live pointer, decisions | register, gate, set live, roll back, predict | the live pointer names a complete version, judged on bars it has not seen; rollbacks walk back |
| Schedule, training (`training/schedule.py`, `train.py`, `signal_log.py`) | last run, retry state, signal log | nightly run, retrain, archive | outcomes come from the bars that followed |
| Archive ingest (`training/ingest.py`) | parquet partitions, progress | top up, write, resample | no holes, whatever failed |
| Features, labels, splits, evaluation | none shared | functions on data frames | no label looks past its split |
| Backtester (`backtest/runner.py`, `costs.py`, `metrics.py`) | one engine, equity curve, trades | drive the engine bar by bar, save | no price from before the order; the trades add up |
| Strategies (`strategies/schema.py`), symbols and lots | none | validation, parsing | pure functions |
| Dashboard routes, builder, charts, scripts | none of their own | request plumbing over the above | rendering |

### How components interact

* Shared state: the broker object (engine, execution agent and dashboard all call it), the
  portfolio (engine, risk and signal), the latch file of the kill switch, the registry
  directory (nightly job, command line and dashboard), the job rows (API and worker).
* Messages: bus topics for ticks, bars, features, intents, approvals, rejections, orders,
  fills and control commands; update queues from the broker.
* Callbacks: `pump_updates` and `_feed_broker` hand broker updates to `handle_update`.

### What is hard

Interleaving happens only where a handler suspends, so a test that does not use the
limiter never sees it. State read before a suspension is used after it (`halted`, the
working set, an order's status). Terminal updates of one order arrive from several places
(the call's own result, the stream, a time-to-live). Bracket stops are decided from a
position rebuilt from fills. Whatever is persisted is written in several steps. The
`hazards` of `PROJECT.json` list these at the line where they bite.

## 2 Modules and plan

| Modules | Model | Checked by | Proved in |
|---|---|---|---|
| `Execution`, `ApprovalGate` | execution agent with the paper broker, timer and operator; the promise to risk | `MCExecution`, three runs | `ExecutionProofs` |
| `PaperAccount`, `Ledger` | paper broker and store: margin, cash, positions, stops, liquidation, rows written one by one, restart, reset; the promise to the account's owner | `MCPaperAccount` | `AccountProofs` |
| `EngineManager` | engine manager and kill switch: requests that interleave, the engines they build, halt and tear down | `MCEngineManager` | `ApiProofs` |
| `DhanOrders` | execution agent and Dhan adapter: REST answers against the update stream, lost calls, reconnects, restarts | `MCDhanOrders` | `DhanProofs` |
| `RiskFlow` | signal agents, risk agent, portfolio: approvals in flight against caps, latches and restarts | `MCRiskFlow` | `RiskProofs` |
| `MarketData` | market feed, bar builder, data agent: repeated and lost packets, flush loop, sessions | `MCMarketData` | `DataProofs` |
| `Samples`, `Training` | labels, folds, holdout; archive, signal log, training runs, gate, registry, two processes | `MCTraining` | `TrainingProofs` |
| `Backtests` | job rows, worker and thread, replay of bars through the simulated broker, round trips, saving | `MCBacktests`, two runs | `ApiProofs` |
| `LiveEngine` | the engine's update queues, its live and its replay driver, the portfolio | `MCLiveEngine` | |

Composition. `Execution` composes the agent with the paper broker, `DhanOrders` the same
agent with the Dhan adapter and the exchange; `Training` extends `Samples`. `RiskFlow`
takes of the execution agent only what its gate promises (each approval acted on at most
once, slices that never add up to more), which is what the refinement of `ApprovalGate`
says of `Execution`. `Backtests` takes any decision of the agents, so it does not depend
on `RiskFlow`; `LiveEngine` joins broker, engine and portfolio where the others each stop
at the queue. Modules with theorems use no RECURSIVE operator; their constants carry a named
assumption.

`SumTheorems` has the induction on finite sets and the facts about sums and quotients that
the proofs share. `ApiProofs` is about the two components the API process runs,
`EngineManager` and `Backtests`, which share nothing but the process; it extends both, so
the definitions of `Backtests` that both would have carry a prefix (`BTInit`, `BTNext`,
`BTSpec`, `btvars`) or the name of what they start and stop (`StartReplay`, `StopJobs`).

Bounds: one symbol where symbols are independent, two products where a cap or a cash adds
them up; two or three orders, fills and requests; one crash.

Left of the plan: the Redis transport of the bus; the dashboard's sessions.

## 3 Execution: the order path

`Execution` is the agent of `agents/execution.py` with the paper broker of
`brokers/paper.py`, for one (symbol, product). Products and symbols do not share state in
the agent, apart from the limiter and the halt; the cash they share at the broker, and its
holdings check of delivery sells, are the subject of `PaperAccount`.

| Variable | Code |
|---|---|
| `book` | `PaperBroker._orders`; an order's id is its index |
| `pos` | the broker's position quantity |
| `queue` | the update queue `pump_updates` reads |
| `halted`, `used`, `plans`, `working`, `protective`, `net` | `ExecutionAgent.halted`, `_used_tokens`, `_plans`, `_working`, `_protective`, `_net` |
| `attributed` | orders whose copy in `_orders_seen` carries an intent id |
| `pend` | an order a task holds while it waits in `OrderRateLimiter.acquire` |
| `stack`, `run` | the rest of a task's handler; the task the event loop is running |
| `nfills`, `commands` | counters for the bounds only |

**Tasks and atomicity.** `run` names the task that holds the loop. A handler is a stack
of frames: the remaining turns of a `for` loop over a snapshot (`cancel`, `manage`, `oco`),
a call of `_on_order_progress` (`progress`), `_maybe_bracket` (`bracket`) or `liquidate`.
A task keeps `run` until its stack is empty or it reaches a placement; when the limiter is
on (`Throttled`) the placement gives `run` up and any task may go on. This is exactly
where the code suspends with the paper broker. Frames hold what the code keeps in local
variables, so a snapshot taken before a wait is used after it. The bus chain that leads to
an approval runs in the feed task, hence `Approval` and `Market` need that task free.

**Actions.** `Market` is a tick or bar reaching an order (`_match_all`, `_try_fill`,
`_try_trigger`, `_fill`); `Approval` is `_on_approval`, `check_approval` and `execute` to
the first placement; `Place`/`PlaceFails` is `_place` after the limiter; `FillUpdate` and
`OrderUpdate` are `handle_update`; `OnOrderProgress`, `MaybeBracket`, `CancelWhere`,
`CancelProtective` are the functions of those names; `Manage`, `Expire`, `Chase`,
`ManageDone` are `manage` with `_maybe_chase`; `SquareOff` and `Liquidate` are
`square_off_due`; `Kill`, `Resume`, `Flatten` are `_on_control`.

**Data abstracted.** Prices, cash and fees: a BUY may be refused for cash at any time
(`Refused`), an order may fill or not. Order types: a working order is `OPEN`, which
stands for TRIGGER_PENDING, OPEN and PARTIAL. Time: an order may have met its deadline or
not, an approval that expired is never offered. Risk's verdict is an input: each intent has
one approval, presented any number of times.

**Scope.** One consumer of broker updates, as in `pump_updates` alone. A live paper engine
registers a second queue (`engine.py:197` and `331`); `LiveEngine` is about that.
`_synthesise_fill` never runs with the paper broker, which streams its fills first, and
`reconcile` reads an empty broker at the start of a fresh account; both are in
`DhanOrders`.

## 4 PaperAccount: the books of the paper broker

`PaperAccount` is `brokers/paper.py` with `brokers/paper_store.py` for one equity, held
under the products CNC and MIS, which share the account's cash.

| Variable | Code |
|---|---|
| `orders`, `fills`, `cash`, `positions` | `PaperBroker._orders`, `_fills`, `cash`, `_positions` |
| `last` | `_last` of the symbol (`None` before the first price and after a restart) |
| `disk` | the account's rows in the store |
| `todo` | the rest of the call under way |
| `issued`, `restarts` | order ids given out; counters for the bounds |

**Calls and jobs.** A call of the broker is synchronous: nothing runs between its first
and last line. But memory changes at once while the store changes row by row, each row in
a transaction of its own, so a call is a list of jobs taken one by one: `match` (a turn of
`_match_all`), `try` (`_try_fill` of an order), and the writes `order`, `fill`,
`position`, `account`. `PlaceOrder`, `ModifyOrder`, `CancelOrder`, `OnPrice` and
`Liquidate` start a call, and only when none is under way. `Write` copies a row as it is in memory. `Restart` reads the
rows back (`_load`) between two calls or, with `Torn`, between any two jobs. `Reset` is
`reset_paper`, which the manager allows only while no engine runs.

**Prices.** A price event is a tick or a bar `[open, high, low, last]`. A limit fills at
its price, or at the open when the market gapped through it; a stop meets the market at
its trigger, or at the open; `Strict` asks for a trade through the limit and
`Participation` lets a bar fill a part or nothing (the simulated broker sets both and
clears `FillAtPlacement`). Average prices and realised profit are exact fractions where
the code has floats.

**Data abstracted.** Slippage is zero and a fill costs a flat fee; futures (whose cash
moves by realised profit) are left out; orders are modified in price, as the chase does
it. `place_order` with a known tag returns the order it finds and changes nothing.
`liquidate` is called product by product. A position's `last_price` is the price of its
last fill: `_mark` changes it in memory too, where it is read only if `_last` is unknown,
that is after a restart and before the first price.

**The promise.** `Ledger` is an account as its owner sees it: orders are booked, and cash
and holdings move by posting an execution, which is within its order and, if a purchase,
paid from the cash there is. A restart is no event of the ledger. `PaperAccount` refines
it with `money <- cash`, `holding <- ` the quantities and `booked <- ` the orders without
type, prices and status.

## 5 EngineManager: engines and the kill switch

`EngineManager` is `api/engines.py` with the `KillSwitch` of `api/events.py`, for any
number of users and requests.

| Variable | Code |
|---|---|
| `engaged` | the file of `KillSwitch` |
| `handles` | `EngineManager._handles` |
| `engines` | the engine and broker of a handle, see below |
| `exits` | engines with an exit order of `flatten` at work |
| `starts` | calls of `start` past the lock: building, syncing (awaiting `engine.start`) or failing (awaiting `_teardown`) |
| `kills` | calls of `kill`: the rest of the list `running()` returned, and the engine awaited |
| `flatten` | the engine a call of `flatten` is waiting for |

An engine is a record: its broker session is `open`, its agents are subscribed (`wired`),
it has started (`task`), execution is `halted`, risk is `killed`, and a stop is cancelling
its loops or closing its broker (`closing`). `missed` and `stale` are history: that the
engine was registered under a pulled switch, and that its account was wiped after its
broker had loaded it. `missed` ends with the next kill that finds the engine, or a release.

**Where requests interleave.** The code awaits; a step of the model goes from one await
that really suspends to the next. The paper broker never suspends, so a paper engine is
started, halted and flattened in one step, while a live one suspends its caller: `Start`
to `Built` (the broker is connected; a paper engine's feed is connected here as well),
then `Synced` or `SyncFails` (reconciliation), then `StartFailed` (the broker is closed).
`Sweep` is the stretch of `kill` between two suspensions: it may pass any paper engine,
passes any live engine that has nothing to cancel, and stops at one that has. Within an
engine the KILL command reaches execution, which halts and cancels, before risk, because
the engine subscribes them in that order; so an engine a kill is awaiting is halted and
not yet killed. The lock serialises builds only, as `start` releases it before it awaits
the engine: `Start` needs that no call is building. `Resume` and `Reset` do not suspend.
The model gives the callers no order: any user may start, stop, kill, flatten or reset
when the code lets it, and only admins release the switch or trade live.

**Ends of a process.** `Restart` forgets everything but the switch. A regular shutdown is
a `Stop` of every engine first. Initially the switch may be pulled, which an unreadable
file also counts as.

**Data abstracted.** What an engine trades, its strategies and its status; the refusals of
`live_trading_refusal` other than for the user, which are fixed for a process; the reasons
a build fails; orders at the broker, of which only the exits of `flatten` are followed
(`Execution` follows the others). An engine whose `run_live` died keeps its agents and its
entry, as in the code, so that event changes nothing here. A closed broker takes no order,
so a closed engine's slot is blank again and may be taken.

## 6 DhanOrders: a plan at the real broker

`DhanOrders` is one sliced plan of `agents/execution.py` traded through `brokers/dhan.py`.
An order is known in three places, and nothing orders the two ways news of it travels.

| Variable | Code |
|---|---|
| `market`, `stream`, `connected` | the exchange's orders and the order-update websocket (external) |
| `cache` | `DhanBroker._orders` |
| `seen`, `working`, `overdue` | `ExecutionAgent._orders_seen`, `_working`, their deadlines |
| `halted`, `approved`, `placed`, `advanced` | `halted`, the plan and its `placed` and `advanced` |
| `counted` | what the portfolio holds of each order, from published fills and adopted positions |
| `phase` | how far `TradingEngine.start` has read the broker |
| `calls`, `todo` | the REST call a task awaits, and what is left of its loop |

`missed`, `skewed`, `overtaken` and `disowned` are history: they name why an order may be
out of step.

**Calls.** Four tasks make one call at a time: feed, pump, manage, control. A call is a
request (`Begin`), its service (`Serve`), and its answer (`Answer`); `Lose` loses the
request or the answer, after which `_request` asks again or raises. A placement carries its
correlation id, and the exchange answers one it already accepted with that order; this is
how the adapter relies on it. `Turn` is a turn of the loop of `manage` or `cancel` over its
snapshot; `HandleUpdate` is the pump's handler with `_synthesise_fill`, `_on_order_progress`
and the next slice; `SyncOrders` and `SyncPositions` are what `start` reads back.

**Left out.** FLATTEN and RESUME, token renewal, the buckets of the rate limiter, prices.
Bracket stops are never placed with Dhan. An order is worked by TTL and chase as in
`Execution`, where their liveness is checked.

## 7 RiskFlow: from a bar to an order

`RiskFlow` is `agents/signal.py`, `agents/risk.py` and `agents/portfolio.py` with the part
of the execution agent that answers them.

| Variable | Code |
|---|---|
| `pos`, `cash`, `price`, `day` | `Portfolio.positions`, `cash`, `last_price`, the day's snapshot |
| `latched`, `killed` | `RiskAgent.halted_day`, `killed` |
| `halted`, `killing` | `ExecutionAgent.halted`; a KILL between its two handlers |
| `pending` | `SignalAgent._pending` |
| `intents` | approved intents as execution carries them out |
| `doubled`, `breached` | history: keys approved while an order of theirs was in flight; days a fill left at the limit |

**Atomicity.** The bus awaits the handlers of a message in order, so `Decide` is decision,
intent, verdict and approval gate up to the first wait. `Market` marks the portfolio;
`Place`, `Fill` and `Cancel` are what becomes of the children; `ExecKill` and `RiskKill`
are the two handlers of one KILL; `NextDay` and `Restart` come at any time.

**Data abstracted.** Fills at the last price, a fixed fee, a loss limit in rupees. Trading
hours, lots, cost hurdle, Kelly sizing and paused strategies are any rejection or any
smaller lot. What a rule or model says is any entry its sides allow.

## 8 MarketData: from trades to bars

`MarketData` is the market feed of `brokers/dhan.py` with `BarBuilder` and `DataAgent` of
`agents/data.py`, for one symbol and interval. A packet carries the last trade and the
session's volume; a change of the depth repeats it.

| Variable | Code |
|---|---|
| `last`, `traded`, `connected`, `wire` | the exchange, its history and the websocket (external) |
| `builder` | `BarBuilder`: window, volume, `_prev_cum_volume`, `_session` |
| `buffer` | `DataAgent.buffer` |
| `busy` | the tasks inside a publication: feed and flush loop |
| `shown`, `seen`, `late` | history: volumes published, packets handled, sessions with a late one |

`OnTick` is `on_tick` and `emit_bar`; `Flush` is `close_if_due` in the flush loop; `Done`
ends the wait of a task for the handlers of its bar; `Restart` starts a process with or
without warm-up. The feed is taken in FULL mode, and sessions open on a multiple of the
interval, where flooring from midnight and from the open agree. Prices are left out.

## 9 Samples and Training: from bars to the live model

`Samples` has what a model is fitted and judged on as sets of times: labels
(`training/labels.py`), rows (`dataset.py`), folds, purge and embargo (`splits.py`). A bar
is its place in the calendar and a frame the set of bars a symbol has; of a label only the
last bar it looks at matters. `Training` is the pipeline around it, in two processes that
share files.

| Variable | Code |
|---|---|
| `archive` | the parquet partitions of `ingest.py` |
| `signals` | `SignalLog` with attached outcomes |
| `versions`, `live` | version directories and `live.json` of `registry.py` |
| `trainer` | where a run of `schedule.py` or `scripts/train.py` is, and what it holds |
| `operator` | a move of the pointer by hand, between its read and its write |
| `lastNight` | the schedule's memory |
| `reigns` | history: the versions that were live |

Every file is replaced atomically, so a step is one read or one write: `TopUp` (by symbol
and day, ended anywhere by a failure), `AttachOutcomes`, `Fit`, `Dump`, `Gate`, `Refuse`,
`Promote` with `TrainerMoves`, `OperatorReads` and `OperatorMoves`; `Crash` kills the
trainer between any two. A run takes no market time. One trainer and one operator move at
a time. The verdict of the gate is either once both models have enough labelled rows.

## 10 Backtests: jobs and replays

`Backtests` is `api/jobs.py` with `backtest/runner.py`, `sim_broker.py`, `metrics.py` and
the replay of `agents/engine.py`.

| Variable | Code |
|---|---|
| `process`, `restarts` | the API process; a counter for the bound |
| `replays` | history: how often a job's replay was started |
| `row`, `saved` | rows of the job table; complete result directories |
| `queue`, `worker` | `BacktestJobs._queue`, `_work` |
| `thread` | the replay: bars to come, outcome |
| `sim` | `SimClock` and `SimBroker`: orders, fills, cash, position |

`Submit`; `Boot` (what `start` does with rows left over); `Take`, `StartReplay` and `Record`
of the worker; `Step` (one bar: clock, broker, decision, cancellations, square-off),
`Finish` (the final close), `Save` and `Fail` of the thread; `StopJobs`, `Exit` and `Crash`.

Bars are read, resampled and used as warm-up as in the runner. The bars to come are a set
of which `Step` takes the soonest (`Soonest`): with one symbol no two bars have the
same end and interval, so this is the order of `order_by_completion`. Time exists
only in sessions. What the agents make of a bar is any order or none and any cancellation;
a fill takes any part of an order at the bar's open; fees are per unit. An order notes how
many bars were to come when it was decided, and a fill how many with the bar that made it
(`togo`); only the properties read these.

`match_trades` is `Matched`, the fills one after the other by their times: `Match` puts a
fill against the open lots, first in first out, in turns of the while loop (`Turn`), and
what is left of it becomes a lot (`Remainder`); `Open` values the lots that remain.

## 11 LiveEngine: the path of a fill

`LiveEngine` is `agents/engine.py` with its two drivers over the simulated broker:
`step` of a replay and `run_live`. `queues` holds the update queues by consumer ("engine"
is `TradingEngine._queue`, "pump" the stream of `pump_updates`), `held` and `orders` the
broker's book, `view` the portfolio, `pending` what the strategy waits for, `feed` and
`timer` where the bar task and the manage loop are.

`Start` and `Stop` register and forget queues and adopt the position; `Tick` and
`FeedBroker` match; `Drain` and `Pump` hand one update on; `Orders` decides; `Expire`,
`SquareOff` and `SettleUpdates` are the timer's. One long-only intraday strategy, orders
of one slice. The wait between decision and placement is left to `RiskFlow` and
`Execution`.

## 12 What each run shows

| Run | Bounds | Properties | Shows |
|---|---|---|---|
| `exec_atomic` | entry of 3 in children of 2 and an exit of 1, both with stops; 2 fills, 2 commands (KILL, RESUME), broker errors, partial fills, square-off; no limiter | `TypeOK`, `NoGhosts`, `HaltStopsChildren` | 5.1 M states: once updates are consumed the agent manages no closed order; a halted agent sends no child |
| `exec_limited` | same intents; limiter, fills at placement, 3 fills, KILL | `WithinApproval`, `CancelReachesAll`, `NoFillLost`, `ImplementsGate` | 1.8 M states: under every interleaving children add up to at most the approval, every live order is in the working set, no fill is lost or double counted, the gate is implemented |
| `exec_plans` | one entry of 3 slices, chased once, FLATTEN, limiter, partial fills; fair | `OneChild`, `StallsExplained`, `PlansRunOut` | 70 k states: one child at a time (without bracket stops), a plan stalls only when its last child was refused as it was placed, every plan runs out |
| `paper_account` | cash 6, prices 1 to 3, a tick and a bar; five kinds of orders over both products, 3 orders, 3 fills, modification, liquidation of MIS, partial fills, one restart or reset | `TypeOK`, `BooksAgree`, `PnLAgrees`, `CashFloor`, `NoShortHoldings`, `DiskFollows`, `ImplementsLedger` | 2.0 M states: fills, orders, positions, profit and cash agree, also through a flip and across a restart; orders that share cash or holdings never overdraw either; the store follows; the account is a ledger |
| `engine_manager` | an admin and another user, 2 engines at a time, 2 starts, 1 kill, 1 flatten under way, restarts; fair | `KillReaches`, `PaperOwned`, `BookIsCurrent`, `HandlesServe`, `HaltHolds`, `ExitsObeyKill`, `KillLands` | 192 k states: a kill comes to every registered engine that was there to be found, and nothing but a release lets it go; the table holds whole engines only; paper engines are neither orphaned nor left on a wiped account |
| `dhan_orders` | 2 slices (2 and 1), one chase, one retry, one fault | `Tracked`, `OneAtATime`, `GhostsExplained`, `CountsExplained` | 1.9 M states: what works at the exchange is tracked, slices never work together, a ghost or a miscount has one of the named causes |
| `risk_flow` | an intraday strategy (3) and a delivery strategy (1) on one symbol, slices of 1, prices 2 and 3, caps 5 and 9, 3 intents, 2 days, one restart | `PendingLive`, `PositionSound`, `LossLatches` | 3.6 M states: nobody waits for an intent that ended; positions keep cap and direction unless two orders of a key were in flight; a day at its limit takes no entry |
| `market_data` | two sessions of two windows, 3 trades of 1 or 2, 2 packets under way, one disconnect, one restart; fair | `CountedOnce`, `WindowCloses` | 762 k states: bars add up to what was traded between the first and last packet; an open window is closed without another packet |
| `training` | 4 days of 3 bars, a dense symbol and one without bar 9, a label of 1 bar across sessions, one fold; 2 versions, 2 moves, one failure, one crash, one run by hand | `TopUpExact`, `OutOfSample`, `WalksBack` | 1.4 M states: no holes and right outcomes, the gate's window unseen by either nightly model, rollbacks walk back through what was live |
| `backtests` | jobs on two intervals, on one (squared off) and on none; sessions of 3 minutes, 2 orders of 1 or 2, cash 12, one stop or crash; fair | `PeeksExplained`, `TradesAddUp`, `JobsOnce`, `JobsSettle` | 453 k states: an order waits for a later bar, and sees an older price only through another interval; round trips add up to the account; a job is replayed at most once and done only with its result saved; every job ends |
| `look_ahead` | as `backtests` | `NoLookAhead` violated | a finding, see 14 |
| `live_delivery` | entry of 2, 2 orders, one restart, both drivers | `Mirrors` violated | a finding, see 14; with the replay driver alone `Mirrors` holds |

Why the bounds are enough: three slices give a first, a middle and a last child; a
quantity of 3 under a cap of 2 gives an uneven last slice; an entry and an exit give a
position that opens, brackets, goes flat and may cross zero; three fills allow an entry, a
stop and an exit; one command more than the plan needs gives KILL after RESUME. In
`paper_account` three orders are enough for two that compete for cash or holdings and one
that moved them before; prices 1 to 3 around the limits and triggers give below, at and
above; a cash of 6 pays for one but not for all of the orders; three fills open, flip and
close a position. Orders come after the first price (`Blind` is false) because before it
`NoShortHoldings` fails (a known deviation, see 14). In `engine_manager` two engines are
enough for a kill that awaits one while the other is still to be told, and for an old
engine being torn down beside its successor; two starts give a failing one beside a
building one; a second user has an account, and no live engine, of its own. In
`dhan_orders` two slices are a plan that goes on, a quantity of 2 fills in parts, and one
fault with one retry gives a lost answer that is asked for again as well as a restart or a
disconnect in the middle of a call; two faults in one history are not covered. In
`risk_flow` a slice of 1 under a size of 3 leaves more to come while the first is filled, a
price step moves the exposure past a cap of 5, and a loss of 1 is one price step of one
unit. In `market_data` two windows a session and two sessions give a window that closes by
packet, by clock and by the end of day. In `training` four days are an empty archive, a
first model, its challenger and a holdout; the second symbol's missing bar is the case the
purge does not count. In `backtests` an interval of 2 in a session of 3 leaves a
truncated bar, and is resampled from minutes. Each property has a mutant of the code the
run finds, so the bounds reach the case it guards.

Deadlock is checked in `engine_manager`. In the other runs it is not: the bounds on
orders, fills, commands, time and faults stop the models, and the system itself rests when
nothing is working.

**Fairness of `Execution`** (`FairSpec`, used by `exec_plans` only). The event loop resumes every task
that can go on: strong fairness per task, because other tasks hold the loop in between. The
pump takes every update. The timer loop comes round and every order that stays eventually
meets its TTL (`order_ttl_seconds`), strong because the loop is entered again and again.
The market, approvals and operators are under no fairness: the market may never fill.

**Fairness of `EngineManager`** (`FairSpec`). What a request awaits ends by an answer, an
error or a timeout, so every start, teardown, kill and flatten under way goes on: weak
fairness, since nothing but the step itself disables it. That users call anything is not
assumed. `KillLands` needs the kill's part only.

**Fairness of `MarketData`** (`FairSpec`). The clock runs, the flush loop comes round every
`flush_interval_seconds`, and the handlers it awaits return (their calls time out): weak fairness of
each. Packets, trades and the feed's own handlers are under no fairness, which is the
point of `WindowCloses`.

**Fairness of `Backtests`** (`FairBTSpec`). A service that is down is started again, a stop
ends, the worker loop goes on and a running thread advances: weak fairness of each. The
thread's fairness asks that it moves on, not what it decides. Nobody is assumed to submit.

## 13 What is proved

The theorems hold for every value of the constants that satisfies the assumption of the
module (`ExecutionAssumption`, ...), which the runs evaluate on theirs; a further
hypothesis is named with the theorem. Each safety theorem follows from an inductive
invariant, given here with the reason it is needed.

`SumTheorems` is about sums over finite sets (`SumFunctionOnSet`): a sum splits, keeps its
value under a bijection, grows by what one term grows. The induction theorems of the
library take an operator, which the provers cannot instantiate; `NumberInduction` and
`SubsetInduction` take a set in its place (the numbers, or the subsets of a finite set,
of which the claim holds), and everything about quantities, balances and ranks rests on
them.

### Execution (`ExecutionProofs`)

* `TypeCorrect`: `Spec => []TypeOK`. Ids in the working set, plans, queued updates and
  frames are ids of orders at the broker.
* `SlicesAreOnce`: a slice of a plan belongs to one order at the broker or one waiting
  placement. `SlicesAddUp`: the slices of `plan_slices` add up to what was approved.
  `ChildrenWithin`: `Spec => []WithinApproval`.
* `AgentImplementsGate`: `Spec => ImplementsGate`, the refinement of `ApprovalGate` under
  `accepted <- used`, `sent <- Sent`.
* `CancelsReachAll`, `GhostsGoAway`, `FillsArrive`: `Spec => []` of `CancelReachesAll`,
  `NoGhosts`, `NoFillLost`.
* `HaltStopsAtomic`: `~Throttled => (Spec => HaltStopsChildren)`: without the limiter a
  halt is immediate; with it, a child that waits still goes out (see 14).
* `ChildrenOneAtATime`: `NoStops => (Spec => []OneChild)`. `NoStops` says that no bracket
  stop is placed; one that is forgotten releases a slice when it closes (see 14).
* `StallsAreExplained`: `Undisturbed => (Spec => []StallsExplained)`, where broker calls
  succeed and nobody kills; a kill or a failed placement ends a plan on purpose.

`IInv == TypeOK /\ FilledWithin /\ SlicesOnce /\ Atomic` is inductive. `TypeOK` alone is
not: a fill keeps `left` a natural only if no order is filled beyond its quantity
(`FilledWithin`). The gate needs the slices waiting in `pend` as well as those at the
broker (`SlicesOnce`), since a slice is claimed before the wait and sent after it.
`HaltStopsChildren` needs that without a limiter only the running task has a frame or a
placement and that no child waits while halted (`Atomic`).

`Reported == Fresh /\ Accounted /\ SliceSized /\ NoFillLost` is inductive beside it.
`Accounted` relates the book to everything that is still to be heard of an order, in the
queue or in a task's frame (`Told`): the end of an order is reported while the agent
manages it, only ended orders are so reported, and what can fill is managed.
`CancelReachesAll` is its second part; `NoGhosts` follows because nothing is `Told` when
queue and stacks are empty. `Fresh` (what waits for the limiter is an open order) is why a placement never
reports an end it did not have. `NoFillLost` is inductive as it stands once each action is
classified by what it adds to the sum of the queue. `SliceSized` gives a child the
quantity of its slice, so that the injection of children into slices, which `SlicesOnce`
provides, bounds their sum.

`OneChild` needs `OneActive`: of each plan one child at most has not released its
successor, or one placement waits, and what has released it is closed.
`StallsExplained` needs `PlansMove`: a plan is complete, or waits for the limiter, or has
a child that is open, was refused as it was placed, or whose end the plan is still to
hear.

The proofs take each action once for every classification (of the slices it claims, the
orders it touches, what it reports), because most properties see only the class.

### PaperAccount (`AccountProofs`)

For both values of `Torn` unless said otherwise.

* `AccountTypes`: `Spec => []TypeOK`: no order is filled beyond its quantity, a working
  order has something left, a position that is not flat can be valued; also in the rows,
  wherever the process stops.
* `StoreFollows`: `Spec => []DiskFollows`: between calls the store has what memory has, but
  for stops that were hit (see 14).
* `CashStaysCovered`: if no price is below the fee, `Spec => []CashFloor`. The condition is
  needed: a sale for less than its fee takes cash from the account.
* `AccountImplementsLedger`: `~Torn => (Spec => ImplementsLedger)`.
* `BooksStayAgreed`, `ProfitAgrees`: `~Torn => (Spec => []BooksAgree)`, and so of
  `PnLAgrees`.
* `DeliveryIsCovered`: `Delivered => (Spec => []NoShortHoldings)`, with
  `Delivered == ~Torn /\ ~Blind /\ "CNC" \notin Liquidated`.

`~Torn` is needed wherever it is asked: a restart between two rows of a fill loads cash or
a holding without its execution. The other parts of `Delivered` are needed too: before the
first price an order to sell is not checked against the holdings (see 14), and a
liquidation of delivery shares sells beside the orders that wait for them. A session's
square-off liquidates MIS only; the end of a backtest liquidates all, after its last order.

The inductive invariant is `IInv == TypeOK /\ StaleIsQueued`. `StaleIsQueued` says that
whatever differs between memory and store is still to be written by the call under way;
with nothing to write it is `DiskFollows`, and it makes a restart between calls a
stuttering step of the ledger. The steps are proved in four groups: calls that add an order
(`BookedKeeps`), calls that change one (`AmendedKeeps`), jobs that give way to other jobs
(`JobsKept`, `StaleKept`), and writes (`WriteFields`). `CashStaysCovered` adds the
invariant `Covered` of the cash in memory and in the store. The sums are invariants of
memory alone, since a restart gives it back as it was: `Books` (fills, orders and
positions add up), `Endowed` (working delivery sells, in what they have left, do not
exceed the holdings; `NoShortHoldings` alone is lost by the second of two sells), and
`Profit` (realised profit less the cost of what is held is what the cash gained, in exact
fractions, by cases of opening, adding, closing and reversing).

### EngineManager (`ApiProofs`)

With and without restarts, for any number of users, engines and requests.

* `ManagerTypes`, `KillAlwaysReaches`, `PaperStaysOwned`, `HandlesAlwaysServe`,
  `BooksStayCurrent`: `Spec => []` of `TypeOK`, `KillReaches`, `PaperOwned`,
  `HandlesServe` and `BookIsCurrent`.
* `ExitsAlwaysObey`, `HaltsAlwaysHold`: `Spec => ExitsObeyKill`, `Spec => HaltHolds`.

The inductive invariant `Inv` adds three parts to these properties. `StartsMatch`: a start
that awaits its engine is a live one and removes, if it fails, a key of a live engine; this
is why no start that fails can orphan a paper engine. `BuildsAlone`: at most one build, for a key
without an engine, so that registering loses no other engine. `Told` splits `KillReaches`
at the moment a kill awaits an engine: execution is halted when the kill comes to the
engine, risk is killed when the kill moves on. `KillReaches` alone is not inductive:
it says nothing of an engine a kill is awaiting, which must be halted when the kill moves
on. `HandlesServe` needs `StartsMatch` too: the
engine a failing start closes is the one its key has, or is in the table no more.

### RiskFlow (`RiskProofs`)

* `NobodyWaitsInVain`: `Spec => []PendingLive`.
* `LossLatchHolds`: `Spec => LossLatches`.
* `PositionsStaySound`: `Spec => []PositionSound`.

`PendingLive` and `LossLatches` need `Shaped /\ Waiting`, with `Latched` for the second.
`Waiting` strengthens `PendingLive`: the intent a strategy waits for is its own and of this
process, so that what ends another strategy's intent cannot matter, and a restart, which
ends intents without telling anyone, has nobody waiting for them. `Latched` says that a
day in `breached` is the day the risk agent has latched, which a new day and a new process
keep by having no breach yet. `Shaped` leaves open which numbers the quantities are; they
do not matter there.

`PositionSound` needs `Typed /\ Capped`: for a key outside `doubled` one intent at most is
in flight, and with what it has open and left it would leave the position sound too
(`Within`): an entry, added in full, stays under the cap on its side, and an exit closes no
more than there is. The cap is asked at the least price, as an approval's price may have
moved before it fills.

### DhanOrders (`DhanProofs`)

For every number of slices, retries, chases and faults and every quantity.

* `OrdersStayTracked`: `Spec => []Tracked`. `SlicesOneAtATime`: `Spec => []OneAtATime`.
* `GhostsAreExplained`, `CountsAreExplained`: `Spec => []` of `GhostsExplained` and
  `CountsExplained`.

`Tracked` is about what the agent knows of the exchange, and it learns it late, so the
inductive invariant `Inv` adds what makes old news harmless. `Truthful`: an answer or
update that says an order is closed is still right, as closed is for ever; dropping the
order from the working set then loses nothing. `Exclusive`: while a placement is awaited
nobody else has a call or a walk about that slice. `Succession`: of every slice but the
last, the agent has either released the next one already or nobody can hear of its end
any more, and without an approval nothing that is placed is this process's; so a slice is
released by the last one only. `Numbered` says that nobody knows a slice that was not
asked for.

`Heeded` is inductive beside it and is about what the agent has heard: the updates of an
order come in the order of its fills and the last one on its way is the order as it is
(`InOrder`), so that with none on its way and none `missed` the agent had the last word.
`Ended`: an end it heard took the order out of the working set, or is remembered until the
placement answers. `Agreed`: its copy and the portfolio's count trail the exchange together
unless the order is `skewed`.

### MarketData (`DataProofs`)

* `VolumeIsCountedOnce`: `Spec => []CountedOnce`.

The invariant is `Typed /\ Ordered /\ Reflected /\ Balanced`. `Ordered`: packets under way
come in the order of the trades and the agent is behind each of them, so none opens a
window older than the open one or goes back a session. `Reflected`: `_prev_cum_volume` is
the volume seen of its session, and a window that opens again was `late`. `Balanced`: what
is published and open is what was seen, or less in a late session.

### Training (`TrainingProofs`)

* `FilesHold`: `Spec => []IInv`.
* `ArchiveStaysWhole`, `GateIsOutOfSample`, `RollbacksWalkBack`: `Spec => []` of
  `TopUpExact`, `OutOfSample`, `WalksBack`.

`IInv == Dated /\ Solid /\ Honest /\ Held`. `Solid`: the archive has every bar the exchange
has between any two of its own, which is why the next top-up may begin at its last one.
`Honest`: an outcome is what the exchange gives, not only what the archive gave then.
`Held == Fitted /\ AtWork /\ Operating /\ Current`. `Fitted`: every version is clean for
dense symbols, and the holdouts of the nights begin later and later; a gate looks at two
versions of two nights, and only their order tells that the older one has not seen the
window of the newer. `AtWork` keeps what a run of the night read (its date and its job)
until it writes a version. `Current` says that the live pointer walks back; alone it is lost when the
trainer or the operator writes a pointer it read before the other moved, so `Pending` says
it of the pointers in their hands. Ranks of bars in a frame count its elements; for a
dense symbol they differ as the bars do (by `SubsetInduction`), so a label ends `Horizon`
bars after its row and the purge drops every row that reaches into the held-out block.

### Backtests (`ApiProofs`)

For any jobs, archive, intervals, sessions, order sizes and fees, and any number of bars,
orders, stops and crashes.

* `JobsRunOnce`, `PeeksAreExplained`, `TradesAlwaysAddUp`: `BTSpec => []` of `JobsOnce`,
  `PeeksExplained`, `TradesAddUp`.
* `OneIntervalNeverPeeks`: if each job has one interval, `BTSpec => []NoLookAhead`. The
  finding of `look_ahead` (see 14) needs strategies of several intervals.
* `ClockAlwaysGoesOn`: `BTSpec => []ClockGoesOn`. `SimClock.set`, which raises when time
  goes back, accepts the end of every bar that is to come.

`BTInv == JobsTyped /\ WorkerOwns /\ RowsTell /\ ThreadReplays` is inductive. `JobsOnce`
alone is not: a job in the queue may have been replayed. `RowsTell` says that a row that
is queued never was, and `WorkerOwns` that nobody but the worker has a thread while jobs
are served, so that what a thread returns is recorded in the row of its own job; a thread
a stop left behind saves, but nobody records it. What a replay keeps is `Replayed`, with
three parts.

* `Sound`. Its `Explained` is `PeeksExplained` with what ties a fill to its order. Its
  `Balanced` says that at every price x, and not only the last, the fills gained
  `cash + held * x - Cash`; one price would not do, as the next bar brings another.
* `Waiting`: an order of a strategy has more bars behind it than are to come, and none to
  come of its own interval began before it was decided; no bar to come ends before the
  clock. It rests on `SoonestIs`: a bar that completes later and has the same interval
  starts at the end of the earlier one or after it, also when the close truncates it.
* `Spent`: the broker's own orders are filled as they are placed, or rejected for cash;
  none rests to meet a bar, so only they are at the price of the moment.

`TradesAddUp` follows from `Balanced`. The worth of a book is what its round trips, and its
lots at the last price, come to (`NetPnL`). A turn of the loop keeps that worth and what is
left of the fill together (`TurnKeepsWorth`): closing a lot moves its gain from the lots to
the trades and no more. So a fill, with what is left of it as a lot, adds what it gains
(`MatchAddsGain`), and by induction the book of any fills is worth their gains
(`MatchedIsWorth`), whatever order their times put them in. `StepsExist` and `TakesExist` show that the recursive
functions of the model have values, which the provers do not assume.

### Left to TLC

* Liveness under fairness and ENABLED, out of the prover's reach: `PlansRunOut`,
  `KillLands`, `WindowCloses`, `JobsSettle`.
* `LiveEngine` has the one property its run refutes.

Every invariant and every action property of a passing run is stated by a theorem.

No module uses a RECURSIVE operator.

## 14 Findings and known deviations

Two runs show a property the repository states violated by its code.

* `look_ahead` (`paper.py:232`). `on_bar` matches the working orders of a symbol against
  every bar of it, whatever its interval and start, at the bar's open. A backtest replays
  all intervals in order of completion, so where two strategies trade one symbol on
  different intervals, an order decided on a minute bar is filled by the longer bar that
  completes at the same time, at a price from before the order. `sim_broker.py:5-7` calls
  filling at "the close that produced the signal" a quiet look-ahead; this is an earlier
  price still. `PeeksExplained` shows that it is the only way to such a price.
* `live_delivery` (`engine.py:331`). With a paper broker `start` registers an update queue
  that every bar drains, and `run_live` starts `pump_updates`, which registers a second
  one. Every fill is published twice and `Portfolio.apply_fill` keeps no ids, so in live
  paper trading the portfolio, the risk agent and the strategies see twice the position
  the broker holds. `portfolio.py:3-5` calls it the engine's running view of the broker's
  positions, `engine.py:3-4` says the wiring is the same for live, paper and replay.

Known deviations. These were met while modelling. The models contain the behaviour, or
name it where it is abstracted; where a property excludes it, the exclusion is one of the
conditions the property states (`Blind`, `StaleIsQueued`, `doubled`, `late`, `Dense`,
`skewed`, `missed`). They are not runs of their own.

Orders:

* Halt during a wait: `_place_next_slice` checks `halted`, then waits for the limiter; a
  KILL handled during the wait does not stop the child (`execution.py:281`, `311`).
* Stop of a flat position: `handle_update` cancels the stops of a flat position and then
  brackets the fill that made it flat: exits carry a stop distance too
  (`execution.py:405`, `signal.py:279`).
* Two children: `cancel` forgets an order before its progress is examined, so a cancelled
  bracket stop releases a slice of its plan (`execution.py:600`). With Dhan, `cancel` of a
  partly traded child stores the adapter's cached order with nothing filled, so the
  CANCELLED update yields the traded quantity again (`execution.py:426`).
* Reconnecting the order stream does not reconcile (`execution.py:20`, `620`), a failed
  reconciliation at the start is only logged, and after a restart orders of the earlier
  process have no TTL. A placement whose every answer is lost is not tracked.

Accounts and engines:

* Hit stops: `_try_trigger` makes a stop that was hit a live limit without writing its row
  when the gap price is beyond its limit (`paper.py:564`), so a restart brings back a stop
  that waits for its trigger.
* Before the first price `_validate` skips the holdings check of an order it cannot value
  (`paper.py:300`) and `_fill` repeats the check of the cash only, so delivery shares that
  are not held can be sold.
* Kill during a build: `start` looks at the switch once and then builds the engine, which
  awaits the broker; a kill in between does not find the engine, which starts un-halted
  under a pulled switch (`engines.py:149`, `164`; `events.py:63-64` says "While it is
  pulled no engine may start, and every running engine is halted").
* A start that fails removes what its key has after it closed its own engine
  (`engines.py:170`); if that was stopped and replaced meanwhile, the new engine runs on
  outside the table.

Risk:

* The caps do not count approvals in flight (`risk.py:63`); an exit in flight and a partial
  fill admit a second exit that can flip the position (`doubled`); an exit above
  `max_order_value` is rejected like an entry.
* A loss limit passed by a mark is not latched, and a latch does not survive a restart
  (`risk.py:31`). `LossLatches` is about fills of one process.
* A refusal of the execution agent or a BrokerError leaves the strategy waiting
  (`signal.py:107`); the first child's end clears it while later slices still go out; a
  fill of any product clears all strategies of the symbol.

Data, training, backtests:

* After the flush loop closed a window, a depth packet that repeats the last trade reopens
  it with volume 0, publishes it again and replaces the bar in the feature buffer
  (`data.py:102` against `data.py:47-48`, "a published bar is always final").
* The purge counts times of all symbols and a label counts bars of its own, so a symbol
  with missing bars can leak into the holdout (`splits.py:11-15`).
* `set_live` and `rollback` read and write `live.json` without a lock between processes;
  the gate's move does not check that the live version is still the one it compared
  (`promote.py:3`); a run by hand with an earlier date lets the live model have seen the
  window; `set_live` accepts an unfinished directory.
* A failed write of a job's last row leaves it running until the next start; a graceful
  stop lets the thread save a result whose row is later failed as interrupted; the
  fingerprint (`runner.py:132`) leaves out model version and archive, and a promotion in
  the middle of a backtest mixes versions.
* `bar_start` of `clock.py` says "session-relative" and floors from midnight, so NSE hourly
  bars built live and by resampling start at 9:00 while Dhan's start at 9:15.

## 15 What is not modelled

* Symbols and lots, strategy files, argument parsing: pure functions over names and files.
* The dashboard's routes, pages, charts and builder: rendering and plumbing over components
  that are modelled. Authentication: its shared state is a counter of failures per user.
* The Redis transport of the bus, the event hub's subscriber queues, the monitor's
  counters, heartbeats and alerts.
* Numerical code over data frames: features, models, metrics, Kelly sizing, cost tables.
  Floats are never modelled: quantities are integers in the code too, prices are
  abstracted to the decisions they lead to.
* Of modelled components: token renewal, rate limits and instrument files of the Dhan
  adapter; concurrent ingestion of one partition by script and schedule, ingestion by
  script with a start past the last bar, malformed candles; the model's history file;
  failures of the job table.
