# TLA+ models of the trading system

The system runs language-model panels over baskets of instruments and turns their
decisions into orders at a venue (Binance, Alpaca, or a simulator). One Python process, one
asyncio event loop, one SQLite database with an append-only event log, and a venue that is
slow, sometimes silent and never in the program's control. What it must not do is lose track
of an order, place it twice, book a fill twice, leave a position without its stop, or forget
on a restart why it stopped. This directory models that part of it in TLA+, checks small
instances with TLC and proves the invariants that matter most with TLAPS.

Paths below are relative to `src/tradebot/`.

## 1. The system

### 1.1 Components

| Component | State it keeps | Operations | What makes it correct |
|---|---|---|---|
| Order lifecycle (`core/orders.py`, `core/enums.py`) | an immutable `Order`: state, quantity, fills | `transition_to`, `with_fill`, `new_fills` | no illegal move, no over-fill |
| Execution service (`execution/service.py`) | none of its own: the log, the ledger and the venue | `submit`, `sync`, `apply`, `cancel`, `recover`, `submit_group` | intent before network, one placement, each fill booked once |
| Execution monitor (`execution/monitor.py`, `execution/protective.py`) | groups: an entry and its protective legs; a lock | `track`, `poll`, `prune`, and under `poll` the legs' maintenance | every open order has an owner, every position its stop, never more stops than position |
| Startup recovery (`control/startup.py`) | its failures | `recover`: replay, preflight, reconcile, resolve open orders, drift, readiness | everything open becomes terminal or monitored, or nothing trades |
| Basket cycle (`control/basket_runner.py`) | none between cycles | `run_once`: gate, panel, Tier-1, Tier-2, submit, track, settle | never two cycles of one basket; a settled order leaves nothing behind |
| Ledger (`ledger/portfolio.py`) | positions, balances, open round trips, in memory | `apply_fill`, `adopt_position`, `apply_external_change`, `replay` | equals the log's fills at any time |
| Event log (`persistence/*`) | events, projections, risk row, cursor, configuration | one append is one transaction, through one writer thread | a projection rebuilt from the log is the projection |
| Venue adapters (`execution/brokers/*`) | the simulator keeps the venue's own book | `submit`, `cancel`, `fetch_order`, `fetch_open_orders` | an ambiguous outcome is never reported as a definite one |
| Supervisor and workers (`control/supervisor.py`, `control/scheduler.py`) | a worker and a task per basket, failure counts | `serve` (drift, poll, sweep, sync every 30 s), `cycle`, `stop` | one worker per basket; repeated failure halts it |
| Supervision control (`control/supervision.py`) | the supervisor's task | `start`, `stop` | at most one supervising loop; preconditions read afresh |
| Watchdog and risk state (`risk/watchdog.py`, `risk/state.py`) | kill switch, halted baskets, high-water mark, day start (persisted) | `check`, `trip`, `rearm`, `halt_basket`, `resume_basket`, `record_flow` | a restart never un-halts; flows move the baselines exactly once |
| Reconciler (`ledger/reconciler.py`) | none | `reconcile`, `apply_external_flows` | adopts what is explained, halts on what is not |
| Rate limiter (`core/ratelimit.py`) | three sliding windows, penalty, breaker, ban | `acquire`, `observe_used_weight`, `penalise`, `ban` | never above budget in any window, silence after a ban |
| Venue transports (`venues/*`) | a session, the shared limiter | `_invoke`: acquire, call, classify | each failure reaches the caller as what it is |
| Risk engines (`risk/tier1.py`, `risk/tier2.py`, ...) | none | rules over one proposal and the portfolio | the caps hold for concurrently sized orders |
| Decision panel (`decision/*`, `core/budget.py`) | the cycle's budget | `deliberate`, `reach_consensus` | a majority of the original seats, within the budget |
| Alert dispatcher (`ops/*`) | two cursors over the log, streaks | `start`, `poll`: record, drain | every alert recorded once and delivered at least once |
| Maintenance (`maintenance/*`) | backup and archive files | one daily pass: back up, archive, compact, delete | no payload dropped that no verified file holds |
| Configuration, arming (`control/config_store.py`, `arming.py`, `live.py`) | versioned rows | `put`, `retire`, `arm`, `disarm` | nothing overwritten; live is four facts |
| Manual close (`control/manual_close.py`) | none | `close` | the same path as a cycle's order |
| Market data (`marketdata/*`, `ledger/marks.py`, `control/valuation.py`) | cache entries and flights, marks | `get_candles`, `get_quote` | one fetch per key at a time, nothing stale served |
| News, dashboard, CLI, preflight, readiness, decision lab | - | input, output, composition | - |

### 1.2 How they interact

    Supervisor --- task per basket ---> BasketWorker -> BasketRunner.run_once
        |  every 30 s                        |  gate, panel, Tier-1, Tier-2
        |  poll_orders                       |  submit, track, poll, prune
        v                                    v
    ExecutionMonitor --- sync, cancel ---> ExecutionService --> broker -> limiter -> venue
        (groups, lock)                       |        |
                                             v        v
    StartupSequence --- recover, replay --> event log and projections, Ledger
                                             |
                         Watchdog, AlertDispatcher, Maintenance read or write the same database

Everything shares one event loop, so two coroutines interleave exactly at their awaits: an
append (committed in the writer's thread), a call to the venue, the monitor's lock, a sleep.
Nothing is protected against another coroutine at those points except by the monitor's lock
and by the ordering of the code. The process can die at any of them, and what survives is the
database and the venue.

### 1.3 What is hard

* **Crash points.** Between the committed intent, the venue call, and the append of its
  outcome; between the two appends of a rejection; between the in-memory booking and its event.
* **An ambiguous submit.** The order rests at the venue, never arrived, or is still travelling.
* **Local copies.** `Order` is immutable, so each coroutine works on its own copy across awaits;
  a coroutine that fails in between leaves the shared one behind.
* **Two reads that are not one.** `fetch_order` reads the status and then the trades.
* **Races with the venue.** A fill against the TTL cancel, a late arrival against the query.
* **Everyone polls.** Every cycle that settles and the sweep poll the same groups.
* **Cancellation.** Stopping supervision cancels coroutines wherever they await, while the
  monitor and the ledger live on.

* **One row, many writers.** The risk row is read, compared and written across awaits by every
  check, operator and startup; the order caps are judged on counts read awaits earlier.
* **Sleepers.** Callers that wait for the venue's budget act on what they saw before the sleep.
* **Two processes.** The maintenance command shares files with the running process, and no lock.

`PROJECT.json` lists these under `hazards`, each at its line and with the property that watches
it.

## 2. The modules

| Module | What it is |
|---|---|
| `OrderLifecycle` | the states, the transition table and the pure functions of `core/orders.py` |
| `OrderContract` | the abstract specification: what execution promises of each order |
| `Execution` | the service, the monitor, the order's part of a cycle, startup recovery, the venue, crashes |
| `ExecutionInv`, `Execution_proofs` | the inductive invariant behind the safety properties; the theorems on custody, and those on the books and the contract |
| `ProtectiveGroups`, `ProtectiveGroups_proofs` | the groups of one instrument: entries, the legs that guard them, and the poll that resizes these; the theorems |
| `KillSwitch` | the abstract specification: what the kill switch promises |
| `Watchdog`, `Watchdog_proofs` | the one risk row under checks, operators, startup and crashes; the theorems |
| `Supervision`, `Supervision_proofs` | who cycles which basket, and when: controller, supervisor, workers, configuration; the theorems |
| `Admission`, `Admission_proofs` | from the panel's decision, or the operator's request, to an order: the rules of both tiers over what was read; the theorems |
| `VenueAccess`, `VenueAccess_proofs` | the rate limiter in front of every call to a venue, and what the transport tells it; the theorems |
| `Reconciliation`, `Reconciliation_proofs` | startup against a real venue: replay, classification, adoption, flows; the theorems |
| `Alerts` | the two cursors of alerting over the event log, and the dashboard's bell |
| `Maintenance`, `DayArchive` | retention of one day's payloads by two processes over one directory; where the payloads are |
| `Background_proofs` | the theorems on `Alerts` and on `Maintenance` |
| `MC*` | finite instances for TLC |

Each part that another one depends on appears there as what it promises, or as a choice: an
order's fills in `Admission` are any fills that fit what was sent, the kill switch in
`Supervision` is the atomic switch that `Watchdog` is shown to implement, the reconciliation at
startup is a choice in `Execution` and the one thing in `Reconciliation`.

Definitions named for a mistake (`RecordInMemory`, `ReplayNothing`, `OnlyCyclesCount`, ...)
stand before the definition they vary. No action uses them: each is a plausible bug, and
`PROJECT.json` (`mutants`) pairs it with the property that finds it when it takes the
definition's place.

### 2.1 `Execution` and the code

A *task* is one coroutine: the cycle of each order, the supervisor's periodic poll (`Sweep`),
the startup sequence (`Boot`). `task[t]` is the place where the coroutine stands: `pc`, the
order it holds (`at`), its local copy (`work`) and the venue's last answer (`seen`). An action
is what a coroutine does between two awaits at which something else may come in: one
committed append, or one call to the venue. `SingleWriter` makes an append atomic.

| Code | Actions |
|---|---|
| `ExecutionService.submit` | `Record`; `PassSelfTrade`, `RefuseSelfTrade`, `SelfTradeUnread`; `Acknowledged`, `AckLost`, `Rejected`, `NotPlaced`; `RecordAck`, `RecordUnknown`, `RecordRefusal`, `RecordRejection` |
| `sync`, `apply`, `_book_fill`, `_adopt_state`, `_resolve_vanished` | `Query`, `ReadTrades`, `QueryFails`, `Vanish`, `BookFill`, `LogFill`, `Adopt` |
| `cancel`, from the monitor's `_sync` | `Cancel`, `CancelFails`, `Expire` |
| `ExecutionMonitor.poll`, `prune`; `BasketRunner._settle`; `Supervisor._poll_orders` | `PollBegin`, `PollVisit`, `PollEnd` |
| `StartupSequence.recover`, `ExecutionService.recover`, `Ledger.replay` | `Restart`, `Recover`, `Recovered` |
| `SupervisionController.stop` | `Stop` |
| outside the program | `Crash`, `LateArrival`, `VenueFill`, `VenueCancel`, `VenueWipe`, `Expiry` |

`durable` is the orders projection with its fills table (keyed by fill id), `fillEvents` the
`FILL_RECEIVED` events with repeats, `ledger` and `mem` (the monitor's `group.order`) what a
crash forgets, `venue`, `placed` and `inflight` the other side of the network.

Abstractions, and what they cost:

* One order per basket: a cycle submits and settles one entry, and the model has no second
  cycle of the same basket. Two orders are two baskets.
* Quantities are units, a fill is one unit, and the fills of an order are numbered in the order
  they were executed: the set of booked fills is an initial segment, so its size stands for it.
* The self-trade check, and the preflight, reconciliation and readiness checks of a startup,
  are choices: they pass or refuse. What they compute is not modelled here.
* A poll visits the groups in any order, the code in the order they were tracked. A property
  that holds for every order holds for that one; starvation by one failing order is not shown.
* An order is an entry. Protective legs are in `ProtectiveGroups`.
* `Faults` selects what may go wrong outside the program; a run that leaves a fault out says so.

### 2.2 `OrderContract`

Per order: the intent is committed (`Commit`) before the venue may have it (`Place`, at most
once), the venue executes (`Execute`), and the log books an execution at most once (`Book`) and
otherwise only moves along the lifecycle table (`Move`). `Implements` is the refinement: under
the mapping in `Execution` (the durable state, the placements, the venue's executions, the
fill events) every step of the whole program is one such step or a stutter.

### 2.3 `ProtectiveGroups`

What a poll does between two venue calls, over all the groups of one instrument. The legs of a
group rest at one size and end together (the venue links them, or there is only the stop), so a
group has one guard. A poll goes through the stages `sync` (every working order read and
booked, in the order the groups were tracked), for an order found past its time `expire`,
`maintain` (one group after another against the targets computed at once from the ledger), and
for a group to be resized `place` and `confirm`;
`queue` is the set of orders that the stage has still to visit, and `Foremost` the next of them:
group by group, the oldest first, the entry before its guard. An exception ends the poll where it stands.

A submit takes two steps, because it ends with a query of its own: `Send` puts the order at the
venue, and `Submitted` books what the query reports and hands the order to the monitor. It does
so outside the monitor's lock, so the sell of a close by hand can be booked in the middle of a
poll. `submitting` has the orders in between; `slipped` is history, the units that such submits
have booked out of the ledger since the targets were computed. A read and the cancel that follows
it are two steps as well (`SyncExpired`, `Expire`): what fills between them nobody reads again.

| Code | Definitions |
|---|---|
| `ExecutionMonitor.poll`, `_sync` | `PollBegin`, `SyncSettled`, `Read`, `SyncOrder`, `SyncExpired`, `Expire`, `ExpireFails`, `SyncOversold`, `SyncFails`, `ComputeTargets`, `PollEnd` |
| `_targets`, `_protectable`, `_committed` | `Target`, `Tighter`, `Protectable`, `Committed`, `Budget` |
| `_maintain`, `_needs_new_legs`, `_close_group` | `Leave`, `NeedsNewLegs`, `Replaces`, `CloseGroup`, `CancelFails` |
| `_replace_legs`, `plan_legs` | `Release`, `RefuseTarget`, `CancelForResize` |
| `ExecutionService.submit_group`, `submit` | `PlaceGuard`, `RejectLinked`, `RejectSingle`, `PlaceFails`, `Confirm`, `ConfirmFails` |
| `BasketRunner._act`, `_settle`, `prune`; `ManualCloser` | `Enter`, `Sell`, `Send`; `PollEnd`, `Prune` |
| the query at the end of `submit`, `track` | `Submitted`, `SubmitFails` |
| the venue | `EntryFills`, `GuardFills`, `Matched`, `GuardWithdrawn`, `Free` |

`mem` and `requested`, `refused` are the monitor's `_Tracked` (`requested_qty`,
`unprotected_at`); `held` is the ledger, `holding` and `venue` the truth; `stray` is what rests
for guards that a later placement of the same group has made unreachable.

Abstractions: an order is its state, its size and what it has filled; the lifecycle, the
appends and the crashes are in `Execution`. The rank of a stop is the number of its group. The
venue reserves what a resting sell would sell, as Binance and Alpaca do: `SimBroker` keeps the
same reservation but refuses nothing for it (`docs/KNOWN_GAPS.md`, 6), and is not modelled here.
`Linked` tells a venue whose legs go out by `submit_group` from one that takes a single stop by
`submit`. An entry is placed once, cycles with an entry follow one another, and there is one
discretionary sell.

### 2.4 `KillSwitch` and `Watchdog`

The promise: once a process has started up, the switch may trip at any moment, stays tripped
until a human has asked for it to be re-armed, each request re-arms it at most once, and the
high-water mark falls only there, or by an external flow while starting up. A database nobody
ever traded with is armed once without being asked.

The code keeps the switch and the baselines in one row that everybody reads, compares and
writes. A call takes the watchdog's lock and then awaits the calendar, the write of the row and
the append of the event. `job[c]` is the call of `c` and its stage: `queued` for the lock, then
`roll`, `judge`, `trip` and `announce` for a check, `rearm` or `flow` for the others; `seen` is
the copy of the row it works on.

| Code | Actions |
|---|---|
| `Watchdog.check`, `_check`, `_roll_day` | `Check`, `RollDay`, `Judge` with `DailyLoss`, `Drawdown` |
| `trip`, `_trip` | `AskTrip`, `Trip`, `Announce` |
| `rearm`, and the first baseline of a new database | `AskRearm`, `BootArm`, `Rearm`, `Announce` |
| `record_flow` | `BootFlow`, `RecordFlow` |
| the end of a startup, trading or halted | `BootDone`, `BootHalt` |
| `asyncio.Lock` | `Acquire`, `Release` |
| outside | `Market`, `NewDay`, `Crash` |

`said` is what the last `KILL_SWITCH_CHANGED` of the log says. `KeepsItsPromises` is the
refinement of `KillSwitch`: a request to re-arm that has not been honoured is an operator's job
still `queued` or at `rearm`. Money is in small units; the valuation is a number or unknown.

### 2.5 `Supervision`

| Code | Actions |
|---|---|
| `SupervisionController.start`, `blockers` | `RequestStart`, `BeginServing`, `Blocked` |
| `SupervisionController.stop`, `disarm`; `Supervisor.stop` | `Stop`, `StopSupervisor`, `TasksCancelled` |
| `Supervisor.serve`, `_sync`, `_idle`, the drift check | `WakeUp`, `Sync`, `Idle`, `DriftHalts` |
| `BasketWorker.run`, `_wait_until_due`, `_runnable`, backoff | `Advance`, `Schedule`, `Fire`, `Runnable`, `Rest`, `Over` |
| `_runner_for`, `RunnerFactory.build` | `Build`, `RunnerFor`, `Keeps` |
| `BasketRunner._gate`, `run_once` | `Blocks`, `Passes` |
| `_cycle`, the auto-pause of Tier 1 | `Completes`, `AutoPauses`, `Counted` |
| `_failed`, `_halt` | `Fails`, `TooMany`, `Halt` |
| `ConfigStore.put`, `retire`; un-halt; `arm`; the kill switch | `Publish`, `PublishPolicy`; `Resume`; `Permit`; `Switch` |

`task[b]` is the stage of a basket's task, `due`, `sleeping`, `marks`, `gate`, `trading`,
`halting`, `rest` or `done`. `Overlap` says whether other requests are served while a start
awaits the append of its limits: the code allows it, and section 3.3 says what follows. When a
schedule fires, and what a cycle does past its gate, are left open.

### 2.6 `VenueAccess`

Time is in ticks and only ages are kept: what was charged `n` ticks ago, how long a penalty
still lasts, how long the circuit has been open. A sleep lasts at least as long as was asked.

| Code | Definitions |
|---|---|
| `VenueRateLimiter.acquire` | `Ask`, `Admitted`, `Open`, `Consulted` |
| `_serve_penalty`, `_wait_for` | `Sleep`, `Wake`, `Delay`, `Accumulated`, `Settle` |
| `SlidingWindow` | `WaitSeconds`, `Fits`, `Used`, `Charge`, `Observe`, `Older` |
| `record_failure`, `record_success`, `penalise`, `ban` | `RecordFailure`, `Succeeds`, `RateLimited`, `Banned` |
| `_invoke` of the transports | `Reply`, `Fails`, `Answer` |
| a coroutine cancelled where it waits; time | `Cancel`; `Tick` |

`sent` is history: what really went out, by age. A reported weight may exceed the charge, which
the limiter takes over, and may be less, which it does not.

### 2.7 `Reconciliation`

One instrument bought with one currency at the price of one unit, so that a position and the
cash it cost are counted alike. The process goes through the phases `down`, `replayed`, `read`,
`published`, `flowing`, `deciding`, `resolving` to `up` or `halted`; the venue moves at any time.

| Code | Definitions |
|---|---|
| `Ledger.replay` | `Replay` |
| `Reconciler.reconcile`, `_classify`, `_is_venue_reset` | `Read`, `Unreachable`, `Classified`, `Severity`, `VenueReset`, `Verdict` |
| `_publish` | `Publish`, `FlowFound` |
| `_adopt`, `apply_external_flows` | `Adopt`, `Adopted` |
| `StartupSequence._reconcile` | `RecordFlow`, `Moved`, `Decide`, `Clean` |
| `_resolve_open_orders` | `Resolved`, `ResolveFails` |
| `_book_fill`, `apply_fill`; `submit` | `Book`, `Covered`; `Place` |
| outside | `Execute`, `Outside`, `Split`, `Forget`, `Crash` |

`log` is what the events add up to; its `phantom` is the balance that a replay makes out of a
position's external change. `lost`, `known` and `settled` are history: flows of a startup that
died before it recorded them, a read with every execution booked and nobody trading since, a
startup that came up and nobody moving funds since.

### 2.8 `Alerts`

| Code | Definitions |
|---|---|
| `AlertDispatcher.start`, the cursor store | `Begin`, `Started` |
| `_record`, the rules | `Evaluate`, `Chokes`, `Advanced`, `Fires`, `Save` |
| `_record_summary`, the end of `_record` | `Summarise`, `Recorded` |
| `_drain`, `_deliver`, destinations | `Drain`, `Undelivered`, `Deliver`, `Sendable`, `Sent`, `Refused` |
| `run`, when a poll raises, and the death of the process | `CutShort` |
| the notifications projection; the operator | `Raised`, `Superseded`; `Dismiss` |
| outside | `Happens`, `NextDay` |

An entry of the log is an event the rules read, a notice, or a dismissal. The rules are what
they do to the streak of degraded cycles and whether they fire. An outcome of a cycle that
nobody can read is `unreadable` and only skipped; a value that the rules of the kill switch or of
maintenance cannot read makes them raise, and the event is `malformed`. The notice of an
`unsendable` event is one that every destination refuses for good. Several destinations are one
that takes a notice or refuses it, as `_deliver` counts them. A batch is the set of its positions,
handled from the least one on.

### 2.9 `Maintenance`

One day of payloads, and two passes that know nothing of one another: the daily one of the
process and the one of `maintenance compact`. Both write the same temporary file and rename it
over the day's name, so a file is an inode that either name may lead to. `DayArchive` has the rows, the
files, what verification accepts (`Intact`) and what makes it raise past every handler
(`Garbled`); `Maintenance` has the passes.

To look for the day's file and to open the temporary one are two steps, and the other pass may
publish a file between them. Opening empties a file that the other may be writing, or have
verified: what the two writers leave is the one's rows in full, a file that is short, or one with
a hole in the middle (`Written`, and `Interrupted` for a writer that is stopped half-way). The
same rows are the same bytes, so a second writer of a complete file leaves it complete.

| Code | Actions |
|---|---|
| `MaintenanceService.run_once` | `Start`, `End`, `Record` |
| `_pass` | `Backup`, `Scan`, `Onward`, `StepFails`, `PassFails`, `Unreadable` |
| `archive_day`, `_write`, verification | `Read`, `Exists`, `Absent`, `Open`, `Write`, `Rename`, `Verify`, `Stolen`, `Unlink`, `Unverified`, `WriteFails` |
| compaction in batches | `Trim`, `Trimmed` |
| `delete_aged` | `Delete` |
| outside | `Midnight`, `Dies` |

Two things are taken for granted. A power cut is not modelled: the code syncs the file before gzip
has written its trailer (`archive.py:192-197`), so the last bytes may not survive one. And a write
that fails does so for want of space, so it leaves alone a file that the other pass has written
in full, which takes no more room.

### 2.10 `Admission`

Baskets cycle concurrently over one portfolio and one history, an operator closes positions by
hand, and each proposal is judged on what was read some awaits before its order is recorded.

| Code | Definitions |
|---|---|
| `BasketRunner.run_once`, `_gate`, `_run` | `Start`, `Acted`, `Finish`, `Completed` |
| `_act`, `_settle` | `Propose`, `Admit`, `Decline`, `Record`, `Send` |
| `_on_tier1_veto` | `AutoPause` |
| `FailClosedError`; any other exception | `FailClosed`; `Raise`, `Abandoned` |
| `_build_proposal`, the portfolio's exposures | `Proposal`, `Exposure`, `Gross`, `InBucket` |
| the rules of Tier 1 and Tier 2 | `LossesPaused`, `CoolingDown`, `DayIsSpent`, `HourIsSpent`, `Caps`, `Size`, `Admitted` |
| `HistoryReader` | `hour`, `day`, `since`, `losses`, `HourPasses`, `NewDay` |
| `ManualCloser.close` | `Request`, `Exit`, `ProposeClose`, `VetoClose`, `Unpriced` |
| orders after their cycle; a human; the process | `Book`, `Expire`; `Resume`; `Crash` |

Abstractions: a unit costs one and prices stand still, so equity and every ceiling derived from
it are constants. The size asked for is any size (volatility and the size hint choose it).
Conviction, quarantine, the price collar and the verdict of the gate are choices: a rule that
may always decline is `Decline`. `hour` and `day` count the orders of cycles and those by hand
apart, because a property is about the first alone; the rules read their sum.

## 3. What is checked

| Run | Instance | Distinct states | Shows |
|---|---|---|---|
| `execution_faults` | one order of two units, all faults of the network and of startup, two crashes | 7 358 | `TypeOK`, `DurableFirst`, `OnePlacement`, `LedgerMatchesLog`, `BookedOnce`, `ClosedBooksComplete`, `BookingLegal`, `MonitorFollowsLog`, and the refinement `Implements` |
| `execution_interrupted` | two orders of one unit up to symmetry, failing queries and cancels, an operator's stop or a crash | 110 634 | `ExclusiveOwner` |
| `execution_live` | one order of two units, ambiguous submits, one crash, fair | 2 472 | `Owned`, `EventuallyClosed` |
| `groups_safe` | two entries of two units, one sell, linked legs, a minimum of two units, every fault but withdrawn legs | 1 313 846 | `PollFits` |
| `groups_live` | two entries of two units, one sell, single stops, legs withdrawn and placings that fail, fair | 345 942 | `GuardsOwned`, `NeverRearmed`, `EventuallyCovered` |
| `watchdog` | two checkers, one operator, equity up to two, a day that turns, one crash, fair | 264 668 | `TypeOK`, `SwitchAnnounced`, the refinement `KeepsItsPromises`, `LastingDrawdownTrips` |
| `supervision` | one basket, one loop, one request, two failures to a halt, four versions, two crashes, fair | 232 416 | `QuietWhenStopped`, `NoRunaway`, `EditInForce`, `HaltedComesToRest`, `ServedAgain` |
| `venue` | two callers, reads and orders, a window of three ticks and one of two, fair | 41 475 | `WithinBudget`, `EveryCallEnds`, `EventuallySilent` |
| `reconciliation` | an account with cash and one with coins, two orders, two changes from outside, two crashes | 2 672 948 | `TypeOK`, `CashFollowsLog`, `FlowsOnce`, `BooksAgree` |
| `alerts` | six histories of three events, one with a malformed row and one with a notice refused for good, a streak of two, batches of two, two days, one poll cut short, fair | 683 341 | `NothingMissed`, `StaysDismissed`, `EventuallyTold` |
| `maintenance` | two rows, a daily pass and one command, two faults, fair | 317 898 | `PayloadKept`, `RetentionCompletes` |
| `admission` | two baskets of one instrument each in one bucket, one close by hand at a time, three orders, up to symmetry | 675 682 | `PanelMetered`, `SoloOrdersFit` |

In words, the properties that hold:

* **DurableFirst**: nothing is at the venue, or on its way, that the log does not have.
* **OnePlacement**: over lost answers, late arrivals and recoveries an order is sent once.
* **LedgerMatchesLog**, **BookedOnce**: the ledger is the log, ahead of it by the fill whose
  append is awaited; a fill is booked once, and only if executed, over restarts too.
* **ClosedBooksComplete**: an order closed by the venue's word, never asked about again, has
  all its executions booked, although the status and the trades are two reads.
* **BookingLegal**: `with_fill` never raises, whatever was missed before it was called.
* **MonitorFollowsLog**: a poll that is given up half-way leaves the monitor's copy exact.
* **ExclusiveOwner**: no two coroutines hold one order.
* **Owned**, **EventuallyClosed**: without failing queries, every working order has an owner,
  and every recorded order is closed whatever the venue does.
* **PollFits**: a poll that runs to its end leaves guards for no more than the ledger holds,
  whatever failed in the polls before it and whatever filled during this one, but for the units,
  and no more than the units, that a submit has sold and booked since the targets were computed.
* **GuardsOwned**: a guard at the venue is tracked and the only one of its group.
* **NeverRearmed**: a group whose guard filled at the venue is not armed again.
* **EventuallyCovered**: once withdrawals and failing placings stop, in the end the venue guards
  what the ledger holds and has not up for sale, and the ledger holds what is held unless a fill
  overtook the cancel of its order. Behaviours in which the ledger is asked to book more than it
  holds, or a cycle forgets a bare group, are left out: there the code fails (section 3.3).
* **SwitchAnnounced**: the log's last word on the kill switch is the row's, but while a change
  is being announced or after a crash kept it from being.
* **KeepsItsPromises**: no write of a check re-arms a switch that tripped while it waited, no
  raised mark is lost, and no request re-arms twice.
* **LastingDrawdownTrips**: a breach of the mark that lasts trips the switch, however checks,
  re-arms on a stale valuation, rolled days and crashes fall between.
* **QuietWhenStopped**: after a stop has been answered, no loop and no task is left.
* **NoRunaway**: no basket fails more often in a row than its limit without a human, through
  retirements and rebirths of its worker.
* **EditInForce**: a cycle runs on the newest version of its basket at the time it began.
* **HaltedComesToRest**, **ServedAgain**: a basket that stays halted, paused or retired stops
  being cycled; one that stays in service under a running supervisor is cycled for ever.
* **WithinBudget**: no interval as long as a window sees more than its capacity go out, with
  any number of callers asleep for the same budget.
* **EveryCallEnds**: an acquire ends, in a call or in a refusal, though others may take the
  budget it slept for again and again.
* **EventuallySilent**: after a ban only what was past the check goes out, and then nothing.
* **CashFollowsLog**: the cash of a running process is what a replay of its log would give.
* **FlowsOnce**: a logged flow moves the drawdown baselines once, over clean and halted
  startups, unless the startup that logged it died before it recorded it.
* **BooksAgree**: a process that came up knowing of every execution holds the venue's position,
  less what it has yet to book, and no more cash than the tolerance allows.
* **NothingMissed**: over crashes, retries and batches, what is recorded is what one
  uninterrupted reading of the log gives, and what is behind the delivery cursor was delivered.
* **StaysDismissed**: a cleared notice does not come back when its recording is repeated.
* **EventuallyTold**: every event that asks for a human and comes before a malformed row is
  recorded in the end, and delivered if there is no such row and no notice refused for good stands
  before it.
* **PayloadKept**: until its archive is deleted for its age, a payload is in the database or in
  a complete file, under any interleaving of the two passes and wherever either dies.
* **RetentionCompletes**: the day's payloads leave the database, and in time the disk, unless the
  two passes have left a file that is damaged in the middle.
* **PanelMetered**: over crashes, abandoned cycles, resumptions and closes by hand, cycles place
  no more orders in an hour than the cap and one for each other basket, and no more in a day
  than the cap of their basket.
* **SoloOrdersFit**: a buy admitted while no other is under way fits every ceiling of both
  tiers, although each rule caps by one exposure of its own; a sell admitted while no other of
  its instrument is under way is for no more than is held.

`TypeOK` of `ProtectiveGroups`, `Supervision`, `VenueAccess`, `Maintenance` and `Admission` is
in no configuration: it is proved, and it holds on their instances when it is added to the
INVARIANTS.

### 3.1 Bounds, and why they are enough

* *Orders.* The books of one order do not depend on another order except through the
  monitor's lock and a task's custody, which the two-order run checks. With two orders there
  are two cycles, the sweep and the startup sequence: every kind of pair that could share
  an order or contend for the lock.
* *Qty.* Two units give a partial fill, a fill missed while another is being booked, and a
  fill between the two reads; a third would repeat them. The two-order run takes one unit.
* *Crashes.* `MaxCrashes` of `Execution` counts crashes and stops. Two let a recovery itself be
  interrupted and recovered from; a third finds the database as a second can leave it.
* *Groups.* Two groups are what it takes for one to grow while another shrinks, and for a fill
  of one to be covered by the units of the other. Two units give an entry that is filled in
  part; a minimum of two units makes the target of one unit one that is refused, a minimum of
  one lets it be placed, so that the two runs have both sides. One sell of one unit reduces a
  group without emptying it, or empties the second after the first. Booked between the
  two resizes, it parts the targets from the holding.
* *Watchdog.* Two checkers (the sweep and a gate) race on the row, an operator comes between
  them, and startup is a fourth caller. With equity up to two and limits of 60 % and 40 %, a
  fall to one is a daily loss and no drawdown, a fall to zero is both. One day turns, one crash
  falls at any place. The theorems of section 4 have no such bounds.
* *Supervision.* Baskets share nothing but the documents of the policy and the switch, so one
  shows what becomes of a worker. Two failures are the least that can be counted, four versions
  let a basket be paused, resumed and retired; two crashes restart a restarted process.
* *VenueAccess.* Two windows of different lengths and capacities, a call that needs both and
  one that needs one: the longest delay wins, and each is looked at again after a sleep. Two
  callers compete for the last unit. A wait of two ticks is exceeded by a window's delay of
  three, and by two delays of one and two; a penalty of three is refused.
* *Reconciliation.* A drift tolerance of 40 % makes one unit in three drift and one in two a
  mismatch. Two orders give a buy and the sell of what it bought, two outside changes a deposit
  and its reverse, two crashes a restart of a restarted process.
* *Alerts.* Three events and batches of two make a poll continue where a batch ended; a streak
  of two is broken, met, exceeded, and has an unreadable event in it; a malformed row, and a notice
  refused for good, have one event before and one behind them. An event is told at most
  once more for every poll cut short, and one shows what a repeat does.
* *Maintenance.* A batch of one row of two leaves a day half trimmed. The two passes have
  different windows, as a command may override the policy; three inodes are all that two names
  and an open file can lead to beyond those nobody will read again.
* *Admission.* Two baskets are two cycles under way at once and a portfolio that one of them
  sees half of; equal capacities of two, a gross of three and a minimum of two make the third
  unit the one that no longer fits, and a fill of one the holding too small to sell. Caps of one
  order per hour and day are reached by the first order, and three orders exceed them by one
  more than the concurrency explains. The cooldown is zero in the run: one of a single cycle
  only forbids more, and the same properties hold with it (1 524 481 states).
* In `Execution` nothing else is bounded: the polls, the re-reads and the late arrivals are as
  many as the behaviour takes, and the state space is finite because an order is placed once.

### 3.2 Fairness

`FairSpec` of `Execution` assumes what the event loop and the deployment give: a ready task runs
and a venue call ends by its timeout (`SubmitStep`, `SyncStep`, a poll's own steps: weak);
`asyncio.Lock` is first come first served, so a task that waits for the monitor's lock gets it
although others take it in between (`PollBegin`: strong); the sweep comes round for ever (the
same strong fairness of `PollBegin(Sweep)`); `expires_at` is a time that comes (`Expiry`); a
process that went down is started again (`Restart`, `Recovered`). Of the venue nothing is
assumed: it need not fill, cancel or deliver a late request. Nor are baskets assumed to decide
anything, nor an operator to stop or a process to crash.

`FairSpec` of `ProtectiveGroups` assumes the same of the sweep and the lock (strong fairness of
`PollBegin`) and of the steps of a poll (weak), that a submit at the venue ends (weak
`Submitted \/ SubmitFails`), and nothing of the venue, the price, or the cycles.

| Module | Assumed | Because |
|---|---|---|
| `Watchdog` | strong `Acquire`; weak `Check`, `Inside`, `BootArm`, `BootDone` | the lock is first come first served; the sweep comes round for ever; a call that can go on does; a startup ends |
| `Supervision` | weak `Advance`, `Sync`, `WakeUp` | a coroutine that is not cancelled goes on, a sleep ends |
| `VenueAccess` | weak `Tick`, `Wake`, `Answer` | time passes, a sleeper wakes, a call ends by its own timeout |
| `Alerts` | weak `Dispatcher \/ Deliver`, strong `Deliver` | the loop polls for ever; a destination that is tried for ever takes some time what it does not refuse for good (`Sendable`) |
| `Maintenance` | weak steps of a pass under way, `Start(Tick)`, `Midnight` | a pass goes on, the process starts one a day, days go by |

In none of them is a fault, a crash, a human or a market assumed to do anything.

### 3.3 Where the code disagrees with what it says

Each of these is a finding in `PROJECT.json`, with the lines. Properties named here that no run
checks are defined in the modules and violated by the code; TLC shows the behaviour when the
property is checked on the instance given.

Execution (`MCExecution`, `o1` the only order):

* *A fill against the TTL cancel.* `cancel` ignores `ack.cancelled` and records EXPIRED whatever
  the venue said; a terminal order is never read again. The Binance adapter's comment says the
  next sweep books a fill that won that race. It does not. `FillsBooked`: `FairSpec`, `Qty = 1`,
  no faults, no crash.
* *A fill booked twice.* The monitor's `_sync` stores the order it returns. When the cancel that
  follows the booking raises, what was booked is lost from memory, and the next poll books the
  same fill again, in the ledger and in the log. `BookedOnce`: `Spec`, `Qty = 2`,
  `Faults = {"cancel"}`, no crash.
* *A startup that never succeeds.* A rejection is recorded as SUBMITTED, then REJECTED. After a
  crash between the two (`service.py:96`), startup finds a SUBMITTED order the venue never had;
  `SUBMITTED -> FAILED` is not in the table, the exception makes startup refuse, and it does so
  at every startup. `RecoveryResolves`: `FairSpec`, `Qty = 1`, `Faults = {"reject"}`, one crash.
* *An order without an owner.* `submit` ends with a query. When it fails, the order rests at the
  venue and is SUBMITTED in the log, and the cycle is abandoned before `monitor.track`: nobody
  polls it, and nobody enforces its TTL, until the process restarts. `Owned`: `Spec`, `Qty = 1`,
  `Faults = {"query"}`, no crash.

Protective groups (`MCProtectiveGroups`, `FairSpec`, two entries of two units, a sell of one, a
minimum of one):

* *A position left bare.* Groups are resized in the order they were tracked. One that grows
  before a looser one has shrunk asks for units the other still reserves; the venue refuses, and
  `submit_group` does not look at the acknowledgement. It records SUBMITTED, the query finds
  nothing, `SUBMITTED -> FAILED` is not in the table, and the exception ends the poll before
  the looser group is reached. Every later poll does the same. The old legs are already
  cancelled, so the group stays bare. `EventuallyCovered`: `Linked = TRUE`, no faults.
* *A group that ends too early.* A leg that is FILLED ends its group whatever it was sized for
  (`monitor.py:202`). If more of the entry filled since it was placed, those units stay without
  a stop and without a RISK_EVENT. `EventuallyCovered`: `Linked = FALSE`, `Faults = {"gap"}`.
* *Targets of a holding that is sold meanwhile.* A close by hand does not take the monitor's lock,
  and the query that ends its submit books its fills. Between two groups' resizes that makes the
  targets of the groups still to come too large, and the poll ends with more guarded than held,
  which `_targets` says never happens. The next poll mends it. `NeverOverHeld`: `MCProtectiveGroups`
  with the constants of `groups_safe.cfg`, as an invariant.
* *A poll that can never book.* Polls book in the order of tracking. A first group's guard of two
  rests, a second entry fills two, a close sells one and its submit books it, and the guard fills:
  the poll meets the guard's two units with one in the ledger, raises, and so does every later
  one; the entry behind it, whose units would cover the sale, is never read. `EventuallyCovered`
  without `~Oversells` in its premise: `groups_live.cfg`.
* *A group forgotten while it is bare.* `prune` asks whether anything of the group is working, not
  whether it has something to guard. A cycle whose legs were withdrawn, or refused, before its poll
  ends forgets the group, and the position keeps no stop. `EventuallyCovered` without `~Abandons`
  in its premise: `groups_live.cfg`.
* The fill against the TTL cancel, above, costs a group its guard for those units as well:
  `EventuallyCovered` without `~Missed` in its second conjunct, `groups_live.cfg`.

Control:

* *A policy that waits for an edit.* A runner is rebuilt when the version of its basket has
  moved, and the Tier-2 policy is read where a runner is built: a newly published policy reaches
  neither the cycles nor the watchdog until the basket is edited or supervision restarts.
  `PolicyInForce`: `MCSupervision`, `Spec`, one basket, loop and request, `MaxFailures = 2`,
  `MaxVersion = 2`, no crash, `Overlap = FALSE`.
* *Two starts at once.* `start` awaits an append between its checks and the creation of the
  task. Two starts, or a start and a stop, answered during that await leave a supervisor that
  stop never cancels, or one that runs after the stop. `QuietWhenStopped`: as above with two
  loops and two requests and `Overlap = TRUE`.

Venue access, reconciliation, admission, alerts, maintenance:

* *A call inside the penalty.* The ban, the circuit and the penalty are looked at before the
  sleeps and not after. `PenaltyServed`: `MCVenueAccess` with the constants of `venue.cfg`.
* *A position that is replayed as a currency.* `_publish` logs the increase of a position under
  the instrument's key, and `Ledger.replay` books every external change as a balance. At the
  next startup the position is missing and a currency no venue has is there, so the process
  halts, at this startup and at every later one. `HaltsOnlyForAReason`: `MCReconciliation`,
  `Spec`, `MaxSize = 1`, `MaxOrders = 0`, `MaxOutside = 1`, `MaxCrashes = 2`, `DriftPct = 40`.
* *A split that halts.* `CORPORATE_ACTION` is not among the clean classes (`core/enums.py:320`),
  so a split that an announcement explains is not adopted and startup halts; the docstring of
  the reconciler lists it as adopted, and its test calls halting for it "a false alarm".
* *Ceilings exceeded together.* The exposures are those of filled orders: a resting buy, or one
  another cycle has been granted and not sent, is in none of them. `WithinCeilings`:
  `MCAdmission` with the constants of `admission.cfg`, as an invariant.
* *More sold than held.* No rule knows of the sells that already work, and a close by hand reads
  the position before it awaits the quote. `NeverInverted`: the same instance.
* *An order cap below the venue's minimum.* Arming refuses a cap of zero because it would veto every
  order, and accepts one below the venue's minimum, which does the same: the shrunk order is
  refused (`tier2.py:302-312`), and a close by hand with it.
* *A row that stops all alerts.* An unknown state of the kill switch or a count that is no number
  raises in its rule (`rules.py:77`, `:314`), nothing catches it before `run`, the cursor stays, and
  every later poll ends at the same row before it delivers anything. The docstring of `_drain` says
  a malformed row must not do that. `NothingBuried`: `MCAlerts`, `FairSpec`, `MaxCleared = 0`,
  `MaxDays = 1`, `MaxFaults = 0`, the one history of a malformed event and a halt.
* *A notice that is refused for good.* `_deliver` treats a `ConfigError` as it does an outage, so
  with no other destination the notice is sent again for ever and the ones behind it never; the
  docstring of `sinks.py` says that is why the error is another. `NothingBuried`: the same instance,
  with an unsendable event in place of the malformed one.
* *A file that stops retention.* Two passes that write the temporary file at once can publish one
  that is damaged in the middle. Reading it raises `zlib.error` or `UnicodeDecodeError`, which
  neither `_verify` nor the loop over the days catches: the pass is abandoned before the deletion,
  and so is every later one. `RetentionNeverStops`: `MCMaintenance` with the constants of
  `maintenance.cfg`.

More faults of `ProtectiveGroups` break a property of `groups_live` when they are added to it.
A stop that fills in part
(`partial`) leaves a target equal to what was requested while less rests. A sell that expires
(`expiry`) gives its units back to a group that has been closed or forgotten meanwhile
(`basket_runner.py:258`). A stop that fills while a poll is under way (`race`) can be taken for
cancelled and armed again. A query that fails after the legs were placed (`query`) leaves them at
the venue untracked, an order without an owner again. Cancels that fail (`cancel`) may do so for
ever, and then nothing can be covered. Two faults are left out for the size of the instance only: the
withdrawal of legs (`operator`) of `groups_safe`, with which `PollFits` is proved, and the sell
that goes out, and is booked, while a poll is under way (`overlap`) of `groups_live`, whose
properties hold with `Faults = {"overlap"}` (449 685 states). No instance has a TTL cancel that
raises after its read has booked something: what follows is the fill booked twice, above.

What else was met on the way, in words only:

* An order that fills while the process is down is a MISMATCH at the next startup, before the
  order that explains it is resolved; within the drift tolerance it is adopted and then booked
  again. `BooksAgree` therefore speaks of startups that read the venue with every execution
  booked (`known`). A trade by hand that `OPERATIONS.md` says is absorbed automatically is a
  mismatch on its cash side. Drift of the cash is logged and never adopted. A sell booked
  against an adopted position makes every later replay raise.
* Nothing cancels working orders when the switch trips, and only the start of a cycle asks the
  gate; the watchdog's docstring, `ops/rules.py:86` and `OPERATIONS.md` say more.
* The loss streak is derived from the log for ever: after an un-halt the next actionable
  decision halts the basket again, and a basket without a position cannot win its way out.
* A close by hand is also refused while an order of the account rests on the other side
  (`service.py:84-86`), for a basket that is out of service and with no policy published
  (`manual_close.py:356-368`), and with no fresh quote.
* A breaker that is half open lets any number of calls through, though `ratelimit.py:81` and
  `:201` speak of one probe.
* A maintenance command with an override window may write a hollow archive after another pass
  has compacted and deleted the day. It holds only what was past its window, but `pending_days`
  says it cannot happen. An archive torn by a crash in the shared temporary file keeps its day
  from being archived until it is deleted for its age.
* `protocols.py` and `budget.py` say that fewer rounds can only make a qualified majority less
  likely. A majority of the blind round may dissolve in a later one, which truncation skips.

These are also why the passing runs leave some faults out: the books are exact unless a cancel
raises or supervision is stopped in mid-flight (`Interruptible`), an order has an owner unless
a query fails, a stop that fills during a poll can be taken for cancelled and armed again
(`race`, the consequence of the fill that wins against a cancel), so `groups_live` leaves it
out, and `supervision` serves one request at a time.

## 4. What is proved

For any values of the constants that the ASSUMEs of the modules admit (TLC evaluates them in
every run):

| Module | Theorem | States |
|---|---|---|
| `Execution_proofs` | `TypeCorrect` | `Spec => []TypeOK` |
| | `IntentFirst` | `Spec => []DurableFirst` |
| | `PlacedOnce` | `Spec => []OnePlacement` |
| | `NoSharedOrder` | `Spec => []ExclusiveOwner` |
| | `LockNotLost` | `Spec => []LockIsUsed`: the lock is only held by a task that polls |
| | `BookingNeverRaises` | `Spec => []BookingLegal` |
| | `LedgerIsLog` | `Spec => []LedgerMatchesLog`, assuming `"stop" \notin Faults` |
| | `FillsOnce` | `Spec => []BookedOnce`, assuming `~Interruptible`, as do the next three |
| | `MonitorIsLog` | `Spec => []MonitorFollowsLog` |
| | `ClosedIsComplete` | `Spec => []ClosedBooksComplete` |
| | `KeepsContract` | `Spec => Implements`, the refinement of `OrderContract` |
| | `NothingUnowned` | `Spec => []Owned`, assuming `~Losing` |
| `Watchdog_proofs` | `TypeCorrect` | `Spec => []TypeOK`: no baseline goes below zero |
| | `LogIsRight` | `Spec => []SwitchAnnounced` |
| | `ImplementsKillSwitch` | `Spec => KeepsItsPromises`, the refinement |
| `Reconciliation_proofs` | `TypeCorrect` | `Spec => []TypeOK`: the ledger never sells what it does not hold |
| | `CashIsReplayed` | `Spec => []CashFollowsLog` |
| | `FlowsRecordedOnce` | `Spec => []FlowsOnce` |
| | `BooksAgreeWithVenue` | `Spec => []BooksAgree` |
| `Supervision_proofs` | `TypeCorrect` | `Spec => []TypeOK`: no count of failures leaves its range |
| | `FailuresBounded` | `Spec => []NoRunaway` |
| | `PinnedVersionRuns` | `Spec => []EditInForce` |
| | `StoppedIsQuiet` | `Spec => []QuietWhenStopped`, assuming `~Overlap`; with it, section 3.3 has the counterexample |
| `VenueAccess_proofs` | `TypeCorrect` | `Spec => []TypeOK`: nobody sleeps again after the maximal wait |
| | `BudgetKept` | `Spec => []WithinBudget` |
| `Admission_proofs` | `TypeCorrect` | `Spec => []TypeOK` |
| | `Meters` | `Spec => []PanelMetered` |
| | `SoloFit` | `Spec => SoloOrdersFit`, an action property |
| `Background_proofs` | `TypeCorrect` | `Spec => []TypeOK` of `Alerts` |
| | `NoAlertLost` | `Spec => []NothingMissed` |
| | `ClearedForGood` | `Spec => StaysDismissed`, an action property |
| | `PassesTyped` | `M!Spec => []M!TypeOK`: `M` is `Maintenance` |
| | `NoPayloadLost` | `M!Spec => []PayloadKept` |
| `ProtectiveGroups_proofs` | `TypeCorrect` | `Spec => []TypeOK`: the ledger's holding never goes below zero |
| | `GuardsFit` | `Spec => PollFits`, an action property, under every fault: guards within what the ledger holds and submits have sold since the targets were computed |
| | `NoLegForgotten` | `Spec => []GuardsOwned`, assuming that queries answer, and that no stop fills in part while a poll is under way |
| | `FilledForGood` | `Spec => NeverRearmed`, an action property, assuming that queries answer, and that no stop triggers while a poll is under way |

### 4.1 Execution

None of these is inductive. `OnePlacement` depends on who may still send a request;
`ExclusiveOwner` is not kept by `PollVisit` unless one knows that an order the monitor tracks is
in nobody's hands but the poll's; `BookingLegal` needs the states a copy can be in at each place
of the code. The inductive invariant, `Core`, is

* `Custody`: every task rests or holds one order: its own, untracked, while submitting; a
  tracked one, under the lock, while polling; an untracked one, before anything else runs, while
  recovering (`Holding`); what startup has yet to resolve is in nobody's hands (`Waiting`);
* `Reach`: what the venue can have, by what is recorded and where the one request stands;
* `Stages`: which states the copy in hand can be in, by where its coroutine stands;

together with `TypeOK`. Three lemmas carry custody over the three ways a task changes place:
`KeepHold` (it moves on with its order), `RaiseHold` (it gives it up in an exception),
`ReturnHold` (it hands it back). Each group of actions then has a lemma (`RecordCore`,
`SubmitCore`, `SyncCore`, `PollCore`, `ProcessCore`, `WorldCore`), with one step per action, and
`CoreStep` puts them together. `Exclusive` derives the exclusion from custody: of two tasks
with one order one would hold the lock and the other not, or both be the order's own cycle.
`IInv` in `ExecutionInv` is `Core` with `Agreement`; TLC finds it to hold on the instances of both
safety runs (add it to their INVARIANTS).

### 4.2 The kill switch

`SwitchAnnounced` alone does not survive a step: a coroutine about to write must be known to
write what it read. The invariant adds that only the holder of the lock is past `queued`
(`LockHeld`), what a stage may be for each kind of call and phase (`Jobs`), and that the copy
of the row in the holder's hands is the row (`RowKept`), the fact the lock is there for. A step
inside the lock changes one job and perhaps the row (`LockedStep`), so the invariant follows for
`Release` and `Announcing` once (`ReleaseInv`, `AnnouncingInv`) and for each action from these.
For the refinement, each step of the watchdog is a step of `KillSwitch` or a stutter: a check
that raises the mark is `Raise` because the row it read was armed and is still the row; a
re-arm honours its own request; everything startup does to the mark happens before it is open.

### 4.3 Reconciliation

`BooksAgree` needs the whole of the startup: what was read is the venue's holding as of the last
known moment, less what has executed since and is not booked (`ReadIsVenue`); a clean verdict
means that both lines are clean, hence that the cash is within the tolerance of the venue's and
the adopted position is the venue's (`Judged`, from `CleanIsClose` and `CleanVerdict`); and from
then on an execution moves the venue and `Unbooked`, a booking the ledger and `Unbooked`, alike.
`OrderInOrder`, `LogIsLong` and `FlowPending` say what an order, a log that is not broken, and a
flow between its event and its recording can be. The arithmetic of the tolerance has its own
lemmas (`MorePercent`, `NoPercentBelowZero`).

### 4.4 Supervision

`NoRunaway` compares what a worker has counted with what really failed in a row, and the two
drift apart: a retirement forgets the count, a human forgets the streak. The invariant (`Sound`)
says when this may be: while a basket may cycle, or does, the streak is no more than the count;
a worker that was stopped leaves a streak behind only for a basket that is halted or out of
service; and a count at its limit is on its way to a halt. It speaks of one basket, and so does
each step of a worker, a halt included, so `OneBasket` reduces these steps to the basket they
are about. `EditInForce` rides along, since a runner is kept only for the version it was built
from. `QuietWhenStopped` is about the loops (`Held`): a loop that is on is the controller's and
was asked for; a start that waits finds every loop off and no other start waiting; and there are
tasks only under a loop. The second of these is what `Overlap` takes away.

### 4.5 The books, and the contract

`Core` says who holds an order; `Books` adds that the copies agree (`Agreement`: what a task has
in hand is the log's order, but for the fill whose append is awaited; the monitor's copy is the
log's order while nothing has been booked; ledger and log differ by that fill) and that what is
over is complete (`Completion`: an order the log has closed as the venue did is over at the venue
with nothing left to book, and so is one whose end a task has read before it reads the trades).
`Completion` is what `ClosedBooksComplete` lacks to be inductive: nothing else says that no unit
executes between the two reads of an order that is over.

A step of a task is a step of one order, so `Turn` reduces the invariant to that order, and what
is left per action is what it does to one copy, one log record and one ledger entry: `GoesOn`,
`GivesUp` and `HandsBack` are its three endings, as in section 4.1. For `KeepsContract` each step
commits (`Commits`), moves an order along the table (`MovesOn`), places it (`Places`), books a
fill (`LogFillIsBook`), or changes nothing of what the contract sees (`Stutters`).

Three hypotheses on `Faults` remain, and the code earns each of them. A cancel that raises loses
what was booked and the next poll books it again; a stop cancels a task between the ledger and
the log (`Interruptible`); a cycle whose query fails, or a venue that forgets, leaves an order to
nobody (`Losing`). Section 3.3 has the behaviour each of them rules out. All other faults, every
interleaving and any number of crashes are in. `LedgerIsLog` needs the least of the three: an
exception undoes the copy, not the ledger.

### 4.6 Maintenance

`PayloadKept` says nothing of the file a pass is about to write. A pass that found no file of the
day is on its way to write one (`Zone`) whatever happens meanwhile, so the other may publish and
verify its own, and trim, before the first opens the temporary name. What keeps the payloads: who
found no file has read the whole day (`ReadInTime`), because nothing is trimmed before the day has a
file that verifies (`Untouched`, `TrimsSafely`), and a file that is whole is complete
(`WholeIsComplete`). As long as the day has no file, either pass may empty, write or rename the one
there is. Once it has one nobody starts writing any more, so at most the pass that was on its way
still is (`Alone`); the temporary file is then that pass's own, an inode other than the day's
(`TwoFiles`, `OwnFile`), so a whole file is only ever replaced by a whole one. `Kept` is all this,
and may be given up only when the archive was deleted for its age. The proof bounds neither the rows
nor the runs.

These theorems are in `Background_proofs`, which extends `Alerts` and `DayArchive` (the rows and
files that `PayloadKept` is about) and instantiates `Maintenance`, the passes over them, as `M`. An instance brings no assumptions along, so the one it needs, `M!PassesAssumption` (the two
passes are two, the bounds are numbers), is their hypothesis; TLC evaluates it in the run
`maintenance`.

### 4.7 Access to the venue

`WithinBudget` speaks of what was sent, and the limiter only knows what was charged. `Paid`
relates the two: at every age no more was sent than charged. It survives a cancelled coroutine,
whose charge stays, and a reported figure, which is only ever added; the two books grow old
together. The budget itself follows from a lemma about the wait: when `WaitSeconds` asks for no
delay, what the window still holds leaves room for the cost (`NoDelayFits`), which is where the
off-by-one of an entry that is just leaving would be.

Sums over a book are functions defined by recursion, and both this proof and the next need
induction. The library's induction theorems take an operator and cannot be instantiated here; the
minimum principle of well-founded relations (`WFMin`) speaks of sets and can. `Induction` derives
from it that a set with 0 and closed under successor contains the naturals.

### 4.8 Admission

`PanelMetered` is about recorded orders; the rules read them before the order is recorded. So an
admission reserves a place (`Metered`): the cycles' orders of the hour and the admitted ones of
all baskets together are within the cap and the number of the other baskets, since whoever is
admitted last has read one below the cap at most; and a basket with an admitted order has one to
spare today, since nobody else trades its instruments (`ListedAssumption`, `OneBasket`).
`Admitting` is the one lemma on admissions, `Calm` the one on all steps that admit nobody and
count nothing more. `Room` says the same of the bound on orders.

`SoloFit` compares exposures of different sets of instruments before and after. A buy that is
alone is all that is pending afterwards (`OnlyPending`); what is then committed to any set is its
exposure and, if the instrument is one of the set, the buy (`CommitsIt`, from `SumGrows`: a
summand that grows by `q` makes the sum grow by `q`); and the size is within the headroom of each
rule (`SizeWithin`). So a ceiling over a set that the buy does not touch says nothing, and one
over a set it does touch is the ceiling its rule has read. Sums are over the finite sets that
`ListedAssumption` grants: a document lists finitely many baskets and instruments.

### 4.9 Alerts

`NothingMissed` compares what the dispatcher recorded piece by piece with what one reading of the
whole log would give. The invariant says of a cursor row that it is right (`RowRight`): its streak
is the run of degraded cycles up to its position, and everything due up to there has its notice.
That holds of the saved row and of the poll's copy alike, so losing the copy loses nothing and
repeats at most what is recorded already. `NextRun` is the step: the streak that the rules carry
over one event, past entries they do not read, is the next run. What lets them skip those is
`Ahead`: a batch leaves out nothing that comes before what it holds, neither when it is read
(`ReadAhead`) nor when the log has grown since (`AheadStays`). A poll that ends at a malformed row
keeps its cursor, and so everything that is said of it. Delivery needs the same fact for
its own cursor: a notice is either behind it, and told, or still in front of the batch.

A batch is the set of its positions and the next is its least; that a set of naturals has a least
one comes from `WFMin`, as in 4.7.

### 4.10 Protective groups

`PollFits` compares the end of a poll with a ledger that fills, sells and other groups' stops have
changed since the targets were computed. `Fits` carries it: while the legs are maintained, the
share of a group is its target as long as the poll has to visit it, and what its guard covers from
then on; all shares together are within what is held and what submits have slipped out of it since
(`slipped`; a sell's submit moves units from the one to the other). `TargetsFit` establishes it: the groups up
to any stop get no more than the budget, by induction over the stops (`PrefixFits`), since each
gets what the tighter ones leave at most. From then on a step changes one share (`TurnInv`), and
it can only shrink: a group that is left alone is at its target, one that is resized passes
through its target, and a poll books a fill before any share is counted or, when a placing is
confirmed, off the share and the holding alike. `Legs` supplies what makes the second case true:
a guard the monitor believes to be working rests for what was requested. `Cancels` and `RaiseInv`
say what a cancel and an exception leave of all this, and `EndsFacts` what any end of an order
does. `Entered` says that a group is neither tracked nor guarded before its submit ends, so what a
submit books and tracks takes part in no poll that is under way. Nothing is assumed of `Faults`.

For `GuardsOwned`, `Alone` says that the old guard no longer rests when its successor is placed,
so nothing strays, and that a guard that was just placed is confirmed as it rests. A query
that fails in between leaves it to nobody, as section 3.3 tells. So does, with no query failing, a
stop that is placed, fills in part before it is read, and has a fill of more than the ledger still
holds: booking it raises, and what is left of it rests unknown. This takes the faults `race`
and `partial` together, and the theorem excludes these two cases and no other.

For `NeverRearmed`, `Noticed` says that the monitor knows a filled guard as filled, or has yet to
read it before anything is sized (`Unvisited`: at rest, or in the stages `sync` and `expire`). A stop that fills after it was read and before it is
replaced is what `race` adds, and there the code does arm the group again (section 3.3), so the
theorem excludes that one; a placed guard cannot fill unseen without it. The step itself
(`Sticks`) then needs that a placing never follows on a filled guard.

Sums are over `Entries`, which is finite, but of any size and with any stops; as in 4.7 the
inductions are instances of `WFMin`.

### 4.11 Only model-checked

What holds under fairness, since the proof system has no rule for liveness from ENABLED:
`EventuallyClosed`, `EventuallyCovered`, `LastingDrawdownTrips`, `HaltedComesToRest`, `ServedAgain`,
`EveryCallEnds`, `EventuallySilent`, `EventuallyTold` and `RetentionCompletes`. Every invariant and action property that a run checks is proved, under the hypotheses
named above.

## 5. What is not modelled, and why

* The decision panel: prompts and providers are input and output, and the consensus rules are
  arithmetic over one round of votes. A cycle's decisions are any decisions.
* Market data, news, the dashboard's pages, the command line: input, output and composition.
  The operator's commands appear as actions of the components they reach.
* The decision lab: offline, without state in common with the trading process.
* Prices, cost basis, round trips, volatility sizing, quantization to the venue's step, and the
  rules on conviction, collar and quarantine: decimal arithmetic over one proposal or one fill,
  without interleaving. The metering rules and the caps are in `Admission`.
* Parsing, signing, symbols and credentials of the venue adapters and transports, and the
  simulator's book: the callers see outcomes, which the modules choose from.
* The projections that only feed pages.
* The preflight and readiness checks: reads that end in a list of failures; in `Execution` they
  are the choice of `Restart` to refuse.
* The validation of a configuration document and the four preconditions of arming: pure checks.
  Publishing, retiring, permission and its withdrawal are in `Supervision`.
* The appends, the crashes and the startup of protective legs: `ProtectiveGroups` follows the
  running monitor. A leg adopted at startup is an order of `Execution`.

## 6. The plan

Modelled so far, in the order in which they matter to an account: orders and their execution,
the guards of a position, the kill switch, who cycles what, what a decision may become, startup
against the venue, access to the venue, alerts, retention. Next:

1. An abstract specification of a position and its guard that `ProtectiveGroups` implements.
2. The panel's budget and consensus as functions, and a deliberation whose seats fail and time
   out, against what a truncated one may decide.
3. Arming and the live venue's four facts over restarts; the simulator's book against what the
   other modules assume of a venue; the market cache's flights.
