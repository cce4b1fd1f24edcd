# TLA+ specifications of MT5Services

MT5Services is a trading platform around MetaTrader 5: one *main* instance
computes indicators and signals, *executor* instances (one per account) turn
signals into orders, and all of them share a TimescaleDB database. These modules
specify the parts where threads, processes, the database and the broker meet, and
where a mistake sends an order twice, loses one, or leaves a position unmanaged.

File names below are relative to `src/src/` of the repository.

## 1. Inventory

| Part | State | Operations | Meets |
|---|---|---|---|
| Intent publisher (`trading/intents/publisher.py`) | none | `on_signal_event` writes one intent per bound account | signal runtime (callback), database |
| Intent table and ledger (`persistence/repositories/execution_intent_repo.py`) | rows with status, attempts, owner, lease; reserved keys | write, claim (4 statements), mark dispatched, heartbeat, complete | publisher, consumers of all instances |
| Intent consumer (`trading/intents/consumer.py`) | one thread and one renewer thread per intent; batch, current intent | claim, emit, heartbeat, CAS, `process_event`, complete | database, trade executor, pipeline bus, mode controller (start/stop) |
| Command service (`trading/commands/service.py`) | none | `enqueue` | API threads, database |
| Command table and consumer (`operator_command_repo.py`, `trading/commands/consumer.py`) | as for intents | as for intents; `_execute_command` | database, mode controller, closeout |
| Mode controller (`app_runtime/mode_controller.py`, `mode_policy.py`) | mode, auto flag, lock | start, `apply_mode`, monitor | registry, position manager, command consumer |
| Component registry and thread lifecycle (`app_runtime/lifecycle.py`, `trading/runtime/lifecycle.py`, `builder_phases/runtime_controls.py`) | attached flag; thread and stop event per worker | start, stop, join | all workers |
| Trade executor (`trading/execution/`) | dedup, circuit breaker, frequency reservations, intrabar guard, queue | `process_event` | risk, broker, pending entries |
| Pending entries (`trading/pending/`, `trading/execution/pending_orders.py`) | tracked MT5 orders and their rows; the dormant local map and fill queue | submit, track, inspect, time out, sweep, restore | executor, broker, operator, state store and recovery |
| Position manager (`trading/positions/`, `trading/closeout/`) | tracked positions, rows, end-of-day gate and date of the last closeout | track, sync, compare, flush, close out, close overnight | broker, executor, order monitor, outcome tracker, operator, direct trades of the API |
| Cached position lists (`clients/mt5_account.py`) | one list per symbol and one of the account, three seconds old at most | `positions`, invalidation | everyone who asks what is open |
| State store and recovery (`trading/state/`) | position and order state rows | restore, reconcile | database, broker |
| Bounded recovery runner (`trading/recovery/`) | active cycle, its row and submitted tickets | open a cycle, add a step, close, load the open cycle at start | tick feature bus, broker, position manager, state store |
| Bar events of the indicator manager (`indicators/runtime/`, `utils/event_store.py`) | write queue, event rows, results | announce, flush, claim, compute, settle, reconcile, clean up | ingestor, market cache, signal runtime, requests of the API |
| Signal runtime (`signals/orchestration/`) | SQLite queue, two memory lanes, state machine and coordinator per strategy, listeners | admit, enqueue, dequeue, evaluate, publish, stop, restore | indicators, tick bus, publisher |
| Storage writer (`persistence/storage_writer.py`) | bounded channel queues | put, flush, dead-letter file | all producers of data |
| Notifications (`notifications/`) | outbox rows, dedup keys, token buckets, worker thread | submit, fetch, send, mark, purge, switch off and on | pipeline bus, Telegram, operator |
| Ingestion, market cache, indicators, strategies, calendar, risk rules, monitoring, API, read models, backtesting, research, configuration | caches and computed values | polling and computation | — |

What is hard here:

* **leases** — a consumer that is slow, stopped or dead loses its rows to another
  one, and may wake up later and carry on;
* **an external effect without a transaction** — an order at the broker cannot be
  rolled back, so the queue must choose *at most once* and say when it gave up;
* **autocommit** — a claim is one call and four transactions; an exception keeps
  the first ones;
* **threads that stop threads** — mode changes are made by the boot thread, by a
  monitor thread and by the command consumer, which is one of the threads being
  stopped; joins have timeouts and stopped threads may live on;
* **checks that age** — the flatness guard, the end-of-day gate and the attached
  flag are read long before they are used, and the list of open positions may be
  three seconds old when it is handed out;
* **two steps where one is meant** — a row is deleted, a snapshot published or a
  message sent before the step that says so, and a crash or an error falls between.

`PROJECT.json` lists every hazard at its line with the properties that cover it.

## 2. Modules

| Module | What it is |
|---|---|
| `IntentDelivery` | abstract: groups of keys are accepted, committed, executed at most once, settled or dropped |
| `ExecutionIntents` | the intent queue: publisher, table, ledger, consumers |
| `OperatorCommands` | the command queue: service, table, ledger, consumers |
| `RuntimeModes` | the mode controller, the registry and the worker threads |
| `PendingOrders` | pending orders at the broker: submission, tracking, monitor, sweeps, recovery |
| `PositionLifecycle` | positions of an account: executor, reconcile loop, startup, closeout |
| `BarEvents` | closed bars from the ingestor to the confirmed snapshot |
| `SignalRuntime` | snapshots from the warmup barrier to the published signal |
| `NotificationOutbox` | notifications from `submit` to the chat |
| `MC*` | instances for TLC |
| `*Proofs` | one per specification: its inductive invariant, lemmas and theorems |

### ExecutionIntents

`ledger`, `keyOf`, `status`, `attempts`, `owner`, `expired` are the two tables;
`pc`, `run`, `todo`, `cur`, `result`, `renewing`, `found` are the locals of one
consumer thread per process; the rest is history (`dispatches` counts
`process_event` calls, `crossed` the committed dispatch CASes). One action is one
SQL statement or one call to the outside. In order: `SweepClaimed`,
`SweepDispatched`, `SweepExhausted`, `Take` are the statements of
`claim_execution_intents`; `Announce` and `BeginIntent` are `_worker_iteration`;
`Heartbeat`, `MarkDispatched`/`Abandon`, `ProcessEvent`, `Complete`,
`EmitTerminal` are `_process_intent`. Each has a failing twin (`ClaimFails`,
`IterationRaises`, `PrepareFails`, `MarkFails`, `ProcessEventRaises`,
`CompleteFails`, `EmitTerminalRaises`); a statement that fails may have been
committed. `Renew` is the renewer thread, `Crash`/`Restart` change the `run_id`,
`LeaseExpires` is time.

Abstractions: payloads are gone; a lease is one bit, because only the sweeps of a
claim compare it with the clock and it may run out at any moment; `created_at`
order is the order of signal numbers; `FOR UPDATE SKIP LOCKED` makes the taken rows
disjoint, as atomic statements do.

### OperatorCommands

The same table protocol with the differences of its repository: the third statement
also takes expired claimed rows and keeps their owner, heartbeats need an open
status. Added is the service: `Arrive`, `LookUp`, `Write`, `Recheck`,
`EmitSubmitted` are the steps of `enqueue` between which other requests run. A row
is named by the request that wrote it. A contract is payload, actor, reason and
context compared as a whole.

### RuntimeModes

`mode`, `auto`, `reason`, `err` are the controller's fields, `holder` its lock,
`todo` the calls the registry still has to make for the `job` at hand, taken in the
order of `Script` (the guard, the starts in the order of the registry, the stops in
reverse), `attached` the listener flag. A worker is a count of live threads and a stop
event. `CallsFor` computes the registry's work from the mode and the flag;
each call is a step, a stop is two (`StopSignals`, then a join that returns, times
out, or raises when a thread joins itself). `MonitorDegrades`, `MonitorRestores`,
`ApplyRequest` and `Boot` are the four callers of `_apply_mode_locked`. The trading
that matters to a mode is one flag `exposure` and `opening`, an intent that has
passed its pre-trade checks and has not yet reached the broker.

### PendingOrders

`broker` is the truth at MetaTrader 5, `row` the table `pending_order_states`,
`tracked` the dictionary `_mt5_orders`. Four threads share them. The intent
consumer runs `submit_pending_entry`: `Submit`/`RejectDuplicate` (duplicate guard),
`Override` (snapshot of the opposite orders, then `SweepCancel`/`SweepDrop` for
each), and per member `Place`, `Track`, `Record`. The operator's sweep runs the same
two actions. The monitor looks an order up (`Inspect`), comes back for the lock
(`Settle`), or times it out (`CancelExpired`, `DropExpired`). The starting thread
runs `restore_pending_orders`: three reads (`ReadStates`, `ReadLive`,
`ReadRelated`), then one `Recover` per row with its three branches, then the
orphans. The snapshots of the sweeps and of the recovery are kept as they were
taken, so they grow old while the other threads work.

Every cancel may succeed, find nothing, be refused, or raise with or without effect;
every row write may raise. `behind`, `presumed`, `stray` and `blind` record which
orders such an error touched; the properties name the ones they except.

Abstractions: one symbol; `expires_at` may have passed at any visit; the monitor
visits tracked orders in any order instead of walking a snapshot (an order popped
meanwhile is skipped either way); a position belongs to the order that opened it and
the fuzzy match of `find_live_position_for_pending_order` is by strategy or by being
the only one of its direction; popping an order and writing its row are one step,
which no other thread can tell from two except through `Record`, and that order of
events is reached with `Record` after `Settle`. The model starts with the manager
running and no rows; recovery is entered after a stop or a crash. An `entry_key`
stands for its ticket, because an intent is dispatched at most once.

The position list the lookups see may be three seconds old (`PositionLists`), while
the list of orders is fresh: an order that was just filled can be concluded to be
missing. `RowsAreTrue` therefore says of *missing* and *filled* that the order is no
longer live, and of *expired* and *cancelled* that it was removed.

The local price confirmation of `PendingEntryManager` (`submit`,
`submit_oco_group`, the fill queue and its worker) is called by tests only and is
left out.

### PositionLifecycle

`broker` is the truth, `tracked` the dictionary `_positions`, `row` the status column
of `position_runtime_states`, `active` the trades the outcome tracker can find again.
Four threads share them: the executor (`ExPasses` the end-of-day gate, `ExSubmits`,
`ExTracks`, `ExWrites`), the monitor of resting orders, which tracks the position a
watched order became (`MonitorLooks`, `MonitorTracks`, `MonitorWrites`), the reconcile
loop, and one *side* thread that is the starting thread or an operator's
`/trade/reconcile`. A position may also come from a `DirectTrade`: the HTTP routes
`/trade`, `/trade/batch`, `/trade/dispatch` and `/trade/from-signal`, or somebody at the
terminal, who ask for no end-of-day gate and track nothing. It is `foreign` when it has
neither a signal_id nor a system comment; `sync_open_positions` skips those for good.
The loop and the side thread run the same code, so its actions take the thread as a
parameter: `SyncQuery`,
`SyncNext`, `SyncPuts`, `SyncWrites` are `sync_open_positions` between its lock
regions; `Copy`, `Look`, `Drop`, `WriteClosed`, `PassEnds` are
`_reconcile_with_mt5`; `MarketExit` is an exit rule that fires. `EodStarts` to
`EodEnds` are the closeout, call by call; `StatesQuery` and `StatesMark` are the
recovery of the rows, `Overnight` is `force_close_overnight`. `Start` finds the manager
down, or a loop that outlived its stop: then `Rejoin` waits for it, and the start that
follows (job `again`) makes its pass and launches the loop but, because
`_start_position_manager` asked `is_running` before, skips the startup sync, the row
recovery and the overnight close.

`recent` holds the positions that were opened or closed within the lifetime of the
cached list; `Lists` are the lists a query may then return. The ten seconds the loop
waits between two passes are longer than that lifetime, so `Flush` clears it.

History variables name what the properties except: `late` (begun anew each time the
gate goes up: an executor that had passed it, a fill too late for the last list of a
closeout, a direct trade after a complete closeout), `window` (live
positions a list did not show), `orphan` (open rows whose close was not written or was
overwritten), `surplus` (outcomes recorded, less the times a live position was dropped or
a closed one tracked again).
All but `orphan` are kept for the `Watched` tickets only; the liveness run has none.

Abstractions: one symbol; half days as the clock; stops, targets, peak prices and
margin are left out, and with them which exit rule fires.

### BarEvents

For one symbol and timeframe: `CloseBar` and `Reannounce` are the ingestor, which puts
the bar into the market cache (`top`, its newest bar; `depth`, how many it has) before
it announces it; `WriterTakes` and `WriterFlushes` the writer thread, `Claim` is `claim_next_events`
with its order by retries and bar, `Window`, `Each`, `WriteBack`, `MarkCompleted`,
`Fail`, `FailAll` are `process_symbol_timeframe_batch` and the two exception handlers
around it, `Cleanup` the daily deletion. `WriteBack` writes and publishes nothing when no
indicator has a numeric value, because the bar has none (`blank`) or because all of them
failed (`mute`); the event is completed all the same.

The newest bar is also computed, stored and published without an event: by the reconcile
pass of the loop (`ReconcileLoads`, behind `is_reconcile_target_ready`, and
`ReconcileWrites`) on every pass, and by `POST /indicators/compute` and the consistency
check in threads of the API (`QueryLoads`, `QueryWrites`). `published` counts the
snapshots of the event path, `last` is the bar of the last snapshot of any of them.
Indicator values are replaced by the bar they belong to. The intrabar thread works on a
queue of its own and is left out, and so are the requests that delete or reset events.

### SignalRuntime

For one strategy: `OnConfirmed` is the warmup barrier, `PutConfirmed` the write of
the SQLite row (between the two, `stop` may close the queue), `OnSample` the bounded
memory lanes; `Claim`, `Complete`, `Yield`, `Poll`, `Wait` are `dequeue_event`;
`Process` is `process_next_event` up to the publication with one operator per scope
(`EvaluateConfirmed`, `EvaluateTick`, `EvaluateIntrabar`), `Publish` the listeners.
Filters, regime and confidence are nondeterministic, time is counted in bars, and an
intrabar coordinator is configured, as in the shipped configuration. The samples of a
bar arrive in the order of their child bars (`InOrder`); `votes` records all that are
evaluated, holds included. A full lane loses its oldest sample. `Stop`/`StopCloses` close the queue also when the join timed
out, so the old thread may find it closed at any later step.

### NotificationOutbox

`Submit` is one step: dedup, rate limit and insert run under no lock, but nobody else
writes what they read for the same key. `Fetch`, `Send`, `Mark`, `MarkRaises` are
`drain_once`, one action per call; an answer may be lost although the message arrived.
`Start`, `Stop`, `StopReturns` are the runtime toggle, whose join of five seconds a
send of ten may outlive. The global and the per-chat bucket are taken together and are
one counter; a dedup key has one severity, as `classifier.py` assigns them; threads
are interchangeable, so a new one is given any free name.

## 3. Runs

All bounds are CONSTANTs of the specifications. `Max...` bounds limit how often the
environment acts; the code's own loops are not bounded.

| Run | Instance | Shows |
|---|---|---|
| `intents_safety` | 1 signal delivered twice to 2 accounts, 2 consumers of one account, 2 attempts, 3 faults | at most one `process_event` per key, ledger and rows agree, the recorded outcome is the real one and dead letters are justified, rows only move forward, `IntentDelivery` is implemented |
| `intents_settle` | 2 intents in one batch, 1 consumer, 2 faults, fairness | every intent reaches a terminal status |
| `modes` | shipped configuration (full, ingest_only after end of day), 2 operator requests, 2 environment turns, fairness | one thread per worker, modes are effective and stop what they must, the lock is released, downgrade and restore happen |
| `modes_execution` | same | *violation*: execution goes on in observe after an operator's mode change |
| `commands` | 2 requests with one key (same or other contract), 2 consumers, 2 attempts, 1 fault, fairness | one execution per key, truthful answers, no key reserved without a command, `IntentDelivery` is implemented, every command settles |
| `pending_group` | an OCO group of two members, 1 operator sweep, 2 faults | rows tell what happened at the broker; once recovery ran through, every live order with a placed row is watched |
| `pending_settle` | two signals of one strategy, opposite directions, 1 fault, fairness | never live together without a restart; no row stays placed |
| `signals` | 2 bar closes; 3 child bars (buy, then hold or sell, then buy) and a tick sample; burst limit 2, lanes of 1, 2 stable samples, 1 fault, fairness | bar closes are evaluated once, samples are not starved, signals are armed only after enough agreeing samples (holds aside), the queue drains |
| `bars` | 2 bars with or without values, write queue of 1, batches of 2, 2 retries, lookback and readiness 2, 2 faults, requests at any time, fairness | event statuses are true, repetitions of the event path have a cause, events settle, results and last snapshot reach the newest bar once the reconcile pass is ready |
| `positions` | 1 ticket (executor, resting order or direct trade, foreign or not) over 3 half days, 1 fault | closed rows are true, outcomes repeat only for a cause, a completed closeout leaves the account flat but for what `late` names |
| `positions_settle` | 1 ticket, likewise, morning and evening, 1 operator request, 1 fault, fairness | live positions that are not foreign are tracked, rows catch up, the closeout completes in its evening |
| `outbox` | 3 notifications, two of them critical with one key; burst 1, 2 attempts, batches of 2, 1 fault, 1 toggle, fairness | deliveries repeat only for a cause, *sent* rows were delivered, criticals are not lost to the rate limit, rows settle |

Why the bounds are enough to be interesting: two consumers and two attempts are the
smallest instance in which a row is taken over, taken back and exhausted; three
faults let a consumer crash, its successor lose a statement, and a third error hit
the recovery. `MaxZombies = 1` lets one worker of any kind outlive its join on top
of the two that wait for the controller's lock. Two operator requests allow one to
wait while another thread applies. Two orders are the smallest group with a sibling
and the smallest pair the duplicate guard can confuse; two faults let a refused
cancel meet a crash, or a stop meet a raising write. Two bar closes and a burst
limit of two make the loop yield; three child bars make a lane overflow, a direction
change, and a hold between two buys. Two bars through a write queue of one lose an event,
and two faults retry an older bar after a newer one, or use up the retries of one. One ticket is enough for positions because every race is
about one position (the closeout treats all alike): the third half day lets an
overnight position be found at startup. Two notifications with one key meet in the dedup table, the third competes for the token.

Faults are a budget, not an action that may be disabled by the system: after the
last one the code runs undisturbed, which is the usual assumption under which
"eventually" means anything.

Symmetry is used only in `intents_safety` (intent ids and workers) and
`pending_group` (the two members of the group), whose properties are all safety
properties and do not name a particular id, worker or member.
Deadlock checking is off where the system may really come to rest (all requests
answered, nothing left to apply).

### Fairness

* The consumer loops catch every exception and poll for ever
  (`_worker`): weak fairness of `WorkerStep`. A stopped or dead consumer is started
  again: without that nothing can settle.
* Time passes: weak fairness of `LeaseExpires`. No fairness for the renewer.
* The controller's boot, monitor and apply steps, and a request that waits for the
  lock, are weakly fair: an apply is a straight-line program, joins have timeouts,
  and the monitor loop survives exceptions.
* A worker whose stop event is set ends, except that the command consumer and the
  projector may be waiting for the lock: for them only while it is free.
* The executor, a sweep and the recovery are straight-line programs: weak fairness
  while they have work. The monitor loop survives exceptions and comes back to every
  tracked order, and `expires_at` is finite: strong fairness of `Inspect` and
  `CancelExpired` per order, since other orders keep interrupting. A stopped manager
  is started again.
* The loops of `SignalRuntime`, `BarEvents`, `PositionLifecycle` and the worker of
  `NotificationOutbox` catch exceptions and run until stopped: weak fairness of the
  loop (of the executor and the side thread too, which are straight-line, and of the order
  monitor). Joins
  return: weak fairness of the step after them. A stopped or dead signal runtime or
  indicator manager is started again; for positions and the outbox nothing is assumed,
  and their properties speak of a manager that runs and a worker that serves.
  Backoffs run down: weak fairness of the outbox's `Tick`.
* Operator requests, market moves, the end of day, publishing and faults have no
  fairness.

## 4. Findings

One run is expected to fail, `modes_execution`: an operator who leaves full does so in
the command consumer's own thread, which then joins itself; the exception skips the
stop of the intent consumer, and execution goes on in observe although
`config/app.ini:138` says it does not.

Met while modelling, and visible as an exception in a property or in the reading of
the lines named:

* *Intents.* A claim that fails after its sweeps loses the events of the rows they
  dead-lettered (`execution_intent_repo.py:184`). The log of a failed complete
  announces a retry (`trading/intents/consumer.py:361`); after the dispatch CAS the row
  is dead-lettered instead, which is what `IntentDelivery` asks for.
* *Commands.* The loser of an idempotency race is given the winner's answer without
  the comparison of contracts that the look-up makes (`trading/commands/service.py:151`).
* *Modes.* The flatness guard is checked before the thread that opens positions is
  stopped (`mode_controller.py:154`); a rejected request clears the flag that restores
  the mode in the next session (`mode_controller.py:105`); `AppRuntime.stop` never
  stops the two consumers (`runtime.py:261`).
* *Pending orders.* The fill of an OCO member does not cancel its sibling
  (`pending/lifecycle.py:191`); a late `placed` write goes over a settled row; a row is
  left behind by a raising write; orders stay unwatched after a recovery that was cut
  short; the duplicate guard sees nothing until recovery has run; an order just filled
  is called missing when the cached list does not show its position yet.
* *Positions.* A comment says that writes invalidate the cached list
  (`mt5_account.py:66`); `close_all_positions` does not (`trading_service.py:630`), so
  the first pass of a closeout usually reports leftovers and is retried, and a position
  just filled may be dropped as closed and tracked again. The executor registers a
  trade under the account's key (`execution/eventing.py:695`) and its close is looked
  up under an empty one, so only positions found by a sync are evaluated.
  `infer_exit_reason_from_price` reads attributes a tracked position does not have
  (`reconciliation.py:51`). The direct trade routes do not ask whether the day was closed
  out (`api/trade_routes/command_routes/direct.py:126`; only the executor does,
  `execution/pre_trade_checks.py:637`), so `ClosedOutIsFlat` has to except them, and a
  position without a signal_id and a system comment is left to whoever opened it
  (`reconciliation.py:201`; the tests assert that). A start that finds the loop of a
  timed-out stop still alive skips the startup sync and the recovery of the rows
  (`runtime_controls.py:306`).
* *Signals and bars.* `config/signal.ini:435`, `docs/signal-system.md:563` and
  `intrabar_trade_coordinator.py:3` ask for N *consecutive* child bars of one direction;
  the coordinator ignores holds (`:93`), so buy, hold, buy arms at two. Which of
  the two is meant the repository does not say; `ArmedIsStable` states what the code does.
  An event is marked completed although nothing was published when no indicator has a
  numeric value or all of them failed (`query_services/runtime.py:505`,
  `bar_event_handler.py:200`). `reset_failed_events` selects failed rows with fewer than
  three retries (`utils/event_store.py:642`), of which there are none. The age of a bar is checked when it is queued and not when it is
  evaluated (`runtime_warmup.py:78`). The warning of a full write queue says that
  reconcile will recover the bar (`event_io.py:47`): the newest results do catch up
  (`ResultsCatchUp`), the snapshot of an older bar is not published.
* *Notifications.* A toggle during a slow send leaves the module started with a worker
  that ends (`dispatcher.py:157`); the key of an event that was dropped or failed
  suppresses the next ones; `clear_expired` of the dedup table has no caller.

The flatness guard reads the cached list as well; since the guard is made before
anything is stopped, what it misses is what could also have been opened right after
it, and `RuntimeModes` has that step.

## 5. Proofs

Every safety invariant, action property and refinement that a passing run checks is
also proved, for every value of the constants that satisfies the named assumptions of
its specification: finite bounds (positive where the code's configuration is), total
maps (`Targets`, `AccountOf`, `Inputs`, `KeyOf`, `MembersOf`, ...), at least one worker
name in the outbox, and `None` distinct from what it is compared with. No proof
assumes anything about the number of signals, accounts, consumers, requests, groups,
orders, tickets, events, bars, notifications or faults.

The plan of all eight proof modules is the same. An invariant is written as a
conjunction of named parts, each with a comment; TLC checks it as an invariant of the
run's instance; a lemma per action or per group of actions, and under it a step per
part the action can disturb, shows that a step keeps it; the theorems follow with
`PTL`. What the properties alone lack, and the invariant adds, is what threads *hold*:
a batch, a row read, an answer not yet written, a call still to be made.

`ExecutionIntentsProofs`

* `TypeCorrect`: `Spec => []TypeOK`. The inductive form adds `HandsFull`: a consumer
  inside `_process_intent` holds an intent and one about to complete holds a result;
  without it the function updates at `cur[w]` are not typed.
* `LedgerCorrect`: `Spec => []LedgerMatchesRows`, with `RowsHaveKeys` (a row exists
  exactly when it has a key). The lemma `WriteIntentsRow` says what the publisher's
  transaction does to one row; no other action touches the ledger.
* `AtMostOnce`: `Spec => []AtMostOnceDispatch`. The property is not inductive: it
  says nothing about a consumer that is *about to* call `process_event`. `Fence`
  adds that a row that was not dispatched has no crossed CAS and no call, that a
  consumer at `process` has crossed the CAS of its intent and nobody called for it
  yet, and that no two consumers are there with the same intent. Preservation goes
  action by action: a CAS needs a claimed row, so it happens once; sweeps never make
  a dispatched row claimable; nothing else moves a consumer to `process`.
* `RowLifecycle`: `Spec => RowTransitions`, from the same invariant.
* `OutcomesAreReal`: `Spec => []RecordedOutcomeIsReal`. `Records` adds that an outcome
  exists only after a call, that rows were given up for a reason, that who is in
  `process_event` owns the row, and that a consumer does not come back to a row it has
  executed except where an answer was lost.
* `DeliveryRefined`: `Spec => RefinesDelivery`. Under the mapping a key is at the
  stage of its row; each statement of a claim, each CAS, each call and each complete
  maps to a step of `IntentDelivery` or to a stutter, faults included.

`OperatorCommandsProofs`

* `CommandTypes`, `AnswersGrounded` (`AnswersAreGrounded`) rest on `ServiceInv`: a
  request has a row exactly from its committed write on, ledger and rows agree, and
  who lost the race for a key has a winner. Hence the error for a reservation without
  a command is never raised.
* `OneEffect` (`OneEffectPerKey`) adds the dispatch fence of the intents.
* `DeliveryRefined`: the command queue implements the same `IntentDelivery`.

`RuntimeModesProofs`

* `NeverTwoWorkers`: `Spec => []SingleWorker`. Only `StartSpawns` raises a thread
  count, and its guard (is_running or wait_previous) requires zero.
* `ModesInvariant`, and from it `ModesTyped` (`TypeOK`), `ModeReallyRuns`
  (`ModeIsEffective`) and `ModeReallyStops` (`ModeStopsWorkers`). The properties speak
  of a settled controller; the invariant has to hold in the middle of an apply. It
  says that what is still to start belongs to the mode and what is still to stop does
  not (`WorkFitsMode`), that the calls of one component come in order
  (`StartsInOrder`, `StopsInOrder`), that a thread told to stop and alive is late or
  being joined (`ZombiesAreLate`), what the attached flag says of the consumers
  (`AttachedIsUp`, `DetachedIsDown`), and that at every moment what the mode keeps is
  up or still to start and the rest is down or still to stop (`KeptIsComing`,
  `RestIsGoing`); with no work left these are the properties. The lemma
  `ScriptOrder` is where the order of the registry enters, and `JoinRaisesStep` the
  case of the command consumer that joins itself: the intent consumer is then up *and*
  attached, which is why the properties hold although `modes_execution` fails.

`PendingOrdersProofs`

* `RowsTellTheTruth` (`RowsAreTrue`), `NothingUnwatched` (`LiveOrdersAreWatched`),
  `OneGroupAtATime` (`OneLiveGroupPerStrategy`), from `OrdersInv`: an order the broker
  has not accepted is known to nobody, what a thread is about to write is already so
  at the broker, the recovery has still to come to every live order that nobody
  watches, and while a group is submitted no other group of its strategy is live. The
  lemma `BrokerMoves` bounds what any step can do to one order.

`PositionLifecycleProofs`

* `PositionsInvariant`, and from it `ClosedRowsAreRight` (`ClosedRowIsGone`),
  `OutcomesHaveCauses` (`OutcomesAreCaused`) and `CloseoutLeavesFlat`
  (`ClosedOutIsFlat`). The invariant says that one thread at a time compares, that
  what a pass is about to drop was missing from a list, that a position that is live or
  tracked has had no outcome but by mistake (`OutcomesAreDue`), and that behind a raised gate only
  executors counted as late submit, so that a closeout that found nothing left has
  left nothing but what `late` names. The order monitor holds only positions that were
  filled, so that what it tracks late is counted as a mistake; a direct trade is late
  only while a closeout ends or once it is complete (`NothingLeft`), not during one.

`SignalRuntimeProofs`

* `BarClosesAreKept` (`NothingLost`): admitted bar closes are in balance with rows,
  the loop's hand, evaluations and losses, and a stop in progress has a fault to spare
  for the one it may lose. At most one row is claimed, and it is the one in hand.
* `LanesAreFair` (`SamplesNotStarved`): the streak a sample waits through is bounded by
  the burst counter at every step of the dequeue.
* `ArmedAfterAgreement` (`ArmedIsStable`): the coordinator's count is at most the number
  of votes for its bar and direction in a suffix that has nothing else but holds
  (`VotesAgree`), and a signal on its way to the listeners is steady (`ArmedIsSteady`).

`BarEventsProofs`

* `StatusesHold` (`StatusesAreTrue`): while the loop works, what is left of its batch is
  in processing, none of it twice, and an event about to be completed was published or
  had nothing to publish; a bar becomes `mute` only with a fault.
* `RepeatsHaveCauses` (`RepeatsAreCaused`): snapshots of the event path, copies of the bar in the two
  queues, and one for an event that is owed never exceed one plus the faults.

`NotificationOutboxProofs`

* `NoDoubleDelivery` (`DeliveriesAreCaused`), `SentIsSent` (`SentWasDelivered`),
  `CriticalsAreKept` (`CriticalsAreQueued`). The dispatcher knows its worker, so only
  one thread is alive; what it has in hand is pending with the attempts it read; a
  pending row that no worker knows to be delivered was delivered by faults only.

What the proofs changed in the specifications: the order in which rows are fetched or
claimed, and the work of an apply, were computed as sequences and are sets with an
order (the runs reach the same states); one CASE of the outbox had two
arms that overlapped and is an IF; `OneLiveGroupPerStrategy` excepts fewer orders than
before (only those the manager was never told of); `ClosedRowIsGone` and
`ClosedOutIsFlat` speak of the `Watched` tickets, for which alone the histories they
name are kept (all of them in the run `positions`).

Only model-checked: liveness (`EveryIntentSettles`, `ApplyFinishes`,
`EodStopsTrading`, `RestoredNextSession`, `EveryCommandSettles`, `PlacedRowsSettle`,
`QueueDrains`, `EventsSettle`, `ResultsCatchUp`, `LiveIsTracked`, `RowsCatchUp`,
`CloseoutSettles`, `RowsSettle`), because the prover reasons neither about fairness
nor about ENABLED. `NoExecutionOutsideFull` is false, as its run shows.

## 6. Not modelled

Numerical code (indicators, strategies, risk rules, sizing, exit rules),
backtesting and research have no shared state; they are most of the repository's
lines. Read models and studio only read. The routes of the API keep no state; operator
commands go through the command queue, and those that act directly are actions of the
models where they touch what is modelled: direct trades and `/trade/reconcile`
(`PositionLifecycle`), `/indicators/compute` and the consistency check (`BarEvents`), the
notification toggle (`NotificationOutbox`). Not modelled are the routes that change
prices of orders and positions, reset the circuit breaker, delete or reset bar events,
reload the configuration, or start a backtest or a research job.
MetaTrader 5 is external: every call may succeed, fail or raise. `AppRuntime.stop` is
not modelled; for the queues it is a crash at any step. The bounded recovery runner
(`trading/recovery/`) is a resident service for demo accounts, disabled and dry-run by
default, that none of the modelled parts depends on; it trades through the broker
command service and reads the position manager. It has hazards of its own, which the
plan names. The canary commands beside it are one-shot tools.
`process_event` is a sequence of checks of one thread: its results are a choice in
`ExecutionIntents`, its duplicate guard, end-of-day gate and market order are actions
of `PendingOrders` and `PositionLifecycle`.

## 7. Plan

1. *(done)* `ExecutionIntents`, `IntentDelivery`, `RuntimeModes`,
   `OperatorCommands`, `PendingOrders`; first theorems.
2. *(done)* `PositionLifecycle`, `SignalRuntime`, `BarEvents`, `NotificationOutbox`.
3. *(done)* Proofs of every safety property, action property and refinement of the
   passing runs.
4. More to prove: that the variables history is kept in never feed back into the code's
   own state, and what the exceptions of the properties (`late`, `window`, `presumed`,
   `stray`) are bounded by, so that "except" says how often.
5. `TradeExecution` (dedup, circuit breaker, frequency reservation and intrabar guard
   inside `process_event`) and `StorageWriter` (channel queues and dead-letter files),
   if they earn a run.
6. `RecoveryRunner`: the cycle of the bounded recovery runner. Its handler takes no
   lock although quotes and tick batches arrive in the threads of two buses
   (`runner.py:177`), a trade may be executed without an answer (`execution.py:136`),
   a close skips the tickets a partial position list does not show yet
   (`runner.py:881`), and `last_reconcile_at` counts a list as fresh that was read
   before the fill (`exposure_ledger.py:61`). Worth stating: one position per step
   unless its outcome is unknown, no live position without a cycle, every cycle ends.
