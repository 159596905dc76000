# A TLA+ model of the WorkBuddy-PythonGO bridge

The bridge carries trade intents from a local agent to a futures broker. A
**Worker** (Python, SQLite, loopback RPC) validates and persists intents and
writes signed command files; an **Adapter**, a strategy inside the PythonGO
client, executes them with the client's native `make_order_req` and
`cancel_order` and writes acknowledgements and events back. Both sides may be
killed and restarted at any time, the only channel between them is a directory
of files, and an order sent twice, out of sequence, or without anybody knowing
is real money. The modules here model that part of the program, check it with
TLC on small instances, and prove the properties that matter most with TLAPS
for instances of any size.

Paths below are relative to `src/workbuddy_pythongo/` in the repository;
`adapter` is `assets/pythongo_embedded_adapter.py`, `DESIGN` is
`docs/DESIGN.zh-CN.md`.

## 1. Inventory

| Component | State | Operations | Talks to |
| --- | --- | --- | --- |
| Intents, command rows (`core.py`, `db.py`) | `trade_intents`, `child_orders`, `adapter_commands` | `submit_trade_intent`, `dispatch_pending_commands`, `cancel_order`, `request_sync`, P0 commands | command files; ingestion (same rows) |
| Ingestion (`event_ingest.py`) | the same rows, `inbound_events`, snapshots, heartbeats | `scan_once` over `command_acks`, `control_acks`, `events`; `reconcile_terminal_evidence` | ack and event files |
| File queue (`file_queue.py`, `security.py`) | folders, lock files | `write`, `consume` | Worker, Console, Manager, Adapter |
| Adapter execution (`adapter` 1459-1836) | `execution_journal`, `limited_auto_pause.json` | `_process_path`, `_execute_order`, `_execute_cancel`, `on_order`, `on_cancel`, `on_trade` | command files in, acks and events out, broker |
| Adapter threads (`adapter` 1738-1946, 1998-2016) | poll lock, tick queue, claimed files | `poll_commands`, `_queue_tick_dispatch`, `_drain_tick_dispatch`, `on_tick`, background loop | command files |
| Permits and protection (`core.py` 745-1302, 2069-2110; `worker.py` 49-87; `adapter` 608-799) | `system_state` (mode, halted, sessions, leases), `auto_permits`, `local_authorization.json`, `local_halt.json` | authorize, pause, resume, revoke, halt, clear halt, startup revocation, simulation lease | rows and two files per Adapter |
| Trade gate (`core.py` 630-733, 1364-1571; `futures.py`) | `trade_previews`, `approvals`, manual sessions, `market_signals` | preview, authorize, submit checks | snapshots, protection state |
| Reconciliation, connection sync (`reconciliation.py`, `connection_sync.py`) | `reconciliation_runs`, `reconciliation_required`, sync requests | `require_on_startup`, `scan_once` | snapshots, health, `request_sync` |
| Margin policy (`margin_reference.py`) | generation and hash per account, Adapter configurations | migrate, startup check | protection, files and rows |
| P0 probes (`core.py` 1751-2022; `adapter` 821-1065) | one-time authorizations, journals | queue, execute | as orders |
| Close split, signal engine | - ; `market_signals` | `split_order`; `persist` | - |
| Console, Manager, desktop, MCP server, bootstrap, doctor, config | - | operator interfaces and installation | RPCs, files |

What is hard, and so worth a model:

- **Interleaving.** The queue loop and RPC threads run
  `dispatch_pending_commands` on the same rows outside a transaction; several
  processes consume the same folders; the Adapter has a background loop, at
  times two, beside the client's callback thread.
- **Crashes.** Every step that touches both a file and a row, or a file and the
  broker, has a point between the two: publication and `DELIVERED`, journal and
  native call, handler commit and archive, claim and execution.
- **Order of messages.** Acks and events lie in different folders, which are
  scanned one after the other; their files are named by the time of writing.
- **Uncertainty.** A submission may raise, return nonsense, or be cut off; the
  answer `SUBMIT_UNKNOWN` must surface and must stop automatic trading.
- **Expiry.** Commands expire after their TTL, answers after 24 hours.
- **Authority in two places.** A permit, a session, a halt is a row and a file
  per Adapter; Worker threads, the runtime loop and the console, a process of
  its own, change both, and not in the same order.
- **Stale judgements.** A trade is judged at the preview, before the submit, in
  its transaction and again by the Adapter; what is judged changes in between.

The hazards, each at its line and with the properties that cover it, are listed
in `PROJECT.json`.

What makes each component correct: orders are sent at most once, in the
sequence of the legs, and never lost from the Worker's books (pipeline); each
message takes effect once or is refused (queue); one executor, no command
forgotten (threads); after a halt, a pause, a revocation or a restart no new
order on the old authority (protection); previews, approvals and signals used
once, and nothing recorded on a grant taken back (gate); a run ends on evidence
newer than its start, a set flag has a run behind it, and a connected Adapter
gets synchronized (reconciliation); a probe sends one order, on its own
authorization (probes).

## 2. Modules

| Module | Models | Role |
| --- | --- | --- |
| `SequencedOrders` | - | abstract: what the bridge promises about one intent |
| `OrderExecutor` | - | abstract: what the pipeline relies on of the Adapter's threads |
| `OrderPipeline` | `core.py` 1573-1695, 2111-2140; `event_ingest.py` 191-331; `adapter` 524-534, 663-671, 1083-1111, 1561-1622, 1706-1836, 2024-2087 | rows, folders, Adapter, broker of one intent; implements `SequencedOrders`, and `OrderExecutor` in its executor |
| `OrderPipeline_proofs` | | its theorems |
| `Inbox` | - | abstract: what a consumed folder promises |
| `FileQueue` | `file_queue.py`, `security.py` 60-106, `event_ingest.py` 43-128 | one folder on the Worker's side; implements `Inbox` |
| `FileQueue_proofs` | | its theorems |
| `AdapterDispatch` | `adapter` 1726-1946, 1998-2016, and the outline of 1561-1637 | which Adapter thread executes which file when; implements `OrderExecutor` |
| `AdapterDispatch_proofs` | | its theorems |
| `OrderStatus_proofs` | | further theorems about `OrderPipeline`: what the rows say, and what is never forgotten |
| `Authority` | - | abstract: who may open positions with real money |
| `TradeProtection` | `core.py` 745-1302, 1405-1608 (grants and their ends), 2069-2109; `worker.py` 49-141, 230-276; `console.py` 52-523 (mode, halt, binding), 595-604 (core called in the console); `adapter` 695-799, 1459-1592 | rows, files and the three programs that change them; implements `Authority` |
| `TradeProtection_proofs` | | its theorems |
| `CloseSplit` | `close_split.py` | the legs of an order, as operators |
| `TradeGate` | `core.py` 596-981, 1139-1311, 1364-1695; `futures.py` 76-227 | previews, grants and submits of several threads |
| `TradeGate_proofs` | | its theorems, and those about `CloseSplit` |
| `ConnectionSync` | `connection_sync.py`, `reconciliation.py`; `core.py` 208-232, 1710-1749, 2055-2067; `adapter` 1639-1724, 1795-1836, 1958-1995 | fresh snapshots after a connect, and reconciliation runs |
| `ConnectionSync_proofs` | | its theorems |
| `ValidationProbes` | `core.py` 1751-2022; `adapter` 821-1065, 1795-1836 | the single orders that validate a broker's mapping |
| `ValidationProbes_proofs` | | its theorems |
| `MC*` | | values of the constants for TLC |

The exact lines of each definition are in `PROJECT.json` under `map`.

The modules rest on each other. `TradeGate` ends where an intent is recorded
and `OrderPipeline` begins there; `TradeGate` decides on the grants in the
database, and `TradeProtection` follows them into the files and to the
Adapter's last check, which `OrderPipeline` takes as one verdict
(`PassFinalRisk`). `ConnectionSync` is where the reconciliation flag and the
snapshots come from that the gate reads as arbitrary. `OrderPipeline` takes the ingestion of a
message as one step that happens at most once; `FileQueue` with `Inbox` shows
it, and `AppliedInOrder` of its proofs that messages published in the order of
their names take effect in that order, as the pipeline's `acks` and `events` do.
`OrderPipeline` has one command executor; what it relies on is `OrderExecutor`:
one order at a time, journalled once, called at most once and behind a journal
of the same execution, and put down by nothing but the end of that execution.
`ImplementsOrderExecutor` of `OrderPipeline` says that its executor is one,
`ImplementsOrderExecutor` of `AdapterDispatch` that all the threads of an
instance alone on its folders are together one; `ExecutionKeepsFile` adds that
the file stays claimed meanwhile. Both refinements are proved.

### OrderPipeline

One intent with `N` legs (a close split into today's and yesterday's
positions), from the transaction that persists it to the broker and back.

- *Worker rows*: `intent`, `child[c]`, `command[c]` are the three `status`
  columns. `SubmitTradeIntent` is the transaction of `submit_trade_intent`
  after its checks: leg 1 `PENDING_DELIVERY`, the others `BLOCKED_SEQUENCE`.
- *Dispatch*: a thread `d` reads the pending rows (`DispatchScan`, `batch[d]`),
  publishes a file (`PublishCommand`) and then updates its row (`MarkDelivered`,
  `unmarked[d]`). Each is a step of its own, as in the code, which reads outside
  a transaction; `DispatchFails` is an exception on the way.
- *Queue*: `files[c]` counts the copies of `c`'s command in the folder, `acks`
  and `events` are the two folders in the order of their file names.
- *Adapter*: `step`, `current`, `result` are where the executor stands in
  `_process_path` and `_execute_order`. `AnswerFromJournal`, `PassFinalRisk`,
  `RefuseCommand`, `WritePreSubmit`, `MakeOrder`, `JournalReturn`,
  `ReportUncertain`, `AckJournal`, `PostSubmitFailure`, `ReportException`,
  `RetireFile` are the stretches between two effects on files or on the broker.
  `StorageFailure` is a failed read or write at any of them, `AdapterRestart` a
  kill. In `ReportException` a journal that exists but cannot be read counts as
  none (`adapter:1813-1816`), so that an order the broker has may be answered
  ADAPTER_REJECTED after a failed read; `OrdersAreAccountedFor` is stated for
  runs without failed reads and writes, the other properties hold there too.
- *Broker* (external): `make_order_req` may return an order id, `-1`, something
  else, or raise, with or without the order having been placed; `BrokerUpdate`
  moves an order on and reports it as `on_order` and `on_cancel` do.
- *Ingestion*: `IngestCommandAck` and `IngestOrderEvent` are one handler
  transaction each; `RecordStatus`, `Advance` and `Aggregate` are
  `_command_ack`/`_order_event`, `_advance_sequence` and `_aggregate_intent`.
  Acks are consumed in order, events in order, the two in any relative order.
- *Restart of the Worker*: loses the dispatchers' memory and runs
  `reconcile_terminal_evidence`.

Abstracted: `_final_risk` is one verdict; prices and volumes are left out;
SIM_SIGNAL goes the way of MANUAL_LIVE; one intent, as intents share no row the
handlers write.

### FileQueue

One folder. `BeginScan` takes the lock and lists, `Validate`,
`DeadLetterInvalid`, `Handle`, `DeadLetterRejected`, `Archive`, `EndScan` are
`_consume_locked` cut at each effect. `Interrupted` is a kill or an exception
other than `BridgeError` at any of them: the scan ends, the OS releases the
lock, the file stays. `ReadFails` is a read that fails, which the code treats
as an invalid message. A file is a heartbeat, another message, one that
validation refuses, or one that the handler refuses. Stamps of heartbeats, file
names and publications come in any relative order.

### AdapterDispatch

The threads of an instance: the client's, which polls in `on_start` and
`on_tick` and drains the tick queue, and its background loops. Two loops stand
for the loop that `on_stop`/`on_start` gave up waiting for after two seconds.
`BeginPoll`, `ListFolders`, `SkipPath`, `QueueForTick`, `TakePath`, `EndPoll`
are `poll_commands`; `DrainTick` is the tick; the steps from `FileVanished` to
`Retire` are the outline of the execution. `ReadFault` is the branch of
`_queue_tick_dispatch` in which the polling thread executes an order itself.
Abstracted: `max_batch` is not reached; a tick of the right contract is the
choice of a pending file.

### TradeProtection

One account's authority to open positions.

- *Rows*: `mode`, `halted`, `kind`, `generation`, `live`, `manual`, `window`
  are the values of `system_state`, the permits that are ACTIVE or PAUSED, and
  the approvals or sessions not used up, and the time left to `live_until`.
  `WithdrawAll` with `NextGeneration` is what every stop does in its
  transaction.
- *Files*: `authorization` is `local_authorization.json` (nothing, the
  simulation lease, a manual window with the time it has left, a permit with its
  generation, or a pause of one), `haltFile` is `local_halt.json`, `diskMode` the configuration the
  Adapter loads at its start.
- *Transaction and file apart*: an operation of the Worker that writes a file
  after its transaction leaves the write in `pending[a]`; `WriteAuthorization`,
  `WriteHalt` do it later, `WriteFails` and `Abandon` never. `PauseFile` writes
  the file inside the transaction, as the code does, which then commits or
  fails; `pausing` is that transaction, and no other one commits meanwhile
  (`Commit`), while files may be written. `RefreshLease` is the loop's decision
  and its write apart.
- *Time*: every manual grant sets `window` and writes a file for a length of its
  own, and `TimePasses` shortens the window, the file, and the files still owed;
  so a file may outlive the window that a later, shorter grant has set.
  `PermitExpires` ends a permit with its files, which carry the row's
  `expires_at`; `LeaseExpires` and `ManualEnds` (the approval's or the session's
  own end) come at any time.
- *Console*: `console` is where `set_mode`, `clear_halt`, `enable_first_trade`,
  `bind_investor`, or core's `halt` or `approve-preview` called in the console's
  own process (`CORE`; also while the Worker is down) stands; each file and each transaction is a step, and a
  kill may come at any of them. `enable_first_trade` is one step: its files are
  written under the lock of its transaction.
- *Process*: `Start`, `Stop`, `Exit`, `WorkerKilled`; the startup revokes before
  it serves, the shutdown while calls may still be answered.
- *Adapter*: `Check` is the part of `_final_risk` that reads the two files,
  `CallOrder` the call that follows it, with a gap between them.
- *History*: `authorizationMark`, `haltMark` tell which of the known races made
  a file differ from the rows, so that `OnlyGrantedOpenings` and
  `HaltReachesAdapter` say that there is no other; `overtaken` are the actors
  behind whose grant another transaction committed before their file was
  written; `epoch` is the generation of
  the last startup; `lateOpenings` counts openings during a halt.

Abstracted: health checks of a grant may come out either way; a POLICY_REVIEW
protection is a `Halt`.

### TradeGate and CloseSplit

A call is `PreviewTrade`, `Preflight` followed by `SubmitTradeIntent` (the
judgement before and the one inside the transaction of `submit_trade_intent`),
or a grant. `op[t]` is what thread `t` is to do next; `PAUSE` is the pause that
follows serious refusals, in a transaction of its own. `Reasons` is
`_build_current`: the reasons `build_preview` and `_check_gate` return, kept as
sets of the code's reason names; `Material` is what the fingerprint is taken
of. `CloseSplit.SplitOrder` is `split_order`. Around the calls grants are given
and withdrawn; the window, a session and an approval each end at a time of their
own; the mode changes, the Worker restarts, snapshots age or are replaced, the connection is lost, and intents progress through the statuses
that `OrderPipeline` gives them. `given` is a history of the grants given and
not taken back, so that `CoveredByGrant` does not look at the rows the code
itself looks at.

Abstracted: of the figures of a risk decision the position, active orders, the
day's orders, the connection and the permit's budget are kept; prices, funds,
margins and trading windows are compared in the same places. One instrument,
long positions.

### ConnectionSync

- *Adapter*: `TakeSync`, `RefuseSync`, `Emit` (account, then positions),
  `AckSync`, `Archive`, `SyncFails`; started and stopped at any time, with a
  session id of its own.
- *Worker*: `SyncWaits` and `SyncRequests` are the branches of
  `AdapterConnectionSync.scan_once`, `Ingest` a pass of the ingestion,
  `Dispatch` the delivery, `Reconcile` the transaction of
  `Reconciler.scan_once`, `RestartWorker` a kill with `require_on_startup`.
- *Time*: timestamps are only compared with the creation of the loop's command
  and the start of a run. So a snapshot stands for its marks: 0 (`Sync`) for the
  loop's command and the numbers of the runs that existed when it was captured.
  `flight` and `evidence` hold, for each kind of snapshot, the marks that are on
  their way and those that are in the database. `timer` says which of the retry
  interval and the command's life have passed, where the code asks for it.
- *Runs* are numbered in the order of their start. `OPEN` is REQUESTED and
  WAITING_FOR_SNAPSHOTS, which the scan selects alike. Whether an order is
  active when the code asks is arbitrary: orders come and end as in
  `OrderPipeline`. A run in MANUAL_REVIEW is not taken up again, so that the flag
  may stay set behind it until the operator requests another: `TypeOK` says
  which runs may be behind a flag, no property promises that it is cleared.
- Superseded commands and those of others are `OTHER`: what they bring counts
  as evidence too, as in the code, but their answers are not waited for.

Abstracted: one position event stands for the simple and the full one, which
`_emit_positions` writes together.

### ValidationProbes

`WriteAuthorization`, `InsertCommand`, `Deliver`, `MarkDelivered` are the
console's and the dispatchers' steps; a thread of the Adapter goes from `CHECK`
over `CLAIM` (the authorization file is taken away), `JOURNAL` and `CALL` to
its answer, for a test probe over the cancel; an error at any place leads to
`REFUSE`, the exception path of `_process_path`. There is one authorization
file for each kind of probe (`KindOf`), so that a second probe queued
overwrites the first one's. The gates may refuse at any time.

## 3. Runs

| Run | Configuration | Question | Bounds |
| --- | --- | --- | --- |
| `faults` | `OrderPipeline_faults.cfg` | submissions, journal, aborts, statuses and their truth, pause; sequence, as `SequencedOrders` | 2 legs, 1 dispatcher, 1 kill, 1 failed write |
| `liveness` | `OrderPipeline_liveness.cfg` | is every deliverable command answered? | 2 legs, 1 kill, fair |
| `late_ack` | `OrderPipeline_late_ack.cfg` | is FILLED final? **no** | 1 leg, no fault |
| `second_copy` | `OrderPipeline_second_copy.cfg` | does a refused command stay refused? **no** | 1 leg, 2 dispatchers, no fault |
| `queue` | `FileQueue.cfg` | once, nothing lost, nothing acceptable thrown out, no collisions, everything retired; implements `Inbox` | 3 files, 2 consumers, 2 files per scan, 1 interruption |
| `dispatch` | `AdapterDispatch.cfg` | one executor, everything retired; the threads implement `OrderExecutor` (an order is called once) | 1 instance, 2 loops, 2 orders, 1 cancel, 1 kill or aborted poll, 1 read fault |
| `tick_cancel` | `AdapterDispatch_tick_cancel.cfg` | one trading call at a time? **no** | 1 instance, 1 loop, 1 order, 1 cancel |
| `two_instances` | `AdapterDispatch_two_instances.cfg` | does the claim keep two instances apart? **no** | 2 instances, 1 order |
| `protection` | `TradeProtection.cfg` | fencing of permits, halts and stale files, one late opening, restarts; implements `Authority` | 2 RPC threads, loop, main thread, console, Adapter, 3 generations, manual terms of 1 and 2, 3 commands of which 1 is on its way, 1 kill or failed write |
| `gate` | `TradeGate.cfg` | grants, budget, what was shown, single use, unknown outcomes | 2 threads, 2 previews, 3 requests, 2 positions, 1 permit of 1 order, 2 changes |
| `probes` | `ValidationProbes.cfg` | one authorized, journalled order per probe; honest refusals | 2 legs and 1 test probe, 2 of them queued, 2 threads, 1 copy at a time, 1 kill or failure |
| `sync` | `ConnectionSync.cfg` | is a connected Adapter synchronized, and does every run that was open before end? the runs behind the flag | 2 runs, 1 disturbance, fair |

Why these bounds are enough to meet the cases. Two legs are the least that have
a sequence, and a split close has two. One kill can fall between any two steps
of either process, and one failed write can hit any write, in combination with
the kill; both together give recovery that is itself disturbed. Concurrent
dispatchers are in `second_copy` and in the proofs, which hold for any number
of them, of legs, kills and failed writes. Three files with scans of two show a
scan that ends before the folder is empty and a file published meanwhile. Two
loops and the client's thread are all the pollers an instance can have.

`protection`: two RPC threads are the least that let a grant overtake a
revocation; with the loop, the main thread and the console every actor the code
has is there. Three generations allow a startup or a permit, and a stop and a
further grant after it. Terms of one and two are what it takes for one manual
grant to outlast another, in either order of commit and write. One command on its way is
enough for every property about what the Adapter lets through, and it is an
opening under the first or the second permit or a close without one;
`RestartFencesPermits` needs it to outlive a restart. The
threads are symmetric, and so are the previews of `gate`: no property of these
runs is a liveness property. `gate`: two threads with two previews race for one
signal (a request by hand has the signal of one of the automatic ones) and for
a budget of one order; two positions tell a close by today's volume from one by
yesterday's and give it one or two legs; two changes allow a grant to be
withdrawn and given back in another state between preflight and transaction.
`probes`: two legs overwrite each other's authorization, a leg and a test probe
do not. A copy can come again after it was taken, so a bound of one copy at a
time still gives repeated deliveries. `sync`: one disturbance, which may fall
on any step of either program; two runs share the flag, the older one ending
before the newer one or together with it. That the bounds do not hide a case of a safety property is what the
proofs of section 4 show.

Constants that are not bounds: `StatusMap` is the set of broker states the
Profile translates; `UsualStatuses` leaves out one, so that
`UNKNOWN_BROKER_STATUS` occurs.

`FileQueue.cfg` switches the deadlock check off: when all files are retired
there is nothing left to do. `OrderPipeline` and `AdapterDispatch` never stop,
the dispatchers and loops scan for ever. The four other configurations switch
it off because their bounds stop them: `TradeProtection` when the generations,
`TradeGate` when the previews and changes, `ValidationProbes` when the probes
and `ConnectionSync` when the runs and disturbances are used up. None of them takes a
lock that another of its steps waits for.

### Fairness

- `OrderPipeline`: weak fairness of each dispatcher's steps, of each ingestion
  and of the executor. `RuntimeLoop.run` and the Adapter's background loop
  repeat their scans for ever and catch what these raise. Nothing is assumed of
  the broker, of submitting, or of kills. `EveryCommandAnswered` is checked
  without failed writes: an ack whose write fails in the exception path is lost
  for good (`adapter:1834`).
- `FileQueue`: some consumer takes a free lock, and a scan that has begun goes
  on; bounded interruptions. Nothing is assumed of the writers.
- `AdapterDispatch`: a loop polls whenever the lock is free, whoever executes
  goes on, and strong fairness of the drain: the contract of a pending order
  keeps ticking, and every tick ends in its drain, also one that polled before.
  DESIGN states the delay without ticks as accepted.
- `ConnectionSync`: weak fairness of the heartbeat, of the ingestion, of the
  delivery, of the loop's scan, of the reconciler, which the maintenance pass of
  `RuntimeLoop` calls, of the Adapter's steps at a command and of time. Strong fairness of taking up, or refusing, the loop's
  own command: the Adapter goes through the control folder oldest file first,
  so that commands published later cannot keep it from this one. Nothing is
  assumed of kills, failures and delays, which are counted as disturbances: an
  answer that arrives while snapshots written before it wait for another pass,
  a heartbeat that ages while the Adapter runs, a life that ends while the
  Adapter could still answer. `RestartWorker` needs an unused run when it
  has to start one; at the bound it may be blocked, which takes away
  disturbances only.

## 4. Proofs

What the proofs establish, in a few sentences. For any number of legs,
dispatchers, kills, copies and failed writes an order is sent at most once, in
sequence, behind a journal that never goes back; what the Worker's rows say of
an order's end is true, no order at the broker is unknown to them, and no
command and no leg waits in vain, as far as safety can say that. A consumed
message takes effect once and in order. The Adapter's threads are one executor.
Nobody opens a position on authority that was taken back, but for the named
races of files. What is recorded was shown, granted and within its budget.
A reconciliation run ends on evidence newer than its start. A probe sends one
authorized order, and what it confirms is so.

All proofs are for every value of the constants under the named assumptions of
the modules: `NAssumption` (at least one leg), `BoundAssumption`s (bounds are
numbers), `FilesAssumption`s (files are positive numbers in the order of their
names; an order is not a cancel), `NoOneAssumption`, `LimitAssumption`,
`ActorAssumption` (the loop, the main thread and the console are different and
no RPC threads), `GateAssumption` (requests and positions are what the code
accepts; a permit allows at least one failure), `SyncAssumption` (bounds are
numbers) and `ProbeAssumption` (ids are not the other names used beside them).

The theorems that state a property of a run:

| Theorem | Property |
| --- | --- |
| `OrderPipeline_proofs!TypeCorrect` | `TypeOK` |
| `OrderPipeline_proofs!AtMostOnce` | `AtMostOneSubmission` |
| `OrderPipeline_proofs!JournalTruthful` | `JournalNeverDeniesOrder` |
| `OrderPipeline_proofs!AbortFinal` | `AbortIsFinal` |
| `OrderPipeline_proofs!Refinement` | `ImplementsSequencedOrders` |
| `FileQueue_proofs!TypeCorrect` | `TypeOK` |
| `FileQueue_proofs!AppliedOnce` | `AppliedAtMostOnce` |
| `FileQueue_proofs!NoCollision` | `ScansDoNotCollide` |
| `FileQueue_proofs!OnlyRefusedThrownOut` | `DeadLetterOnlyRefused` |
| `FileQueue_proofs!NewestHeartbeat` | `HeartbeatIsNewest` |
| `FileQueue_proofs!Refinement` | `ImplementsInbox` |
| `AdapterDispatch_proofs!TypeCorrect` | `TypeOK` |
| `AdapterDispatch_proofs!Serialised` | `OneExecutor` |
| `AdapterDispatch_proofs!Refinement` | `ImplementsOrderExecutor` |
| `OrderStatus_proofs!AgreesWithChildren` | `IntentAgreesWithChildren` |
| `OrderStatus_proofs!UnknownPauses` | `UnknownPausesAuto` |
| `OrderStatus_proofs!AccountedFor` | `OrdersAreAccountedFor` |
| `OrderStatus_proofs!ReportsTrue` | `ReportsAreTrue` |
| `TradeProtection_proofs!TypeCorrect` | `TypeOK` |
| `TradeProtection_proofs!NewestPermitLives` | `LivePermitIsNewest` |
| `TradeProtection_proofs!HaltsReachAdapter` | `HaltReachesAdapter` |
| `TradeProtection_proofs!OnlyGrantedOpeningsHold` | `OnlyGrantedOpenings` |
| `TradeProtection_proofs!AtMostOneLateOpening` | `OneLateOpening` |
| `TradeProtection_proofs!RestartsFencePermits` | `RestartFencesPermits` |
| `TradeProtection_proofs!KeepsAuthority` | `ImplementsAuthority` |
| `TradeGate_proofs!TypeCorrect` | `TypeOK` |
| `TradeGate_proofs!OneIntentPerSignalHolds` | `OneIntentPerSignal` |
| `TradeGate_proofs!BudgetKeptHolds` | `BudgetKept` |
| `TradeGate_proofs!CoveredByGrantHolds` | `CoveredByGrant` |
| `TradeGate_proofs!ApprovedAsShownHolds` | `ApprovedAsShown` |
| `TradeGate_proofs!UnknownStopsAutoHolds` | `UnknownStopsAuto` |
| `ConnectionSync_proofs!TypeCorrect` | `TypeOK` |
| `ValidationProbes_proofs!TypeCorrect` | `TypeOK` |
| `ValidationProbes_proofs!OrdersAreAuthorizedHolds` | `OrdersAreAuthorized` |
| `ValidationProbes_proofs!HonestLegsHold` | `HonestLegs` |

Theorems whose statement no run lists, because a listed property implies it or
because it came out of a proof. TLC checked each of these formulas on the bounds
of its module's run before it was proved. Without the order of publication
`AppliedInOrder`, and with a failed write `NoCommandForgotten`, is false: TLC
finds the counterexample.

| Theorem | What it says |
| --- | --- |
| `OrderPipeline_proofs!InSequence` | `SequenceRespected`: a later leg is submitted only behind filled ones (the runs have it in `SequencedOrders`) |
| `OrderPipeline_proofs!ExecutorRefinement` | the pipeline's executor is an `OrderExecutor` |
| `AdapterDispatch_proofs!OrdersCalledOnce` | `CalledOnce` (the run has it in `OrderExecutor`) |
| `AdapterDispatch_proofs!ExecutionKeepsFile` | an order in execution keeps its claimed file until its executor retires it |
| `AdapterDispatch_proofs!LockNeverLost` | a held poll lock has a holder of its own instance that is still in the poll |
| `OrderStatus_proofs!JournalForward` | an execution journal is opened once, closed once and never changed or removed |
| `OrderStatus_proofs!NoCommandForgotten` | a published command is answered, or in the folder, or in execution, unless a write failed |
| `OrderStatus_proofs!NoLegStranded` | no leg is held back behind one that has ended |
| `FileQueue_proofs!AppliedInOrder` | files published in the order of their names take effect in it |
| `TradeGate_proofs!SplitLegs`, `PreferredFirst` | the legs add up, close what is there, and take the preferred offset first |
| `ConnectionSync_proofs!AnswersBringSnapshots` | a sync answered `SYNC_COMPLETED` has brought both snapshots, or they are on their way |
| `ConnectionSync_proofs!RunsEndOnEvidence` | a run that is over has evidence captured after its start |
| `ValidationProbes_proofs!ConfirmationsHold` | an acknowledged probe order is one the broker has |
| `ValidationProbes_proofs!JournalForward` | a probe's journal is opened once and goes forward only |
| `*_proofs!Inductive` | the inductive invariants themselves |

**OrderPipeline.** None of the properties is inductive: that the order entry is
called once says nothing about a state in which the executor stands before the
call of an order already journalled. `IInv` adds two parts. `SubmissionInv`
ties the executor's position to the journal and the broker: before the call
there is no journal or just `PRE_SUBMIT` and no submission; after it there is a
journal for good. `ReleaseInv` is about the sequence: the two tables agree on
what is held back, whatever exists of a command outside its row (a file, a
dispatcher's memory, a journal, an ack, an event) exists only after its
release, releases go in the order of the legs, and a leg is released only when
the broker has filled its predecessors, which in turn follows from events that
say FILLED being true. The lemmas treat the reads of the sequence (`Advance`,
`Aggregate`) once, then one step per action. `Refinement` uses `AtMostOnce` and
`InSequence`'s invariant to map `MakeOrder` to `Attempt`. `ExecutorRefinement`
maps the step to `PRE_SUBMIT` to `Journal`, the call to `Call` and every return
to `IDLE`, a kill included, to `PutDown`.

**FileQueue.** `IInv` says that a message is applied exactly when it is
recorded, that only recorded messages are archived, that the files a scanning
consumer has listed are still in the folder, and that it is past its handler
only at a recorded message. The last two hold because only the holder of the
lock scans (in `TypeOK`). The first file of a listing exists by well-founded
induction over the naturals. `AppliedInOrder` takes any set of files that are
published in the order of their names (`InLine`): `Frontier` says that what a
scan has not handled includes everything of the line up to its last file,
because a listing of the first files by name leaves out no earlier one
(`ListedIsPrefix`, by cardinalities).

**AdapterDispatch.** `Locking`: who walks a listing holds the poll lock; who
executes holds it too, and is then at a cancel if ticks have the orders, or is
the client's thread in a tick. Two threads at an order would both be the holder
or both the client. `Journalled`, for an instance alone on its folders, puts
the journal between the look at it and the call; it needs `OneExecutor` to
exclude that somebody else journals or calls the same order meanwhile.
`Refinement` composes the threads: at most one holds an order, so that the
steps of all of them are those of the one executor, and a kill puts down
whatever was held. `KeepsFile` and `LockHeld` are inductive beside it.

**OrderStatus.** On top of `OrderPipeline`'s invariant. `AggregateInv` adds
that an intent only persisted has children nobody has written since, which
makes the update after the first delivery right. `PauseStep` follows the answer
`SUBMIT_UNKNOWN` from the executor's `result` to the ack folder and the row:
each stands behind a pause already written. `AccountedFor` needs the most:
`Owed` says who still has something to tell about an order, an unfinished
execution or a file still in the folder, and `Told` what waits in the two
folders; `Accounts` says that an order at the broker is shown by its row, or
told, or owed, unless a failed write lost it. `JournalInv` and `TruthInv` carry
`ReportsAreTrue`: every row, every ack and every event on its way is true of the
order at the broker and of the journal it came from, and what is true of an
order stays true of it, so that late and repeated messages can make a row old
but not false; the intent's part then follows from `AggregateInv`.
`NoneForgotten` and `NoneStranded` are the safety half of
`EveryCommandAnswered`. The first follows a command from its publication, before
the row says DELIVERED, to the answer in the folder or in the row; only a failed
write can end that trail. The second says that every end of a leg lets go of the
next one in the same transaction, including ends that arrive twice or late.

**TradeProtection.** `Inv` joins four of the properties with `Late`, `Fenced`,
`Clearing`, `GrantsStand` and `PauseWrote`. `Late`: an opening past the check and a counted one exclude
each other while the halt file is set. `Fenced`: where a permit of before the
last startup may still be found, namely in the authorization file until the
startup has removed it; whoever owes a permit's file has taken a newer
generation. `Clearing`: while the console ends a halt nothing is granted, so
that what it writes last opens nothing. `GrantsStand`: the file a grant still owes
says no more than its rows, and for no longer, until somebody else commits a
transaction; that survives the passing of time because the window and the file
are shortened alike (`PassStands`). `PauseWrote`: what is written while a pause
holds the database is marked or backed. `OnlyGrantedOpenings`, which none of
these alone implies, is then followed through every step that changes a row, a
file, or the time left. `KeepsAuthority` maps `live`,
`manual`, `window`, `mode` and `halted` to the holder; a generation taken
without a permit in force is `Skip`.

**TradeGate.** `Inv` adds to the types that the calls under way are well formed
(`Shape`) and that no grant is in force that was not given, or was taken back
(`GrantsGiven`): the rows and the history agree. `BudgetKept` counts the
openings of a permit as a subset of what `auto_permit_usage` counts. The action
properties follow from what the transaction judged once more. `SplitLegs` says
for every action, volume, position and policy that the legs add up to the
volume, close no more than is there, and have the offsets asked for;
`PreferredFirst` that the other offset is used only once the preferred one is
exhausted.

**ConnectionSync.** `TypeOK` is inductive as it stands, with the runs behind the
flag (`RunsBehindFlag`): while reconciliation is required a run is open, or in
MANUAL_REVIEW, which only the operator's next request gets past; and when an
open run has lost its flag, another one COMPLETED. `TypeOK` does not say that a
set flag will be cleared, and with a run in MANUAL_REVIEW it need not be. `Inv` follows the loop's own command: it stays in
its folder while it is executed, so that a kill repeats it (`Kept`); only a
command the loop knows of is executed or answered (`Awaited`); a snapshot counts
only for a command or a run that was there before it (`Marked`); and the
snapshots are emitted before the answer is written (`Emitted`). So an answer
`SYNC_COMPLETED` stands behind both snapshots (`AnswersBringSnapshots`), which
is what keeps the loop from waiting for nothing, and a run that is over has its evidence (`RunsEndOnEvidence`). The
fairness of `Spec` is not used.

**ValidationProbes.** `Untaken`: an authorization that lies there was never
taken. So one thread at most is past the claim of a probe (`OnePastClaim`), and
`Stages` says what the journal and the broker have for each place it may be at.
`Sent` and `HonestLegs` follow; `Alone` holds of the probes that no two threads
worked on at once. `Truth` adds that whoever is about to confirm an order, from
its return value or from its journal, confirms one the broker has.

Only model-checked: liveness (`EveryCommandAnswered`, `EveryFileRetired`,
`EveryCommandRetired`, `SyncedAfterConnect`, `RunsEnd`), which is out of the
prover's reach. Every other property of the passing runs is proved.

## 5. Where the code and its documents differ

- `late_ack`: a status is written over a final one. A fill ingested before the
  ack of its submission is replaced by `SEND_RETURNED`, and the intent is ACTIVE
  again (`event_ingest.py:216`; DESIGN:1048-1056, 1867). A FILLED that has
  already released the next leg is not taken back: the sequence stays right.
- `second_copy`: a refusal leaves no journal, so another copy of the command is
  judged anew (`adapter:1562`; DESIGN:1144).
- `tick_cancel`: under TICK_DISPATCH cancels run on the polling thread beside
  an order in a tick (`adapter:1783`; DESIGN:556-561).
- `two_instances`: claimed files are fair game for every scanner
  (`adapter:1784`; DESIGN:543).

Seen while modelling, and not the subject of a run. Most are races that the
models contain and that the properties name as exceptions, or read off the code.

*Orders.* A journal that exists and cannot be read when an exception is
classified counts as none, and the order is answered ADAPTER_REJECTED
(`adapter:1813-1816`).

*Queue.* A message that is applied but not archived for 24 hours, or whose
transaction keeps failing that long, is thrown out as expired (`DESIGN:486`
wants failed ones kept), and so is one whose file could not be read once
(`file_queue.py:112`). The aborted scan of a failed transaction halts trading
(`worker.py:127`). The intent is QUEUED only after the publication of its first
command (DESIGN:497).

*Protection.* In each of these a file says more than the rows:

- the file of a revocation, a pause or another grant is overtaken by that of an
  earlier grant (`authorizationMark = "OVERTAKEN"`). With two manual grants,
  from RPC threads or from the console, a file for an hour may stay behind a
  `live_until` of a minute (`core.py:1435`, 1444): the Worker refuses new
  submits then, the Adapter still lets a queued command through;
- a permit's file is written between the file of its pause and the commit of it
  (`"PAUSED_OVER"`, `core.py:1225`);
- `clear_halt` writes `halted: false` after a concurrent halt has written its
  file (`haltMark = "CLEARED_OVER"`);
- `set_mode` removes the authorization files before its transaction, so that a
  grant or lease written in between stays (`"LEFT"`; DESIGN:1582);
- a kill, or a failed write, between a withdrawal and its file (`"LOST"`). The
  failure of a halt file is passed over.

A permit's generation, or the next start of the Worker, ends most of these; a
manual authorization file is not bound to a generation or a command. `revoke_limited_auto` in
MANUAL_LIVE removes the manual file while the session stays in the database.
`bind_investor` reads `halted` outside its transaction.

*Gate.* Orders recorded and not yet seen at the broker are not counted against
positions and concurrent orders, so two quick intents may pass these limits
together (a permit's budget does count them). A signal used before returns the
other preview's intent, and the approval stays unused. `authorize_manual_trade`
may move the end of the window of a session. The reasons of a stale preflight
may pause a permit granted since. A pause for another reason hides that the
failure limit was reached. The Adapter applies trading windows to closes, the
Worker does not.

*Probes.* The exception path answers ADAPTER_REJECTED for a test probe without
asking its journal, and for a leg whose journal cannot be read
(`adapter:1800-1836`). Two threads on one leg may cross between the journal and
the answer. The value `cancel_order` returns is not examined. A second probe
queued replaces the first one's authorization, and a command that finds another
one's authorization consumes it.

*Reconciliation.* A run started earlier that completes clears the flag while a
newer request waits. An open or reviewed run suppresses a new one at startup, so
that snapshots of before a crash may count. `ACTIVE_CHILD_STATES` lacks
REPORTED and UNKNOWN_BROKER_STATUS, which `ACTIVE_ORDER_STATES` of `core.py`
has. A refused or lost sync of `request_reconciliation` is not asked for
again, which is why `RunsEnd` speaks of the runs that are open when the loop has
yet to send its own command.

*Cancels.* The check for an earlier cancel never matches (`core.py:2042`), and
the ack of a refused cancel marks the child order REJECTED
(`event_ingest.py:210`).

## 6. Not modelled

- **The rows of a cancel.** Who executes a cancel, and when, is in
  `AdapterDispatch`. `cancel_order`'s command row and what the ingestion makes
  of a cancel's ack would have to be composed with the rows of `OrderPipeline`;
  the two observations above are what reading them gave.
- **Margin policy migration.** One sequential script: it puts the accounts under
  protection (a `Halt` of `TradeProtection`), rewrites configuration files, and
  stores generation and hash in one transaction. A kill in between leaves files
  and rows that differ, which `ensure_margin_policy_state` refuses at the next
  start. The rest is the text of configuration files, CSV and reference pages.
- **Risk figures.** Prices, funds, margins, spreads, trading windows and quote
  ages of `futures.py`: comparisons of decimals, made in the places where the
  modules have a verdict.
- **Signal engine.** It computes indicator signals and is called by nothing in
  the package.
- **What the client returns**: parsing and mapping of the broker's objects, the
  Profile's validation evidence, ticks and trades, which are stored and read by
  queries only.
- **Interfaces and installation**: MCP server, HTTP and authentication, desktop,
  Manager, doctor, bootstrap, configuration validation, exports and queries.
  They keep no state of their own that the running system shares.
