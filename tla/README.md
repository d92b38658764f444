# bot-ea: specifications and proofs

TLA+ models of the gold trading engine, model-checked with TLC, with theorems
checked by TLAPS. Paths like `GoldEngineRuntime.mqh:425` are relative to
`src/mt5/Include/bot-ea/` (MQL5) or `src/src/` (Python).

## 1. The system

The native engine trades gold on MetaTrader 5 for two isolated profiles: GOLDI (a demo
account with approved Telegram subscribers) and GOLDM (production, for
administrators only). Each profile has a terminal of its own with one expert
advisor in it. The Telegram side and the panel run as separate Python processes;
expert and processes share nothing but files. Beside it `goldm_signal` manages broker
positions of approved signals from Python, over a SQLite ledger that several of its
processes share.

| Component | State it keeps | Operations | Interacts by |
|---|---|---|---|
| Expert (`GoldEngineRuntime.mqh`, `...ExecutionBroker.mqh`, `...BrokerContext.mqh`, `...ExecutionGuard.mqh`) | expected position, order authority, ownership conflict, gate, health | start and recovery, ticks (signals), timer, trade transactions, deinitialisation | calls to the broker, callbacks from the terminal |
| Position state store (`...PositionPersistence.mqh`) | two checksummed files with a generation | Load, Save, Clear | called by the expert |
| Outbox (`...Outbox.mqh`) | an append-only spool file | Emit | the file, read and rotated by the bridge |
| Event store (`gold_event_bridge/store.py`) | SQLite: events, spool offsets, rejected lines, deliveries | ingest, compact (rotate), recover | spool files, database |
| Delivery (`gold_event_bridge/bridge.py`, `cli.py`) | delivery state per event and chat | deliver_pending, the process loop | database, subscriber file, Telegram |
| Entry gate (`...EntryGate.mqh`, `gold_orchestrator/entry_gate.py`) | session file, command file | start a session, refresh, status, set_enabled | two files |
| Orchestrator (`gold_orchestrator/runtime.py`) | desired state, subscribers, update offset, children, back-off | poll Telegram, handle commands, supervise workers | processes, state file, Telegram |
| Bar scheduler (`...Scheduler.mqh`) | the opening of the forming bar per frame | Initialize, Poll | called by the expert each tick, reads the terminal's bars |
| Bear strategy (`...BearIncremental.mqh`, `...BearPersistence.mqh`) | phase, setup, windows of bars, a sequence number; two state files | OnBarClose, Save, Load, SeedClosedHistory | called by the expert, two files |
| Revised strategy (`...RevisedSetup.mqh`, `...Runtime.mqh:712-845`) | a watch per side, what was consumed, the last bar classified | Update, Consume, SeedWarmup | called by the expert after each M1 bar |
| Broker position manager (`goldm_signal/notify/position_manager.py`, `trade_lifecycle.py`, `storage/database.py`) | executions, rows of `position_actions` with leases and attempts | plan, claim, fence, send, answer, reconcile, repair, close, cancel on a terminal event | SQLite between processes, MetaTrader's Python API |
| Portfolio worker (`gold_portfolio/worker.py`) | seen signals, open trades | run once per bar, announce | MetaTrader's Python API, state file, Telegram |
| Profiles, rules, reference engine, tools | bars, configurations, recordings | evaluate rules, validate, replay | offline, or called by the expert |

What makes it hard:

- The broker moves at any time, between two calls of one handler too: it closes
  (stop loss, target, stop-out), fills late, reissues tickets, answers
  ambiguously; other people move stops or open positions.
- Trade transactions are queued and arrive in no promised order.
- The terminal can die between any two steps; the expert then has only its two
  state files and the broker to go by.
- Spool and bridge interleave file operations with database transactions, and
  either can die in between; the file may be open when it is to be renamed.
- Telegram may accept a message without the bridge learning of it, or never
  accept one for a chat; it delivers an update again until its offset is confirmed.
- Panel and expert agree on the entry switch through two files that neither reads
  and writes in one step, and each restarts on its own.
- Bars close while a tick is handled: between two frames of one poll, between the two
  readings of one bar, between warm-up and the first poll. A signal is submitted before
  the strategy's state is saved, and saves fail.
- The broker manager's processes share a ledger and nothing else. One that stalls past
  its lease goes on with the row it holds; an order that timed out may be filled, and the
  position may appear in the broker's list only later.
- The orchestrator's one thread handles commands, supervises and alerts; a call that
  raises ends the update or the whole loop. Workers outlive it when it dies.

What correct means, per component: the store never loses a state it acknowledged;
the expert never keeps its authority over something it cannot account for, and
reports each position's life once and in the end; the spool loses no event
but for a short write, and keeps their order; delivery tells everybody entitled, nobody else, and repeats a
message only for a fault; the entry gate is open only for the session and by the
command the panel shows, and an answered OFF holds; the orchestrator forgets no
command, starts nothing that is off, never runs two children of one worker, and
brings back what is on; each closed bar is dispatched once and in order, each setup is
signalled once, and nothing that happened before the start is traded; the broker manager
sends no order twice, calls nothing failed or over that may still be open, and closes
what is past its holding time. Everything in the code that is hard to test is listed
with its line and the properties that cover it under "hazards" in `PROJECT.json`.

## 2. Modules

| Module | Models |
|---|---|
| `AtomicRegister` | abstract: one register, overwritten atomically; what a Save cut short may leave |
| `PositionStore` | the two files behind it; refines `AtomicRegister` |
| `GoldEngine` | one expert with its broker; its store is an instance of `AtomicRegister`'s contract |
| `EventLog` | abstract: one append-only log, and the database rows, a growing front part of it |
| `EventSpool` | outbox, spool file, rotation, ingest and recovery; refines `EventLog` |
| `EventDelivery` | delivery to Telegram; takes its rows as `EventLog` promises them, in order, once |
| `EntryGate` | the entry switch of one profile: session file, command file, panel, restarts |
| `Orchestrator` | commands, desired state, worker processes, their locks and restarts |
| `SignalPath` | closed bars to signals: scheduler, dispatch, Bear machine and its files, Revised detector |
| `BrokerPosition` | one execution of the broker manager: ledger, leases, processes, broker |
| `MC...` | values for TLC |
| `..._proofs` | theorems and their proofs |

The composition follows the contracts: `PositionStore` is shown to implement
`AtomicRegister`, and `GoldEngine` takes `AtomicRegister!AfterSave` as the result
of every Save. `EventSpool` is shown to implement `EventLog`, and `EventDelivery`
receives the rows in the order of that log. `GoldEngine` has the entry gate as a
switch that changes at any refresh, which `EntryGate` details; `EventDelivery` has
the orchestrator's edits of the subscriber list as steps of its environment.
`SignalPath` ends where `SubmitSignalPlan` begins, with which `GoldEngine` starts: there
a signal may come at any time, and every second signal of one setup is one more.

### PositionStore

`slot` is what `ReadSlot` makes of each file (MISSING, INVALID, or VALID with its
generation and value), `call` the Save in progress. `OpenSlot` covers Load, the
choice of the next generation and the truncating FileOpen; `WriteSlot` payload and
checksum reaching the disk; `Return` the read-back, which may itself fail; `Crash`
the death of the terminal in between. A write cut short never gets to `WriteSlot`:
without a matching checksum the file reads INVALID.

When Save loads the two files to choose the next generation, any of them may be one that
cannot be opened (`hidden`), which `ReadSlot` takes for missing. Save is `misled` when what
it loads is not what the files hold, and the contract then fails in the code: if neither file
opens, generation 1 goes to file 1, is read back and acknowledged, and the next Load returns
the older state in file 0, whose generation is higher; if only the newer one does not open, it
is the file truncated. `AtomicRegister` excuses that call (`BeginMisled`) and no other.

### GoldEngine

`pc` says where the single-threaded expert is, `cur` what the running handler is
about. A handler is cut into steps wherever something else can happen in between:
`SubmitSignalPlan` (recovery and the early returns), `Preflight` (both validations
of `Submit` and the authority test), `SendOrder` (PositionOpen: what the broker does
and what it answers are independent), `ReconcileSignalPosition`,
`PersistSubmittedPosition`, `EmitTransition`. `Recover` is `RecoverOwnedPositions`,
one disjunct for each of its outcomes; `ReconcileClosingDeal` likewise.
`OnTradeTransaction` takes any queued transaction, and a closing deal that
`HistoryDealSelect` does not find is handled like any other transaction. `pc = "tick"` is
the loop of `OnTick` between two of its closed bars (`NextBar`, `EndTick`): `m_data_healthy`
is tested before the first bar and at none after it, so that a signal of a later bar is
sent although an earlier one failed (`DataFault` from "tick"; a Bear save at
`GoldEngineRuntime.mqh:878`, say). `SubmitSignalPlan` tests it nowhere.
The broker's actions (`FillLate`, `ClosePosition`, `PartialClose`, `ModifyPosition`,
`Reticket`, `ForeignPosition`) are enabled at any time. A position of `Lots` lots can be
closed in part as often as lots are left; `partials` counts it (history), and
`ReportedOnce` compares what was told with it.

Abstractions:

- The expert's Saves and Loads see what the files hold (none is misled).
- Prices are a geometry (as sent, or moved), volumes are lots, tickets say whether
  they were reissued, position identifiers are the number of the signal whose order
  opened the position.
- The loop over positions in `DiscoverOwnedPositions` is one step.
- `told` counts calls of Emit; what becomes of a call is `EventSpool`'s subject.
- A failing OrderCheck or guard is one nondeterministic rejection; the guards on
  exposure and duplicates, which depend on the state, are kept exactly.
- `PositionExitBelongsToExpected` is its test on the identifier; its alternative, the
  ticket, holds only when the identifier does.
- `Crash` is also Deinitialize, which does nothing else to this state.
- State files of the first two formats (without an identifier) are not modelled, nor
  `ModifyOwnedPosition` and `CloseOwnedPosition`, which only test harnesses call.
- `Start` begins with order authority requested; without it nothing is ever sent.

### EventSpool

`files` holds the lines and whether the last is unfinished; a line is `whole` unless
something else was left unfinished before it. `Emit...` are the steps of the outbox,
`EmitCutShort` a short write or the death of the expert inside Emit. `written` is history:
the events that got a line of their own, in that order, which is the log of `EventLog`. The bridge's `pc`
follows `main`: `BeginLoop`, `RecoverFile` for each rotated file, `IngestSpool`, then
the compaction. `Ingest`, `ReadLine`, `CommitIngest` are `ingest_spool` with its
transaction (`tx`) open from the first line to the commit, so producer and crashes
interleave with every line. One profile's spool is modelled: the two have separate
keys and files and are served one after the other. Offsets are counted in lines, a
missing file is an empty one, random names are fresh numbers.

### EventDelivery

`Suppress`, `Enlist`, `Send`, `Record`, `Settle` are the steps of `deliver_pending`,
cut where the code commits or calls Telegram. `Send` separates what the chat sees
from what the bridge learns. The orchestrator edits the subscriber list at any time
(`EditSubscribers`); the bridge reads it once a loop, and an unreadable file is an
empty list: what such a loop settles, a subscriber approved since the last readable one
never gets. `ORDER BY chat_id` is any order. `Broken` chats never accept a message
(a blocked bot); a row enlisted for one is `Stuck`, and an event with as many older stuck
rows as the batch holds is `Starved`.

### EntryGate

A session number stands for the identity of one start (fingerprint, account,
`m_session_id`). `Start` and `WriteSession` are `CEntryGate.Initialize` cut where the
session file is truncated: in between `_read_session` finds nothing it accepts.
`Refresh` is what every tick and every timer does. On the other side the steps of one
update follow `poll_once`: `ReadSession` (or `Refuse`), `ReplaceCommand` (one
`os.replace`), `Answer`, `FinishUpdate`; `Crash` repeats the update. `seen` is what
`set_enabled` read and writes about later. `StatusEnabled` is `status().enabled`.
`fresh` and `told` are history: whether the gate was refreshed since the command
changed, and which press was last answered. The tester's branch of the gate, which
has no panel, is left out.

### Orchestrator

`pc` is where the one thread is, `hand` the update it handles (0: the loop itself),
`todo` the rest of the running `for` over workers. `desired` and `offset` are as
saved: `SaveDesired` changes both, because `poll_once` advances the offset in memory
before it handles an update and `set_desired` saves the whole state. `ApplyDesired` is
`start_worker` or `stop_worker`; the five `Supervise...` actions are the branches of
`supervise_once` for one worker. Calls that raise are `SuperviseFails`, `ApplyFails`,
`HeartbeatFails` and the raising case of `StopAll`: from an update the exception ends
the update (`finish`), from the loop everything (`stopping`, the `finally`). `Die`
ends the process without the `finally`, `Reboot` ends everything. After an exit on
request (`RequestStop`) the orchestrator is `left`, and only a person starts it
again; any other end leaves it `down`, for the scheduled task.

A worker is its processes: `live` are those that run, `child` the one the
orchestrator knows, `holder` the one with the lock; process identifiers are reused.
`due` is `_next_restart` as none, later or now. Left out: writes of the state file
that fail, health files and failure counts (they decide about alerts and how long a
restart waits), the confirmation card before a button's command, and subscriptions.

### SignalPath

Time counts M1 periods, and a bar is named by the moment it closes, so that the newest
closed bar and the opening of the forming one are one number (`Closed`). `Warmup`,
`InitScheduler`, `LoadBear` are `Initialize` in its order. A tick is `LookUnchanged`, or
`LookChanged` (iTime) and `Read` (CopyRates), for each of the four frames, then
`DispatchClosedBar`, `SaveBear` or `SaveFails`, and after an M1 bar the Revised sides BUY
and SELL, for each bar in `pending`. `BarCloses` is the market. It is not enabled between
a dispatch and the end of its evaluation, where the code reads no clock and no bar, and
what closes there may as well close right after. `bear` is the machine with the bars it
was fed, `slot` its two files, `revised` the detector's state. `Stop` is Deinitialize
(the globals survive when only the chart changes), `Crash` the death of the terminal,
within a save with the file whole, cut short or untouched.

Abstractions:

- What the prices say is a verdict. The strategy may find a setup, arm, enter or cancel
  whenever the code looks at new bars, and only then (`Accept`, `Arm`, `Enter`).
- Every period has a bar: weekends pass no time, and the 180 seconds of Load, the watch
  windows and their counts are small numbers.
- D1, which only feeds a history, the check of the UTC offset, the validation of a
  snapshot's cursors and the reporting of terminal decisions are left out.
- A file of an earlier run is `Old`: its bars no longer matter, its sequence does.

### BrokerPosition

A step is one database transaction with the broker reads that decide it, or one order
sent. `execution` is `trade_executions.status`, `row` and `owner` the ledger with its
leases. `pc` and `hand` say which step each process is at, with which row. `Plan`, `Enrich` and
`EnrichFails` write the intent and complete its message; `Terminal` is the setup's
terminal event. `Claim`, `Submit` (the fence), `Send` with its four answers, `Verdict`
and `Confirm` execute a row; the `Reconcile...`, `ManageFilled`, `QueueClose` and
`StageRepair` steps are the manager's loop. `Appear` shows a filled position late,
`BrokerCloses` and `Tamper` are the broker's and other people's doing, `Die` ends a
process. A lease may run out under a living process (`Claimable` with an outage), which
is what fences are for. The module's head lists what is left out.

## 3. Runs

| Run | Asks | Bounds |
|---|---|---|
| `position_store` | does the store implement the register | 3 values, 6 generations: each parity is overwritten three times, by Saves from which any of the files may be hidden |
| `engine` | all safety properties of the expert | 2 signals (one closed while the next is opened), limit of 2 positions of 3 lots, 2 faults, 1 meddling |
| `engine_live` | is a position that is gone released | 1 signal, 2 lots, 2 faults, 2 meddlings |
| `engine_close_told` | is every close told (comment at `GoldEngineRuntime.mqh:1248`) | 1 signal, no fault: **violated** |
| `spool` | is nothing skipped, what does a short write cost, are the rows the log in its order, and does every event of it become a row | 3 events, 3 writes, 2 rotations, 2 short writes or deaths of the expert, 1 crash of the bridge |
| `delivery` | audience, settlement, repeats, and does every administrator hear everything | an internal, an approved and a private event; 1 administrator, 2 subscribers of which 1 broken; batch of 1; 1 fault, 1 crash, 3 edits |
| `entry_gate` | do panel and gate agree, does an OFF hold and take effect | 2 starts of the expert, 3 presses, 1 crash of the orchestrator |
| `orchestrator` | commands saved, off stays off, no second child, desired workers run | 2 workers, 3 process identifiers, 2 commands of any kind, 1 exit, 1 call that raises, 1 death, stop or reboot |
| `broker_position` | one order per row, no failed or finished position that is open, terminal events answered (or stranded), ledger drained, holding time kept | 2 processes, 1 repair of the protection, 1 fault, 1 death or stall, 1 moved stop |
| `broker_unmanaged` | is every position of an authorised order managed (`trade_lifecycle.py:521`) | 1 process, 1 fault: **violated** |
| `signal_path` | each bar once and in order, each setup once, nothing of the warm-up, newest file loaded | 4 M1, 2 M5 and M15 bars, 1 H1 bar after the start; files missing or old; 1 failed save, 1 stop or crash |
| `signal_twice` | no duplicate signal after a restart (`BOT-EA-CODEX-GOAL.md:1434`, `:1443`) | the same: **violated** |

Why the bounds are enough: the store's behaviour depends on generations only through
their parity and order. Two signals give the expert an old and a new position, which
is what its memory, the duplicate guard and out-of-order transactions can confuse.
Two faults cover a crash and a failed call of the recovery after it. Three lots give a
position two partial closes, whose transactions may be queued at once, and the second
signal a bar after one that failed in the same tick. The runs of the expert have distinct
order comments; the theorems are about any (`Comment` is arbitrary), so also about two
signals whose ids end alike. A batch of one with a subscriber that accepts nothing is the
smallest in which rows are starved, and in which they are not while it is not listed; three
edits list it, list another one and take one out. Two rotations
cover a rotated file left behind by a crash together with a later rotation; three
writes give a line before, during and after one, and with three events a line that is
lost, repeated or out of order shows among the others; two short writes can spoil one line
each, or one and the same. Two starts give the gate a
session before and after a restart, three presses an ON, an OFF and a press after the
answer. Two commands give a worker an earlier and a later wish; three identifiers
are enough for a process lost by the death, one lost by a stop that times out, and a
child. Two processes are a stalled or dead one and the one that takes its row over, and
one repair row stands for a chain of them because the next is made only when the last is
confirmed. Four M1 bars with M5 and M15 bars of two periods let a setup be found, armed,
watched, entered and outlived, and let the H1, M15, M5 and M1 bars of one moment be
dispatched in one tick; a window of two bars has a first, a last and an expiry. One stop
gives an old and a new run; the files of three runs meet with two stops, the case
`LoadedIsNewest` excludes at sequence 0. That property was first stated of any start whose
machine equals one of the two files; four stops within ten minutes showed that a machine
seeded anew may equal a file of sequence 0 that an earlier start of the same minute wrote,
so it is now stated of starts that do not begin anew. The theorems below hold without any of these bounds.

The three violations are disagreements between code and documentation; "findings" in
`PROJECT.json` quotes both sides:

1. A close that happens shortly before another transaction (or a signal) is handled
   is cleared silently, and POSITION_CLOSED is never told.
2. When the message of a written OPEN intent cannot be completed, the execution is
   rejected over a ledger row that stays PENDING: the order goes out, and nobody manages
   its position.
3. A crash between the submission of a Bear signal and the save of the machine lets the
   restarted expert signal the same setup again.

Behaviour the models have and no run asks about, because no document of the repository
contradicts it or the properties are stated around it:

- Spool: after a short write the next acknowledged event is merged into a line the
  bridge rejects (`GoldEngineOutbox.mqh:101`): Emit answered true and no row follows.
  `LossIsExplained` bounds how often, and `SpoolInv` keeps a trace of the event.
- Delivery: as many rows that can never be settled as the batch limit starve all later
  events (`bridge.py:65`), for administrators too. `AdminsHear` names it as its one
  exception, and without it TLC finds the event that is never sent.
- Expert: an order is sent although `m_data_healthy` is already false, when a bar of the
  same tick set it (`GoldEngineRuntime.mqh:878`, `:1095`).
- Panel: a button pressed before the expert restarts acts on the new session, so a stale
  ON opens its gate.
- Orchestrator: after it died, an OFF is answered STOPPED by its successor while the
  worker it does not know runs on.
- Broker manager: when OPEN and its protection are both UNKNOWN the reconciliation takes
  OPEN first and confirms it under the wrong key (`database.py:1129`), so that the
  protection is never reconciled before the holding time is over; and
  `mark_position_action_unknown` is called with an argument it does not have
  (`position_manager.py:1636`), so that one crash leaves a loop that raises every cycle.
  A terminal event that finds an execution rejected over an order that is out (the second
  violation above) is answered ALREADY_TERMINAL and latches no close (`database.py:2732`):
  `Stranded`, the exception of `EventIsAnswered`.
- Scheduler: a bar that closes between iTime and CopyRates (`GoldEngineScheduler.mqh:80-95`)
  makes the next bar dispatched twice and skips one without a gap being noticed, which is
  what `late` excludes; a bar that closes between `Warmup` and the scheduler's start is
  never dispatched; the M15 bar of a moment is dispatched before the M5 bar.
- Bear: a snapshot restored within 180 seconds is not fed the bars that closed
  meanwhile. `Deinitialize` overwrites the newest file at the same sequence, and if
  that is cut short the older one is loaded. If the very first save is cut short, every later
  start is refused (BEAR_STATE_INVALID) until somebody removes the file. A failed save
  does not keep the tick's other bars from signalling. After a stale start sequences
  begin at 0 again: a snapshot of sequence 0 loses to an older one of sequence 1, and an
  old file with a higher sequence can make Load answer STALE although a fresh one lies
  beside it. `LoadedIsNewest` is stated around the first two of these.
- Revised: watches are not persisted (Snapshot and Restore of the detector are unused).
  A watch that survives a chart change makes `SeedWarmup` do nothing, and a bar of the
  warm-up is then classified; `NoHistoricalTrade` allows for that one bar.

Deadlock: `GoldEngine`, `EventSpool`, `EntryGate`, `BrokerPosition` and `SignalPath`
really may stop (no signal, nothing to write, an expert that is down or unhealthy, a
position that is over, the clock at its end, bounds used up); `PositionStore`,
`EventDelivery` and `Orchestrator` are checked for it.

Fairness: the expert's terminal dispatches what it has queued, runs a handler to its
end, is started again when down and unloads an expert whose start failed (weak
fairness of `Handlers`, `Start`, `Unload`); nothing is assumed of the broker, of
strategies or of people. The bridge process is scheduled and started again when it
dies (weak fairness of `Bridge`): it runs as a supervised service, and deaths are
bounded. Telegram's failures for chats that are not broken are bounded, which is
"eventually accepts"; nothing is assumed for broken ones. The expert writes or does
not write as it likes. The timer of an expert that is up refreshes its gate every
second, and `poll_once` goes on with the update in hand (weak fairness of `Refresh`
and `HandleUpdate`); presses and starts are not assumed. The orchestrator's loop goes
on and its scheduled task starts it again after a failure (`-RestartCount 999` in
`install-final-orchestrator-task.ps1`; weak fairness of `Loop`), but not after an end
on request (`StartByHand` has no fairness, and both liveness properties say so), back-offs end, and a
worker's process gets to its lock (`BackOffEnds`, `Process`); exits, exceptions and deaths are bounded, commands
are not assumed. The broker manager's jobs are loops that `notify/cli.py` starts again after
each round (weak fairness of `Step` for each process), the lease of a process that died
runs out, and a filled position shows up in the broker's list in the end (`Appear`);
terminal events, closes by the broker and other people are not assumed. `SignalPath` has
no liveness property and no fairness.

Every property of a passing run has a mutant of a mapped definition in `PROJECT.json`
that breaks it; the defects are the operators commented "Defect for a mutant run".

## 4. Theorems

All constants are arbitrary (bounds any natural numbers, sets of any size, also
infinite), from the named assumptions in the modules.

**Store** (`PositionStore_proofs`). `StoreInv` is inductive: a valid file's generation
has the file's parity (`ParityInv`), so the two files never tie and the one a Save
truncates is never the one Load returns; `InProgressInv` says what an unfinished Save
has done. From it: `SaveContract`, `NeverLosesState`, and the refinement of
`AtomicRegister`, step by step. Parity survives a misled Save, so that the next one that sees
its files is right again although generations have fallen back.

**Authority** (`GoldEngine_proofs`). `AuthorityInv` adds to `AuthorityMeansAccounted`
and `MemoryIsDurable` what holds on the way to PositionOpen (`FlatBeforeSend`: since the handler's look the order can only lose the
authority, and what came to the account has its transaction queued). None
of the three is inductive alone: that the account matches after a transaction rests
on memory being what the disk says, which rests on every failed Save taking the
authority away; and what is not accounted for yet always has a transaction still
queued. `SendsOnlyWhenFlat` follows; nothing in it is about `m_data_healthy`.

**Reports** (`GoldEngine_proofs`, second half). `OwnershipInv`: every position that broker,
memory or disk knows has a filled order, a closed one is known to none of the three,
and the order a handler works on is never a closed one. Then `ClosedIsFinal`, and
`NothingAfterClosed` as an action property. `ReportInv` relates the counts of events to
the orders and to the queue of transactions (partial closes queued, under way and told are
together no more than those that happened; a signal under way meets no position that was told opened) and
gives `ReportedOnce`. `AttributionInv`: in a run without faults and without an order that
filled after its rejection, an order that may still fill outside the handler that sent it
has taken the authority with it (`LooseInv`), so that the one position a handler adopts is
that of its own order; from it `OnlyLateFillsMisattribute`. It does not follow that the
misattributed position is itself the rejected one: that holds for two signals, and is
false for three, because the order of the signal that adopted it can be adopted in turn
under the next one. So the property names the late fill only as the cause.

**Spool** (`EventSpool_proofs`). `SpoolInv` says for each step of the bridge that what
it is about to rely on is recorded: the lines read so far are in the open transaction,
the offset to be restored is one the database covers, the file to be deleted is
recorded to its last line, the names of later rotations are fresh, and rejected rows
of a rotated file hold that file's lines. `NothingSkipped` and `NeverVanishes` follow.
`LogInv` carries the refinement of `EventLog`: what the tables lack of the log stands in the
files behind their offsets, in the order in which the bridge reads them (`InOrder`: within a
file from its front, and a rotated file before the spool), which rests on at most one rotated
file having anything new once the bridge gets to the spool (`SpoolIsLast`), and the open
transaction is a front part of the log as well (`ReadInOrder`). So a commit adds the next
events of the log, and every step maps to one of `EventLog` or to a stutter
(`SpoolImplementsLog`). `LossInv` gives `LossIsExplained`: each short write spoils at most one
line, and the debt passes from the torn file to the Emit that meets it and on to the event lost.

**Delivery** (`EventDelivery_proofs`). `DeliveryInv` relates the database, the messages
sent and the row in hand, whose deliveries rows include everyone of the list this loop
read; `NoLeakage` follows, and `SettledMeansTold` and `SettledIsFinal` as action properties.
`RepeatInv` counts what has to be excused by a fault (`Excused`: each repeat, and each message
that may be repeated because it was accepted and is not recorded): at most the crashes and
lost answers so far, which gives `RepeatsAreExplained`.

**Entry gate** (`EntryGate_proofs`). `GateInv`: while a new session file is being
written, what a handler read and what the command file says are about strictly older
sessions; an expert that is up has its own session published; and the command file is
never behind the last answer (`OrderInv`). So a command can match a session only with
the authority it was read with, which gives `PanelAgrees`, and a later press is needed
to undo an answered OFF, which gives `OffHolds`.

**Orchestrator** (`Orchestrator_proofs`). `SupervisorInv` alone does not carry the
saved commands: `UpdateInv` adds that until the first worker of a command is saved the
offset still names the command as the next one, and that the workers still to come
are the command's. With it `LatestCommandSaved` is inductive, which makes a worker
whose latest command is off not desired, so `OffKeepsOff`; `NeverAbandons` follows
from a start happening only when no child runs.

**Broker manager** (`BrokerPosition_proofs`). `BrokerInv`: a row leaves PENDING once,
under a lease, so that of all processes that hold it at most one is past its fence and
the row is no longer PENDING then; a row that is PENDING, FAILED or not created has sent
nothing that could still be open; and each status of the execution says what the broker
may hold. `EventInv`, a part of it, says of rows and execution what a terminal event
leaves behind. `OneSendPerRow`, `FailedMeansNoOrder`, `OverIsFlat` and `EventIsAnswered`
follow, and `RefusedIsFinal` as an action property. `EventIsAnswered` has the exception
`Stranded` and no other.

**Signal path** (`SignalPath_proofs`). Four layers. `StageInv` says where in its tick the
expert is: the bars collected are of different frames, those already polled. `MachineInv`
adds that every bar the machine in memory or in a readable file was fed had closed (a
remainder grows by one or starts again from one moment to the next: `NextRemainder`), and
that a polled bar is not before one the machine was fed; with it the windows hold through
every feed, restart and torn file, and `SignalInv` follows. On top of it, `OrderInv` (a bar
that is due is the next of its frame, and what has none due lacks none) gives `EveryBarOnce`;
`HistoryInv` and `WatchInv` (what is polled closed after the warm-up, and what is watched is
of this run or was taken over) give `NoHistoricalTrade`; `DetectorInv` and `SentInv` (a setup
that was signalled is not watched and is not later than what was classified) give
`RevisedOnce`, the first half of `OneSignal`. The last layer, `FilesInv`, is about the two
files and the machine in memory, which several runs may have written: their setups, and what
was signalled, are of a time before the run or before the machine's last bar (`DateInv`); of
two files of one setup the higher sequence is the later, and none is ahead of the machine in
memory (`TwinInv`); a setup is signalled once more for each save that did not reach the disk,
and where no more is allowed, a file that still watches it is outdated or the other file is
ahead of it, but for the signal just given and not saved yet (`TightInv`); and while no run
went on after a failed save, a snapshot that was saved last and is not of sequence 0 has the
higher sequence, or the other file is stale (`NewestInv`). It gives `SetupsAreSignalledOnce` and `NewestIsLoaded`.

`MemoryIsDurable`, `NeverLosesState`, `NothingSkipped`, `NeverVanishes`, `ClosedIsFinal`,
`SettledIsFinal`, `NeverAbandons` and `RefusedIsFinal` are proved and in no run, because each is a part or a consequence of
an invariant that is.

Only model-checked: liveness (`ClosedIsReleased`, `WrittenIsStored`, `AdminsHear`,
`OffTakesEffect`, `DesiredRuns`, `LedgerDrains`, `DeadlineCloses`), which is out of the
prover's reach. Every invariant and every action property of a passing run is a theorem.

## 5. Not modelled

- Price arithmetic: what a setup, an arming, an entry or a guard is in numbers
  (indicators, the rules of Bear and Revised, profiles, `ValidateExecution`). The models
  let each verdict fall either way whenever its inputs change.
- Message formatting, approval dialogue and confirmation cards.
- Of the broker manager: the stop changes at R1 and R2 and the close at R3, outbox and
  projection rows, `retry_position_action`, which nothing calls.
- The portfolio worker: its `execute` always answers SIGNAL_ONLY (`mt5_session.py:224`), so
  that it only announces, and its worst is an announcement lost or repeated by a crash.
- The research, import, deployment and log tools of `goldm_signal`, the reference engine,
  the validation and evidence tools, and the earlier Python runtimes: they run offline on
  recorded data and share no state with what trades.
- The lease and lock files themselves (exclusion is the operating system's), and writes of the
  orchestrator's state file that fail.

`PROJECT.json` lists each component with its reason.

## 6. Plan

Built in this order, the most important behaviour first: store, expert, spool,
delivery, entry gate, orchestrator, broker manager, signal path. What is left:

1. `BrokerPosition`: the R-milestones (MODIFY_SL rows and the close at R3) as further
   managed rows, and the outbox rows as the events of another `EventLog`.
2. `PortfolioWorker`: announcements remembered, sent and saved (`worker.py:164-239`).
3. `Orchestrator`: failing writes of the state file, the confirmation card of the
   worker panel, subscriptions as the environment of `EventDelivery`.
4. `GoldEngine` under the contract of a store whose Saves and Loads may be misled.
