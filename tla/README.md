# zcastor: specifications

TLA+ models of the parts of zcastor that keep state across threads, crashes and
time, the TLC runs that check them on small instances, and TLAPS proofs of the
properties that matter most. Paths below are relative to the repository.

zcastor receives trading signals over HTTP, judges each with a stack of gates,
sends an order, arms an entry to be filled later, or refuses, writes a record of
the decision, and has the record anchored on a chain. The records are the point
of the program: what was decided must be anchored, once, and never be lost.

## 1. Inventory

One process (`zcastor/app/server.py`) runs everything. `POST /signal` runs
`Engine.process` in a worker thread; five tasks of the event loop wake up in
turn, each handing its work to a worker thread: `_poll_closes` (20 s),
`_drain_outbox` (30 s), `_roll_sessions` (60 s), `_poll_watcher` (5 s),
`_resolve_outcomes` (60 s). Few objects have locks. Files: `outbox.jsonl`, the
anchor index, the resolver's pending list and outcomes, the published logs.
`zcastor/data/` (journal and edge ledger) is imported but is not in the repository.

| Component | Code | State | Operations | Talks to |
|---|---|---|---|---|
| Outbox | `anchor/outbox.py`, `anchor/base.py` | pending, parked, done, completed; the log | enqueue, drain, compact, replay, requeue | backend; called by engine, rollover, resolver, loops, shutdown |
| Repair script | `ops/scripts/repair_parked.py` | an Outbox of its own on the same file | requeue every parked entry | the log |
| Anchor index | `anchor/index.py` | signal to anchored row; a file of JSON lines | record_anchored, record_status, get | engine's callbacks |
| Chain backend | `anchor/nvnm.py` | transactions waiting at the node | submit, update | chain RPC |
| Engine | `execution/engine.py` | the current decision log | process, act, record, on_anchored, on_outcome_resolved, on_watcher_fill | everything |
| Orders | `execution/orders.py`, `binance_orders.py` | on MT5 the request under way, one name in the remote interpreter for all threads | market_order, close | broker |
| Booking | `execution/booking.py` | journal rows, close poller's retries | book a close, poll, reconcile | market, journal, ledger |
| Gates | `gates/*.py` | context, trace; fill cooldown, feed's last tick | run, evaluate | market, risk |
| Entry watcher | `entry/*.py` | armed entries, armed day | arm, poll, evaluate, fire, cancel | market, orders, engine |
| Market | `market/*.py` | per-decision cache | begin, get_* | broker |
| Records | `record/*.py` | the session's log, the published chain of logs | add, close, publish, supersede, restart | outbox, engine |
| Resolver | `resolve/resolver.py` | pending signals, outcomes, two files | register, resolve, abandon | market, engine |
| Classification | `resolve/classify.py` | none | classify the bars of a horizon | resolver |
| Risk and targets | `risk/*.py`, `targets/*.py` | zone entries, flip confirmations | check a zone, record an entry; stops and targets | gates, engine |
| Application | `app/server.py` | wiring, loops | start, stop, `/signal`, `/rollover` | everything |

What is hard in each, and what makes it correct:

- **Outbox**: no lock, called from several threads and a second process; a crash
  at any step; writes that tear or fail; a receipt that times out though the
  transaction is mined. Correct if nothing handed over is lost, nothing counts as
  anchored that is not, nothing is anchored twice without an explanation, and a
  restart rebuilds what was there.
- **Gate pipeline**: routes, suppressions, skips, advisory gates and exceptions
  interact in one loop. Correct if an order needs every gate's consent, an
  exception never gives it, and a refusal stays a refusal.
- **Gates**: each reads values that earlier ones put. Correct if the wired order
  never leaves one without. Some keep state that other threads change.
- **Entry watcher**: entries are armed by one thread and polled by another, share
  a cache that neither owns, and end in one of several ways that race. Correct if
  each entry becomes one position at most unless a result cannot be read or another
  thread's order comes between the two calls of its own, is filled only as its thesis
  allows, and never stays armed for ever.
- **Engine, index, resolver**: a record's life (queued, anchored, resolved) has
  callbacks on different threads and in two orders. Correct if every anchored
  decision whose outcome is known ends up resolved in both places.
- **Records**: decisions are added while the session's log is being closed.
  Correct if every decision is in exactly one live log.
- **Chain backend**: one account, whose transactions are mined in the order of their
  nonces; a receipt that does not come says nothing. Correct if retrying costs no more than
  a retry, and one record in trouble does not hold up the others for ever.
- **Booking**: positions may close, open or be unknown at any time, in part too, and the
  list of them is a cache. Correct if every trade is in the journal, and its whole result is
  booked once.
- **Stateful gates**: a stack limit and a zone memory are checked and updated in
  different steps of calls that overlap. Correct if what a signal was allowed for was true
  of something recent.
- **Targets, zones, classification**: sequential arithmetic with many branches whose
  adjustments undo each other. Correct if an entry lies between its stop and its target
  at whatever price, level and spread, and a verdict never flatters.

`PROJECT.json` lists these hazards at their lines, with the properties that watch them.

## 2. Plan

| Order | Module | Composes | State |
|---|---|---|---|
| 1 | `Outbox`, `OutboxProofs`, `OutboxPromise` | backend, loops, shutdown, repair script | done |
| 2 | `OutboxSchedule`, `OutboxScheduleProofs` | the drain loop, the chain's outages | done |
| 3 | `GatePipeline`, `WiredGates` | the server's gate stack | done |
| 4 | `PendingEntry`, `EntryWatcher` | engine threads, cache, broker, poll loop | done |
| 5 | `Lifecycle`, `LifecycleProofs` | engine's acting and recording, index, resolver, over `OutboxPromise` | done |
| 6 | `Rollover`, `RolloverProofs` | decision log, its three closers, publisher, manifest, restart | done |
| 7 | `Nvnm` | the chain's account, under `OutboxSchedule` | done |
| 8 | `Booking`, `BookingProofs` | two signals, the gates that remember trades, close poller, cached positions | done |
| 9 | `Geometry`, `Acting`, `ActingProofs` | targets and zones, behind the wired stack | done |
| 10 | `Judgement`, `Measuring`, `JudgementProofs` | the verdict, behind `Lifecycle` | done |
| 11 | `EntryWatcherProofs` | | done |

Abstract specifications: `OutboxPromise`, which `Outbox` implements and on which
`Lifecycle` builds; of `Rollover`, "every decision in exactly one live log" is what it
should implement, and does not (finding 3), so its properties state what it keeps. `Held`
in `Judgement`, a price that walks through the bars, is the reference for `classify`.

Left: the coherence histories (`risk/coherence.py`) and the caution statuses of `ZoneTracker`; what the
landing of an update does to a row's checksum (see the end of section 5).

## 3. Modules

### Outbox

| Model | Code (`anchor/outbox.py`) |
|---|---|
| `pending`, `done`, `parked`, `completed` | the object's fields. Entries stand for `PendingRecord`s, `KeyOf` for `dedupe_key()` |
| `disk`, `tail` | the log, represented by what `_load` rebuilds from its whole lines, and an unterminated last line |
| `Replay`, `Load` | `_replay`, `_load`. A fold over the lines, so appending a line applies `Replay` once to `disk` |
| `pc`, `arg` | a thread inside `enqueue`: three separate membership tests, the append, the insertion. `EnqueueRaises` is a table that changes while it is looked through, `EnqueueFails` a failed append |
| `dpc`, `batch`, `cur` | a drain: its slice, and each entry's submit, append, pop, mark (`_complete`) or shelve (`_park`) |
| `SubmitOk`, `SubmitUnavailable`, `SubmitTimedOut`, `SubmitRejected` | what `nvnm.py`'s submit can return, raise, or do although it raised: an error raised after the transaction was mined leaves the entry pending, or parks it if it reads as permanent or was the last attempt |
| `CompactRead`, `CompactReplace`, `CompactFails` | `maybe_compact`, `compact` on the event loop: memory is read, then the file replaced, or not |
| `RepairLoad` ... `RepairExit` | `repair_parked.py` and `requeue_parked`, in a process of its own; a failed append ends it |
| `Crash`, `Start`, `Stop`, `Exit` | the process, and the lifespan handler's final drain, which runs beside the worker thread that cancelling the task did not stop |

A step is one dictionary operation, one append or one backend call: that is the
grain at which threads interleave. History variables (`handed`, `landed`, `lostAck`,
`requeued`) record what callers, the chain and the operator know. The order in
which a drain takes entries, and whether each is due, is left open here and
decided in `OutboxSchedule`. Data (checksums, uris, registry ids) is left out: no
property tells it apart. `update` submissions queue and complete as records of a
key of their own do.

`OutboxPromise` is the abstract specification: a key is owed, copies land while it
is owed and unsettled, and it is settled once a copy landed. `owed` is refined by the keys a
restart would find, `settled` by those it would find done, `copies` by the chain.

### OutboxSchedule and Nvnm

`OutboxSchedule` has one loop, `queue` in insertion order, the slice of the first `Limit`
entries, attempts, and for each entry the seconds it still has to wait. The loop sleeps
for `Interval`, then drains. This is where the backoff's arithmetic, the limit, the
interval and the account's nonces meet; interleavings are `Outbox`'s.

`Nvnm` is what a submission finds. `waiting[i]` is the transaction of the i-th nonce not yet mined:

| Model | Code (`anchor/nvnm.py`) |
|---|---|
| `Malformed` | `add_record` and `update_status` refuse what the chain could make nothing of |
| `Nonce`, `Send` | `get_transaction_count` counts what was mined, so a new call takes the nonce of a transaction that waits, and replaces it or is refused |
| `Says`, `Classify`, `Raises` | what the node objects, and its sorting into permanent and transient by `_PERMANENT_MARKERS`. A node may call a nonce that is taken invalid (`Misworded`), which is sorted as permanent |
| `Hang`, `Read` | the receipt that does not come; a status other than 1 |
| `Mine`, `ChainChanges` | the chain, in or out of reach |

### GatePipeline and WiredGates

`GatePipeline` is `GatePipeline.run`, one gate a step, for any stack. A gate is
what the loop knows of it: three flags, the verdicts it may return, the values it
needs and puts. `Evaluates` is `_evaluate`, exceptions included. Gates are
positions, since `_validate` keeps names distinct.

`WiredGates` gives that record for each of the 21 gates that `server.py` wires,
in order, read off their `evaluate` methods. `EdgeLedgerGate` is wired both
enforcing and advisory.

### Geometry and Acting

`Geometry` is the arithmetic, in points: `SlPts`, `Floor`, `Aim`, `TpPts` are
`targets/optimizer.py`, `EvaluateTargets`, `RiskReward` the target stage and
the gate whose minimum it must meet, `SwingLows`, `SwingHighs`, `Nearest` are `market/levels.py`, `ZoneOf`
and `Derive` are `entry/zones.py`. Fractions are hundredths, and a fraction of a distance is rounded down
where the code keeps a float; `MarginAssumption` says by how much the policy's margin exceeds that.

`Acting` puts them behind the wired stack: what a run of it orders or arms
(`Engine._execute`, `_route`) has values some gate has put, and they are in place.

### PendingEntry and EntryWatcher

`PendingEntry` is the pure decision of `entry/pending.py`: wait, fill or cancel.
The code writes each test for buys and for sells; `Depth`, the points by which
price is on the profitable side of the level, folds the two. `EntryWatcher` has one
thread per signal, through `Engine.process` up to `arm`, one thread that polls,
and the cache both read through.

| Model | Code |
|---|---|
| `pending`, `entry`, `armedDay` | `_pending`, its `PendingEntry` objects, `_armed_day` |
| `cache`, `CacheHit`, `CacheMiss`, `CacheStore` | `MarketData._cached` in `market/mt5.py`: look, ask, store, which other threads interleave with |
| `Begin`, `OtherSignal` | `market.begin()`, the only place the cache is cleared |
| `Price`, `Decline`, `Refuse`, `Create`, `Insert` | the tick is taken, a gate declines, `ZoneDerivation` refuses, the entry is stamped, and inserted under the lock |
| `SweepHold`, `SweepDay` | `_sweep`, by age, then by day boundary |
| `Snapshot`, `Stall`, `TakeTick` | `poll` up to its loop, with the early return on a dead feed |
| `Expire`, `Wait`, `Break`, `Fire` | the loop's body |
| `Afford`, `Unviable` | `_viable`: the balance, then the free margin, each through the cache |
| `Stage`, `request`, `Order` | `RpycMT5.send_request`: the request is written into the remote interpreter, under a name all threads share, then whatever has that name is sent |
| `OrderFails`, `Pop` | the rest of `_fire`; an order may be executed although its answer reports an error |
| `ViableRaises`, `OrderRaises` | what a remote call returned is read outside any `try` below `_poll_watcher`: the poll ends, the entry stays armed |
| `OtherStages`, `OtherSends` | orders and closes of other threads |

`EndsOnce` has two histories: `unread` counts the positions whose result could not be read, `crossed` those that another thread's call sent.
Each is a second order that the code does send (section 5); the property is that nothing else is one.

### Booking

One thread per signal, one that polls for closes; they share the broker, the journal, the
zone memory, the cooldown, and MarketData's cached list of positions. A ticket is the signal that opened it: of an order that is sent
again (section 5), the position whose answer was lost is `NoOrder`'s, and the other is as another signal's. `_record_edge` returns early for a trade
without risk, which is left out: no order has its stop at its own price.

| Model | Code |
|---|---|
| `Hit`, `Ask`, `Store` | `_cached("positions")` (`market/mt5.py`): look, ask, store; `_fetch_positions` returns an empty list when the call raises |
| `Begin`, `BeginElsewhere` | `market.begin()` of a signal, and of one that the gates reject. Answers not yet stored are old from then on (`blind`) |
| `StackAndCooldown` | `StackLimitGate`, `EntryCooldownGate` |
| `ZoneGate`, `Looked`, `Live`, `Blocked` | `ZoneTracker.check` over the timeframe hierarchy: entries leave the window whenever time has passed, `Block` of them spend a zone, `Compress` do if they came fast |
| `CloseSpent`, `Spent` | `_close_exhausted_direction`, whatever became of the signal |
| `Order`, `NoOrder`, `OpenTrade`, `Remember` | `_execute`, or the watcher's fire and `on_watcher_fill`: order, journal, memories, in that order |
| `PollBegin`, `Diff` | `ClosePoller.poll`: what the journal has open, less the cached list |
| `NotClosed`, `CloseTrade`, `RecordEdge` | `Booker.book`: the sum of the deals so far, once one of them closes something |
| `Ends` | stops, targets, hands: of the whole position or of a part |
| `Restart` | the journal and the ledger are files, the rest was memory |

`misread` remembers which tickets a poll took for closed though they were open, `lost` which ones a
failed call or a crash cut off between two writes, `before` what was open when a signal began.

### Lifecycle

What happens to a decision's record, across four kinds of thread. The outbox is
`OutboxPromise`: what it owes, what it has settled, and how often each key landed.

| Model | Code |
|---|---|
| `pc`, `Judge`, `Route`, `Execute`, `ExecuteRaises` | `Engine.process` from the verdict on (`execution/engine.py`): reject, suppress, arm, or send the order; the journal may raise after the fill |
| `Register`, `measuring`, `saved` | `OutcomeResolver.register` under its lock (`resolve/resolver.py`), `_pending` and its file |
| `Publish`, `published`, `EnqueueDossier` | `_record`: the dossier is written, then handed over. `fill` takes a watcher's fill through the same two steps |
| `hand`, `DrainTake`, `Submit`, `SubmitFails`, `Settle` | a drain, as far as its callback sees it; `chain` holds the records in the order they landed |
| `Note`, `AppendRow`, `index`, `indexFile` | `on_anchored`, `record_anchored` (`anchor/index.py`): memory under the lock, the file after it |
| `tick`, `TickBegin`, `GiveUp`, `Stall`, `Classify`, `AppendOutcome`, `Drop`, `TickEnd`, `Save` | `tick` and `_complete`, one step for each thing another thread or a crash could come between |
| `Consult`, `AskUpdate`, `Mark`, `AppendStatus` | `on_outcome_resolved`: look up, enqueue the update, mark the row |
| `AskRaises`, `EnqueueDossier` | `enqueue` raises while another thread changes a table it iterates (`outbox.py:169`): `_complete` logs it and nobody asks again (`resolver.py:210`); a dossier is then not recorded |
| `Time` | `due_ts` and `give_up_hours`, told from the record, so no restart resets them |
| `OtherRegisters` | a signal without a part in the model saves the pending list as it finds it |
| `Restart` | memory is what the files hold; a file being rewritten may be torn, which `_load` takes for empty |

Histories: `early` has the signals whose outcome found no row, `unasked` those whose update failed, or was cut off by a crash
when the saved list had dropped them already. A signal of either stays Active on the chain.

Left out: the decision log (`Rollover` has it), what closing an exhausted direction does at the
broker, a row's checksum and uri, and disk faults other than a crash's, which
`Outbox` has. An append to the index is whole or absent: `_load` skips a torn line.

### Judgement and Measuring

`Judgement` is `resolve/classify.py`: `Scan` is its loop, `OutcomeOf`, `NetPts`, `Verdict` its
defaults and result. The reference is a position held while the bid visits both ends of every bar, in
either order: `Walks`, `Held`. `Measuring` puts the verdict where `tick` writes it down; excursions are left out.

### Rollover

The session's decision log, from the engine adding to it to the record that
supersedes it. A log is an object three parts hold references to, so `logs` has all
that this process made, `current` is `rollover.log`, `writes` is `engine.decision_log`, and
`ref` is what a decision's thread has read. A checksum is a log's content: its day and the set of
its decisions (two logs never share one, so the order adds nothing).

| Model | Code |
|---|---|
| `Find`, `AddEntry` | `Engine._record` reads the reference, `DecisionLog.add` appends |
| `TickBegin`, `ForceBegin`, `StopBegin` | `tick` when due, `POST /rollover`, the lifespan handler's last close; all three may overlap |
| `Build` | `build`: the log as it is |
| `OpenFile`, `WriteFile` | `write_canonical`: the file of that content is emptied, then filled, whether or not it was there before |
| `ReadManifest`, `OpenManifest`, `FillManifest` | `_record_in_manifest`: read, then truncate (`blank`), then write, with no lock. Who reads while another writes finds no manifest; two that overlap may leave a file that cannot be read |
| `PublishDossier` | `publish_dossier`, which reads and rewrites the same file |
| `Lookup`, `Supersede` | `_supersede`: an index lookup by checksum, then the update and the status |
| `EnqueueLog`, `Renew`, `Repoint` | the record is handed over, the next log begun, and, back on the event loop, the engine repointed |
| `Fail` | what `write_canonical`, `write_text` or `enqueue` raises: the timer logs it and comes again, the shutdown does not |
| `Anchor` | a drain lands the log, and the index has a row for its checksum |
| `Restart` | a crash, or the exit after a shutdown; an empty log for the day |

The outbox is only what it owes: how it lands is `OutboxPromise`'s, and a log's record
may be anchored at any time, or never. The history variables say what a property
may be excused with: `late` (added while a log was being closed), `killed` (in memory when
the process died), `missed`, `orphaned`, `broken` (a log's file was emptied and not filled), `forgot` (a manifest entry was lost).

## 4. Runs

| Run | What it shows | States | Time |
|---|---|---|---|
| `MCOutboxDurable` | while every compaction is clean, everything the outbox says of itself holds | 1.8 M | 115 s |
| `MCOutboxHostile` | with everything that can go wrong, nothing is believed anchored that is not | 3.4 M | 80 s |
| `MCOutboxCompactLosesParked` | *disagreement*: compaction loses parked entries | 1 k | |
| `MCScheduleRecovers` | retries put no two transactions of a record underway; when the chain stays back, all is sent or parked but what the node has no known answer to | 348 k | 125 s |
| `MCPipelineVerdicts` | what a pipeline run may conclude, for every stack of up to three gates; in the wired order, what is ordered or armed has its values; an order's stop and target, and an armed entry and its stop, are in place | 86 k | 10 s |
| `MCWatcherEnds` | an armed entry is one position but for unread results and crossed orders, is filled as its thesis says, and does end | 343 k | 150 s |
| `MCWatcherStale` | *disagreement*: viability is re-checked against a cached account | 152 k | |
| `MCLifecycleOrder` | every registered signal is measured or given up, what is superseded was measured and what was measured is asked for, and no verdict flatters | 89 k | 25 s |
| `MCBookingCloses` | two signals and the poll, one failure: positions are journalled, results booked whole and in the end, the limit holds | 487 k | 90 s |
| `MCCooldownIdle` | *disagreement*: the cooldown lets through what it was made to stop | 0.1 k | |
| `MCRolloverCloses` | closers that overlap, failing writes and a crash: decisions stay accounted for, supersession leaves a current record, every day is published | 1.3 M | 160 s |
| `MCRolloverStrands` | *disagreement*: after a clean restart the next log supersedes the decisions before it | 0.6 k | |

The properties:

- `HandedNeverLost`: what `enqueue` returned is, at every moment, something a
  restart would find waiting, parked or anchored.
- `DoneHasLanded`: a key counts as done, in memory or after any restart, only if
  a record of it is on the chain.
- `NoUnexplainedCopy`: a second copy of a key exists only if a landed submission's
  `sent` line was never written. The races of enqueue, replay and requeue add none.
- `RestartChangesNothing`: with no call in progress, memory and the log agree on
  all that is unfinished.
- `ParkedNeverSubmitted`: what is submitted is not in the parked count, unless
  the operator put it back.
- `KeepsPromise`: `Outbox` implements `OutboxPromise`.
- `SentOnceChainIsBack`: no backoff, order, limit, or transaction of another entry that holds the
  nonce starves an entry, as long as fewer entries than the limit fail for ever.
- `RetriesCostNothing`: no two transactions of one record are ever underway together, and a second
  copy is on the chain only if the first was mined with nobody to hear of it.
- `AllowedIsUnanimous`, `FailsClosed`, `SkipsAreDeclared`, `SuppressionStands`: an
  order needs every gate; an exception is no consent; skips have one of two
  reasons; only a rejection overrides a suppression.
- `NeedsAreMet`: `need()` never fails for the order of stages alone.
- `EntriesHold`: a market entry has its stop within the timeframe's bounds and on the losing side, its
  target on the winning side, no nearer than the floor whatever caps it, and not behind a level it should have
  been put before; a zone entry lies between its stop and the price, and one taken from the bars has no other swing between it and the price
  (what target it gets is decided when it is filled, and is not modelled). And nothing is
  acted on that no gate has put (`ActsOnWhatWasPut`).
- `BookedWhole`: a partial result is booked for the whole only of a position that a list lacked while it was open.
- `StackHolds`: a signal that may trade has fewer positions than the limit, of those open when it began,
  unless the list it was judged on was old or no answer.
- `AccountedFor`: only a failed call or a crash just then leaves a position out of the journal, or a result out of the ledger.
- `ClosedIsBooked`: what closed is booked, crash or not, provided signals make the cache forget.
- `SpokenIsWorst`: what is written of a signal is the worst that any walk through its bars comes to.
- `EndsOnce`: an entry becomes one position, and one more for each result that could not be read and each time
  another thread sent its order; it has no other once it was swept, expired, broken or found not viable.
- `FillsFollowTheThesis`: a fresh entry is fired only after its level was touched, an
  exhaustion entry only after it was swept and never once it collapsed, both only
  at a reclaiming price.
- `ArmedEnds`: every armed entry leaves the table.
- `MeasuredUnlessTorn`: what `register` saved is waiting in the file, measured, or given up,
  at every moment, unless a crash tore a file.
- `OutcomesExplained`: a signal is scored again only after a crash.
- `SupersededAfterOutcome`: no record on the chain is superseded before its outcome was written,
  whatever is submitted twice or replayed.
- `IndexIsEarned`: a row says Superseded only when the update is owed to the chain. A row that
  said so without one would stay that way.
- `MeasuredInTheEnd`: no signal waits for its bars for ever.
- `ResolvedIsAsked`: a registered signal that the index knows is in the end asked to be superseded, unless it was given up or
  torn away, its outcome came before its row (`early`), or the one attempt to ask failed (`unasked`). Each excuse is needed: TLC
  refutes the property without any of them.
- `DecisionsAccounted`: a decision recorded while no log was being closed is in the log the
  next close publishes, or in one handed over, however the references were swapped.
- `AnchoredResolves`: what was handed over is whole on disk, unless its file is being written anew or a write of it failed
  or died half-way (`broken`). The code does rewrite files that are on chain (section 5); the property is that nothing else takes them away.
- `SupersededHasHeir`: of every day with a superseded record there is one that is not,
  unless a closing broke off in between or the manifest lost a log of that day.
- `ReplacedIsSuperseded`: of two logs that follow each other in the manifest the earlier is superseded,
  unless it was not anchored yet, or that closing broke off.
- `EveryDayIsPublished`: a day that is over is published, with decisions or without.

### Bounds

- *Outbox*: two entries of one key and one of another, two callers, a limit of two,
  one restart, one repair, two copies of a key in `MCOutboxDurable`. Two entries
  of a key are what deduplication needs, a second key is what order and limit
  need, two callers are what the race of two `enqueue`s needs. The state after a restart is again
  one in which everything can happen, and copies are counted against lost
  acknowledgements, so two show what more would. The log may be compacted after
  one completion: in `MCOutboxDurable` only by a `CleanCompaction` (section 6), in `MCOutboxHostile`, with two entries of
  one key, one caller and a limit of one, by any. Only the latter has shutdowns; that a lone one keeps the
  other properties is proved, not run.
- *OutboxSchedule*: four entries (a dossier, an update, one the chain refuses, one to which the node
  never has a known answer), a limit of two, the code's interval of 30 s; a base of 20 s and a cap of
  40 s where the code has 5 and 900 s: one wait shorter than an interval and one longer are
  what the loop distinguishes. Only the update may be `Misworded`, which keeps the instance small; the proofs have any set. `AttemptBound` saturates the counter where the delay has reached its
  cap. Two copies of a record stand for more.
- *GatePipeline*: all stacks of one to three gates with all flags and verdicts;
  the proofs have every length. The two wired stacks are explored up to what a
  continuation depends on (`VIEW`), which is all their properties look at. The policy is the deployed one for
  two timeframes; levels lie out of, at the edges of, and inside its bounds; markets have up to five hours.
- *Booking*: two signals in one direction, an hour and a quarter, where the hour suppresses the quarter; all limits 1,
  so that one trade is enough for a gate to bind; one failure or restart. A third signal, which the gates reject, only clears the
  cache. Signals never recur: a ticket is one trade.
- *Judgement*: all charts of up to two bars with ends and closes within two points of the reference, and three bars that each
  contain it; spreads, stops and targets of 0 to 2 points: touching either, both, one by the spread alone, and a target that is missing.
- *EntryWatcher*: one signal, a buy at 4, a touch distance of 1, an invalidation of 2, a
  confirmation of 3; prices 0, 2, 5, 7 are one per region the tests distinguish. Depth makes sells
  the same. Entries of different signals meet only in the cache, and what another signal does to the
  cache is `OtherSignal`. Days are two units long, expiry and maximal hold
  zero units: either sweep, expiry and a crossing of midnight can each come first.
  With the code's values the day sweep comes before the hold sweep for most
  entries; the model has both. In `MCWatcherStale` arming stops at time 2, the clock at 3, so that
  whatever was armed grows old; in `MCWatcherEnds` at 1 and 2, and the day turns between 0 and 1. One result cannot be read,
  one other order is under way at a time, one restart. `VIEW` keeps of the histories of orders their difference, all that `EndsOnce` tells apart.

- *Lifecycle*: one signal. Index rows, pending records and the outbox's keys are per signal; what
  signals share is the pending file, which `OtherRegisters` saves. Two copies of a
  dossier and the update of either, two restarts: one between outcome and
  save, one more in what that leads to.
- *Rollover*: one decision, two days, one restart, and two of: an operator's rollover, a dossier, a failure. One decision
  makes two different logs for a day and lets the empty one recur; two events and the timer are three
  writers of one manifest. `MCRolloverStrands` needs none of them. That a log is anchored changes what one step does, the `Lookup` of a closing
  that replaces it. Anchoring commutes with every other step, so `AnchoredWhenSeen` has the drain land a log when a closing has found that
  it replaces it (`ACTION_CONSTRAINT`); each order of anchoring and looking up is still there.

### Fairness

- `OutboxSchedule`: weak fairness of the loop; `_drain_outbox` is `while True` around a
  `try` that catches everything; and of mining, since a chain that takes a transaction mines it or a better one in
  its place. Being in reach and restarts have none: the property assumes that they settle.
- `Booking` (`FairSpec`): weak fairness of the poll, which `_poll_closes` repeats for ever. Nothing is asked of signals or of the broker: that the
  cache forgets the ticket again and again is the property's assumption, since only signals make it.
- `EntryWatcher` (`FairSpec`): weak fairness of the poll, whose loop catches everything; of
  the clock; and of a call of `Engine.process` that has begun. None for signals arriving, restarts,
  or for the market to answer well: a broker may fail for ever.
- `Lifecycle` (`FairSpec`): weak fairness of `tick`, which `_resolve_outcomes` repeats for ever, and of time.
  Not of the drain, nor of what the market answers: `Stall` may be taken at every tick until the record is given up.
- `Rollover` (`FairSpec`): weak fairness of the timer's thread, which `_roll_sessions` starts again for ever. A failing
  write counts as one of its steps; the bound on events is what makes it succeed in the end. None for anchoring, operators or the clock.
- `Outbox`, `GatePipeline`: safety only.

`CHECK_DEADLOCK FALSE` wherever the bounds or the program's own end stop the system: a
pipeline run returns, entries run out, the clock stops.

## 5. Disagreements found

Each is the violation of a property that quotes the repository (`findings` in `PROJECT.json`).

1. **Compaction loses parked entries** (`outbox.py:305`). `compact` writes a `parked` line
   for an entry whose `enqueue` line it leaves out; replay pops nothing and shelves nothing.
2. **Viability is re-checked on a cached account** (`watcher.py:223`). The poll never
   clears the cache it reads through.
3. **A restart strands the session's decisions** (`rollover.py:117`). The shutdown publishes the partial day; the
   new process begins an empty log for the same day, and closing that supersedes the first. What was decided before is then
   in no current record. `POST /rollover` does the same without a restart.
4. **The cooldown never suppresses** (`server.py:288`). It is told the order's side, BUY or SELL, and compares that with the
   signal's direction, UP or DOWN.

Met while modelling, with no run of their own. In the outbox: the first line appended after a torn one becomes part of it
and is lost with it, since `_append` does not look at how the file ends (`outbox.py:85`;
the models have it, and `HandedNeverLost` is proved without torn writes for this reason); `compact` may also drop an entry whose enqueue appended between
compact's reading and replacing, and was not yet in memory; a crash between a
submission and its `sent` line anchors twice, which `NoUnexplainedCopy` counts as explained;
requeued entries are seen by a running server only after its restart, and if a compaction
then comes before they are sent, it writes them as parked again (`outbox.py:305`); `Limit` entries
that fail for ever starve all others; the final drain of a shutdown runs while the cancelled task's thread is
still draining, and may submit what that is submitting (`server.py:336`). At the chain: the nonce counts what was
mined, so a transaction that waits holds the nonce of every later record until it is mined or outbid (`nvnm.py:277`); and an error that holds a permanent marker parks
the record though its transaction waits or was mined (`nvnm.py:206`: "invalid" is one, so an "invalid nonce" is enough), after which the repair script may anchor it twice. In the pipeline: a rejection after a suppression (low confidence, then a dead feed; `pipeline.py:95`) makes the
run a dropped input, which is not recorded, though a refusal "always produces a record" (`README.md:87`); `bound_at` keeps naming a gate that routed
after another has suppressed. In the watcher: an order whose result
raises when it is read (`orders.py:86`, outside the `try`) was executed, ends the poll and leaves the entry armed, so that the next poll, often on the same
cached tick, orders again (`OrderRaises`), though `poll` "Never raises" (`watcher.py:142`); two threads that order at once may send one request
twice and the other never, since `_zc_req` is one name for both (`mt5.py:318`; `OtherSends`). Also: the price with which a fresh entry first reaches its zone is not
compared with the invalidation (`pending.py:139`), so a level that price gaps through is still filled when price comes back.
In the gates: with the deployed policy a volatile regime's cap of 1.2 and the NY session's multiple of 1.2 have no
effect, since the floor of 1.5 lifts both; a stop blended with its anchor may lie in front of the level it is meant to be behind;
`ZoneTracker` is never told of a bounce nor reset, so its weak-bounce branch never runs. In booking: on Binance the
open positions are the journal's own, so the poll never finds a close, no loop compares price with their stops
(`market/binance.py:19` says the watcher's does), and an exhausted direction may be sold more than once.
In the lifecycle: a dossier anchored after its outcome stays Active, since `on_outcome_resolved` found no row and
`on_anchored` does not ask (`engine.py:373`, `early`); so does one whose update `enqueue` raises on, since `_complete` has dropped the record
and only logs the exception (`resolver.py:210`, `unasked`); when a dossier lands twice, the index keeps the later record, and the
earlier stays Active; a torn outcomes or pending file counts as empty and is overwritten at the next save;
a journal that raises after a fill leaves neither a registration nor a record; when the update lands,
`on_anchored` overwrites the row's checksum and uri with the update's empty ones (`engine.py:344`), after
which `disclosure.py:171` does not find the dossier; if another signal saves the pending list between `_drop` and
the callback, a crash there loses the update too (`Between`).
In the rollover: a decision added between `build` and the repointing is in no published log (`late`); two publications
of a day within one drain interval leave two Active records (`missed`); if the process dies after `_supersede` and before `enqueue`,
the day has no Active record (`orphaned`),
and nothing anchors the artifact later, as `rollover.py:16-18` would have it; a log with the content of an earlier one (a day without decisions that is closed twice, or before and after an idle restart) is written over the file
that is on chain (`canonical.py:100`), and a write that fails or dies half-way leaves that torn (`broken`), though `publisher.py:8` says that a path is
"CONTENT-ADDRESSED and never overwritten"; when a dossier's rewriting of the manifest loses an entry, an empty log can be published anew and supersede what had superseded
it (`forgot`; TLC finds it with three events and one failure).

## 6. Proofs

TLAPS proves these for all values of the constants that satisfy the modules'
assumptions (finite sets of entries and keys, natural bounds).

`OutboxProofs`:

- `TypeCorrect`: `Spec => []TypeOK`.
- `DoneLanded`: `Spec => []DoneHasLanded`, with no restriction. `DoneHasLanded` is not
  inductive: a `sent` line about to be appended, a tail that may be replayed, and the image
  `compact` holds all become `done` later. `LandedInv` says of each that its key has landed.
- `HandedIsKept`: `Spec /\ [][CleanCompaction]_vars => []HandedNeverLost`, assuming
  `~Tears`. A compaction is clean if memory is still what it was when it was read, no enqueue has appended and
  not yet inserted, and no parked entry is unfinished. All restrictions are needed: finding 1, the overlapping
  enqueue and the torn lines of section 5 are what happens without.
  `KeptInv` adds that an entry appended and not yet inserted is already kept; `MemoryInv`, that memory has whatever
  was handed over except between a pop and its mark, where no compaction can find it.
- `CopiesExplained`: `Spec /\ [][LoneShutdown]_vars => []NoUnexplainedCopy`, assuming `~Tears`. A shutdown is lone if it finds
  no worker inside a drain; otherwise two drain at once (section 5). Then there is one drain at a time, the loop's or the
  final one (`Active`, `LoneInv`), and the invariants speak of that one. `CopyInv` ties what the log records, what memory believes and where the
  drain stands: a key is submitted only while the log does not have it done.
- `RestartHarmless`, `ParkedStays` and `PromiseKept`: `RestartChangesNothing`, `ParkedNeverSubmitted` and the
  refinement `KeepsPromise`, while every compaction is clean and every shutdown lone
  (`[][CleanCompaction /\ LoneShutdown]_vars`), assuming `~Tears`.
  `RestInv` says in which steps memory and log may differ (an enqueue that appended and did not insert, a park half
  done, what the repair script put back, which the log still has as parked). So what a clean compaction writes
  owes what was owed. It is inductive because a record is made once, so what a caller of enqueue
  holds is nowhere else yet (`NewInv`), and because only the one drain takes entries away while it drains (`QueueInv`).

`OutboxScheduleProofs`: `NoRetryCosts`, for any entries, limits, delays and interval, from three facts together:

- `Underway`: the account's nonce counts what was mined, so a later call replaces a waiting transaction or is
  refused, and at most one waits; while a call waits for its receipt, that one is its own.
- `Queued`: no entry stands twice in the queue or in the slice of a drain, and what is queued is not made any more. So an
  entry that was popped is called for no more.
- `Settled`: an entry on the chain of which every transaction was heard has one copy, and is either about to be
  popped or nowhere left.

`ActingProofs`, for stacks of any length: `TypeCorrect`, `AllowedOnlyUnanimously`, `RaisingFailsClosed`,
`SkippedAsDeclared`, `SuppressionBinds`, from one invariant of two parts:
`OutcomeInv` ties `action`, `bound` and `routed` to each other, `ResultsInv` ties them to
the results so far.

`StagesInOrder`: if in every stack what a gate needs is put by a gate before it that can neither advise, nor be skipped while
the needing one runs (`InOrder`), then `NeedsAreMet`. `GivenInv` says that such a gate has put what it puts unless it was skipped for its
cost. `WiredNeedsAreMet` is that for the stacks that are wired, whose order is decided there.

`LifecycleProofs`: `TypeCorrect`, `Measured`, `Explained`, `PriceFirst`, `Earned`, for any signals, number of
records, copies and restarts, with torn files. One invariant in three parts, none inductive alone:

- `Types`, what each variable is;
- `Accounts`, for the resolver's properties. `MeasuredUnlessTorn` speaks of the file; a save makes the file
  what memory is, so memory must account for everyone too, also between an outcome and the drop of its record;
- `Records`, for the chain's. A record superseded was named by an update that was owed, which came from a row read after the
  outcome was written. So each place on that way (update, hand, row in memory, row in the file, tick) says which
  signal owns the record it names. `Grows` shows that later steps change nothing about it. A row may have a status and no record yet: the status
  line of a row can reach the file before the row's own.

`RolloverProofs`: `TypeCorrect`, `Resolves`, `Accounted`, `Superseded`, `HeirStands`, for any decisions, days, failures and
restarts. What the closers do is shared by two of the invariants, none of which is a property as it stands:

- `OnDisk`: once a closer has opened its log's file, the log is whole there, being written, or was left torn (`Written`), and no step takes
  it out of these but into another of them (`WrittenStays`); so it is when the log is handed over.
- `Sessions`: the engine writes the current log, or a closer is about to repoint it; so a decision that no closer
  excuses goes into the current log. While that is closed, what it holds is in the log that was built or came late,
  also when another closer has begun a new one meanwhile; after the shutdown it is handed over.
- `Succession`: the manifest is replaced by what a writer read earlier, so what holds of the manifest must hold of
  every list in a writer's hand. An index that says Superseded was preceded by the request, which is why a closer that
  finds it may go on.
- `Lineage`, for `HeirStands`: of a day whose lists were not lost, the manifest only grows, and what a writer is about to save is the manifest
  with its log at the end. A log that was asked to be superseded is followed there by one that was brought. So among a day's logs with a
  request the one furthest along (`Greatest`, by well-foundedness) has a successor without one.

`EntryWatcherProofs`: `TypeCorrect`, `EndsOnlyOnce`, `ThesisFollowed`, for any signals, levels, ticks and restarts.

- `TableInv`: an entry is armed once, by a signal that is then done, and the poll fires one that is armed and looked at.
- `OrdersInv`: what the poll is about to send is the entry it fires, or another thread's order. So a position that neither
  history counts and an entry still armed meet in one step only, between the order and the pop (`Spent`). A step sends
  nothing (`NothingSent`), or one order that is counted or ends its entry (`OneSent`).
- `ThesisInv`: what `FillsFollowTheThesis` says when an entry fires was built up by earlier polls: one that has reached
  its zone was once near it, and an exhaustion entry that is armed never saw the level collapse (`Followed`).
- `Quiet`, `Cancelled` and `JudgeFollows` are the three kinds of step that `TableInv` and `ThesisInv` see.

`BookingProofs`: `TypeCorrect`, `PositionsAccountedFor`, `PartsNeedMisreading`, `LimitKept`, for any signals, limits and failures.

- `BookInv`: a ticket is in the journal only of a signal past its order, what the poll is about to book and still lives
  was misread, and what it books is open in the journal.
- `StackInv`: the limit is kept of what was open when the signal began because every answer it can be judged on covers
  that, or is marked old: those in the cache, in the hands of threads that have not stored them yet, and its own (`Covers`). An
  answer fetched before a decision and stored after its `begin()` is why the threads are in it.

Also in `ActingProofs`: `MarketEntriesInPlace` and `ZoneEntriesInPlace` for any policy within `PolicyAssumption` and
`MarginAssumption`, any signals and bars; `ActsInPlace` for the wired stacks behind them: `PutInv` says that a gate that passed
has put what it puts, and that until something objects every gate behind the run has passed, was skipped as it may be, or only advised.

`JudgementProofs`: `WorstOfAll`, for any bars, and `WritesTheWorst`. The first bar to touch something is found by
well-foundedness of the naturals (`First`); in that bar the walk that visits the bad end first is the witness.

Only model-checked: the liveness properties, which are out of the prover's reach (`SentOnceChainIsBack`, `ArmedEnds`,
`MeasuredInTheEnd`, `ResolvedIsAsked`, `EveryDayIsPublished`, `ClosedIsBooked`). Every other property that holds is a theorem.

## 7. Not modelled

- Serialisation, canonical hashing and proofs of inclusion (`record/canonical.py` but for how it writes a file, `dgml*.py`,
  `proof.py`, `disclosure.py`): pure conversions.
- The thresholds that gates other than those of `Geometry` and `Booking` compare with, sessions, regimes, snapshots.
- The caution and elevated statuses of `ZoneTracker`, which only inform, its bounces and reset, which nothing calls; the coherence histories.
- The chain's administration (`add_registry`, `grant_role`, `revoke_role`), gas and ABI encoding in `nvnm.py`; filling modes and
  rounding in `orders.py`: calls to libraries.
- Binance (`market/binance.py`, `binance_orders.py`): the same interface over spot balances, with positions taken from the journal. The
  models are of the MT5 port.
- Discord messages, read-only HTTP handlers, operator scripts other than the repair script.
