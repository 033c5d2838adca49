# Verification of seerflow

TLA+ models of the concurrent core of seerflow: how a log line gets into the
process, how an event and an alert get to disk, how an alert gets to the people
who are to be notified and to the browsers that watch, what analysts' verdicts
do to it, how threat feeds reach the matcher, and how a session ends. TLC checks
the models on small instances; TLAPS proves safety properties of all seven
components for every value of their parameters.

Paths below are relative to `src/seerflow/` of the repository unless they start
with another directory.

## 1. Inventory

Seerflow is one asyncio process. Coroutines interleave only at an `await`; real
threads exist only in the gRPC server of `receivers/otlp_grpc.py`, in
`asyncio.to_thread` calls (rule reload, LLM), and in aiosqlite's connection
worker. So the interesting interleavings are those of tasks suspended at
awaits, with the world outside (log writers, clients, notification services),
with cancellation, and with process ends.

| Component | State | Operations | Talks to | What is hard | What makes it correct |
|---|---|---|---|---|---|
| **Event store, write side** (`storage/sqlite.py`: `WriteBuffer`, `SqliteBackend`) | `_buffer`, `_lock`, `_task`; `_write_lock`, `_closed`; one connection with one transaction | `write_events`, `flush`, the periodic flush, `_write_batch`, the single-row writes, `close` | pipeline handler, REST API, shutdown, CLI: all write through the one connection | transactions of different tasks on one connection (S-340); a flush that returns while another's commit is under way (S-348); cancellation between two statements; errors and the rollback; `close()` against the timer | a commit publishes only its owner's rows; batches are whole; no event forgotten; flush is a barrier; order; locks are always given back |
| **Alert store and feedback** (`storage/_sqlite_alerts.py`, `api/routes/alerts.py`) | tables alerts, alert_tactics, alert_techniques, feedback_events | `write_alert` (dedup upsert), `update_feedback`, `append_feedback_event`, `aggregate_tp_feedback` | handler, API | read before the lock and written after it; an alert replaced between the two; audit rows without an alert | a row's data, columns and audit rows are about one alert; a verdict is not lost |
| **File tail** (`receivers/file_tail.py`) | `_offsets`, `_watched_files`, checkpoint file, watcher task | `start`, `_watch_loop`, `_process_file`, `stop` | watchfiles, the log writer, the manager | rotation and truncation between notification, `stat` and `open`; restart from a checkpoint that is only written by `stop()`; back pressure after the offset moved | no line passed over; a line read twice only for a cause; order |
| **Receiver manager and consumer loop** (`receivers/manager.py`, `pipeline/__init__.py`) | bounded queue, `_dropped_count`, `_stopped`, `_running` | `put_event`, `get_event`, `stop`, `run` | every receiver, the handler | stop while the consumer waits, or before it began; a full queue; what is left in the queue at the end | every loss counted; the loop ends; what was queued is handled |
| Other receivers (`receivers/syslog.py`, `otlp_grpc.py`, `otlp_http.py`, `webhook.py`, `stdin.py`) | servers, connections | accept, parse, `put_event(_sync)` | the manager | gRPC threads against the loop's queue; half a request enqueued | a request answered "full" has put nothing |
| **Alert dispatcher and router** (`alerting/dispatcher.py`, `alerting/router.py`, `alerting/target.py`) | queue, `_running`; `_digest_buffers`, `_digest_tasks` | `enqueue`, `run`, `stop`; `route`, `_buffer_for_digest`, `_flush_key`, `stop` | handler, channels | a list that grows while it is delivered; a flusher that pops a buffer it did not deliver; `stop()` during a delivery | every digested alert delivered or accounted for; a buffer always has a flusher; stop ends |
| **Alert sinks** (`alerting/sinks/`) | a queue, `_running` and a task each | `enqueue`, `run`, `stop`, `close` | handler, teardown, external services | a stop with alerts queued; a full queue | nothing queued is left when the session ends |
| Channels (`alerting/_http.py`, `alerting/channels/`) | retry loops, rate limits | `deliver`, `deliver_digest`, `post_with_retry` | external services | retries, what a cancellation cuts off | at most `attempts` tries |
| **Event handler** (`pipeline/handler.py`) | `risk_alerted`, template counts, counters | one call per event, through up to nine stages | parser, ensemble, store, tracker, dispatcher, sinks, ws | a failure or an end between the in-memory and the stored half of a step | every dedup window of an alert is handed out, and once; counts are not doubled |
| **Session end** (`pipeline/run.py`, `pipeline/assembly.py`) | tasks, `fired`, `_torn_down` | signal, wait, cancel, drain, teardown, close | everything | which task ends first, time limits, an exception in one of the stages | storage is closed last; an orderly end has saved what was learnt; a signal ends the session |
| **Correlation, kill chain** (`correlation/`) | tracker, windows, watermark, risk, engine holder | `record_alert`, `add`, `advance`, reload | handler, reloader thread | late and out-of-order time stamps, LRU eviction, engine swapped during evaluation | a kill-chain alert has its tactics in the window; bounded memory |
| **Threat intelligence** (`threat_intel/`) | cursor and snapshot on disk, circuit breaker, matcher table and event | `poll_once`, `_persist`, `allow`, `record_*`, `_run_loop`, `refresh`, `stop` | TAXII servers, store, handler | the two saves and what falls between; half-open circuits; snapshots saved during a rebuild | the cursor passes over nothing; a circuit pauses; the matcher has what is stored |
| **WebSocket manager** (`api/ws.py`) | clients, filters, deques, drop counts, sender tasks, status counter | `connect`, `set_filter`, `broadcast_*`, `_client_sender`, `_status_broadcaster`, `disconnect`, `shutdown` | handler, browsers, uvicorn | `connect` checks the limit before an await and registers after it; senders that end or are cancelled; counts across an await | every item is sent, waiting or counted; no sender outlives its client; the limit |
| Detection, UEBA (`detection/`, `ueba/`) | models, thresholds, baselines | `process_event`, persistence | handler | numeric code | out of TLC's reach |
| Parsing, entities, graph, LLM, Sigma | caches, parse tree, graph | sequential | handler, API | mostly sequential | unit tests reach it |
| Postgres backend, migrations, REST API, CLI, configuration, frontend | | | | I/O and wiring | not modelled |

Components in bold are modelled.

### Interactions on the modelled paths

    log writer -> file_tail -> ReceiverManager queue -> Pipeline.run -> handler          Ingest
    handler -> WriteBuffer -> SQLite <- API requests, drain, CLI                         EventStore
    handler -> write_alert -> alerts table <- feedback requests                          Alerting
       |  `-> KillChainTracker -> write_alert
       |-> AlertDispatcher -> NotificationRouter -> channels                             AlertRouting
       |-> ConnectionManager -> senders -> browsers                                      Broadcast
       `-> sinks' queues -> workers                                                      Session
    TAXII servers -> feeds -> snapshots and cursors -> IoCMatcher -> handler             ThreatIntel
    signal -> Pipeline.stop, uvicorn; pipeline, server -> drain -> teardown -> close     Session

The modules share no variable. The handler awaits one call after the other, so
each module sees the others only as the time that passes at its awaits, which
its interleavings allow, and as their outcomes (a write that raises, a task that
ends), which it chooses freely. `Session` composes the ends of all of them:
what it says of a component's `stop` is what the component's own module has
(`StopEndsTheLoop` of `Ingest`, `CloseCompletes` of `EventStore`).

## 2. Modules

| Module | What it is |
|---|---|
| `DurableLog` | abstract specification: what the event store promises |
| `EventStore` | write buffer, periodic flush, locks, transactions, close; its properties |
| `EventStoreInv` | the inductive invariant of `EventStore` |
| `EventStoreProofs` | its proof, the safety theorems, the refinement of `DurableLog`, what locks, faults and close leave |
| `Ingest` | file tail, manager queue, consumer loop, restarts; its properties and `OffsetInv` |
| `IngestProofs` | types, drop accounting, and that no line is passed over |
| `IngestOrderProofs` | order and rereads of the lines, and that no offset moves back |
| `AlertRouting` | dispatcher worker, router, digest flushers; its properties |
| `AlertRoutingProofs` | its types, that no digest is forgotten, how often an alert is delivered, what the exit leaves |
| `Alerting` | the handler's stages, kill-chain tracker, alert table, feedback requests |
| `AlertingProofs` | its types and the theorems on rows, windows and kill chains |
| `Broadcast` | WebSocket manager, endpoints, senders, status tick, end of the server |
| `BroadcastProofs` | its types and its four invariants |
| `ThreatIntel` | TAXII polls, circuit breaker, the two saves, matcher; restarts |
| `ThreatIntelProofs` | its types, its three invariants, and that no cursor moves back |
| `Session` | signal, pipeline, server, drain, teardown, sinks, close |
| `SessionProofs` | its types and its two invariants |
| `MC...` | instances for TLC |

Definitions commented as mutants (`BeginWriteUnlocked`,
`CheckRotationEager`...) are no part of a specification. Each is a plausible
mistake in the operation it stands before (some are what the code did before a
fix: S-340, S-348); put in its place it breaks the property it is paired with
in `PROJECT.json`, which shows that the property speaks about the code.

### EventStore

Tasks are the timer (`_periodic_flush`), the pipeline task, the task that calls
`close`, and any number of clients (API requests, the shutdown drain). `pc[t]`
is the await `t` is suspended at: `lock` and `write_lock` wait for the two
locks; `stmt`, `stmt2`, `commit`, `rollback` for the answer of aiosqlite to the
statement sent last; `raised` stands between the exception and the handler that
rolls back. What a task does between two awaits is one action.

* aiosqlite executes statements on its own thread in the order sent. A
  statement therefore takes effect at the action that sends it, and the sender
  learns of it at its next action. A cancelled task has no such action, but its
  statement has been executed: this is how a torn batch can be left in the
  transaction.
* `Execute` and `Commit` may fail (`MaxFailures`); a failing `executemany` may
  have written some of its rows.
* `Rollback` is the `except Exception` handler. `write_edge` and the Sigma-state
  writes (`_sqlite_sigma_state.py:72-91`) have none (kind `edge`), and
  `CancelledError` is no `Exception`: both leave rows behind (`orphans`), which
  the next commit publishes. `OwnTransaction` says that nothing else can get
  there.
* `Cancel` is the pipeline task cancelled by `run()` and a client's call
  cancelled by `wait_for`; `Close` cancels the timer the same way.
* A task that finds a lock free may take it after other tasks have run: asyncio
  wakes the first waiter, which resumes when the loop gets to it.
* `promise`, `acked`, `faulted`, `interrupted`, `orphans` are history
  variables: no guard reads them.

`DurableLog` has neither buffer nor lock: events are accepted, persisted in
order, given up only by a fault, and acknowledged only when their fate is
known. `ImplementsLog` maps `persisted` to the events committed in `db`.

### Ingest

One path. The log writer appends numbered lines, removes the file (rotation by
rename), creates the next one with an inode of its own, or truncates it, at any
time, also between the `stat` and the `open` of one `_process_file`: `Process`
is the receiver up to the `stat`, `Read` the rest. In between the event loop
does not run (`Loop`), since both calls are synchronous. `changed` is what
watchfiles has to report; nothing is reported while nobody watches. `Start` is
`start()` with the checkpoint of the last session, `StopTail` writes it, `Die`
ends the process in any state. `saved.gen` marks the content an offset belongs
to; the code has no such field and no guard reads it. Offsets count lines,
`ReadMax` stands for the 64 KiB of one read. An incomplete last line is not
read by the code until its newline is there, so a line is appended at once.

`Stop` clears `_running` and sets `_stopped`; `GetEvent`, `HandlerDone` and
`EndOfStream` are the consumer loop; `CancelPipeline` is `run()` when the API
server ended first, in which case nobody stops the receivers.

### AlertRouting

One worker routes alerts in turn; a channel in digest mode has a buffer and a
flusher task per key. `lists[k]` are the Python list objects made for a key,
one after the other, and `buffer[k]` says which of them `_digest_buffers`
holds. A delivery in progress (`flights`) keeps its list, and for a `Mail`
channel the content it had when the message was made; other channels iterate
over the live list (`loop_deliver_digest`), so an alert appended meanwhile is
still delivered. When a delivery comes back, the key is popped whatever it
holds by then (`router.py:297`). `Notify[a]` is the outcome of rule matching,
minimum severity and quiet hours, which are functions of the alert and the
clock. A failed delivery is logged and not repeated, so it counts as attempted.

Two history variables say what the code does not keep: `late`, the alerts that
were buffered while an older digest was in flight, and `overlaps`, how often a
flusher or `stop()` took up a buffer while another digest of the key was in
flight, which is when the code delivers a list twice. No guard reads them.

### Alerting

One entity. `Stages` is the order of the handler's stages; each raises one alert
an event at most (`Raise`) or none (`Quiet`), under a dedup key of its own. An
alert is written, and only when `write_alert` has returned handed out (`HandOut`):
to the queues of dispatcher and sinks if it is new, and to the tracker, which may
answer with a kill-chain alert that goes the same way. Between the two a feedback
request may come, or the process end (`Restart`).

The tables exist twice: `rows` is what the one connection shows to every reader,
`saved` what is committed. `Write` is the upsert: inside the window the row keeps
its time and counts up, outside it begins again, and in both cases it gets the id
and the data of the new alert while the feedback column stays. `Commit` is an await
of its own; `WriteFails` before or at it rolls back, and takes away what readers
may have seen. The shutdown may cancel the handler between the two (`CancelWrite`):
nothing is rolled back, the lock is given back with the transaction open, and the
next commit or rollback of another writer (`OthersEnd`) decides it, or a
`BEGIN IMMEDIATE`, which raises in it (`BeginFails`). A request is the route's look
at the alert (`Submit`), the `SELECT` of `update_feedback` (`ReadRow`), both without
the lock and so on `rows`, and its transaction (`Update`), which needs the lock. The
handler may write, commit or roll back between any two. `Update` is one step: a
reader may see its column before its commit, but a request only asks whether the
row of its alert is there, which an update does not change.

Times are chosen freely, so late and early alerts occur. History: `told`, `fed`;
`swapped` (while a request is between its two looks, another alert was shown in the
place of its own, rolled back or not); `late` (an alert came more than a window
behind another).

What the model shows about the code, and the properties therefore do not claim:
a request whose alert was replaced before the `SELECT`, if only by a write that is
rolled back, is answered 204 although nothing was written or audited; a comment at
`write_alert` speaks of bumps that preserve the stored alert, while the statement
replaces its id and data; the tracker keeps the *first* time of a tactic, so one
that was just seen again may be evicted. That late alerts make it fire on tactics
further apart than the window is finding 4.

### Broadcast

A connection attempt (`Connect`) passes the limit and waits in `accept()`;
`Register` is what `connect()` does after it. `Disconnect` takes the client out
and, if its sender runs, waits for it to be cancelled (`leave`). `Offer` is the
deque with a `maxlen` and the drop count. A sender pops a batch and awaits its
send: `Sent` settles it and goes on to the other deque, `SendFails` ends the
sender and loses the batch; only exceptions other than `WebSocketDisconnect` mark
the client dead. `Close` and `Shutdown` are uvicorn and the lifespan. The ping
and the client's own messages change nothing and are left out.

### ThreatIntel

A feed's indicators are numbered in the order of publication; `Collected(f, p)`
is a poll that found those up to `p`, keeps `Cap` of them and passes over the
rest. `persist[f]` is the shielded `_persist`, which goes on when the poll is
cancelled: snapshot, then cursor, then the matcher's event. `task[f] = "dead"` is
a `run_forever` ended by an exception it does not catch. `opened` is the time of
the breaker without numbers: within the window (`fresh`) or past it (`elapsed`).
The matcher clears its event before it reads the feeds one by one; `Boot` is
`_build_threat_intel` with the refresh it awaits. `End` is the process going away
at any moment. `ever`, `truncated`, `strikes`, `cooled` are history.

### Session

`main` is where `_run_with_config` is: the wait for the first of pipeline and
server, cancelling the pipeline, the four steps of the drain (each of which may
fail, all of which may be cut off by the timeout), teardown with the reloader and
the sinks in turn, the feeds, the server, `storage.close()`. `raised` is an
exception that leaves it: the server's at `task.result()` or after the teardown,
or the reloader's. What the handler has learnt and not saved is `dirty`. A
sink's worker takes an alert, sends it, and ends when it is told to stop and its
queue is empty; the OTLP sink (`Exporters`) takes all there is.

Two things are no task that the shutdown waits for. `serving` is the application
behind the server: requests, WebSockets and the flush of the rule counters in
`_lifespan`. A server that ends of itself (`done`) has waited for them; one that was
told to exit before it was up, or twice, leaves them (`left`), and the limit of ten
seconds cancels the server's task and not them (`cut`). `persisting` is the shielded
`_persist` of a poll: the feeds stop when it is through (`intel = "off"`), or are
cancelled after two seconds and leave it behind (`cut`). `CloseIsLast` says that
these two are all that may still use the storage when it is closed, and only after a
server that was left or cut, or feeds that were cut.

## 3. Runs

| Run | Instance | What it shows |
|---|---|---|
| `store` | 3 events, buffer of 2, 4 tasks, 1 storage error, 1 cancellation | types, S-340, whole batches, accounting, S-348, refinement of `DurableLog`; no deadlock |
| `store_live` | 2 events, 1 storage error | locks are handed over, the buffer drains, close ends |
| `store_close` | 2 events, no error, no cancellation | **violated**: `close()` loses the batch the timer has drained but not written |
| `ingest` | 3 lines, queue 2, read 2, 1 rotation, 1 truncation, 1 death; 411 000 states | nothing passed over, rereads have a cause, drops counted, order; reported lines are read; a stop ends the loop |
| `ingest_drain` | 3 lines, queue 2, read 2, 1 rotation | **violated**: of two events queued when the stop comes one is handled, the other left, with the receivers stopped |
| `routing` | 3 alerts, queue 2, two digest channels and an immediate one, 2 flights per key | no digested alert forgotten, delivered once and once more at most per overlap; windows end, stop completes; 76 000 states |
| `routing_stop` | 2 alerts, 1 flight per key | **violated**: an alert buffered during a delivery is dropped with the buffer |
| `alerts` | stages ioc, store, sigma; times 0..2, windows 1, threshold 2; 2 requests, 2 verdicts, 2 events, 1 restart; 2.4 M states | rows, feedback and audit log agree, shown or committed; every committed window handed to the sinks' queues once or cut; kill-chain alerts have their tactics |
| `alerts_within` | the same with 1 request, no restart | **violated**: tactics further apart than the window raise a kill-chain alert |
| `broadcast` | 2 clients, limit 1, queues and batches of 1, 2 items, 3 connects | every item accounted for, no orphan sender, the limit gives way to overlap only, S-053; queued items go out |
| `intel` | 2 feeds, 2 indicators, cap 1, threshold 2, 4 polls, 2 sessions; 520 000 states | the cursor skips nothing, the breaker pauses, the matcher has what is stored; a saved snapshot reaches it |
| `session` | sinks PagerDuty and OTLP, queues of 1, an event with up to 2 alerts; 489 000 states | storage closed last but for what was cut off or left; nothing left behind; a signal ends the session |

**Why the bounds are enough.** A defect of the store needs two tasks in a write
and a third event behind them: the instance has four tasks, a batch of two
(auto-flush) followed by another, one entity-bearing event for the second
statement, and one error and one cancellation, which may meet. In `ingest` the
queue is smaller than two reads, a read smaller than the file, and one
rotation, one truncation and one death can fall into any place of any read. In
`routing` a second window can open, and end, while the digest of the first is
in flight. `ReportedIsRead` asks only for lines that one read can reach, and of a file
that was not truncated, because the code gives no more than one read per change and
cannot see a truncated file that has grown back: with either of them lines do wait
for the next change (hazard list). In `alerts` the two stages that alert make a kill
chain, two events can fall into one window, begin two, or come in reverse order, and
two requests can both be between their read and their write when the handler replaces
the alert, commits it or rolls it back; the stage behind the store shows that a raise
there skips the rest. The risk stage, with its once-only mark, is not in the instance:
the theorems cover it, for any stages. In
`broadcast` a limit of 1 with two clients is exceeded as soon as two accepts
overlap, the second item meets a full deque or a batch in flight, and one client
can connect again. In `intel` a poll truncates with a cap of 1, two feeds make a
rebuild of two reads with a save between, four polls reach the threshold, a probe
and a poll after it. In `session` the second sink waits for the first, each
queue can be full, and one event can fill it. The theorems of section 4 lift these
bounds for the properties they prove.

**Deadlock** is checked in the store runs: every call of
every task, clients included, needs a lock, so a lock that is not given back
ends in a state where all of them wait. It is not
checked in the other runs, where the system stops for good: lines, rotations and
deaths are used up with the process down, the dispatcher's worker ends, a session
ends, events, items, polls and restarts are used up.

**Fairness.** asyncio resumes every task whose await is over: weak fairness of
whatever a task does next. `asyncio.Lock` is FIFO, so a waiter is not passed
over for ever although the lock is taken in between: strong fairness of
`Progress(t)`. The timer's sleep and the digest windows end (weak and strong
fairness of `Flush`: strong in the router because the slots of `flights` are a
bound of the model, and a key may have none free for a while). Requests to
channels have time-outs, so deliveries end. The handler returns. In
`Broadcast` each client's sender runs on (a send ends, since uvicorn's keepalive
closes a connection nobody reads); in `ThreatIntel` the matcher and the calls to
the store, not the polls or the servers; in `Session` main, the consumer loop, the
task of `Pipeline.stop()` up to its first await and the sinks' workers (their
retries are bounded), not the server, what it serves, the polls and their
saves, the receivers' `stop()` or the reloader.
`Alerting` has no liveness property and no fairness. Nothing is assumed of
callers, of the log writer, of signals, errors or cancellations.

### Findings

1. **`close()` does not flush a batch in flight** (`storage/sqlite.py:390`).
   `WriteBuffer.close()` cancels the periodic task. If that task has drained
   the buffer and waits for `_write_lock` or for its first statement, the batch
   exists only in its locals and is gone; if it has executed the insert but not
   the commit, the rows are dropped when the connection closes, unless the last
   flush has another batch and commits them with it. The docstring (line 460)
   says "Flush pending writes and close the connection (idempotent)."
2. **A stop abandons queued events** (`pipeline/__init__.py:52`). `get_event()`
   would "Drain remaining events before returning None"
   (`receivers/manager.py:111`), but `Pipeline.stop()` clears `_running` first.
   With events queued when the stop comes, `run()` takes one more at most, if it
   was waiting in `get_event()`, and leaves its loop when its handler returns. The
   rest is never handled, and the checkpoint that the same stop saves is past its
   lines: with lines 1 and 2 queued, line 1 is handled, line 2 is left, and the
   offset saved is 2.
3. **Digest alerts dropped during a delivery** (`alerting/router.py:297`). An
   alert that is buffered while the key's digest is being sent as one message
   joins a buffer that is popped when the message is out; its timer then finds
   nothing. `AlertDispatcher.stop()` says that "pending digest-mode buffers are
   flushed before the process exits" (`alerting/dispatcher.py:169-173`).

4. **A kill chain wider than its window** (`correlation/kill_chain.py:73`). The
   class "Alerts when an entity reaches ``tactic_threshold`` distinct tactics within
   ``window_seconds``" (lines 23-24), but `_evict_stale` drops only what is older
   than the window before the present alert. When alerts come out of time order,
   later tactics stay: at a window of 1, an alert of time 2 and then one of time 0
   fire. `KillChainEarned` is what holds: all tactics within one window as long as
   no alert came more than a window behind another, and none older than the window
   in any case.

`TrueBarrier` in `EventStore` states the class docstring of `WriteBuffer`
literally. It is not a run: a batch that raised is dropped and logged, which
the comments at the handler acknowledge; `Barrier` is the exact form.

## 4. Theorems

TLAPS checks every step. The assumptions are those named in each module
(`EventStoreAssumption`, `IngestAssumption`, `BroadcastAssumption`...): tasks and
stages are different, bounds are numbers, buffers, queues and batches hold at
least one item; what any configuration satisfies. The number of tasks, clients,
feeds, sinks and requests is arbitrary (of clients, feeds and sources finite,
where the code counts them).

*EventStoreProofs.* `OwnTransaction`, `WholeBatches`, `Accounted`, `Barrier`
are not inductive. `EventStoreInv` strengthens them to `IInv`, in parts:

* `LockInv`, `LocalInv`: where a task is suspended decides which locks it
  holds, and a task outside a write has no locals. From this, two tasks are
  never both between their first statement and their commit.
* `ProgressInv`: what has been executed of a running transaction is in `txn`,
  and after a commit in `db`. Without it a commit could be thought to publish
  less than the batch, and neither `Barrier` nor `Accounted` would follow.
* `OwnTransaction`, `TornInv`, `WholeBatches`: whose rows the transaction
  holds, and that a torn batch in it is still being written or was cancelled.
* `AcceptedInv`, `OrderInv`: on disk < in the transaction < drained < buffered.
  This is the order that `DurableLog!Persist` asks for.
* `PromiseInv`: a flush that holds the buffer's lock owes only its own batch.
  This is where S-348 (the callback under the lock) is needed.

Each part has a lemma that every action preserves it; `Invariance` combines
them, and the theorems are `TypeCorrect`, `TransactionsAreOwned`,
`BatchesAreWhole`, `EventsAreAccounted`, `FlushIsABarrier` and
`StoreImplementsLog`, which maps every action to `Accept`, `Persist`, `Fault`,
`Acknowledge` or a stutter.

Three more theorems say how far the store can be trusted where a run refutes the
docs or only liveness is checked. `LocksNeverBlockAll` is the safety half of
`LocksAreHandedOver`, for any number of tasks: the lock order of `LockInv` leaves
no circular wait. `FaultsAreExplained` says that `faulted`, which `Accounted` and
`Barrier` allow for, is not an excuse: `CauseInv` ties every entry of it to a
storage error or a cancellation. `CloseLeavesNothing` bounds the finding of
`store_close`: what `close()` does not flush is in a batch it cancelled, never in
memory. It needs `CloserInv`: once `closed` is set nothing is accepted, so the
buffer that the closer took stays empty.

*IngestProofs.* `DropsAreCounted` is inductive once it is stated without `Up`
(`Accounts`). `NothingPassedOver` needs `OffsetInv`: an inode number is used
once, a truncation outdates every offset, an offset of the present content is
within the file, and the same holds of the offset `_process_file` has picked
and not yet used, whatever the log writer does in between.

*IngestOrderProofs.* Order and rereads are both about what a read would return
next. `Coming` is that, for the saved offset and for one that waits between
`stat()` and `open()`, by the decision of `_check_rotation`: no step but a start
adds a line to it that was not just appended (`ComingStep`), and a read takes its
first ones out (`ReadComing`). So all that the process holds is older than what is
to come (`OrderInv`), and what is to come was read once less than the causes allow
(`RereadInv`). `FileInv` adds that a path found anew never has the inode of the
saved offset, which is why reading it from its first byte repeats nothing.
`OffsetsNeverMoveBack` is an action property: within the content a file has, no
step takes the offset or the checkpoint back, a restart included. `AdvanceInv`
adds that a read in progress started where the saved offset is, if that is of the
present content, and that the checkpoint is never ahead of the saved offset.

*AlertRoutingProofs.* `NoneForgotten` does not say why a buffer may be popped.
`CoverInv` does: what is in a key's buffer, not late and not yet delivered lies
ahead of every delivery of that key in progress, so whichever of them comes back
last, popping is safe. A delivery that begins with the buffer's list has it all
ahead (`KeptByBegin`); an alert appended to the list a delivery iterates over lies
ahead of it, any other is recorded as late (`KeptByBuffering`). `stop()` needs
`DrainInv`: while it drains, a key's buffer is the list it took, or gone.
`DeliveredOnce` counts: the deliveries an alert has had, with the digests in
flight it is still due in (`Total`), are one and an overlap each (`TotalInv`), and
so are the digests in flight (`FlyingInv`). A delivery that comes back leaves that
sum alone, because an alert is at one place of one list (`ListInv`), and that
follows from `OrderInv` and `RoutedInv`: what is yet to be routed to a channel was
neither buffered nor delivered there. A digest that begins with no other in flight
adds one to the sum, and may, since a delivery that ended popped its buffer, so
that nothing in this one was delivered. What `stop()` has taken up is paid for in
advance, since the flusher may come back before `stop()` gets to that key.
`ExitIsSettled` bounds the finding of `routing_stop`: after `run()` queue, timers
and buffers are empty, and a digested alert that was neither delivered nor late is
in a flusher's delivery. `ExitInv` says why: while buffers are drained, those left
are to be delivered or in flight from `stop()` itself, which waits for them.

*AlertingProofs.* `FeedbackTogether` is proved in two parts: `RowsInv` for the
rows, as they are shown and as they are committed, `AnswersInv` for the requests,
which adds that a request that has found its alert still finds it unless another was
shown in its place; `UpdateFacts` says once what an update changes. Both need
`OpenInv`: the two tables differ in the row that is being written and only until its
transaction ends, so a rollback takes back nothing else. `NotifiedOrCut` needs that a
window just committed has told nobody (`ToldInv`); it is about the hand-over to the
sinks' queues, and a full queue may still drop the alert
(`alerting/dispatcher.py:137-143`). `KillChainEarned` follows from `ChainInv`: the
time the tracker has of a tactic is one it was fed, so those left after an eviction
are not older than the window; and while no alert was `late` they lie within a window
of each other, so the earliest of them (`LeastTime`) is where the window begins.

*BroadcastProofs.* `ClientsInv` ties the sender of a client to its endpoint and
its registration, from which `NoOrphanSender` and, with `DownInv`, the end of the
server follow; `CapInv` counts those in `accept()` together with those registered
while no two accepts overlapped; `DeliveryAccounted` and `CountedOnce` are
inductive over them.

*ThreatIntelProofs.* `BreakerInv` relates the breaker's count to the failures
since the last success and the window; `TasksInv` and `CursorInv` say what a poll
holds between its load, its fetch and its two saves, so that the snapshot covers
what the cursor will pass over whenever the process ends; `ReadInv` and `TableInv`
say that what a rebuild has read is current, or the event is set again.
`CursorsAdvance`, an action property, needs `AheadInv`: a poll that is about to
save its cursor loaded the stored one and found later indicators.

*SessionProofs.* `SinksInv` and `PeersInv` say what has ended by each place of
`main`, `DrainInv` what the steps so far have left: together they give
`StorageIsLast` and `OrderlyEnd` for any list of sinks. `StorageIsLast` does not say
that nothing uses the storage any more, which the code does not guarantee: what was
cut off by a time limit, or left by the server, may.

*Only model-checked*: liveness (fairness and ENABLED are not in TLAPS's reach).
Every invariant and the refinement that a passing run checks is proved. The
formulas of `LocksNeverBlockAll`, `FaultsAreExplained`, `CloseLeavesNothing`,
`ExitIsSettled`, `CursorsAdvance` and `OffsetsNeverMoveBack` are defined in the
proof modules, beside the invariants they need, and no run checks them.

## 5. Abstractions and limits

* The store model ends with the process's `close()`; a kill of the process and
  SQLite's own recovery (`synchronous=NORMAL`: a power failure may undo the
  last commits) are not modelled.
* Rows of the single-row writes are one row per task: which row is moot for the
  properties.
* `write_alert` and `update_feedback` appear in `EventStore` as transactions
  only; their contents belong to the alert store.
* `Ingest` has one path, and no inode number is used twice. If a file system
  gives the next file the inode of the last, rotation looks to the code like a
  truncation, which is modelled; a file that has grown beyond the saved offset
  again is not detected by the code (hazard list). Globs over several
  directories, which restart `awatch`, are left out.
* `AlertRouting` has one rule, so a key is a channel; `route()` after `stop()`
  does not occur, because the worker calls both.
* `Alerting` has one entity and the row of an alert without its junction tables,
  which follow it in the same transaction. Tactics two sources share are left out,
  so is `check_community_crossing`.
* `ThreatIntel` leaves out the limit on STIX objects per poll. A poll's snapshot
  replaces the stored one, as in the code, also when the poll found nothing, so the
  matcher knows what the last poll stored and not the indicators of all polls;
  `Converged` is about what is stored. A half-open circuit stays so until a result
  is recorded, although the docstring of `allow` speaks of one probe: a fetch that
  fails for another reason than authentication records none. A `_persist` that outlives its cancelled poll
  may meet `storage.close()`: `Session` has it (`persisting`), and for
  `ThreatIntel` it is one more save that ends at any place, as with `End`.
* `Session` has no clock: the time limits of the drain and the server are choices
  at any moment of the wait. The waits for the sinks have no limit in the code
  either. The task of `Pipeline.stop()` is never awaited.

### Not modelled

* *Detection and UEBA*: floating-point models and thresholds; TLC has no reals,
  and a rounding to integers would be another program.
* *Parsing, entities, Sigma, graph, LLM*: sequential transformations of text or
  calls of libraries within one await of the handler, without state that another
  task changes; unit tests reach them.
* *Windows, watermark, risk sums*: sequential within one handler call; numeric.
* *Other receivers*: they end in the `put_event` of `Ingest`. The gRPC threads are
  in the hazard list; their effect on asyncio's queue is undefined by asyncio.
* *Retries of channels* (`post_with_retry`): `AlertRouting` has their outcome.
* *REST API, Postgres, migrations, configuration, CLI, frontend*: I/O, schemas and
  wiring. Most of the repository's lines are of these kinds and the first two,
  which bounds the share of the code that a state machine can stand for.

## 6. Plan

1. *Done*: `EventStore` with `DurableLog`, `Ingest`, `Alerting`, `Broadcast`,
   `ThreatIntel`, `Session`, `AlertRouting`, all with proofs.
2. The correlation windows with their watermark, over all orders of a few times.
3. The gRPC and HTTP receivers with their threads and half-enqueued requests.
4. `post_with_retry` and the rate limits of the channels.

Parameters stay CONSTANTS with named assumptions, invariants conjunctions of
named parts, and no module uses a RECURSIVE operator.
