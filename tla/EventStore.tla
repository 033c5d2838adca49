----------------------------- MODULE EventStore -----------------------------
(***************************************************************************)
(* The write side of the SQLite backend: the WriteBuffer in front of the   *)
(* events table, its periodic flusher, and the one shared connection on    *)
(* which every write transaction of the program runs.                      *)
(*                                                                         *)
(* Every task is an asyncio task; its pc is the await it is suspended at.  *)
(* Statements run on the connection's worker thread in the order they were *)
(* sent, reads included, so a statement takes effect when it is sent and   *)
(* the task learns the outcome when it resumes.  A cancelled task never    *)
(* resumes: what it has sent has been executed, the rest is not sent.      *)
(***************************************************************************)
EXTENDS Naturals, FiniteSets

CONSTANTS
    Timer,          \* the task of WriteBuffer._periodic_flush
    Writer,         \* the pipeline task: write_events and write_edge
    Closer,         \* the task that calls SqliteBackend.close
    Clients,        \* tasks of the API, the shutdown drain and the CLI
    None,           \* no task
    NumEvents,      \* bound: the events the pipeline writes
    Linked,         \* the events that refer to an entity
    MaxSize,        \* WriteBuffer._max_size
    MaxFailures,    \* bound: storage errors
    MaxCancels      \* bound: cancellations other than the one close() makes

Tasks == {Timer, Writer, Closer} \cup Clients

ASSUME EventStoreAssumption ==
    /\ Timer # Writer /\ Timer # Closer /\ Writer # Closer
    /\ Clients \cap {Timer, Writer, Closer} = {}
    /\ None \notin Tasks
    /\ NumEvents \in Nat
    /\ Linked \subseteq 1..NumEvents
    /\ MaxSize \in Nat \ {0}
    /\ MaxFailures \in Nat
    /\ MaxCancels \in Nat

VARIABLES
    buffer,         \* WriteBuffer._buffer (drained whole, so its order is moot)
    bufLock,        \* holder of WriteBuffer._lock
    writeLock,      \* holder of SqliteBackend._write_lock
    pc, kind,       \* where each task is suspended, and in which operation
    batch,          \* the events a task has drained and not yet settled
    txn,            \* rows of the connection's open transaction
    db,             \* committed rows
    closed,         \* SqliteBackend._closed
    connOpen,       \* the connection still accepts statements
    accepted,       \* events 1..accepted were passed to write_events
    promise,        \* history: the events accepted when a running flush began
    acked,          \* history: the promises of the flushes that returned
    faulted,        \* history: events of a batch that raised or was cancelled
    interrupted,    \* history: events of a batch that was cancelled
    orphans,        \* history: rows of txn whose writer has gone
    failures, cancels

storeVars == <<txn, db, connOpen, orphans>>
lockVars  == <<bufLock, writeLock>>
logVars   == <<accepted, acked, faulted, interrupted>>
budgets   == <<failures, cancels>>
vars == <<buffer, lockVars, pc, kind, batch, storeVars, closed, promise,
          logVars, budgets>>

Events == 1..NumEvents
EventRow(e)  == <<"events", e>>
EntityRow(e) == <<"entity_events", e>>
OwnRow(t)    == <<"row", t>>
AllRows == {EventRow(e) : e \in Events} \cup {EntityRow(e) : e \in Events}
               \cup {OwnRow(t) : t \in Tasks}

\* The rows of the first and of the second statement of t's transaction.
FirstRows(t) ==
    IF kind[t] = "batch" THEN {EventRow(e) : e \in batch[t]} ELSE {OwnRow(t)}
SecondRows(t) ==
    IF kind[t] = "batch" THEN {EntityRow(e) : e \in batch[t] \cap Linked} ELSE {}
Rows(t) == FirstRows(t) \cup SecondRows(t)

Persisted == {e \in Events : EventRow(e) \in db}
InFlight  == UNION {batch[t] : t \in Tasks}

Kinds   == {"batch", "row", "edge", "feedback"}
InTxn   == {"stmt", "stmt2", "commit", "raised", "rollback"}
Waiting == {"lock", "write_lock"}
Awaits  == Waiting \cup InTxn
PCs     == Awaits \cup {"idle", "flushed", "stopped"}

\* Where a task goes when the call it made returns or raises.
After(t) == IF t = Closer THEN "flushed" ELSE "idle"
-----------------------------------------------------------------------------
Init ==
    /\ buffer = {}
    /\ bufLock = None /\ writeLock = None
    /\ pc = [t \in Tasks |-> "idle"]
    /\ kind = [t \in Tasks |-> "batch"]
    /\ batch = [t \in Tasks |-> {}]
    /\ txn = {} /\ db = {} /\ orphans = {}
    /\ closed = FALSE /\ connOpen = TRUE
    /\ accepted = 0
    /\ promise = [t \in Tasks |-> {}]
    /\ acked = {} /\ faulted = {} /\ interrupted = {}
    /\ failures = 0 /\ cancels = 0

Goto(t, where) == pc' = [pc EXCEPT ![t] = where]

\* A call of WriteBuffer.flush() once n events were accepted.
CallFlush(t, n) ==
    /\ Goto(t, "lock")
    /\ kind' = [kind EXCEPT ![t] = "batch"]
    /\ promise' = [promise EXCEPT ![t] = 1..n]

\* Mutant: the event after the next one is buffered.
WriteEventsSkipping ==
    /\ pc[Writer] = "idle" /\ ~closed
    /\ accepted < NumEvents
    /\ accepted' = accepted + 1
    /\ buffer' = buffer \cup {accepted + 2}
    /\ UNCHANGED <<lockVars, pc, kind, batch, storeVars, closed, promise, acked,
                   faulted, interrupted, budgets>>

\* write_events() of the pipeline handler, one event at a time.  run() ends or
\* cancels the pipeline task before it closes the storage.
WriteEvents ==
    /\ pc[Writer] = "idle" /\ ~closed
    /\ accepted < NumEvents
    /\ accepted' = accepted + 1
    /\ buffer' = buffer \cup {accepted + 1}
    /\ IF Cardinality(buffer') >= MaxSize
       THEN CallFlush(Writer, accepted + 1)
       ELSE UNCHANGED <<pc, kind, promise>>
    /\ UNCHANGED <<lockVars, batch, storeVars, closed, acked, faulted,
                   interrupted, budgets>>

\* The timer's sleep ends, or a client calls SqliteBackend.flush().
Flush(t) ==
    /\ t \in {Timer} \cup Clients
    /\ pc[t] = "idle" /\ ~closed
    /\ CallFlush(t, accepted)
    /\ UNCHANGED <<buffer, lockVars, batch, storeVars, closed, logVars, budgets>>

\* Any other write.  Those without a rollback ("edge") are write_edge, in the
\* pipeline task, and the set_enabled and increment_counts of the Sigma state, in
\* a client.  Those with one are save_state, delete_state, write_templates, prune,
\* reset, write_alert, append_feedback_event ("row"), update_feedback ("feedback").
CallWrite(t, k) ==
    /\ \/ t = Writer /\ k = "edge" /\ ~closed
       \/ t \in Clients /\ k \in {"edge", "row", "feedback"}
    /\ pc[t] = "idle"
    /\ kind' = [kind EXCEPT ![t] = k]
    /\ Goto(t, "write_lock")
    /\ UNCHANGED <<buffer, lockVars, batch, storeVars, closed, promise,
                   logVars, budgets>>

\* Mutant: the batch is cut at max_size - 1 and the whole buffer is cleared.
DrainBufferCut(t) ==
    /\ pc[t] = "lock" /\ bufLock = None /\ buffer # {}
    /\ batch' = [batch EXCEPT ![t] = {e \in buffer : e - 1 \notin buffer}]
    /\ buffer' = {} /\ bufLock' = t
    /\ Goto(t, "write_lock")
    /\ UNCHANGED <<writeLock, kind, storeVars, closed, logVars, promise, budgets>>

\* Mutant: the code before S-348, which released the lock before the callback.
DrainBufferUnlocked(t) ==
    /\ pc[t] = "lock" /\ bufLock = None
    /\ IF buffer = {}
       THEN /\ acked' = acked \cup promise[t]
            /\ promise' = [promise EXCEPT ![t] = {}]
            /\ Goto(t, After(t))
            /\ UNCHANGED <<buffer, batch>>
       ELSE /\ batch' = [batch EXCEPT ![t] = buffer]
            /\ buffer' = {}
            /\ Goto(t, "write_lock")
            /\ UNCHANGED <<acked, promise>>
    /\ UNCHANGED <<lockVars, kind, storeVars, closed, accepted, faulted,
                   interrupted, budgets>>

\* WriteBuffer.flush() gets the lock: it returns at once on an empty buffer,
\* else it drains the buffer and goes on to the callback holding the lock.
DrainBuffer(t) ==
    /\ pc[t] = "lock" /\ bufLock = None
    /\ IF buffer = {}
       THEN /\ acked' = acked \cup promise[t]
            /\ promise' = [promise EXCEPT ![t] = {}]
            /\ Goto(t, After(t))
            /\ UNCHANGED <<buffer, batch, bufLock>>
       ELSE /\ batch' = [batch EXCEPT ![t] = buffer]
            /\ buffer' = {}
            /\ bufLock' = t
            /\ Goto(t, "write_lock")
            /\ UNCHANGED <<acked, promise>>
    /\ UNCHANGED <<writeLock, kind, storeVars, closed, accepted, faulted,
                   interrupted, budgets>>
-----------------------------------------------------------------------------
StorageError == failures < MaxFailures /\ failures' = failures + 1

\* One statement on the connection: it succeeds, or it raises after writing
\* some of its rows.
Execute(t, rows, where) ==
    \/ /\ connOpen
       /\ txn' = txn \cup rows
       /\ Goto(t, where)
       /\ UNCHANGED failures
    \/ /\ connOpen /\ StorageError
       /\ \E some \in SUBSET rows : txn' = txn \cup some
       /\ Goto(t, "raised")
    \/ /\ ~connOpen
       /\ Goto(t, "raised")
       /\ UNCHANGED <<txn, failures>>

\* Mutant: the code before S-340, with no lock around a transaction.
BeginWriteUnlocked(t) ==
    /\ pc[t] = "write_lock"
    /\ Execute(t, FirstRows(t), "stmt")
    /\ UNCHANGED <<buffer, lockVars, kind, batch, db, connOpen, orphans, closed,
                   promise, logVars, cancels>>

\* The task gets the write lock and sends its first statement.  The BEGIN
\* IMMEDIATE of update_feedback raises inside a transaction left open.
BeginWrite(t) ==
    /\ pc[t] = "write_lock" /\ writeLock = None
    /\ writeLock' = t
    /\ IF kind[t] = "feedback" /\ txn # {}
       THEN Goto(t, "raised") /\ UNCHANGED <<txn, failures>>
       ELSE Execute(t, FirstRows(t), "stmt")
    /\ UNCHANGED <<buffer, bufLock, kind, batch, db, connOpen, orphans, closed,
                   promise, logVars, cancels>>

\* entity_events rows of a batch, when one of its events has entities.
WriteEntityRows(t) ==
    /\ pc[t] = "stmt" /\ SecondRows(t) # {}
    /\ Execute(t, SecondRows(t), "stmt2")
    /\ UNCHANGED <<buffer, lockVars, kind, batch, db, connOpen, orphans, closed,
                   promise, logVars, cancels>>

\* Mutant: the events are committed before their entity_events rows are sent.
CommitEarly(t) ==
    /\ pc[t] \in {"stmt", "stmt2"} /\ connOpen
    /\ db' = db \cup txn
    /\ txn' = {} /\ orphans' = {}
    /\ Goto(t, "commit")
    /\ UNCHANGED <<buffer, lockVars, kind, batch, connOpen, closed, promise,
                   logVars, budgets>>

Commit(t) ==
    /\ pc[t] = "stmt2" \/ (pc[t] = "stmt" /\ SecondRows(t) = {})
    /\ \/ /\ connOpen
          /\ db' = db \cup txn
          /\ txn' = {} /\ orphans' = {}
          /\ Goto(t, "commit")
          /\ UNCHANGED failures
       \/ /\ connOpen /\ StorageError       \* the transaction may stay open
          /\ \/ UNCHANGED <<txn, orphans>>
             \/ txn' = {} /\ orphans' = {}
          /\ Goto(t, "raised")
          /\ UNCHANGED db
       \/ /\ ~connOpen
          /\ Goto(t, "raised")
          /\ UNCHANGED <<txn, db, orphans, failures>>
    /\ UNCHANGED <<buffer, lockVars, kind, batch, connOpen, closed, promise,
                   logVars, cancels>>

\* except Exception: rollback, then raise.  Writes of kind "edge" have no handler.
Rollback(t) ==
    /\ pc[t] = "raised" /\ kind[t] # "edge"
    /\ txn' = {} /\ orphans' = {}
    /\ Goto(t, "rollback")
    /\ UNCHANGED <<buffer, lockVars, kind, batch, db, connOpen, closed, promise,
                   logVars, budgets>>
-----------------------------------------------------------------------------
\* Mutant: the write lock is not given back.
ReleaseBufferOnly(t) ==
    /\ bufLock' = IF bufLock = t THEN None ELSE bufLock
    /\ writeLock' = writeLock
    /\ batch' = [batch EXCEPT ![t] = {}]
    /\ kind' = [kind EXCEPT ![t] = "batch"]

\* Leaving the async with blocks: each lock the task holds is released, and
\* the locals of the call are gone.
Release(t) ==
    /\ bufLock' = IF bufLock = t THEN None ELSE bufLock
    /\ writeLock' = IF writeLock = t THEN None ELSE writeLock
    /\ batch' = [batch EXCEPT ![t] = {}]
    /\ kind' = [kind EXCEPT ![t] = "batch"]

\* What a task that will not commit or roll back leaves in the transaction.
Abandon(t) ==
    /\ orphans' = IF writeLock = t THEN txn ELSE orphans
    /\ UNCHANGED <<txn, db, connOpen>>

WriteDone(t) ==
    /\ pc[t] = "commit"
    /\ Release(t)
    /\ Goto(t, After(t))
    /\ acked' = acked \cup promise[t]
    /\ promise' = [promise EXCEPT ![t] = {}]
    /\ UNCHANGED <<buffer, storeVars, closed, accepted, faulted, interrupted,
                   budgets>>

\* Mutant: flush() swallows the exception of its callback and returns.
WriteRaisesSwallowed(t) ==
    /\ pc[t] = "rollback" \/ (pc[t] = "raised" /\ kind[t] = "edge")
    /\ Release(t)
    /\ Abandon(t)
    /\ Goto(t, After(t))
    /\ acked' = acked \cup promise[t]
    /\ promise' = [promise EXCEPT ![t] = {}]
    /\ UNCHANGED <<buffer, closed, accepted, faulted, interrupted, budgets>>

\* Mutant: no except clause in _periodic_flush, whose task then dies.
WriteRaisesEndsTimer(t) ==
    /\ pc[t] = "rollback" \/ (pc[t] = "raised" /\ kind[t] = "edge")
    /\ Release(t)
    /\ Abandon(t)
    /\ Goto(t, IF t = Timer THEN "stopped" ELSE After(t))
    /\ faulted' = faulted \cup batch[t]
    /\ promise' = [promise EXCEPT ![t] = {}]
    /\ UNCHANGED <<buffer, closed, accepted, acked, interrupted, budgets>>

\* The exception leaves the call; _periodic_flush and the handler log it.
WriteRaises(t) ==
    /\ pc[t] = "rollback" \/ (pc[t] = "raised" /\ kind[t] = "edge")
    /\ Release(t)
    /\ Abandon(t)
    /\ Goto(t, After(t))
    /\ faulted' = faulted \cup batch[t]
    /\ promise' = [promise EXCEPT ![t] = {}]
    /\ UNCHANGED <<buffer, closed, accepted, acked, interrupted, budgets>>

\* CancelledError out of whatever the task awaits: except Exception does not
\* see it, so nothing is rolled back.
Interrupt(t) ==
    /\ Release(t)
    /\ Abandon(t)
    /\ faulted' = faulted \cup batch[t]
    /\ interrupted' = interrupted \cup batch[t]

\* run() cancels the pipeline task; wait_for cancels a client's call.
Cancel(t) ==
    /\ t \in {Writer} \cup Clients
    /\ pc[t] \in Awaits /\ cancels < MaxCancels
    /\ cancels' = cancels + 1
    /\ Interrupt(t)
    /\ promise' = [promise EXCEPT ![t] = {}]
    /\ Goto(t, IF t = Writer THEN "stopped" ELSE "idle")
    /\ UNCHANGED <<buffer, closed, accepted, acked, failures>>

\* Mutant: the cancelled timer does not leave its async with blocks.
CloseHoldingLocks ==
    /\ ~closed /\ pc[Closer] = "idle" /\ pc[Writer] \in {"idle", "stopped"}
    /\ closed' = TRUE
    /\ pc' = [pc EXCEPT ![Timer] = "stopped", ![Closer] = "lock"]
    /\ UNCHANGED <<buffer, lockVars, kind, batch, storeVars, logVars, promise,
                   budgets>>

\* SqliteBackend.close(): WriteBuffer.close() cancels the timer, awaits it and
\* flushes; the timer unwinds without awaiting anything.
Close ==
    /\ ~closed /\ pc[Closer] = "idle" /\ pc[Writer] \in {"idle", "stopped"}
    /\ closed' = TRUE
    /\ Interrupt(Timer)
    /\ pc' = [pc EXCEPT ![Timer] = "stopped", ![Closer] = "lock"]
    /\ promise' = [promise EXCEPT ![Timer] = {}, ![Closer] = 1..accepted]
    /\ UNCHANGED <<buffer, accepted, acked, budgets>>

\* finally: the connection is closed whether or not the last flush raised, and
\* an open transaction is rolled back by SQLite.
CloseConnection ==
    /\ pc[Closer] = "flushed"
    /\ connOpen' = FALSE
    /\ txn' = {} /\ orphans' = {}
    /\ Goto(Closer, "stopped")
    /\ UNCHANGED <<buffer, lockVars, kind, batch, db, closed, promise, logVars,
                   budgets>>

Call(t)   == Flush(t) \/ \E k \in Kinds : CallWrite(t, k)
Resume(t) == WriteEntityRows(t) \/ Commit(t) \/ Rollback(t) \/ WriteDone(t)
                \/ WriteRaises(t)

Next ==
    \/ WriteEvents \/ Close \/ CloseConnection
    \/ \E t \in Tasks : Call(t) \/ DrainBuffer(t) \/ BeginWrite(t) \/ Resume(t)
                           \/ Cancel(t)

\* asyncio resumes every task whose await is over, hands a lock over in FIFO
\* order, so that no waiter is passed over for ever, and ends the timer's sleep.
Progress(t) == DrainBuffer(t) \/ BeginWrite(t) \/ Resume(t)
Fairness ==
    /\ \A t \in Tasks : SF_vars(Progress(t))
    /\ WF_vars(Flush(Timer)) /\ WF_vars(CloseConnection)

Spec == Init /\ [][Next]_vars
FairSpec == Spec /\ Fairness
-----------------------------------------------------------------------------
TypeOK ==
    /\ accepted \in 0..NumEvents
    /\ buffer \subseteq Events
    /\ bufLock \in Tasks \cup {None} /\ writeLock \in Tasks \cup {None}
    /\ pc \in [Tasks -> PCs] /\ kind \in [Tasks -> Kinds]
    /\ batch \in [Tasks -> SUBSET Events]
    /\ promise \in [Tasks -> SUBSET Events]
    /\ txn \subseteq AllRows /\ db \subseteq AllRows /\ orphans \subseteq txn
    /\ closed \in BOOLEAN /\ connOpen \in BOOLEAN
    /\ acked \subseteq Events /\ faulted \subseteq Events
    /\ interrupted \subseteq faulted
    /\ failures \in 0..MaxFailures /\ cancels \in 0..MaxCancels

\* S-340: the open transaction holds only rows of the task that owns the write
\* lock, or rows left there by a task that was cancelled or by a failed write
\* without a rollback: no COMMIT publishes, and no ROLLBACK drops, the rows of
\* another transaction that is still running.
OwnTransaction ==
    txn \subseteq orphans \cup UNION {Rows(t) : t \in {writeLock} \cap Tasks}

\* An event is committed together with its entity_events rows; only a batch
\* that was cancelled between its two statements can be torn.
WholeBatches ==
    \A e \in Persisted \cap Linked :
        EntityRow(e) \in db \/ e \in interrupted

\* Every accepted event is in the buffer, in a batch being written, on disk, or
\* in a batch whose flush ended in an exception or a cancellation: draining the
\* buffer while the pipeline appends to it forgets nothing.
Accounted ==
    1..accepted \subseteq buffer \cup InFlight \cup Persisted \cup faulted

\* S-348: what a returned flush() stands for has been committed, unless the
\* batch it was in raised or was cancelled.
Barrier == acked \subseteq Persisted \cup faulted

Log == INSTANCE DurableLog WITH persisted <- Persisted

\* The store is a log: events reach disk in the order write_events accepted
\* them, nothing is dropped but by a fault, and flush() is a barrier.
ImplementsLog == Log!Spec

\* No task waits for a lock for ever: every way out of a write, cancellation
\* included, gives back both locks.
LocksAreHandedOver ==
    \A t \in Tasks : pc[t] \in Waiting ~> pc[t] \notin Waiting

\* An accepted event leaves the buffer even if nobody calls flush() and some
\* flushes fail: the periodic task survives its failures, and close() drains.
EventuallyDrained == buffer # {} ~> buffer = {}

\* close() ends and closes the connection, whatever the state of the writes
\* and of the periodic flush it cancels.
CloseCompletes == closed ~> ~connOpen

\* What the docstring of WriteBuffer says of flush(): "when it returns, every
\* event it (or a concurrent flusher) drained has been committed".
TrueBarrier == acked \subseteq Persisted

\* What the docstring of SqliteBackend.close() says: pending writes are
\* flushed.  With no storage error every accepted event is on disk afterwards.
CloseFlushesPending ==
    (~connOpen /\ failures = 0 /\ cancels = 0) => 1..accepted \subseteq Persisted
=============================================================================
