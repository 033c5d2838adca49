--------------------------- MODULE EventStoreProofs ---------------------------
(***************************************************************************)
(* What holds of the event store for any number of tasks, of events, of    *)
(* storage errors and of cancellations: the inductive invariant IInv of    *)
(* EventStoreInv, the safety properties that follow from it, that the      *)
(* store implements DurableLog, and what its locks, its faults and its     *)
(* close() leave.                                                          *)
(***************************************************************************)
EXTENDS EventStoreInv, TLAPS

\* Rows of different tables, events or tasks are different.
LEMMA RowFacts ==
    \A e, f :
        /\ EventRow(e) = EventRow(f) => e = f
        /\ EntityRow(e) = EntityRow(f) => e = f
        /\ EventRow(e) # EntityRow(f)
        /\ EventRow(e) # OwnRow(f)
        /\ EntityRow(e) # OwnRow(f)
  BY DEF EventRow, EntityRow, OwnRow

\* A fresh backend, just connected: nothing buffered, no lock held, no transaction.
LEMMA InitIInv == Init => IInv
<1> SUFFICES ASSUME Init PROVE IInv
  OBVIOUS
<1> USE EventStoreAssumption DEF Init
<1>1. TypeOK
  <2>1. /\ pc \in [Tasks -> PCs] /\ kind \in [Tasks -> Kinds]
        /\ batch \in [Tasks -> SUBSET Events]
        /\ promise \in [Tasks -> SUBSET Events]
    BY DEF PCs, Kinds
  <2>2. /\ accepted \in 0..NumEvents /\ failures \in 0..MaxFailures
        /\ cancels \in 0..MaxCancels
    OBVIOUS
  <2> QED
    BY <2>1, <2>2 DEF TypeOK
<1>2. LockInv /\ LocalInv /\ ProgressInv
  BY DEF LockInv, LocalInv, ProgressInv, Holding, InTxn
<1>3. Persisted = {} /\ TxnEvents = {} /\ InFlight = {}
  BY DEF Persisted, TxnEvents, InFlight
<1>4. OwnTransaction /\ TornInv /\ WholeBatches
  BY <1>3 DEF OwnTransaction, TornInv, WholeBatches
<1>5. AcceptedInv /\ Accounted /\ OrderInv /\ PromiseInv /\ Barrier
  BY <1>3 DEF AcceptedInv, Accounted, OrderInv, PromiseInv, Barrier, Holding, InTxn
<1> QED
  BY <1>1, <1>2, <1>4, <1>5 DEF IInv

-----------------------------------------------------------------------------
(* Types                                                                   *)

\* What a transaction writes are rows of the tables.
LEMMA RowTypes ==
    ASSUME TypeOK, NEW t \in Tasks
    PROVE  FirstRows(t) \subseteq AllRows /\ SecondRows(t) \subseteq AllRows
<1>1. batch[t] \subseteq Events
  BY DEF TypeOK
<1> QED
  BY <1>1 DEF FirstRows, SecondRows, AllRows

\* A statement keeps the types, whatever rows it writes.
LEMMA ExecuteType ==
    ASSUME TypeOK, NEW t \in Tasks, NEW rows, rows \subseteq AllRows,
           NEW where \in PCs, Execute(t, rows, where)
    PROVE  /\ txn' \subseteq AllRows /\ txn \subseteq txn'
           /\ pc' \in [Tasks -> PCs]
           /\ failures' \in 0..MaxFailures
<1>1. "raised" \in PCs
  BY DEF PCs, Awaits, InTxn
<1>2. pc' \in [Tasks -> PCs]
  BY <1>1 DEF Execute, Goto, TypeOK
<1>3. failures' \in 0..MaxFailures
  BY EventStoreAssumption DEF Execute, StorageError, TypeOK
<1>4. txn' \subseteq AllRows /\ txn \subseteq txn'
  BY DEF Execute, TypeOK
<1> QED
  BY <1>2, <1>3, <1>4

\* Every step of a task, and every cancellation, keeps the types.
LEMMA TypeStep == TypeOK /\ [Next]_vars => TypeOK'
<1> SUFFICES ASSUME TypeOK, [Next]_vars PROVE TypeOK'
  OBVIOUS
<1>0. /\ {"idle", "flushed", "stopped", "lock", "write_lock", "stmt", "stmt2",
          "commit", "raised", "rollback"} \subseteq PCs
      /\ Kinds = {"batch", "row", "edge", "feedback"}
      /\ \A t \in Tasks : After(t) \in PCs
      /\ {Timer, Writer, Closer} \subseteq Tasks
      /\ \A n \in 0..NumEvents : 1..n \subseteq Events
  BY EventStoreAssumption DEF PCs, Awaits, Waiting, InTxn, Kinds, After, Tasks, Events
<1>1. CASE WriteEvents
  BY <1>0, <1>1, EventStoreAssumption
     DEF TypeOK, WriteEvents, CallFlush, Goto, Events, lockVars, storeVars, budgets
<1>2. ASSUME NEW t \in Tasks, Call(t) PROVE TypeOK'
  BY <1>0, <1>2 DEF TypeOK, Call, Flush, CallWrite, CallFlush, Goto, lockVars,
     storeVars, logVars, budgets
<1>3. ASSUME NEW t \in Tasks, DrainBuffer(t) PROVE TypeOK'
  <2>1. promise[t] \subseteq Events
    BY DEF TypeOK
  <2>2. acked' \subseteq Events /\ buffer' \subseteq Events
    BY <1>3, <2>1 DEF DrainBuffer, TypeOK
  <2>3. /\ pc' \in [Tasks -> PCs]
        /\ bufLock' \in Tasks \cup {None}
        /\ batch' \in [Tasks -> SUBSET Events]
        /\ promise' \in [Tasks -> SUBSET Events]
    BY <1>0, <1>3, <2>1 DEF DrainBuffer, TypeOK, Goto
  <2> QED
    BY <1>3, <2>2, <2>3 DEF DrainBuffer, TypeOK, lockVars, storeVars, budgets
<1>4. ASSUME NEW t \in Tasks, BeginWrite(t) PROVE TypeOK'
  <2>1. CASE kind[t] = "feedback" /\ txn # {}
    BY <1>0, <1>4, <2>1 DEF BeginWrite, TypeOK, Goto, logVars
  <2>2. CASE ~(kind[t] = "feedback" /\ txn # {})
    <3>1. Execute(t, FirstRows(t), "stmt")
      BY <1>4, <2>2 DEF BeginWrite
    <3> QED
      BY <1>0, <1>4, <3>1, RowTypes, ExecuteType DEF BeginWrite, TypeOK, logVars
  <2> QED
    BY <2>1, <2>2
<1>5. ASSUME NEW t \in Tasks, WriteEntityRows(t) PROVE TypeOK'
  BY <1>0, <1>5, RowTypes, ExecuteType
     DEF WriteEntityRows, TypeOK, lockVars, logVars
<1>6. ASSUME NEW t \in Tasks, Commit(t) PROVE TypeOK'
  <2>1. failures' \in 0..MaxFailures
    BY <1>6, EventStoreAssumption DEF Commit, StorageError, TypeOK
  <2>2. pc' \in [Tasks -> PCs]
    BY <1>0, <1>6 DEF Commit, TypeOK, Goto
  <2>3. txn' \subseteq AllRows /\ db' \subseteq AllRows /\ orphans' \subseteq txn'
    BY <1>6 DEF Commit, TypeOK
  <2> QED
    BY <1>6, <2>1, <2>2, <2>3 DEF Commit, TypeOK, lockVars, logVars
<1>7. ASSUME NEW t \in Tasks, Rollback(t) PROVE TypeOK'
  BY <1>0, <1>7 DEF Rollback, TypeOK, Goto, lockVars, logVars, budgets
<1>8. ASSUME NEW t \in Tasks, Release(t)
      PROVE  /\ bufLock' \in Tasks \cup {None} /\ writeLock' \in Tasks \cup {None}
             /\ batch' \in [Tasks -> SUBSET Events]
             /\ kind' \in [Tasks -> Kinds]
  BY <1>0, <1>8 DEF Release, TypeOK
<1>9. ASSUME NEW t \in Tasks, Abandon(t)
      PROVE  /\ txn' \subseteq AllRows /\ db' \subseteq AllRows
             /\ orphans' \subseteq txn' /\ connOpen' \in BOOLEAN
  BY <1>9 DEF Abandon, TypeOK
<1>10. ASSUME NEW t \in Tasks
       PROVE  /\ batch[t] \subseteq Events /\ promise[t] \subseteq Events
              /\ [promise EXCEPT ![t] = {}] \in [Tasks -> SUBSET Events]
              /\ [pc EXCEPT ![t] = After(t)] \in [Tasks -> PCs]
              /\ \A w \in PCs : [pc EXCEPT ![t] = w] \in [Tasks -> PCs]
  BY <1>0 DEF TypeOK
<1>11. ASSUME NEW t \in Tasks, WriteDone(t) PROVE TypeOK'
  BY <1>8, <1>10, <1>11 DEF WriteDone, Goto, TypeOK, storeVars, budgets
<1>12. ASSUME NEW t \in Tasks, WriteRaises(t) PROVE TypeOK'
  BY <1>8, <1>9, <1>10, <1>12 DEF WriteRaises, Goto, TypeOK, budgets
<1>13. ASSUME NEW t \in Tasks, Cancel(t) PROVE TypeOK'
  <2>1. cancels' \in 0..MaxCancels
    BY <1>13, EventStoreAssumption DEF Cancel, TypeOK
  <2>2. pc' \in [Tasks -> PCs]
    BY <1>0, <1>10, <1>13 DEF Cancel, Goto
  <2> QED
    BY <1>8, <1>9, <1>10, <1>13, <2>1, <2>2 DEF Cancel, Interrupt, TypeOK
<1>14. CASE Close
  <2>1. Timer \in Tasks /\ Closer \in Tasks
    BY <1>0
  <2>2. promise' \in [Tasks -> SUBSET Events]
    BY <1>0, <1>14 DEF Close, TypeOK
  <2>3. pc' \in [Tasks -> PCs]
    BY <1>0, <1>14 DEF Close, TypeOK
  <2> QED
    BY <1>8, <1>9, <1>10, <1>14, <2>1, <2>2, <2>3 DEF Close, Interrupt, TypeOK, budgets
<1>15. CASE CloseConnection
  BY <1>0, <1>15 DEF CloseConnection, TypeOK, Goto, lockVars, logVars, budgets
<1>16. CASE UNCHANGED vars
  BY <1>16 DEF TypeOK, vars, lockVars, storeVars, logVars, budgets
<1> QED
  BY <1>1, <1>2, <1>3, <1>4, <1>5, <1>6, <1>7, <1>11, <1>12, <1>13, <1>14, <1>15,
     <1>16 DEF Next, Resume

\* The types are right in every reachable state.
THEOREM TypeCorrect == Spec => []TypeOK
<1>1. Init => TypeOK
  BY InitIInv DEF IInv
<1> QED
  BY <1>1, TypeStep, PTL DEF Spec

-----------------------------------------------------------------------------
(* Locks: each is held by exactly the task whose pc says so.               *)

\* The tasks are distinct, and a call returns to its caller outside every lock.
LEMMA TaskFacts ==
    /\ Timer \in Tasks /\ Writer \in Tasks /\ Closer \in Tasks /\ None \notin Tasks
    /\ Timer # Closer /\ Timer # Writer /\ Writer # Closer
    /\ \A t \in Tasks : After(t) \in {"idle", "flushed"}
    /\ Holding = {"write_lock", "stmt", "stmt2", "commit", "raised", "rollback"}
    /\ InTxn = {"stmt", "stmt2", "commit", "raised", "rollback"}
  BY EventStoreAssumption DEF Tasks, After, Holding, InTxn

\* Moving a task that holds both or neither of the locks on, its kind kept.
LEMMA LockStep ==
    TypeOK /\ LockInv /\ LocalInv /\ [Next]_vars => LockInv' /\ LocalInv'
<1> SUFFICES ASSUME TypeOK, LockInv, LocalInv, [Next]_vars
             PROVE  LockInv' /\ LocalInv'
  OBVIOUS
<1> USE TaskFacts DEF LockInv, LocalInv
<1>0. /\ DOMAIN pc = Tasks /\ DOMAIN kind = Tasks /\ DOMAIN batch = Tasks
      /\ DOMAIN promise = Tasks
      /\ pc \in [Tasks -> PCs] /\ kind \in [Tasks -> Kinds]
      /\ batch \in [Tasks -> SUBSET Events]
      /\ promise \in [Tasks -> SUBSET Events]
  BY DEF TypeOK
<1>1. CASE WriteEvents
  BY <1>0, <1>1 DEF WriteEvents, CallFlush, Goto, lockVars
<1>2. ASSUME NEW t \in Tasks, Call(t) PROVE LockInv' /\ LocalInv'
  BY <1>0, <1>2 DEF Call, Flush, CallWrite, CallFlush, Goto, lockVars
<1>3. ASSUME NEW t \in Tasks, DrainBuffer(t) PROVE LockInv' /\ LocalInv'
  BY <1>0, <1>3 DEF DrainBuffer, Goto
<1>4. ASSUME NEW t \in Tasks, BeginWrite(t) PROVE LockInv' /\ LocalInv'
  BY <1>0, <1>4 DEF BeginWrite, Execute, Goto
<1>5. ASSUME NEW t \in Tasks, WriteEntityRows(t) PROVE LockInv' /\ LocalInv'
  BY <1>0, <1>5 DEF WriteEntityRows, Execute, Goto, lockVars
<1>6. ASSUME NEW t \in Tasks, Commit(t) PROVE LockInv' /\ LocalInv'
  BY <1>0, <1>6 DEF Commit, Goto, lockVars
<1>7. ASSUME NEW t \in Tasks, Rollback(t) PROVE LockInv' /\ LocalInv'
  BY <1>0, <1>7 DEF Rollback, Goto, lockVars
<1>8. ASSUME NEW t \in Tasks, WriteDone(t) PROVE LockInv' /\ LocalInv'
  BY <1>0, <1>8 DEF WriteDone, Release, Goto
<1>9. ASSUME NEW t \in Tasks, WriteRaises(t) PROVE LockInv' /\ LocalInv'
  BY <1>0, <1>9 DEF WriteRaises, Release, Goto
<1>10. ASSUME NEW t \in Tasks, Cancel(t) PROVE LockInv' /\ LocalInv'
  BY <1>0, <1>10 DEF Cancel, Interrupt, Release, Goto
<1>11. CASE Close
  BY <1>0, <1>11 DEF Close, Interrupt, Release
<1>12. CASE CloseConnection
  BY <1>0, <1>12 DEF CloseConnection, Goto, lockVars
<1>13. CASE UNCHANGED vars
  BY <1>13 DEF vars, lockVars
<1> QED
  BY <1>1, <1>2, <1>3, <1>4, <1>5, <1>6, <1>7, <1>8, <1>9, <1>10, <1>11, <1>12,
     <1>13 DEF Next, Resume

-----------------------------------------------------------------------------
(* The open transaction: whose rows it holds, and how far its writer is.   *)

\* S-340: while a task is between its first statement and COMMIT nobody else
\* commits or rolls back what it has written.
LEMMA ProgressStep ==
    TypeOK /\ LockInv /\ LocalInv /\ ProgressInv /\ [Next]_vars => ProgressInv'
<1> SUFFICES ASSUME TypeOK, LockInv, LocalInv, ProgressInv, [Next]_vars
             PROVE  ProgressInv'
  OBVIOUS
<1> USE TaskFacts DEF ProgressInv
<1>0. /\ pc \in [Tasks -> PCs] /\ kind \in [Tasks -> Kinds]
      /\ batch \in [Tasks -> SUBSET Events]
  BY DEF TypeOK
<1>1. CASE WriteEvents
  BY <1>0, <1>1 DEF WriteEvents, CallFlush, Goto, lockVars, storeVars, LocalInv,
     FirstRows, SecondRows
<1>2. ASSUME NEW t \in Tasks, Call(t) PROVE ProgressInv'
  BY <1>0, <1>2 DEF Call, Flush, CallWrite, CallFlush, Goto, storeVars, LocalInv,
     FirstRows, SecondRows
<1>3. ASSUME NEW t \in Tasks, DrainBuffer(t) PROVE ProgressInv'
  BY <1>0, <1>3 DEF DrainBuffer, Goto, storeVars, LocalInv, FirstRows, SecondRows
<1>4. ASSUME NEW t \in Tasks, BeginWrite(t) PROVE ProgressInv'
  BY <1>0, <1>4 DEF BeginWrite, Execute, Goto, LockInv, FirstRows, SecondRows
<1>5. ASSUME NEW t \in Tasks, WriteEntityRows(t) PROVE ProgressInv'
  BY <1>0, <1>5 DEF WriteEntityRows, Execute, Goto, LockInv, FirstRows, SecondRows
<1>6. ASSUME NEW t \in Tasks, Commit(t) PROVE ProgressInv'
  BY <1>0, <1>6 DEF Commit, Goto, LockInv, FirstRows, SecondRows
<1>7. ASSUME NEW t \in Tasks, Rollback(t) PROVE ProgressInv'
  BY <1>0, <1>7 DEF Rollback, Goto, LockInv, FirstRows, SecondRows
<1>8. ASSUME NEW t \in Tasks, WriteDone(t) PROVE ProgressInv'
  BY <1>0, <1>8 DEF WriteDone, Release, Goto, storeVars, LockInv, FirstRows, SecondRows
<1>9. ASSUME NEW t \in Tasks, WriteRaises(t) PROVE ProgressInv'
  BY <1>0, <1>9 DEF WriteRaises, Release, Abandon, Goto, LockInv, FirstRows, SecondRows
<1>10. ASSUME NEW t \in Tasks, Cancel(t) PROVE ProgressInv'
  BY <1>0, <1>10 DEF Cancel, Interrupt, Release, Abandon, Goto, LockInv, FirstRows,
     SecondRows
<1>11. CASE Close
  BY <1>0, <1>11 DEF Close, Interrupt, Release, Abandon, LockInv, FirstRows, SecondRows
<1>12. CASE CloseConnection
  BY <1>0, <1>12 DEF CloseConnection, Goto, LockInv, FirstRows, SecondRows
<1>13. CASE UNCHANGED vars
  BY <1>13 DEF vars, storeVars, FirstRows, SecondRows
<1> QED
  BY <1>1, <1>2, <1>3, <1>4, <1>5, <1>6, <1>7, <1>8, <1>9, <1>10, <1>11, <1>12,
     <1>13 DEF Next, Resume

\* Rows come into the transaction from the holder of the write lock alone, and
\* stay behind only when it leaves without COMMIT or ROLLBACK.
LEMMA OwnTransactionStep ==
    TypeOK /\ LockInv /\ LocalInv /\ ProgressInv /\ OwnTransaction /\ [Next]_vars
        => OwnTransaction'
<1> SUFFICES ASSUME TypeOK, LockInv, LocalInv, ProgressInv, OwnTransaction, [Next]_vars
             PROVE  OwnTransaction'
  OBVIOUS
<1> USE TaskFacts
<1>0. /\ pc \in [Tasks -> PCs] /\ kind \in [Tasks -> Kinds]
      /\ batch \in [Tasks -> SUBSET Events]
      /\ writeLock \in Tasks \cup {None}
  BY DEF TypeOK
\* The invariant without the union: rows of nobody who has gone are the holder's.
<1>a. OwnTransaction <=> IF writeLock \in Tasks THEN txn \subseteq orphans \cup Rows(writeLock)
                                               ELSE txn \subseteq orphans
  BY DEF OwnTransaction
<1>b. OwnTransaction' <=>
         IF writeLock' \in Tasks THEN txn' \subseteq orphans' \cup Rows(writeLock)'
                                 ELSE txn' \subseteq orphans'
  BY DEF OwnTransaction
<1>c. ASSUME NEW t \in Tasks, kind'[t] = kind[t], batch'[t] = batch[t]
      PROVE  Rows(t)' = Rows(t)
  BY <1>c DEF Rows, FirstRows, SecondRows
<1>1. CASE WriteEvents
  BY <1>0, <1>1, <1>a, <1>b, <1>c DEF WriteEvents, CallFlush, Goto, lockVars, storeVars,
     LocalInv, LockInv
<1>2. ASSUME NEW t \in Tasks, Call(t) PROVE OwnTransaction'
  BY <1>0, <1>2, <1>a, <1>b, <1>c DEF Call, Flush, CallWrite, CallFlush, Goto, lockVars,
     storeVars, LocalInv, LockInv
<1>3. ASSUME NEW t \in Tasks, DrainBuffer(t) PROVE OwnTransaction'
  BY <1>0, <1>3, <1>a, <1>b, <1>c DEF DrainBuffer, Goto, storeVars, LockInv
<1>4. ASSUME NEW t \in Tasks, BeginWrite(t) PROVE OwnTransaction'
  BY <1>0, <1>4, <1>a, <1>b, <1>c DEF BeginWrite, Execute, Rows
<1>5. ASSUME NEW t \in Tasks, WriteEntityRows(t) PROVE OwnTransaction'
  BY <1>0, <1>5, <1>a, <1>b, <1>c DEF WriteEntityRows, Execute, Rows, lockVars, LockInv
<1>6. ASSUME NEW t \in Tasks, Commit(t) PROVE OwnTransaction'
  BY <1>0, <1>6, <1>a, <1>b, <1>c DEF Commit, lockVars
<1>7. ASSUME NEW t \in Tasks, Rollback(t) PROVE OwnTransaction'
  BY <1>7, <1>b DEF Rollback
<1>8. ASSUME NEW t \in Tasks, WriteDone(t) PROVE OwnTransaction'
  BY <1>8, <1>b DEF WriteDone, ProgressInv, storeVars
<1>9. ASSUME NEW t \in Tasks, Release(t), Abandon(t) PROVE OwnTransaction'
  BY <1>0, <1>9, <1>a, <1>b, <1>c DEF Release, Abandon
<1>10. ASSUME NEW t \in Tasks, WriteRaises(t) \/ Cancel(t) PROVE OwnTransaction'
  BY <1>9, <1>10 DEF WriteRaises, Cancel, Interrupt
<1>11. CASE Close
  BY <1>9, <1>11 DEF Close, Interrupt
<1>12. CASE CloseConnection
  BY <1>12, <1>b DEF CloseConnection
<1>13. CASE UNCHANGED vars
  BY <1>0, <1>13, <1>a, <1>b, <1>c DEF vars, storeVars, lockVars
<1> QED
  BY <1>1, <1>2, <1>3, <1>4, <1>5, <1>6, <1>7, <1>8, <1>10, <1>11, <1>12, <1>13
     DEF Next, Resume

\* An event with entities is torn only between its two statements or by a cancel.
LEMMA TornStep ==
    TypeOK /\ LockInv /\ LocalInv /\ ProgressInv /\ TornInv /\ WholeBatches /\ [Next]_vars
        => TornInv' /\ WholeBatches'
<1> SUFFICES ASSUME TypeOK, LockInv, LocalInv, ProgressInv, TornInv, WholeBatches,
                    [Next]_vars
             PROVE  TornInv' /\ WholeBatches'
  OBVIOUS
<1> USE TaskFacts, RowFacts DEF TornInv, WholeBatches, TxnEvents, Persisted
<1>0. /\ pc \in [Tasks -> PCs] /\ kind \in [Tasks -> Kinds]
      /\ batch \in [Tasks -> SUBSET Events]
      /\ writeLock \in Tasks \cup {None}
  BY DEF TypeOK
<1>1. CASE WriteEvents
  BY <1>1 DEF WriteEvents, lockVars, storeVars
<1>2. ASSUME NEW t \in Tasks, Call(t) PROVE TornInv' /\ WholeBatches'
  BY <1>2 DEF Call, Flush, CallWrite, lockVars, storeVars, logVars
<1>3. ASSUME NEW t \in Tasks, DrainBuffer(t) PROVE TornInv' /\ WholeBatches'
  BY <1>0, <1>3 DEF DrainBuffer, storeVars, LocalInv
<1>4. ASSUME NEW t \in Tasks, BeginWrite(t) PROVE TornInv' /\ WholeBatches'
  BY <1>0, <1>4 DEF BeginWrite, Execute, FirstRows, logVars, LockInv
<1>5. ASSUME NEW t \in Tasks, WriteEntityRows(t) PROVE TornInv' /\ WholeBatches'
  BY <1>0, <1>5 DEF WriteEntityRows, Execute, SecondRows, lockVars, logVars
<1>6. ASSUME NEW t \in Tasks, Commit(t) PROVE TornInv' /\ WholeBatches'
  BY <1>0, <1>6 DEF Commit, FirstRows, SecondRows, lockVars, logVars, LockInv, LocalInv,
     ProgressInv
<1>7. ASSUME NEW t \in Tasks, Rollback(t) PROVE TornInv' /\ WholeBatches'
  BY <1>7 DEF Rollback, logVars
<1>8. ASSUME NEW t \in Tasks, WriteDone(t) PROVE TornInv' /\ WholeBatches'
  BY <1>8 DEF WriteDone, storeVars, ProgressInv
<1>9. ASSUME NEW t \in Tasks, WriteRaises(t) PROVE TornInv' /\ WholeBatches'
  BY <1>0, <1>9 DEF WriteRaises, Release, Abandon, ProgressInv, LocalInv, LockInv
<1>10. ASSUME NEW t \in Tasks, Interrupt(t) PROVE TornInv' /\ WholeBatches'
  BY <1>0, <1>10 DEF Interrupt, Release, Abandon
<1>11. CASE Close
  BY <1>10, <1>11 DEF Close
<1>12. CASE CloseConnection
  BY <1>12 DEF CloseConnection, logVars
<1>13. CASE UNCHANGED vars
  BY <1>13 DEF vars, storeVars, lockVars, logVars
<1>14. ASSUME NEW t \in Tasks, Cancel(t) PROVE TornInv' /\ WholeBatches'
  BY <1>10, <1>14 DEF Cancel
<1> QED
  BY <1>1, <1>2, <1>3, <1>4, <1>5, <1>6, <1>7, <1>8, <1>9, <1>11, <1>12, <1>13, <1>14
     DEF Next, Resume

-----------------------------------------------------------------------------
(* Where an accepted event can be, and in which order events get there.    *)

\* An event in flight is in the batch some flush has drained.
LEMMA InFlightFacts ==
    /\ \A e : e \in InFlight <=> \E t \in Tasks : e \in batch[t]
    /\ \A e : e \in InFlight' <=> \E t \in Tasks : e \in batch'[t]
  BY DEF InFlight

\* A commit stores the events of the open transaction, a failed one nothing.
LEMMA CommitStores ==
    ASSUME NEW t \in Tasks, Commit(t)
    PROVE  \/ Persisted' = Persisted \cup TxnEvents /\ TxnEvents' = {}
           \/ Persisted' = Persisted /\ TxnEvents' \subseteq TxnEvents
  BY DEF Commit, Persisted, TxnEvents

\* A statement adds no event to the transaction but those of its task's batch.
LEMMA BeginWriteStores ==
    ASSUME TypeOK, NEW t \in Tasks, BeginWrite(t)
    PROVE  /\ TxnEvents' \subseteq TxnEvents \cup batch[t]
           /\ kind[t] # "batch" => TxnEvents' \subseteq TxnEvents
  BY RowFacts DEF BeginWrite, Execute, TxnEvents, FirstRows

\* The entity_events statement adds no row of the events table.
LEMMA WriteEntityRowsStores ==
    ASSUME NEW t \in Tasks, WriteEntityRows(t)
    PROVE  TxnEvents' \subseteq TxnEvents
  BY RowFacts DEF WriteEntityRows, Execute, TxnEvents, SecondRows

\* Flushes are serialised by the buffer's lock, so no batch overtakes another
\* on its way to disk, and nothing is written that was not accepted.
LEMMA OrderStep ==
    TypeOK /\ LockInv /\ LocalInv /\ AcceptedInv /\ OrderInv /\ [Next]_vars
        => AcceptedInv' /\ OrderInv'
<1> SUFFICES ASSUME TypeOK, LockInv, LocalInv, AcceptedInv, OrderInv, [Next]_vars
             PROVE  AcceptedInv' /\ OrderInv'
  OBVIOUS
<1> USE TaskFacts, InFlightFacts DEF AcceptedInv, OrderInv
<1>0. /\ pc \in [Tasks -> PCs] /\ kind \in [Tasks -> Kinds]
      /\ batch \in [Tasks -> SUBSET Events]
      /\ promise \in [Tasks -> SUBSET Events]
      /\ accepted \in Nat
  BY EventStoreAssumption DEF TypeOK
<1>a. ASSUME UNCHANGED <<txn, db>>
      PROVE  Persisted' = Persisted /\ TxnEvents' = TxnEvents
  BY <1>a DEF Persisted, TxnEvents
<1>1. CASE WriteEvents
  <2>1. Persisted' = Persisted /\ TxnEvents' = TxnEvents
    BY <1>1, <1>a DEF WriteEvents, storeVars
  <2>2. AcceptedInv'
    <3>1. \A n \in {accepted, accepted + 1} : 1..n \subseteq 1..(accepted + 1)
      BY <1>0
    <3>2. accepted + 1 \in 1..(accepted + 1)
      BY <1>0
    <3>3. \A t \in Tasks : promise'[t] \subseteq 1..(accepted + 1)
      BY <1>0, <1>1, <3>1 DEF WriteEvents, CallFlush
    <3> QED
      BY <1>1, <2>1, <3>1, <3>2, <3>3 DEF WriteEvents
  <2>3. OrderInv'
    <3>1. \A d \in 1..accepted : d < accepted + 1
      BY <1>0
    <3>2. \A d \in Persisted \cup TxnEvents \cup InFlight : d < accepted + 1
      BY <3>1
    <3>3. \A t \in Tasks : pc'[t] = "write_lock" => pc[t] = "write_lock"
      BY <1>0, <1>1 DEF WriteEvents, CallFlush, Goto
    <3>4. batch' = batch /\ InFlight' = InFlight /\ buffer' = buffer \cup {accepted + 1}
      BY <1>1 DEF WriteEvents, InFlight
    <3> QED
      BY <2>1, <3>2, <3>3, <3>4
  <2> QED
    BY <2>2, <2>3
<1>2. ASSUME NEW t \in Tasks, Call(t) PROVE AcceptedInv' /\ OrderInv'
  <2>1. Persisted' = Persisted /\ TxnEvents' = TxnEvents
    BY <1>2, <1>a DEF Call, Flush, CallWrite, storeVars
  <2> QED
    BY <1>0, <1>2, <2>1 DEF Call, Flush, CallWrite, CallFlush, Goto, logVars, LocalInv
<1>3. ASSUME NEW t \in Tasks, DrainBuffer(t) PROVE AcceptedInv' /\ OrderInv'
  <2>1. Persisted' = Persisted /\ TxnEvents' = TxnEvents
    BY <1>3, <1>a DEF DrainBuffer, storeVars
  <2> QED
    BY <1>0, <1>3, <2>1 DEF DrainBuffer, Goto, LocalInv
<1>4. ASSUME NEW t \in Tasks, BeginWrite(t) PROVE AcceptedInv' /\ OrderInv'
  <2>1. Persisted' = Persisted
    BY <1>4 DEF BeginWrite, Persisted
  <2>2. \A u \in Tasks : pc'[u] = "write_lock" => pc[u] = "write_lock" /\ u # t
    BY <1>0, <1>4 DEF BeginWrite, Execute, Goto
  <2>3. \A u \in Tasks : pc'[u] = "write_lock" /\ batch[t] # {} => batch[u] = {}
    BY <1>0, <1>4, <2>2 DEF BeginWrite, LockInv, LocalInv
  <2> QED
    BY <1>0, <1>4, <2>1, <2>2, <2>3, BeginWriteStores DEF BeginWrite, logVars
<1>5. ASSUME NEW t \in Tasks, WriteEntityRows(t) PROVE AcceptedInv' /\ OrderInv'
  <2>1. Persisted' = Persisted
    BY <1>5 DEF WriteEntityRows, Persisted
  <2> QED
    BY ZenonT(30), <1>0, <1>5, <2>1, WriteEntityRowsStores
       DEF WriteEntityRows, Execute, Goto, logVars
<1>6. ASSUME NEW t \in Tasks, Commit(t) PROVE AcceptedInv' /\ OrderInv'
  <2>1. \A u \in Tasks : pc'[u] = "write_lock" => pc[u] = "write_lock"
    BY <1>0, <1>6 DEF Commit, Goto
  <2> QED
    BY <1>0, <1>6, <2>1, CommitStores DEF Commit, logVars
<1>7. ASSUME NEW t \in Tasks, Rollback(t) \/ (CloseConnection /\ t = Closer)
      PROVE  AcceptedInv' /\ OrderInv'
  <2>1. Persisted' = Persisted /\ TxnEvents' = {}
    BY <1>7 DEF Rollback, CloseConnection, Persisted, TxnEvents
  <2> QED
    BY <1>0, <1>7, <2>1 DEF Rollback, CloseConnection, Goto, logVars
<1>8. ASSUME NEW t \in Tasks, Release(t), UNCHANGED <<txn, db, buffer, accepted>>,
             \A u \in Tasks : pc'[u] = "write_lock" => pc[u] = "write_lock",
             \A u \in Tasks : promise'[u] \subseteq promise[u] \cup 1..accepted,
             faulted' \subseteq faulted \cup batch[t]
      PROVE  AcceptedInv' /\ OrderInv'
  <2>1. Persisted' = Persisted /\ TxnEvents' = TxnEvents
    BY <1>8, <1>a
  <2>2. InFlight' \subseteq InFlight /\ \A u \in Tasks : batch'[u] \subseteq batch[u]
    BY <1>0, <1>8 DEF Release
  <2>3. faulted' \subseteq 1..accepted
    BY <1>8
  <2> QED
    BY ZenonT(30), <1>0, <1>8, <2>1, <2>2, <2>3
<1>9. ASSUME NEW t \in Tasks, WriteDone(t) PROVE AcceptedInv' /\ OrderInv'
  BY <1>0, <1>8, <1>9 DEF WriteDone, Goto, storeVars
<1>10. ASSUME NEW t \in Tasks, WriteRaises(t) PROVE AcceptedInv' /\ OrderInv'
  BY <1>0, <1>8, <1>10 DEF WriteRaises, Abandon, Goto
<1>11. ASSUME NEW t \in Tasks, Cancel(t) PROVE AcceptedInv' /\ OrderInv'
  BY <1>0, <1>8, <1>11 DEF Cancel, Interrupt, Abandon, Goto
<1>12. CASE Close
  BY <1>0, <1>8, <1>12 DEF Close, Interrupt, Abandon
<1>13. CASE UNCHANGED vars
  BY <1>13, <1>a DEF vars, storeVars, logVars
<1> QED
  BY <1>1, <1>2, <1>3, <1>4, <1>5, <1>6, <1>7, <1>9, <1>10, <1>11, <1>12, <1>13
     DEF Next, Resume

\* Draining forgets no event, and a flush that returns has seen its promise kept.
LEMMA FateStep ==
    TypeOK /\ LockInv /\ LocalInv /\ ProgressInv /\ AcceptedInv /\ Accounted
      /\ PromiseInv /\ Barrier /\ [Next]_vars
        => Accounted' /\ PromiseInv' /\ Barrier'
<1> SUFFICES ASSUME TypeOK, LockInv, LocalInv, ProgressInv, AcceptedInv, Accounted,
                    PromiseInv, Barrier, [Next]_vars
             PROVE  Accounted' /\ PromiseInv' /\ Barrier'
  OBVIOUS
<1> USE TaskFacts, InFlightFacts DEF Accounted, PromiseInv, Barrier
<1>0. /\ pc \in [Tasks -> PCs] /\ kind \in [Tasks -> Kinds]
      /\ batch \in [Tasks -> SUBSET Events]
      /\ promise \in [Tasks -> SUBSET Events]
      /\ accepted \in Nat
  BY EventStoreAssumption DEF TypeOK
<1>a. ASSUME db' = db
      PROVE  Persisted' = Persisted
  BY <1>a DEF Persisted
<1>1. CASE WriteEvents
  <2>1. Persisted' = Persisted
    BY <1>1, <1>a DEF WriteEvents, storeVars
  <2>2. 1..(accepted + 1) \subseteq (1..accepted) \cup {accepted + 1}
    BY <1>0
  <2>3. \A t \in Tasks : pc'[t] \in Holding => pc[t] \in Holding /\ promise'[t] = promise[t]
    BY <1>0, <1>1 DEF WriteEvents, CallFlush, Goto
  <2> QED
    BY <1>1, <2>1, <2>2, <2>3 DEF WriteEvents
<1>2. ASSUME NEW t \in Tasks, Call(t) PROVE Accounted' /\ PromiseInv' /\ Barrier'
  <2>1. Persisted' = Persisted
    BY <1>2, <1>a DEF Call, Flush, CallWrite, storeVars
  <2> QED
    BY <1>0, <1>2, <2>1 DEF Call, Flush, CallWrite, CallFlush, Goto, logVars, LocalInv
\* A task about to drain knows all it promised: nothing is drained and unsettled.
<1>3. ASSUME NEW t \in Tasks, DrainBuffer(t) PROVE Accounted' /\ PromiseInv' /\ Barrier'
  <2>1. Persisted' = Persisted
    BY <1>3, <1>a DEF DrainBuffer, storeVars
  <2>2. InFlight = {}
    BY <1>0, <1>3 DEF DrainBuffer, LockInv, LocalInv
  <2>3. promise[t] \subseteq buffer \cup Persisted \cup faulted
    BY <2>2 DEF AcceptedInv
  <2> QED
    BY <1>0, <1>3, <2>1, <2>2, <2>3 DEF DrainBuffer, Goto
<1>4. ASSUME NEW t \in Tasks, BeginWrite(t) \/ WriteEntityRows(t) \/ Rollback(t)
      PROVE  Accounted' /\ PromiseInv' /\ Barrier'
  <2>1. Persisted' = Persisted
    BY <1>4, <1>a DEF BeginWrite, WriteEntityRows, Rollback
  <2>2. \A u \in Tasks : pc'[u] \in Holding => pc[u] \in Holding
    BY <1>0, <1>4 DEF BeginWrite, WriteEntityRows, Rollback, Execute, Goto
  <2> QED
    BY <1>4, <2>1, <2>2 DEF BeginWrite, WriteEntityRows, Rollback, logVars
<1>5. ASSUME NEW t \in Tasks, Commit(t) PROVE Accounted' /\ PromiseInv' /\ Barrier'
  <2>1. Persisted \subseteq Persisted'
    BY <1>5, CommitStores
  <2>2. \A u \in Tasks : pc'[u] \in Holding => pc[u] \in Holding
    BY <1>0, <1>5 DEF Commit, Goto
  <2> QED
    BY <1>5, <2>1, <2>2 DEF Commit, logVars
<1>6. ASSUME NEW t \in Tasks, WriteDone(t) PROVE Accounted' /\ PromiseInv' /\ Barrier'
  <2>1. Persisted' = Persisted
    BY <1>6, <1>a DEF WriteDone, storeVars
  <2>2. batch[t] \subseteq Persisted
    BY <1>0, <1>6 DEF WriteDone, ProgressInv, FirstRows, LocalInv, Persisted
  <2>3. promise[t] \subseteq Persisted \cup faulted
    BY <1>6, <2>2 DEF WriteDone
  <2> QED
    BY <1>0, <1>6, <2>1, <2>2, <2>3 DEF WriteDone, Release, Goto
<1>7. ASSUME NEW t \in Tasks, Release(t), UNCHANGED <<db, buffer, accepted, acked>>,
             \A u \in Tasks : pc'[u] \in Holding =>
                                 u # t /\ pc[u] \in Holding /\ promise'[u] = promise[u],
             faulted' = faulted \cup batch[t]
      PROVE  Accounted' /\ PromiseInv' /\ Barrier'
  BY <1>0, <1>7, <1>a DEF Release
<1>8. ASSUME NEW t \in Tasks, WriteRaises(t) PROVE Accounted' /\ PromiseInv' /\ Barrier'
  BY <1>0, <1>7, <1>8 DEF WriteRaises, Abandon, Goto
<1>9. ASSUME NEW t \in Tasks, Cancel(t) PROVE Accounted' /\ PromiseInv' /\ Barrier'
  BY <1>0, <1>7, <1>9 DEF Cancel, Interrupt, Abandon, Goto
<1>10. CASE Close
  BY <1>0, <1>7, <1>10 DEF Close, Interrupt, Abandon
<1>11. CASE CloseConnection
  BY <1>0, <1>11, <1>a DEF CloseConnection, Goto, logVars
<1>12. CASE UNCHANGED vars
  BY <1>12, <1>a DEF vars, storeVars, logVars
<1> QED
  BY <1>1, <1>2, <1>3, <1>4, <1>5, <1>6, <1>8, <1>9, <1>10, <1>11, <1>12
     DEF Next, Resume

\* Every step of the store preserves the inductive invariant.
LEMMA IInvStep == IInv /\ [Next]_vars => IInv'
  BY TypeStep, LockStep, ProgressStep, OwnTransactionStep, TornStep, OrderStep, FateStep
     DEF IInv

\* The inductive invariant holds in every reachable state.
LEMMA Invariance == Spec => []IInv
  BY InitIInv, IInvStep, PTL DEF Spec

-----------------------------------------------------------------------------
(* The results                                                             *)

\* S-340, for any number of tasks: the open transaction holds only rows of the
\* holder of the write lock or of a writer that has gone.
THEOREM TransactionsAreOwned == Spec => []OwnTransaction
<1>1. IInv => OwnTransaction
  BY DEF IInv
<1> QED
  BY <1>1, Invariance, PTL

\* Events and their entity_events rows are committed together, unless the batch
\* was cancelled between its statements.
THEOREM BatchesAreWhole == Spec => []WholeBatches
<1>1. IInv => WholeBatches
  BY DEF IInv
<1> QED
  BY <1>1, Invariance, PTL

\* No accepted event is forgotten between the buffer and the disk.
THEOREM EventsAreAccounted == Spec => []Accounted
<1>1. IInv => Accounted
  BY DEF IInv
<1> QED
  BY <1>1, Invariance, PTL

\* S-348: a returned flush() stands for events that are committed or faulted.
THEOREM FlushIsABarrier == Spec => []Barrier
<1>1. IInv => Barrier
  BY DEF IInv
<1> QED
  BY <1>1, Invariance, PTL

\* The store implements the log it promises: acceptance order on disk, no loss
\* but by a fault, and flush() as a barrier.
THEOREM StoreImplementsLog == Spec => ImplementsLog
<1>1. Init => Log!Init
  BY DEF Init, Log!Init, Persisted
<1>2. ASSUME IInv, Barrier', [Next]_vars
      PROVE  [Log!Next]_(Log!logVars)
  <2> USE <1>2 DEF IInv
  <2>0. /\ 1..accepted \subseteq Events
        /\ \A S \in SUBSET (1..accepted) : S \in SUBSET Log!Events
    BY EventStoreAssumption DEF TypeOK, Events, Log!Events
  \* A step that touches neither disk nor history is a stutter of the log.
  <2>1. ASSUME UNCHANGED <<db, accepted, acked, faulted>>
        PROVE  UNCHANGED Log!logVars
    BY <2>1 DEF Log!logVars, Persisted
  <2>2. CASE WriteEvents
    <3>1. Log!Accept
      BY <2>2 DEF WriteEvents, storeVars, Log!Accept, Persisted
    <3> QED
      BY <3>1 DEF Log!Next
  <2>3. ASSUME NEW t \in Tasks, Commit(t) PROVE [Log!Next]_(Log!logVars)
    <3>1. CASE Persisted' = Persisted \cup TxnEvents
      <4>1. TxnEvents \in SUBSET Log!Events
        BY <2>0 DEF AcceptedInv
      <4>2. Log!Persist(TxnEvents)
        BY <2>3, <3>1 DEF Commit, logVars, Log!Persist, AcceptedInv, OrderInv
      <4> QED
        BY <4>1, <4>2 DEF Log!Next
    <3>2. CASE Persisted' = Persisted
      BY <2>3, <3>2 DEF Commit, logVars, Log!logVars
    <3> QED
      BY <2>3, <3>1, <3>2, CommitStores
  <2>4. ASSUME NEW t \in Tasks, db' = db, accepted' = accepted, faulted' = faulted,
               acked' = acked \/ acked' = acked \cup promise[t]
        PROVE  [Log!Next]_(Log!logVars)
    <3>1. CASE acked' = acked
      BY <2>1, <2>4, <3>1
    <3>2. CASE acked' = acked \cup promise[t]
      <4>1. acked' \subseteq Persisted \cup faulted
        BY <2>4 DEF Barrier, Persisted
      <4>2. promise[t] \in SUBSET Log!Events
        BY <2>0 DEF AcceptedInv
      <4>3. Log!Acknowledge(promise[t])
        BY <2>4, <3>2, <4>1 DEF Log!Acknowledge, Persisted
      <4> QED
        BY <4>2, <4>3 DEF Log!Next
    <3> QED
      BY <2>4, <3>1, <3>2
  <2>5. ASSUME NEW t \in Tasks, db' = db, accepted' = accepted, acked' = acked,
               faulted' = faulted \cup batch[t]
        PROVE  [Log!Next]_(Log!logVars)
    <3>1. batch[t] \in SUBSET (1..accepted)
      BY InFlightFacts DEF AcceptedInv
    <3>2. Log!Fault(batch[t])
      BY <2>5, <3>1 DEF Log!Fault, Persisted
    <3> QED
      BY <2>0, <3>1, <3>2 DEF Log!Next
  <2>6. ASSUME NEW t \in Tasks, DrainBuffer(t) \/ WriteDone(t)
        PROVE  [Log!Next]_(Log!logVars)
    BY <2>4, <2>6 DEF DrainBuffer, WriteDone, storeVars
  <2>7. ASSUME NEW t \in Tasks, WriteRaises(t) \/ Cancel(t)
        PROVE  [Log!Next]_(Log!logVars)
    BY <2>5, <2>7 DEF WriteRaises, Cancel, Interrupt, Abandon
  <2>8. CASE Close
    BY <2>5, <2>8, TaskFacts DEF Close, Interrupt, Abandon
  <2>9. ASSUME NEW t \in Tasks,
               Call(t) \/ BeginWrite(t) \/ WriteEntityRows(t) \/ Rollback(t)
        PROVE  [Log!Next]_(Log!logVars)
    BY <2>1, <2>9 DEF Call, Flush, CallWrite, BeginWrite, WriteEntityRows, Rollback,
       storeVars, logVars
  <2>10. CASE CloseConnection \/ UNCHANGED vars
    BY <2>1, <2>10 DEF CloseConnection, vars, storeVars, logVars
  <2> QED
    BY <2>2, <2>3, <2>6, <2>7, <2>8, <2>9, <2>10 DEF Next, Resume
<1> QED
  BY <1>1, <1>2, Invariance, FlushIsABarrier, PTL DEF Spec, Log!Spec, ImplementsLog

-----------------------------------------------------------------------------
(* What two locks, storage errors and close() leave *)

\* A task that the locks let go on: it takes one that is free, or it has both and
\* is in its transaction (sqlite.py: _locked_txn under the buffer's lock).
CanGoOn(t) ==
    \/ pc[t] = "lock" /\ bufLock = None
    \/ pc[t] = "write_lock" /\ writeLock = None
    \/ pc[t] \in InTxn

\* No task waits for a lock it holds, and as long as one waits for a lock another
\* can go on: the buffer's lock is always taken before the write lock.
NoCircularWait ==
    /\ \A t \in Tasks : bufLock = t => pc[t] # "lock"
    /\ \A t \in Tasks : writeLock = t => pc[t] \notin Waiting
    /\ (\E t \in Tasks : pc[t] \in Waiting) => \E t \in Tasks : CanGoOn(t)

\* A batch is given up for a reason: as long as no statement raised only batches
\* whose task was cancelled are, and nobody is cancelled before close() but by a
\* caller of its own.
FaultsHaveCauses ==
    /\ failures = 0 => faulted \subseteq interrupted
    /\ cancels = 0 /\ ~closed => interrupted = {}

\* close() has flushed, or also closed the connection.
Settled == pc[Closer] \in {"flushed", "stopped"}

\* What close() leaves: nothing buffered, nothing in flight, and every event that
\* write_events() accepted on disk or in a batch that failed.
CloseSettles ==
    Settled => /\ buffer = {} /\ InFlight = {}
               /\ 1..accepted \subseteq Persisted \cup faulted

\* close() has set closed when it moves, has taken the buffer when it writes, and
\* leaves it empty and unlocked: after closed no event is accepted.
CloserInv ==
    /\ kind[Closer] = "batch"
    /\ pc[Closer] # "idle" => closed = TRUE
    /\ pc[Closer] \in Holding \/ Settled => buffer = {}
    /\ Settled => bufLock = None
    /\ connOpen # TRUE => pc[Closer] = "stopped"

\* A fault has a cause, and without a storage error a task that raises has no batch:
\* it is a statement on a closed connection, or a feedback that is refused.
CauseInv ==
    /\ failures = 0 => faulted \subseteq interrupted
    /\ cancels = 0 /\ closed # TRUE => interrupted = {}
    /\ \A t \in Tasks :
          failures = 0 /\ pc[t] \in {"raised", "rollback"} => batch[t] = {}

\* The tasks with a part of their own.
LEMMA Named ==
    /\ {Timer, Writer, Closer} \subseteq Tasks
    /\ Closer \notin {Timer, Writer} \cup Clients
    /\ None \notin Tasks
  BY EventStoreAssumption DEF Tasks

\* Once close() has flushed, no task has a batch.
LEMMA NoBatches == ASSUME IInv, CloserInv, Settled PROVE \A t \in Tasks : batch[t] = {}
<1> SUFFICES ASSUME NEW t \in Tasks PROVE batch[t] = {}
  OBVIOUS
<1>1. bufLock # t
  BY Named DEF CloserInv
<1> QED BY <1>1 DEF IInv, LockInv, LocalInv

\* Every step keeps what is said of close().
LEMMA CloserStep == IInv /\ CloserInv /\ [Next]_vars => CloserInv'
<1> SUFFICES ASSUME IInv, CloserInv, [Next]_vars PROVE CloserInv'
  OBVIOUS
<1> USE Named DEF CloserInv, Settled
<1>0. TypeOK /\ LockInv /\ LocalInv /\ Holding = {"write_lock"} \cup InTxn
  BY DEF IInv, Holding
<1>1. CASE WriteEvents
  <2>1. pc[Closer] = "idle" /\ pc'[Closer] = "idle" /\ kind'[Closer] = "batch"
    BY <1>0, <1>1 DEF WriteEvents, CallFlush, Goto, TypeOK
  <2> QED BY <1>1, <2>1 DEF WriteEvents, Holding, InTxn, storeVars
<1>2. ASSUME NEW t \in Tasks, Call(t) PROVE CloserInv'
  <2>1. t # Closer /\ pc'[Closer] = pc[Closer] /\ kind'[Closer] = kind[Closer]
    BY <1>0, <1>2 DEF Call, Flush, CallWrite, CallFlush, Goto, TypeOK
  <2> QED BY <1>2, <2>1 DEF Call, Flush, CallWrite, lockVars, storeVars
<1>3. ASSUME NEW t \in Tasks, DrainBuffer(t) PROVE CloserInv'
  <2>1. UNCHANGED <<kind, closed, connOpen>>
    BY <1>3 DEF DrainBuffer, storeVars
  <2>2. CASE buffer = {}
    <3>1. UNCHANGED <<bufLock, buffer>> /\ pc' = [pc EXCEPT ![t] = After(t)] /\ bufLock = None
      BY <1>3, <2>2 DEF DrainBuffer, Goto
    <3>2. t # Closer => pc'[Closer] = pc[Closer]
      BY <1>0, <3>1 DEF TypeOK
    <3>3. t = Closer => pc'[Closer] = "flushed" /\ pc[Closer] = "lock"
      BY <1>0, <1>3, <3>1 DEF TypeOK, After, DrainBuffer
    <3> QED BY <2>1, <2>2, <3>1, <3>2, <3>3
  <2>3. CASE buffer # {}
    <3>1. buffer' = {} /\ pc' = [pc EXCEPT ![t] = "write_lock"] /\ pc[t] = "lock"
      BY <1>3, <2>3 DEF DrainBuffer, Goto
    <3>2. pc'[Closer] = IF t = Closer THEN "write_lock" ELSE pc[Closer]
      BY <1>0, <3>1 DEF TypeOK
    <3>3. ~Settled
      BY <2>3
    <3>4. ~Settled' /\ (pc'[Closer] # "idle" => pc[Closer] # "idle")
      BY <3>1, <3>2, <3>3
    <3>5. connOpen # TRUE => FALSE
      BY <3>3
    <3> QED BY <2>1, <3>1, <3>4, <3>5
  <2> QED BY <2>2, <2>3
<1>4. ASSUME NEW t \in Tasks, BeginWrite(t) \/ WriteEntityRows(t) \/ Commit(t) \/ Rollback(t)
      PROVE  CloserInv'
  <2>1. UNCHANGED <<buffer, bufLock, kind, closed, connOpen>>
    BY <1>4 DEF BeginWrite, WriteEntityRows, Commit, Rollback, lockVars
  <2>2. pc[t] \in Holding /\ \E w \in InTxn : pc' = [pc EXCEPT ![t] = w]
    BY <1>4 DEF BeginWrite, WriteEntityRows, Commit, Rollback, Execute, Goto, Holding, InTxn
  <2>3. pc'[Closer] = pc[Closer] \/ (pc[Closer] \in Holding /\ pc'[Closer] \in InTxn)
    BY <1>0, <2>2 DEF TypeOK
  <2>4. \A w \in InTxn : w \notin {"idle", "flushed", "stopped"}
    BY DEF InTxn
  <2>5. \A w \in Holding : w \notin {"idle", "flushed", "stopped"}
    BY DEF InTxn, Holding
  <2> QED BY <1>0, <2>1, <2>3, <2>4, <2>5
\* A task that leaves its write gives back the buffer lock if it has it.
<1>5. ASSUME NEW t \in Tasks, Release(t)
      PROVE  /\ kind'[Closer] = "batch"
             /\ bufLock' = IF bufLock = t THEN None ELSE bufLock
  BY <1>0, <1>5 DEF Release, TypeOK
<1>6. ASSUME NEW t \in Tasks, WriteDone(t) \/ WriteRaises(t) PROVE CloserInv'
  <2>1. UNCHANGED <<buffer, closed, connOpen>> /\ Release(t) /\ pc[t] \in Holding
        /\ pc' = [pc EXCEPT ![t] = After(t)]
    BY <1>6 DEF WriteDone, WriteRaises, Abandon, Goto, storeVars, Holding, InTxn
  <2>2. CASE t = Closer
    <3>1. pc'[Closer] = "flushed" /\ pc[Closer] \in Holding
      BY <1>0, <2>1, <2>2 DEF TypeOK, After
    <3>2. bufLock = Closer
      BY <1>0, <3>1 DEF LockInv
    <3>3. pc[Closer] \notin {"idle", "stopped"}
      BY <3>1 DEF Holding, InTxn
    <3> QED BY <1>5, <2>1, <2>2, <3>1, <3>2, <3>3
  <2>3. CASE t # Closer
    <3>1. pc'[Closer] = pc[Closer]
      BY <1>0, <2>1, <2>3 DEF TypeOK
    <3> QED BY <1>5, <2>1, <2>3, <3>1
  <2> QED BY <2>2, <2>3
<1>7. ASSUME NEW t \in Tasks, Cancel(t) PROVE CloserInv'
  <2>1. UNCHANGED <<buffer, closed, connOpen>> /\ Release(t) /\ t # Closer
    BY <1>7 DEF Cancel, Interrupt, Abandon
  <2>2. pc'[Closer] = pc[Closer]
    BY <1>0, <1>7, <2>1 DEF Cancel, Goto, TypeOK
  <2> QED BY <1>5, <2>1, <2>2
<1>8. CASE Close
  <2>1. UNCHANGED <<buffer, connOpen>> /\ Release(Timer) /\ closed' = TRUE
        /\ pc[Closer] = "idle" /\ pc'[Closer] = "lock"
    BY <1>0, <1>8 DEF Close, Interrupt, Abandon, TypeOK
  <2>2. "lock" \notin Holding
    BY DEF Holding, InTxn
  <2> QED BY <1>5, <2>1, <2>2
<1>9. CASE CloseConnection
  <2>1. pc[Closer] = "flushed" /\ pc'[Closer] = "stopped"
        /\ UNCHANGED <<buffer, bufLock, kind, closed>>
    BY <1>0, <1>9 DEF CloseConnection, Goto, TypeOK, lockVars
  <2> QED BY <2>1
<1>10. CASE UNCHANGED vars
  BY <1>10 DEF vars, lockVars, storeVars
<1> QED
  BY <1>1, <1>2, <1>3, <1>4, <1>6, <1>7, <1>8, <1>9, <1>10 DEF Next, Resume

\* Every step keeps what is said of the causes of a fault.
LEMMA CauseStep == IInv /\ CloserInv /\ CauseInv /\ [Next]_vars => CauseInv'
<1> SUFFICES ASSUME IInv, CloserInv, CauseInv, [Next]_vars PROVE CauseInv'
  OBVIOUS
<1> USE Named DEF CauseInv
<1>0. TypeOK /\ LocalInv /\ failures \in Nat /\ cancels \in Nat
  BY EventStoreAssumption DEF IInv, TypeOK
<1>1. CASE WriteEvents
  BY <1>0, <1>1 DEF WriteEvents, CallFlush, Goto, TypeOK, budgets
<1>2. ASSUME NEW t \in Tasks, Call(t) PROVE CauseInv'
  BY <1>0, <1>2 DEF Call, Flush, CallWrite, CallFlush, Goto, TypeOK, logVars, budgets
<1>3. ASSUME NEW t \in Tasks, DrainBuffer(t) PROVE CauseInv'
  BY <1>0, <1>3 DEF DrainBuffer, Goto, After, TypeOK, budgets
\* A statement raises for an error of the storage, or without a batch.
<1>4. ASSUME NEW t \in Tasks, BeginWrite(t) \/ WriteEntityRows(t) \/ Commit(t)
      PROVE  CauseInv'
  <2>1. UNCHANGED <<batch, faulted, interrupted, cancels, closed>>
    BY <1>4 DEF BeginWrite, WriteEntityRows, Commit, logVars
  <2>2. /\ failures' \in Nat /\ (failures' = 0 => failures = 0)
        /\ \E w \in InTxn \ {"rollback"} :
              /\ pc' = [pc EXCEPT ![t] = w]
              /\ w = "raised" => failures' # 0 \/ ~connOpen \/ kind[t] = "feedback"
    <3>1. CASE BeginWrite(t)
      <4>1. \/ /\ failures' = failures /\ pc' = [pc EXCEPT ![t] = "stmt"]
            \/ /\ connOpen /\ failures' = failures + 1 /\ pc' = [pc EXCEPT ![t] = "raised"]
            \/ /\ failures' = failures /\ pc' = [pc EXCEPT ![t] = "raised"]
               /\ ~connOpen \/ kind[t] = "feedback"
        BY <3>1, SMTT(30) DEF BeginWrite, Execute, StorageError, Goto
      <4> QED BY <1>0, <4>1 DEF InTxn
    <3>2. CASE WriteEntityRows(t)
      BY <1>0, <3>2 DEF WriteEntityRows, Execute, StorageError, Goto, InTxn
    <3>3. CASE Commit(t)
      BY <1>0, <3>3 DEF Commit, StorageError, Goto, InTxn
    <3> QED BY <1>4, <3>1, <3>2, <3>3
  <2>3. ~connOpen \/ kind[t] = "feedback" => batch[t] = {}
    BY <1>0, NoBatches DEF CloserInv, Settled, LocalInv
  <2>4. ASSUME NEW u \in Tasks, failures' = 0, pc'[u] \in {"raised", "rollback"}
        PROVE  batch[u] = {}
    <3>1. CASE u = t
      BY <1>0, <2>2, <2>3, <2>4, <3>1 DEF TypeOK
    <3>2. CASE u # t
      BY <1>0, <2>2, <2>4, <3>2 DEF TypeOK
    <3> QED BY <3>1, <3>2
  <2>5. failures' = 0 => failures = 0
    BY <2>2
  <2> QED BY <2>1, <2>4, <2>5
<1>5. ASSUME NEW t \in Tasks, Rollback(t) PROVE CauseInv'
  BY <1>0, <1>5 DEF Rollback, Goto, TypeOK, logVars, budgets
<1>6. ASSUME NEW t \in Tasks, Release(t)
      PROVE  \A u \in Tasks : batch'[u] = {} \/ batch'[u] = batch[u]
  BY <1>0, <1>6 DEF Release, TypeOK
<1>7. ASSUME NEW t \in Tasks, WriteDone(t) PROVE CauseInv'
  BY <1>0, <1>6, <1>7 DEF WriteDone, Goto, After, TypeOK, budgets
<1>8. ASSUME NEW t \in Tasks, WriteRaises(t) PROVE CauseInv'
  <2>1. failures = 0 => batch[t] = {}
    BY <1>8 DEF WriteRaises
  <2> QED BY <1>0, <1>6, <1>8, <2>1 DEF WriteRaises, Goto, After, TypeOK, budgets
<1>9. ASSUME NEW t \in Tasks, Cancel(t) PROVE CauseInv'
  <2>1. cancels' > 0 /\ failures' = failures
        /\ faulted' = faulted \cup batch[t] /\ interrupted' = interrupted \cup batch[t]
    BY <1>0, <1>9 DEF Cancel, Interrupt
  <2>2. \A u \in Tasks : pc'[u] \in {"raised", "rollback"} => pc'[u] = pc[u]
    BY <1>0, <1>9 DEF Cancel, Goto, TypeOK
  <2>3. \A u \in Tasks : batch'[u] = {} \/ batch'[u] = batch[u]
    BY <1>6, <1>9 DEF Cancel, Interrupt
  <2>4. failures' = 0 => faulted' \subseteq interrupted'
    BY <2>1
  <2>5. ~(cancels' = 0)
    BY <1>0, <2>1
  <2> QED BY <2>1, <2>2, <2>3, <2>4, <2>5
<1>10. CASE Close
  <2>1. closed' = TRUE /\ failures' = failures
        /\ faulted' = faulted \cup batch[Timer] /\ interrupted' = interrupted \cup batch[Timer]
    BY <1>10 DEF Close, Interrupt, budgets
  <2>2. \A u \in Tasks : pc'[u] \in {"raised", "rollback"} => pc'[u] = pc[u]
    BY <1>0, <1>10 DEF Close, TypeOK
  <2> QED BY <1>6, <1>10, <2>1, <2>2 DEF Close, Interrupt
<1>11. CASE CloseConnection
  BY <1>0, <1>11 DEF CloseConnection, Goto, TypeOK, logVars, budgets
<1>12. CASE UNCHANGED vars
  BY <1>12 DEF vars, logVars, budgets
<1> QED
  BY <1>1, <1>2, <1>3, <1>4, <1>5, <1>7, <1>8, <1>9, <1>10, <1>11, <1>12 DEF Next, Resume

\* What holds besides of close() and of faults in every reachable state.
LEMMA CauseInvariance == Spec => [](IInv /\ CloserInv /\ CauseInv)
<1>1. Init => CloserInv /\ CauseInv
  BY Named DEF Init, CloserInv, CauseInv, Settled, Holding, InTxn
<1> QED
  BY <1>1, InitIInv, IInvStep, CloserStep, CauseStep, PTL DEF Spec

\* Two locks, taken one in the other, never leave every task waiting.
THEOREM LocksNeverBlockAll == Spec => []NoCircularWait
<1>1. IInv => NoCircularWait
  <2> SUFFICES ASSUME IInv PROVE NoCircularWait
    OBVIOUS
  <2>1. LockInv /\ TypeOK /\ "lock" \notin Holding /\ InTxn \cap Waiting = {}
        /\ Holding = {"write_lock"} \cup InTxn
    BY DEF IInv, Holding, InTxn, Waiting
  <2>2. \A t \in Tasks : (bufLock = t => pc[t] # "lock") /\ (writeLock = t => pc[t] \notin Waiting)
    BY <2>1 DEF LockInv
  <2>3. ASSUME NEW t \in Tasks, pc[t] = "write_lock" PROVE \E u \in Tasks : CanGoOn(u)
    <3>1. CASE writeLock = None
      BY <2>3, <3>1 DEF CanGoOn
    <3>2. CASE writeLock \in Tasks
      BY <2>1, <3>2 DEF LockInv, CanGoOn
    <3> QED BY <2>1, <3>1, <3>2 DEF TypeOK
  <2>4. ASSUME NEW t \in Tasks, pc[t] = "lock" PROVE \E u \in Tasks : CanGoOn(u)
    <3>1. CASE bufLock = None
      BY <2>4, <3>1 DEF CanGoOn
    <3>2. CASE bufLock \in Tasks
      <4>1. pc[bufLock] = "write_lock" \/ pc[bufLock] \in InTxn
        BY <2>1, <3>2 DEF LockInv
      <4> QED BY <2>3, <3>2, <4>1 DEF CanGoOn
    <3> QED BY <2>1, <3>1, <3>2 DEF TypeOK
  <2> QED BY <2>2, <2>3, <2>4 DEF NoCircularWait, Waiting
<1> QED
  BY <1>1, Invariance, PTL

\* An accepted event is given up only for a storage error or a cancellation, and
\* before close() without either none is.
THEOREM FaultsAreExplained == Spec => []FaultsHaveCauses
<1>1. CauseInv => FaultsHaveCauses
  BY DEF CauseInv, FaultsHaveCauses
<1> QED
  BY <1>1, CauseInvariance, PTL

\* Once close() has flushed, nothing of what was accepted is still in memory.  It
\* does not say that all is on disk: CloseFlushesPending, which does, is refuted.
THEOREM CloseLeavesNothing == Spec => []CloseSettles
<1>1. IInv /\ CloserInv => CloseSettles
  <2> SUFFICES ASSUME IInv, CloserInv, Settled
               PROVE  buffer = {} /\ InFlight = {} /\ 1..accepted \subseteq Persisted \cup faulted
    BY DEF CloseSettles
  <2>1. buffer = {}
    BY DEF CloserInv
  <2>2. InFlight = {}
    BY NoBatches DEF InFlight
  <2> QED BY <2>1, <2>2 DEF IInv, Accounted
<1> QED
  BY <1>1, CauseInvariance, PTL
=============================================================================
