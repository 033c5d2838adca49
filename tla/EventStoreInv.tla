---------------------------- MODULE EventStoreInv ----------------------------
(***************************************************************************)
(* The inductive invariant of EventStore: what every reachable state has   *)
(* in common, strong enough to be carried over each step by itself.  TLC   *)
(* checks it on a small instance, EventStoreProofs proves it for every     *)
(* value of the constants.                                                 *)
(***************************************************************************)
EXTENDS EventStore

Holding   == {"write_lock"} \cup InTxn
TxnEvents == {e \in Events : EventRow(e) \in txn}

\* Who holds a lock is decided by where it is suspended, and conversely.
LockInv ==
    \A t \in Tasks :
        /\ bufLock = t <=> kind[t] = "batch" /\ pc[t] \in Holding
        /\ writeLock = t <=> pc[t] \in InTxn

\* A task outside a write owns no batch, outside a flush no promise.
LocalInv ==
    \A t \in Tasks :
        /\ pc[t] \notin Holding => kind[t] = "batch" /\ batch[t] = {}
        /\ kind[t] # "batch" => batch[t] = {} /\ promise[t] = {}
        /\ pc[t] \notin Holding \cup {"lock"} => promise[t] = {}

\* What a task suspended inside a transaction has achieved so far.
ProgressInv ==
    /\ ~connOpen => txn = {}
    /\ \A t \in Tasks :
          /\ connOpen /\ pc[t] \in {"stmt", "stmt2"} => FirstRows(t) \subseteq txn
          /\ connOpen /\ pc[t] = "stmt2" => SecondRows(t) \subseteq txn
          /\ pc[t] = "commit" => txn = {} /\ FirstRows(t) \subseteq db
          /\ pc[t] = "rollback" => txn = {}

\* A torn batch in the open transaction is still being written, or was cancelled.
TornInv ==
    \A e \in TxnEvents \cap Linked :
        \/ EntityRow(e) \in txn \/ e \in interrupted
        \/ \E t \in Tasks : writeLock = t /\ e \in batch[t]

\* Nothing is stored, buffered or promised that was not accepted.
AcceptedInv ==
    /\ buffer \cup InFlight \cup Persisted \cup TxnEvents \cup faulted
          \subseteq 1..accepted
    /\ \A t \in Tasks : promise[t] \subseteq 1..accepted

\* On disk < in the transaction < drained and not yet sent < in the buffer.
OrderInv ==
    /\ \A d \in Persisted, e \in TxnEvents : d < e
    /\ \A d \in Persisted \cup TxnEvents, t \in Tasks :
          pc[t] = "write_lock" => \A e \in batch[t] : d < e
    /\ \A d \in Persisted \cup TxnEvents \cup InFlight, e \in buffer : d < e

\* A flush under way already stands for all it promised but its own batch.
PromiseInv ==
    \A t \in Tasks :
        pc[t] \in Holding => promise[t] \subseteq batch[t] \cup Persisted \cup faulted

IInv ==
    /\ TypeOK
    /\ LockInv /\ LocalInv /\ ProgressInv
    /\ OwnTransaction
    /\ TornInv /\ WholeBatches
    /\ AcceptedInv /\ Accounted
    /\ OrderInv
    /\ PromiseInv /\ Barrier
=============================================================================
