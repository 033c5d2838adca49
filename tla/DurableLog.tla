----------------------------- MODULE DurableLog -----------------------------
(***************************************************************************)
(* What the SQLite event store promises to its callers, with no buffer, no *)
(* lock and no transaction: events are accepted one after the other, they  *)
(* reach disk in the order they were accepted, an event may be given up    *)
(* only by a write that ended in an exception or a cancellation, and a     *)
(* flush() that returned speaks only for events whose fate is known.       *)
(*                                                                         *)
(* EventStore is the detailed specification that implements this one.      *)
(***************************************************************************)
EXTENDS Naturals

CONSTANT NumEvents          \* bound: how many events the pipeline ever writes

VARIABLES
    accepted,       \* events 1..accepted were handed to write_events()
    persisted,      \* the events committed to disk
    faulted,        \* the events whose write raised or was cancelled
    acked           \* the events a returned flush() stands for

logVars == <<accepted, persisted, faulted, acked>>

Events == 1..NumEvents

Init ==
    /\ accepted = 0
    /\ persisted = {}
    /\ faulted = {}
    /\ acked = {}

Accept ==
    /\ accepted < NumEvents
    /\ accepted' = accepted + 1
    /\ UNCHANGED <<persisted, faulted, acked>>

\* Commits never overtake: what is persisted now was accepted after all that
\* was persisted before.
Persist(new) ==
    /\ \A e \in new, d \in persisted : d < e
    /\ new \subseteq 1..accepted
    /\ persisted' = persisted \cup new
    /\ UNCHANGED <<accepted, faulted, acked>>

Fault(bad) ==
    /\ bad \subseteq 1..accepted
    /\ faulted' = faulted \cup bad
    /\ UNCHANGED <<accepted, persisted, acked>>

Acknowledge(known) ==
    /\ known \subseteq persisted \cup faulted
    /\ acked' = acked \cup known
    /\ UNCHANGED <<accepted, persisted, faulted>>

Next ==
    \/ Accept
    \/ \E S \in SUBSET Events : Persist(S) \/ Fault(S) \/ Acknowledge(S)

Spec == Init /\ [][Next]_logVars
=============================================================================
