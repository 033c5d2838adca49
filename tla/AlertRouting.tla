---------------------------- MODULE AlertRouting ----------------------------
(***************************************************************************)
(* From the alert queue of the AlertDispatcher to the notification         *)
(* channels: the worker of run(), which routes the alerts one after the    *)
(* other and stops the NotificationRouter at the end, and the router's     *)
(* digest buffers with the flusher tasks that deliver them beside it.      *)
(*                                                                         *)
(* Notify[a] lists the channels alert a is for when it is routed, minimum  *)
(* severity and quiet hours included.  A delivery that fails is logged and *)
(* not repeated, so it counts as attempted like one that succeeds.         *)
(***************************************************************************)
EXTENDS Naturals, Sequences, FiniteSets

CONSTANTS
    NumAlerts,      \* bound: alerts the pipeline enqueues
    QueueSize,      \* queue_maxsize of the dispatcher
    Channels,       \* names of the delivery targets
    Digest,         \* channels notified in digest mode (one rule: key = channel)
    Mail,           \* of these: one message made at once, as EmailTarget does;
                    \* the others deliver the alerts of the list in turn
    Notify,         \* the notify entries of each alert
    MaxFlights      \* bound: flushers of one key delivering at the same time

Alerts == 1..NumAlerts

ASSUME RoutingAssumption ==
    /\ NumAlerts \in Nat /\ QueueSize \in Nat \ {0} /\ MaxFlights \in Nat \ {0}
    /\ Mail \subseteq Digest /\ Digest \subseteq Channels
    /\ Notify \in [Alerts -> Seq(Channels)]

VARIABLES
    enqueued,       \* alerts 1..enqueued were passed to enqueue()
    queue,          \* AlertDispatcher._queue
    running,        \* AlertDispatcher._running
    worker,         \* where the task of run() is
    alert, entries, \* the alert it routes, and the notify entries left
    lists,          \* the list objects made for each key, by number
    buffer,         \* _digest_buffers: the number of the key's list, 0 if none
    timers,         \* _digest_tasks: keys with a flusher asleep
    flights,        \* deliver_digest calls in progress; slot 0 is stop()'s
    drain,          \* the buffers stop() has yet to deliver
    attempts,       \* history: how often each alert was delivered, or failed
    late,           \* history: alerts buffered while an older digest was in flight
    overlaps        \* history: digests begun while one of their key was in flight

workerVars == <<worker, alert, entries>>
digestVars == <<lists, buffer, timers>>
vars == <<enqueued, queue, running, workerVars, digestVars, flights, drain,
          attempts, late, overlaps>>

Slots == 0..MaxFlights
NoFlight == [list |-> 0, at |-> 0, mail |-> {}]
Elements(s) == {s[i] : i \in DOMAIN s}
Flying(k, s) == flights[<<k, s>>] # NoFlight
InFlight(k)  == \E s \in Slots : Flying(k, s)
Buffered(k)  == IF buffer[k] = 0 THEN {} ELSE Elements(lists[k][buffer[k]])

\* The alerts a delivery in progress still has to deliver.
Ahead(k, s) ==
    LET f == flights[<<k, s>>]
    IN  IF ~Flying(k, s) THEN {}
        ELSE IF k \in Mail THEN f.mail
        ELSE {lists[k][f.list][i] : i \in f.at..Len(lists[k][f.list])}

Init ==
    /\ enqueued = 0 /\ queue = <<>> /\ running = TRUE
    /\ worker = "get" /\ alert = 0 /\ entries = <<>>
    /\ lists = [k \in Digest |-> <<>>] /\ buffer = [k \in Digest |-> 0]
    /\ timers = {}
    /\ flights = [f \in Digest \X Slots |-> NoFlight]
    /\ drain = {}
    /\ attempts = [k \in Channels |-> [a \in Alerts |-> 0]]
    /\ late = {} /\ overlaps = [k \in Digest |-> 0]
-----------------------------------------------------------------------------
(* AlertDispatcher *)

\* Mutant: the queue has no bound.
EnqueueUnbounded ==
    /\ running /\ enqueued < NumAlerts
    /\ enqueued' = enqueued + 1
    /\ queue' = Append(queue, enqueued + 1)
    /\ UNCHANGED <<running, workerVars, digestVars, flights, drain, attempts,
                   late, overlaps>>

\* The pipeline handler's enqueue(); a full queue drops the alert.  run() has
\* ended the pipeline before it tears the dispatcher down.
Enqueue ==
    /\ running /\ enqueued < NumAlerts
    /\ enqueued' = enqueued + 1
    /\ queue' = IF Len(queue) < QueueSize THEN Append(queue, enqueued + 1) ELSE queue
    /\ UNCHANGED <<running, workerVars, digestVars, flights, drain, attempts,
                   late, overlaps>>

\* The worker gets an alert, and the router selects its notify entries.
Get ==
    /\ worker = "get" /\ queue # <<>>
    /\ queue' = Tail(queue)
    /\ alert' = Head(queue) /\ entries' = Notify[Head(queue)]
    /\ worker' = "route"
    /\ UNCHANGED <<enqueued, running, digestVars, flights, drain, attempts,
                   late, overlaps>>

\* teardown() of the pipeline calls AlertDispatcher.stop().
Stop ==
    /\ running /\ running' = FALSE
    /\ UNCHANGED <<enqueued, queue, workerVars, digestVars, flights, drain,
                   attempts, late, overlaps>>
-----------------------------------------------------------------------------
(* NotificationRouter.route *)

Counted(k, sent) ==
    attempts' = [attempts EXCEPT ![k] = [a \in Alerts |-> IF a \in sent THEN @[a] + 1 ELSE @[a]]]

Deliver ==
    /\ worker = "route" /\ entries # <<>> /\ Head(entries) \notin Digest
    /\ Counted(Head(entries), {alert})
    /\ entries' = Tail(entries)
    /\ UNCHANGED <<enqueued, queue, running, worker, alert, digestVars, flights,
                   drain, late, overlaps>>

\* Where _buffer_for_digest puts an alert: the key's list, or a new one.
ListOf(k) == IF buffer[k] = 0 THEN Len(lists[k]) + 1 ELSE buffer[k]

\* The key's lists with the alert in it.
Filled(k) == IF buffer[k] = 0 THEN Append(lists[k], <<alert>>)
             ELSE [lists[k] EXCEPT ![buffer[k]] = Append(lists[k][buffer[k]], alert)]

\* Mutant: a flusher that has run stays in _digest_tasks, so no other follows.
BufferForDigestOnce(k) ==
    /\ buffer' = [buffer EXCEPT ![k] = ListOf(k)]
    /\ lists' = [lists EXCEPT ![k] = Filled(k)]
    /\ timers' = IF lists[k] = <<>> THEN timers \cup {k} ELSE timers

BufferForDigest(k) ==
    /\ buffer' = [buffer EXCEPT ![k] = ListOf(k)]
    /\ lists' = [lists EXCEPT ![k] = Filled(k)]
    /\ timers' = timers \cup {k}

RouteToDigest ==
    /\ worker = "route" /\ entries # <<>>
    /\ LET k == Head(entries)
       IN  /\ k \in Digest
           /\ BufferForDigest(k)
           /\ late' = IF \E s \in Slots : Flying(k, s)
                             /\ (k \in Mail \/ flights[<<k, s>>].list # ListOf(k))
                      THEN late \cup {<<k, alert>>} ELSE late
    /\ entries' = Tail(entries)
    /\ UNCHANGED <<enqueued, queue, running, worker, alert, flights, drain,
                   attempts,
                   overlaps>>

RouteDone ==
    /\ worker = "route" /\ entries = <<>>
    /\ worker' = "get" /\ alert' = 0
    /\ UNCHANGED <<enqueued, queue, running, entries, digestVars, flights, drain,
                   attempts, late, overlaps>>
-----------------------------------------------------------------------------
(* The flusher tasks, and deliver_digest *)

Flight(k, l) == [list |-> l, at |-> 1, mail |-> Elements(lists[k][l])]

\* Of these keys, the ones with a buffer to deliver while a delivery goes on.
Overlapping(keys) ==
    overlaps' = [k \in Digest |-> IF k \in keys /\ buffer[k] # 0 /\ InFlight(k)
                                 THEN overlaps[k] + 1 ELSE overlaps[k]]

\* _flush_after: the window is over.  The task leaves _digest_tasks before it
\* delivers; without a buffer it has nothing to do.
Flush(k, s) ==
    /\ k \in timers /\ s # 0 /\ ~Flying(k, s)
    /\ timers' = timers \ {k}
    /\ flights' = IF buffer[k] = 0 THEN flights
                  ELSE [flights EXCEPT ![<<k, s>>] = Flight(k, buffer[k])]
    /\ Overlapping({k})
    /\ UNCHANGED <<enqueued, queue, running, workerVars, lists, buffer, drain,
                   attempts, late>>

Last(k, s) == k \in Mail \/ flights[<<k, s>>].at = Len(lists[k][flights[<<k, s>>].list])

\* Mutant: the buffer is not popped after the delivery.
DeliverDigestKeeping(k, s) ==
    /\ Flying(k, s)
    /\ Counted(k, IF k \in Mail THEN flights[<<k, s>>].mail
                  ELSE {lists[k][flights[<<k, s>>].list][flights[<<k, s>>].at]})
    /\ flights' = [flights EXCEPT ![<<k, s>>] = IF Last(k, s) THEN NoFlight
                                            ELSE [@ EXCEPT !.at = @ + 1]]
    /\ UNCHANGED <<enqueued, queue, running, workerVars, lists, buffer, timers,
                   drain, late, overlaps>>

\* Mutant: a list is taken for delivered once its first alert is.
DeliverDigestFirst(k, s) ==
    /\ Flying(k, s)
    /\ Counted(k, IF k \in Mail THEN flights[<<k, s>>].mail
                  ELSE {lists[k][flights[<<k, s>>].list][flights[<<k, s>>].at]})
    /\ flights' = [flights EXCEPT ![<<k, s>>] = NoFlight]
    /\ buffer' = [buffer EXCEPT ![k] = 0]
    /\ UNCHANGED <<enqueued, queue, running, workerVars, lists, timers, drain,
                   late, overlaps>>

\* A delivery comes back: the message was sent, or one alert of the list was,
\* and then the next is, those appended meanwhile included.  After the last one
\* the key's buffer is popped, whatever list it is by then.
DeliverDigest(k, s) ==
    /\ Flying(k, s)
    /\ Counted(k, IF k \in Mail THEN flights[<<k, s>>].mail
                  ELSE {lists[k][flights[<<k, s>>].list][flights[<<k, s>>].at]})
    /\ IF Last(k, s)
       THEN /\ flights' = [flights EXCEPT ![<<k, s>>] = NoFlight]
            /\ buffer' = [buffer EXCEPT ![k] = 0]
       ELSE /\ flights' = [flights EXCEPT ![<<k, s>>].at = @ + 1]
            /\ UNCHANGED buffer
    /\ UNCHANGED <<enqueued, queue, running, workerVars, lists, timers, drain,
                   late, overlaps>>
-----------------------------------------------------------------------------
(* NotificationRouter.stop, called by run() once the queue is empty *)

\* Mutant: run() ends as soon as it is told to stop, its queue not drained.
StopTimersEarly ==
    /\ worker = "get" /\ ~running
    /\ timers' = {}
    /\ worker' = "stop"
    /\ UNCHANGED <<enqueued, queue, running, alert, entries, lists, buffer,
                   flights, drain, attempts, late, overlaps>>

\* The flushers that sleep are cancelled; those that deliver are not known here.
StopTimers ==
    /\ worker = "get" /\ ~running /\ queue = <<>>
    /\ timers' = {}
    /\ worker' = "stop"
    /\ UNCHANGED <<enqueued, queue, running, alert, entries, lists, buffer,
                   flights, drain, attempts, late, overlaps>>

BeginDrain ==
    /\ worker = "stop"
    /\ drain' = {<<k, buffer[k]>> : k \in {c \in Digest : buffer[c] # 0}}
    /\ worker' = "drain"
    /\ Overlapping(Digest)
    /\ UNCHANGED <<enqueued, queue, running, alert, entries, digestVars, flights,
                   attempts, late>>

Draining == \E k \in Digest : Flying(k, 0)

DrainNext(k) ==
    /\ worker = "drain" /\ ~Draining
    /\ \E l \in 1..Len(lists[k]) :
          /\ <<k, l>> \in drain
          /\ drain' = drain \ {<<k, l>>}
          /\ flights' = [flights EXCEPT ![<<k, 0>>] = Flight(k, l)]
    /\ UNCHANGED <<enqueued, queue, running, workerVars, digestVars, attempts, late,
                   overlaps>>

DrainDone ==
    /\ worker = "drain" /\ ~Draining /\ drain = {}
    /\ worker' = "done"
    /\ UNCHANGED <<enqueued, queue, running, alert, entries, digestVars, flights,
                   drain, attempts, late, overlaps>>

Worker == Get \/ Deliver \/ RouteToDigest \/ RouteDone \/ StopTimers \/ BeginDrain
             \/ DrainDone \/ \E k \in Digest : DrainNext(k)

Flusher(k) == \E s \in Slots : Flush(k, s) \/ DeliverDigest(k, s)

Next == Enqueue \/ Stop \/ Worker \/ \E k \in Digest : Flusher(k)

\* Windows end, every request is answered or times out, and the worker goes on.
Fairness ==
    /\ WF_vars(Worker)
    /\ \A k \in Digest : \A s \in Slots : WF_vars(DeliverDigest(k, s))
    /\ \A k \in Digest : SF_vars(\E s \in Slots : Flush(k, s))

Spec == Init /\ [][Next]_vars
FairSpec == Spec /\ Fairness
-----------------------------------------------------------------------------
Digests == {d \in Digest \X Alerts :
               \E i \in DOMAIN lists[d[1]] : d[2] \in Elements(lists[d[1]][i])}

\* The type invariant: the queue does not exceed its bound, and the buffer of a
\* key is one of the lists made for it.
TypeOK ==
    /\ enqueued \in 0..NumAlerts
    /\ queue \in Seq(Alerts) /\ Len(queue) <= QueueSize
    /\ running \in BOOLEAN
    /\ worker \in {"get", "route", "stop", "drain", "done"}
    /\ alert \in Alerts \cup {0} /\ (worker = "route" => alert # 0) /\ entries \in Seq(Channels)
    /\ lists \in [Digest -> Seq(Seq(Alerts))]
    /\ buffer \in [Digest -> Nat] /\ \A k \in Digest : buffer[k] \in 0..Len(lists[k])
    /\ timers \subseteq Digest
    /\ flights \in [Digest \X Slots -> [list : Nat, at : Nat, mail : SUBSET Alerts]]
    /\ drain \subseteq Digest \X Nat
    /\ attempts \in [Channels -> [Alerts -> Nat]]
    /\ late \subseteq Digest \X Alerts /\ overlaps \in [Digest -> Nat]

\* An alert put in a digest is delivered, is in the buffer, or is in a delivery
\* that goes on: flushers, the worker and stop() lose none between them, but for
\* the alerts that were buffered while an older digest was in flight.
NoneForgotten ==
    \A k \in Digest, a \in Alerts :
        \/ <<k, a>> \notin Digests \/ <<k, a>> \in late
        \/ attempts[k][a] > 0
        \/ a \in Buffered(k) \cup UNION {Ahead(k, s) : s \in Slots}
        \/ \E l \in 1..Len(lists[k]) : <<k, l>> \in drain /\ a \in Elements(lists[k][l])

\* The list names this channel once at most.
Single(list, k) == \A i, j \in DOMAIN list : list[i] = k /\ list[j] = k => i = j

\* An alert goes to a channel once, and once more for each digest of that channel
\* that a flusher or stop() took up while another one was in flight: no path
\* delivers a buffer, or the end of a list, that is already done with.
DeliveredOnce ==
    \A k \in Channels, a \in Alerts : Single(Notify[a], k) =>
        attempts[k][a] <= IF k \in Digest THEN 1 + overlaps[k] ELSE 1

\* Digest windows end for every alert, however many arrive meanwhile.
DigestsAreSent == \A k \in Digest : buffer[k] # 0 ~> buffer[k] = 0

\* run() ends after stop(), with the queue drained first.
StopCompletes == ~running ~> (worker = "done" /\ queue = <<>>)

\* What AlertDispatcher.stop() says: pending digest buffers are flushed before
\* the process exits.
PendingDigestsFlushed ==
    worker = "done" => \A d \in Digests : attempts[d[1]][d[2]] > 0
=============================================================================
