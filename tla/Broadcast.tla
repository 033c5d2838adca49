----------------------------- MODULE Broadcast -----------------------------
(***************************************************************************)
(* The WebSocket fan-out of the API: ConnectionManager with the endpoint   *)
(* task and the sender task of every client, the status broadcaster beside *)
(* them, and the end of the server.                                        *)
(*                                                                         *)
(* A deque is its length, and a filter the set of kinds it lets through.   *)
(* The tick of a sender makes its wakeup event a mere hint: the sender may  *)
(* look at its deques at any time.                                         *)
(***************************************************************************)
EXTENDS Naturals, FiniteSets

CONSTANTS
    Clients,        \* peers that connect
    MaxConnections, \* max_connections
    QueueMax,       \* queue_maxlen
    BatchMax,       \* batch_max_events
    Filters,        \* the filters a client sets
    NumItems,       \* bound: broadcasts
    MaxConnects     \* bound: connection attempts

Kinds == {"event", "alert"}

ASSUME BroadcastAssumption ==
    /\ IsFiniteSet(Clients) /\ MaxConnections \in Nat \ {0} /\ QueueMax \in Nat \ {0}
    /\ BatchMax \in Nat \ {0} /\ Filters \subseteq SUBSET Kinds
    /\ NumItems \in Nat /\ MaxConnects \in Nat

VARIABLES
    server,         \* uvicorn: "up", "closing" its connections, or "down"
    connects,       \* connection attempts so far
    endpoint,       \* where the websocket_endpoint task of each client is
    peers,          \* clients whose connection is there
    overlap,        \* history: a connect() began while another was in accept()
    clients,        \* ConnectionManager._clients
    filter, dead,   \* of each ClientState
    deque,          \* lengths of event_deque and alert_deque
    dropped,        \* dropped_events and dropped_alerts
    sender, batch,  \* the _client_sender task and how much it is sending
    unsent,         \* history: items its filter let through that were not sent
    broadcasts,     \* broadcasts of each kind
    counted,        \* _events_broadcast_count
    reported,       \* history: events counted in a status tick
    status, todo    \* the _status_broadcaster task, clients it has yet to send to

connVars   == <<server, connects, endpoint, overlap>>
clientVars == <<clients, filter>>
queueVars  == <<deque, dropped, sender, batch, dead, unsent>>
countVars  == <<broadcasts, counted, reported, status, todo>>
vars == <<connVars, peers, clientVars, queueVars, countVars>>

Least(a, b) == IF a < b THEN a ELSE b
Zero        == [k \in Kinds |-> 0]
Running(c)  == sender[c] \in {"wait", "event", "alert"}

Init ==
    /\ server = "up" /\ connects = 0 /\ overlap = FALSE
    /\ endpoint = [c \in Clients |-> "out"] /\ peers = {}
    /\ clients = {} /\ filter = [c \in Clients |-> Kinds]
    /\ dead = [c \in Clients |-> FALSE]
    /\ deque = [c \in Clients |-> Zero] /\ dropped = [c \in Clients |-> Zero]
    /\ sender = [c \in Clients |-> "none"] /\ batch = [c \in Clients |-> 0]
    /\ unsent = [c \in Clients |-> Zero]
    /\ broadcasts = Zero /\ counted = 0 /\ reported = 0
    /\ status = "sleep" /\ todo = {}
-----------------------------------------------------------------------------
(* The peers, and the server they connect to *)

Vanish(c) ==
    /\ c \in peers /\ peers' = peers \ {c}
    /\ UNCHANGED <<connVars, clientVars, queueVars, countVars>>

\* should_exit: uvicorn accepts nobody any more and closes every connection.
Close ==
    /\ server = "up" /\ server' = "closing"
    /\ peers' = {}
    /\ UNCHANGED <<connects, endpoint, overlap, clientVars, queueVars, countVars>>

\* Once the endpoints have returned the lifespan runs ConnectionManager.shutdown(),
\* which cancels the status task and disconnects the clients there are.
Shutdown ==
    /\ server = "closing" /\ \A c \in Clients : endpoint[c] = "out"
    /\ server' = "down" /\ status' = "off" /\ todo' = {} /\ clients' = {}
    /\ sender' = [c \in Clients |-> IF c \in clients THEN "done" ELSE sender[c]]
    /\ UNCHANGED <<connects, endpoint, overlap, peers, filter, deque, dropped,
                   batch, dead, unsent, broadcasts, counted, reported>>
-----------------------------------------------------------------------------
(* websocket_endpoint: connect(), the receive loop and disconnect() *)

\* Mutant: one client too many.
MayConnectOneMore == Cardinality(clients) <= MaxConnections

MayConnect == Cardinality(clients) < MaxConnections

\* The origin is checked, and the limit, before the coroutine waits in accept().
Connect(c) ==
    /\ server = "up" /\ endpoint[c] = "out" /\ connects < MaxConnects
    /\ connects' = connects + 1
    /\ \/ /\ MayConnect
          /\ overlap' = (overlap \/ \E d \in Clients : endpoint[d] = "accept")
          /\ endpoint' = [endpoint EXCEPT ![c] = "accept"]
          /\ peers' = peers \cup {c}
       \/ /\ ~MayConnect
          /\ UNCHANGED <<endpoint, peers, overlap>>
    /\ UNCHANGED <<server, clientVars, queueVars, countVars>>

\* accept() is through: the client is registered with a fresh ClientState, and
\* its sender started.
Register(c) ==
    /\ endpoint[c] = "accept"
    /\ endpoint' = [endpoint EXCEPT ![c] = "receive"]
    /\ clients' = clients \cup {c} /\ filter' = filter
    /\ sender' = [sender EXCEPT ![c] = "wait"]
    /\ UNCHANGED <<server, connects, overlap, peers, deque, dropped, batch, dead,
                   unsent, countVars>>

AcceptFails(c) ==
    /\ endpoint[c] = "accept" /\ c \notin peers
    /\ endpoint' = [endpoint EXCEPT ![c] = "out"]
    /\ UNCHANGED <<server, connects, overlap, peers, clientVars, queueVars, countVars>>

\* A valid filter message; one that is invalid or too early changes nothing.
SetFilter(c, f) ==
    /\ endpoint[c] = "receive" /\ c \in peers /\ f # filter[c]
    /\ filter' = [filter EXCEPT ![c] = f]
    /\ UNCHANGED <<connVars, peers, clients, queueVars, countVars>>

\* Mutant: the sender task is left to itself.
DisconnectOnly(c) ==
    /\ endpoint[c] = "receive" /\ c \notin peers
    /\ clients' = clients \ {c}
    /\ endpoint' = [endpoint EXCEPT ![c] = "out"]
    /\ UNCHANGED <<server, connects, overlap, peers, filter, queueVars, countVars>>

\* The ClientState of a client that has left is garbage.
Forget(c) ==
    /\ deque' = [deque EXCEPT ![c] = Zero] /\ dropped' = [dropped EXCEPT ![c] = Zero]
    /\ sender' = [sender EXCEPT ![c] = "none"] /\ batch' = [batch EXCEPT ![c] = 0]
    /\ dead' = [dead EXCEPT ![c] = FALSE] /\ unsent' = [unsent EXCEPT ![c] = Zero]

\* The loop ends with the connection: disconnect() takes the client out, and
\* waits for the sender it has cancelled if that still runs.
Disconnect(c) ==
    /\ endpoint[c] = "receive" /\ c \notin peers
    /\ clients' = clients \ {c} /\ filter' = [filter EXCEPT ![c] = Kinds]
    /\ IF Running(c)
       THEN endpoint' = [endpoint EXCEPT ![c] = "leave"] /\ UNCHANGED queueVars
       ELSE endpoint' = [endpoint EXCEPT ![c] = "out"] /\ Forget(c)
    /\ UNCHANGED <<server, connects, overlap, peers, countVars>>

SenderCancelled(c) ==
    /\ endpoint[c] = "leave"
    /\ endpoint' = [endpoint EXCEPT ![c] = "out"]
    /\ Forget(c)
    /\ UNCHANGED <<server, connects, overlap, peers, clientVars, countVars>>
-----------------------------------------------------------------------------
(* broadcast_event and broadcast_alert *)

Receives(c, k) == c \in clients /\ ~dead[c] /\ k \in filter[c]

\* Mutant: the deque drops its oldest item by itself and nobody counts it.
OfferQuietly(k) ==
    /\ deque' = [c \in Clients |->
          IF Receives(c, k) THEN [deque[c] EXCEPT ![k] = Least(@ + 1, QueueMax)]
          ELSE deque[c]]
    /\ dropped' = dropped

\* Mutant: the deques were made without a maxlen.
OfferUnbounded(k) ==
    /\ deque' = [c \in Clients |->
          IF Receives(c, k) THEN [deque[c] EXCEPT ![k] = @ + 1] ELSE deque[c]]
    /\ dropped' = dropped

\* A full deque drops its oldest item, and that is counted.
Offer(k) ==
    /\ deque' = [c \in Clients |->
          IF Receives(c, k) THEN [deque[c] EXCEPT ![k] = Least(@ + 1, QueueMax)]
          ELSE deque[c]]
    /\ dropped' = [c \in Clients |->
          IF Receives(c, k) /\ deque[c][k] = QueueMax
          THEN [dropped[c] EXCEPT ![k] = @ + 1] ELSE dropped[c]]

BroadcastItem(k) ==
    /\ server # "down"
    /\ broadcasts["event"] + broadcasts["alert"] < NumItems
    /\ broadcasts' = [broadcasts EXCEPT ![k] = @ + 1]
    /\ counted' = IF k = "event" THEN counted + 1 ELSE counted
    /\ Offer(k)
    /\ unsent' = [c \in Clients |-> IF Receives(c, k)
                                    THEN [unsent[c] EXCEPT ![k] = @ + 1] ELSE unsent[c]]
    /\ UNCHANGED <<connVars, peers, clientVars, sender, batch, dead, reported,
                   status, todo>>
-----------------------------------------------------------------------------
(* _client_sender *)

\* Mutant: a turn that finds no events is over.
NextBatchOfEvents(c, kinds) ==
    LET full == {k \in kinds : deque[c][k] > 0}
    IN  IF "event" \in full THEN "event"
        ELSE IF "alert" \in full /\ kinds # Kinds THEN "alert" ELSE "wait"

\* The kind whose deque is drained next in this turn, events before alerts.
NextBatch(c, kinds) ==
    LET full == {k \in kinds : deque[c][k] > 0}
    IN  IF "event" \in full THEN "event" ELSE IF "alert" \in full THEN "alert" ELSE "wait"

\* The first items of a deque leave it before their send is awaited.
Drain(c, k) ==
    /\ sender' = [sender EXCEPT ![c] = k]
    /\ IF k = "wait"
       THEN batch' = [batch EXCEPT ![c] = 0] /\ deque' = deque
       ELSE /\ batch' = [batch EXCEPT ![c] = Least(deque[c][k], BatchMax)]
            /\ deque' = [deque EXCEPT ![c][k] = @ - Least(@, BatchMax)]

Wake(c) ==
    /\ sender[c] = "wait" /\ endpoint[c] # "leave" /\ NextBatch(c, Kinds) # "wait"
    /\ Drain(c, NextBatch(c, Kinds))
    /\ UNCHANGED <<connVars, peers, clientVars, dropped, dead, unsent, countVars>>

Sent(c) ==
    /\ sender[c] \in Kinds /\ endpoint[c] # "leave" /\ c \in peers
    /\ unsent' = [unsent EXCEPT ![c][sender[c]] = @ - batch[c]]
    /\ Drain(c, IF sender[c] = "event" THEN NextBatch(c, {"alert"}) ELSE "wait")
    /\ UNCHANGED <<connVars, peers, clientVars, dropped, dead, countVars>>

\* The send raises: WebSocketDisconnect ends the sender silently, any other
\* exception marks the client dead as well.  What was popped is lost.
SendFails(c) ==
    /\ sender[c] \in Kinds /\ endpoint[c] # "leave"
    /\ sender' = [sender EXCEPT ![c] = "done"]
    /\ \E d \in IF c \notin peers THEN BOOLEAN ELSE {TRUE} :
          dead' = [dead EXCEPT ![c] = d]
    /\ UNCHANGED <<connVars, peers, clientVars, deque, dropped, batch, unsent,
                   countVars>>
-----------------------------------------------------------------------------
(* _status_broadcaster *)

\* The counter starts again before the alerts are queried.
Tick ==
    /\ status = "sleep" /\ status' = "query"
    /\ reported' = reported + counted /\ counted' = 0
    /\ UNCHANGED <<connVars, peers, clientVars, queueVars, broadcasts, todo>>

\* Mutant: the counter starts again once the alerts have been queried.
QueriedCounting ==
    /\ status = "query" /\ status' = "send" /\ todo' = clients /\ counted' = 0
    /\ UNCHANGED <<connVars, peers, clientVars, queueVars, broadcasts, reported>>

\* _query_alerts_24h returns, with 0 if it failed.
Queried ==
    /\ status = "query" /\ status' = "send" /\ todo' = clients
    /\ UNCHANGED <<connVars, peers, clientVars, queueVars, broadcasts, counted, reported>>

\* The clients there were are sent to in turn, and a send that fails is logged.
StatusSent(c) ==
    /\ status = "send" /\ c \in todo
    /\ todo' = todo \ {c} /\ status' = status
    /\ UNCHANGED <<connVars, peers, clientVars, queueVars, broadcasts, counted, reported>>

StatusDone ==
    /\ status = "send" /\ todo = {} /\ status' = "sleep"
    /\ UNCHANGED <<connVars, peers, clientVars, queueVars, broadcasts, counted, reported, todo>>

Endpoint(c) == Register(c) \/ AcceptFails(c) \/ Disconnect(c) \/ SenderCancelled(c)
Sender(c)   == Wake(c) \/ Sent(c) \/ SendFails(c)
Status      == Tick \/ Queried \/ (\E c \in Clients : StatusSent(c)) \/ StatusDone

Next ==
    \/ \E c \in Clients : \/ Connect(c) \/ Endpoint(c) \/ Sender(c)
                          \/ Vanish(c) \/ \E f \in Filters : SetFilter(c, f)
    \/ \E k \in Kinds : BroadcastItem(k)
    \/ Status \/ Close \/ Shutdown

\* The event loop runs what is ready, and a send comes to an end: if the peer
\* does not read, uvicorn's keepalive closes the connection.
Fairness == \A c \in Clients : WF_vars(Sender(c))

Spec == Init /\ [][Next]_vars
FairSpec == Spec /\ Fairness
-----------------------------------------------------------------------------
\* The type invariant: no deque exceeds its maxlen, no batch its maximum, and a
\* filter lets through kinds of items there are.
TypeOK ==
    /\ server \in {"up", "closing", "down"} /\ connects \in 0..MaxConnects
    /\ endpoint \in [Clients -> {"out", "accept", "receive", "leave"}]
    /\ peers \subseteq Clients /\ overlap \in BOOLEAN
    /\ clients \subseteq Clients /\ filter \in [Clients -> SUBSET Kinds]
    /\ dead \in [Clients -> BOOLEAN]
    /\ deque \in [Clients -> [Kinds -> 0..QueueMax]]
    /\ batch \in [Clients -> 0..BatchMax]
    /\ sender \in [Clients -> Kinds \cup {"none", "wait", "done"}]
    /\ dropped \in [Clients -> [Kinds -> Nat]] /\ unsent \in [Clients -> [Kinds -> Nat]]
    /\ broadcasts \in [Kinds -> Nat] /\ counted \in Nat /\ reported \in Nat
    /\ status \in {"sleep", "query", "send", "off"} /\ todo \subseteq Clients

InBatch(c, k) == IF sender[c] = k THEN batch[c] ELSE 0

\* While the sender of a client runs, every item its filter let through was sent,
\* is waiting or being sent, or is in the dropped count its status messages show.
DeliveryAccounted ==
    \A c \in Clients, k \in Kinds : Running(c) =>
        unsent[c][k] = InBatch(c, k) + deque[c][k] + dropped[c][k]

\* No sender task outlives its client: one that runs is of a registered client,
\* or of one whose endpoint waits for it to be cancelled, and none is left when
\* the server is down.
NoOrphanSender ==
    /\ \A c \in Clients : Running(c) => c \in clients \/ endpoint[c] = "leave"
    /\ server = "down" => \A c \in Clients : ~Running(c)

\* connect() checks the limit before it awaits accept(): more than
\* max_connections clients are there only after two such waits overlapped.
CapNeedsOverlap == Cardinality(clients) > MaxConnections => overlap

\* S-053: every event broadcast is in the rate of exactly one status message,
\* those that arrive while the alerts are queried included.
CountedOnce == broadcasts["event"] = reported + counted

Quiet == broadcasts["event"] + broadcasts["alert"] = NumItems
Waiting(c) == c \in clients /\ ~dead[c] /\ sender[c] # "done" /\ deque[c] # Zero

\* The items a client is offered go out: a full turn of the sender over both
\* deques is never held up for good, or the client is lost.
QueuedIsSent ==
    \A c \in Clients : Waiting(c) /\ Quiet ~> ~Waiting(c)
=============================================================================
