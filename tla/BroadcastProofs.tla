-------------------------- MODULE BroadcastProofs --------------------------
(***************************************************************************)
(* What holds of the WebSocket fan-out for any number of clients, any      *)
(* maxlen and batch, and any number of broadcasts: the types, the          *)
(* accounting of every item, that no sender outlives its client, when the  *)
(* connection limit can be passed, and that every event is counted once.   *)
(***************************************************************************)
EXTENDS Broadcast, FiniteSetTheorems, TLAPS

USE BroadcastAssumption

Blank(c) ==
    /\ sender[c] = "none" /\ batch[c] = 0
    /\ deque[c] = Zero /\ dropped[c] = Zero /\ unsent[c] = Zero

\* A client is registered while its endpoint receives, and has a sender from then
\* until its endpoint has waited for the end of it.
ClientsInv ==
    /\ clients = {c \in Clients : endpoint[c] = "receive"}
    /\ \A c \in Clients : endpoint[c] \in {"out", "accept"} => Blank(c)
    /\ \A c \in Clients : Running(c) => endpoint[c] \in {"receive", "leave"}

\* The places that are taken: those of the clients, and of the one in accept().
Taken == {c \in Clients : endpoint[c] \in {"accept", "receive"}}
CapInv == overlap # TRUE => Cardinality(Taken) <= MaxConnections

\* The server is down once no endpoint is left.
DownInv == server = "down" => \A c \in Clients : endpoint[c] = "out"

IInv == TypeOK /\ ClientsInv /\ CapInv /\ DownInv /\ DeliveryAccounted /\ CountedOnce

\* The two kinds of items.
LEMMA KindsFacts == /\ "event" \in Kinds /\ "alert" \in Kinds /\ "event" # "alert"
                    /\ \A k \in Kinds : k \in {"event", "alert"}
                    /\ \A k \in Kinds : k \notin {"none", "wait", "done"}
                    /\ Zero \in [Kinds -> {0}]
  BY DEF Kinds, Zero

\* The invariant holds at the start.
LEMMA InitIInv == Init => IInv
<1> SUFFICES ASSUME Init PROVE IInv
  OBVIOUS
<1> USE KindsFacts
<1>1. overlap \in BOOLEAN /\ dead \in [Clients -> BOOLEAN]
  BY Zenon DEF Init
<1>2. TypeOK
  BY <1>1 DEF Init, TypeOK, Zero
<1>3. ClientsInv /\ DownInv
  BY DEF Init, ClientsInv, DownInv, Blank, Running
<1>4. CapInv
  <2>1. Taken = {}
    BY DEF Init, Taken
  <2> QED BY <2>1, FS_EmptySet DEF Init, CapInv
<1>5. DeliveryAccounted /\ CountedOnce
  BY DEF Init, DeliveryAccounted, CountedOnce, Running, Zero
<1> QED BY <1>2, <1>3, <1>4, <1>5 DEF IInv
-----------------------------------------------------------------------------
(* The queues *)

\* Draining a deque moves what it takes to the batch.
LEMMA DrainFacts ==
    ASSUME TypeOK, NEW c \in Clients, NEW k \in Kinds \cup {"wait"}, Drain(c, k)
    PROVE  /\ sender' \in [Clients -> Kinds \cup {"none", "wait", "done"}] /\ sender'[c] = k
           /\ batch' \in [Clients -> 0..BatchMax]
           /\ deque' \in [Clients -> [Kinds -> 0..QueueMax]]
           /\ \A j \in Kinds : (IF k = j THEN batch'[c] ELSE 0) + deque'[c][j] = deque[c][j]
           /\ \A d \in Clients : d # c => /\ sender'[d] = sender[d] /\ batch'[d] = batch[d]
                                          /\ deque'[d] = deque[d]
<1> USE KindsFacts DEF TypeOK, Drain
<1>1. CASE k = "wait"
  <2>1. /\ sender' = [sender EXCEPT ![c] = "wait"] /\ batch' = [batch EXCEPT ![c] = 0]
        /\ deque' = deque /\ 0 \in 0..BatchMax
    BY <1>1
  <2>2. \A j \in Kinds : deque[c][j] \in Nat /\ k # j
    BY <1>1
  <2> QED BY <1>1, <2>1, <2>2
<1>2. CASE k # "wait"
  <2>1. k \in Kinds /\ deque[c][k] \in 0..QueueMax /\ BatchMax \in Nat
    BY <1>2
  <2> DEFINE n == Least(deque[c][k], BatchMax)
  <2>2. n \in 0..BatchMax /\ n <= deque[c][k]
    BY <2>1 DEF Least
  <2>3. /\ batch' = [batch EXCEPT ![c] = n]
        /\ deque' = [deque EXCEPT ![c][k] = deque[c][k] - n]
        /\ sender' = [sender EXCEPT ![c] = k]
    BY <1>2
  <2> HIDE DEF n
  <2>4. deque[c][k] - n \in 0..QueueMax
    BY <2>1, <2>2
  <2>5. deque' \in [Clients -> [Kinds -> 0..QueueMax]] /\ deque'[c][k] = deque[c][k] - n
    BY <2>1, <2>3, <2>4
  <2>6. \A j \in Kinds : j # k => deque'[c][j] = deque[c][j]
    BY <2>1, <2>3
  <2> QED BY <2>1, <2>2, <2>3, <2>5, <2>6
<1> QED BY <1>1, <1>2

\* A turn goes on with a kind of items, or waits.
LEMMA NextBatchFacts ==
    ASSUME NEW c \in Clients, NEW kinds \in SUBSET Kinds
    PROVE  NextBatch(c, kinds) \in Kinds \cup {"wait"}
  BY DEF NextBatch, Kinds

\* Offering an item adds it to the deque of everyone who receives it, and what
\* does not fit to the dropped count.
LEMMA OfferFacts ==
    ASSUME TypeOK, NEW k \in Kinds, Offer(k)
    PROVE  /\ deque' \in [Clients -> [Kinds -> 0..QueueMax]]
           /\ dropped' \in [Clients -> [Kinds -> Nat]]
           /\ \A c \in Clients, j \in Kinds :
                deque'[c][j] + dropped'[c][j] =
                   deque[c][j] + dropped[c][j] + (IF Receives(c, k) /\ j = k THEN 1 ELSE 0)
           /\ \A c \in Clients : ~Receives(c, k) => deque'[c] = deque[c] /\ dropped'[c] = dropped[c]
<1>1. ASSUME NEW c \in Clients
      PROVE  /\ deque'[c] \in [Kinds -> 0..QueueMax] /\ dropped'[c] \in [Kinds -> Nat]
             /\ \A j \in Kinds : deque'[c][j] + dropped'[c][j] =
                   deque[c][j] + dropped[c][j] + (IF Receives(c, k) /\ j = k THEN 1 ELSE 0)
             /\ ~Receives(c, k) => deque'[c] = deque[c] /\ dropped'[c] = dropped[c]
  <2>1. /\ deque[c] \in [Kinds -> 0..QueueMax] /\ dropped[c] \in [Kinds -> Nat]
        /\ QueueMax \in Nat \ {0}
    BY DEF TypeOK
  <2>2. CASE ~Receives(c, k)
    <3>1. deque'[c] = deque[c] /\ dropped'[c] = dropped[c]
      BY <2>2 DEF Offer
    <3> QED BY <2>1, <2>2, <3>1
  <2>3. CASE Receives(c, k) /\ deque[c][k] = QueueMax
    <3>1. deque'[c] = [deque[c] EXCEPT ![k] = QueueMax]
      <4>1. Least(deque[c][k] + 1, QueueMax) = QueueMax
        BY <2>1, <2>3 DEF Least
      <4>2. deque'[c] = [deque[c] EXCEPT ![k] = Least(deque[c][k] + 1, QueueMax)]
        BY <2>3, Zenon DEF Offer
      <4> QED BY <4>1, <4>2, Zenon
    <3>2. dropped'[c] = [dropped[c] EXCEPT ![k] = dropped[c][k] + 1]
      BY <2>3 DEF Offer
    <3> QED BY <2>1, <2>3, <3>1, <3>2
  <2>4. CASE Receives(c, k) /\ deque[c][k] # QueueMax
    <3>1. deque'[c] = [deque[c] EXCEPT ![k] = deque[c][k] + 1]
      <4>1. Least(deque[c][k] + 1, QueueMax) = deque[c][k] + 1
        BY <2>1, <2>4 DEF Least
      <4>2. deque'[c] = [deque[c] EXCEPT ![k] = Least(deque[c][k] + 1, QueueMax)]
        BY <2>4, Zenon DEF Offer
      <4> QED BY <4>1, <4>2, Zenon
    <3>2. dropped'[c] = dropped[c]
      BY <2>4 DEF Offer
    <3> QED BY <2>1, <2>4, <3>1, <3>2
  <2> QED BY <2>2, <2>3, <2>4
<1>2. DOMAIN deque' = Clients /\ DOMAIN dropped' = Clients
  BY DEF Offer
<1>3. deque' = [c \in Clients |-> deque'[c]] /\ dropped' = [c \in Clients |-> dropped'[c]]
  BY DEF Offer
<1> QED BY <1>1, <1>3

\* What disconnecting leaves of a client.
LEMMA ForgetFacts ==
    ASSUME TypeOK, NEW c \in Clients, Forget(c)
    PROVE  /\ deque' \in [Clients -> [Kinds -> 0..QueueMax]]
           /\ dropped' \in [Clients -> [Kinds -> Nat]] /\ unsent' \in [Clients -> [Kinds -> Nat]]
           /\ sender' \in [Clients -> Kinds \cup {"none", "wait", "done"}]
           /\ batch' \in [Clients -> 0..BatchMax] /\ dead' \in [Clients -> BOOLEAN]
           /\ Blank(c)'
           /\ \A d \in Clients : d # c =>
                /\ sender'[d] = sender[d] /\ batch'[d] = batch[d] /\ deque'[d] = deque[d]
                /\ dropped'[d] = dropped[d] /\ unsent'[d] = unsent[d]
<1>1. dead' \in [Clients -> BOOLEAN]
  BY Zenon DEF Forget, TypeOK
<1>2. Zero \in [Kinds -> Nat] /\ Zero \in [Kinds -> 0..QueueMax] /\ 0 \in 0..BatchMax
  BY DEF Zero
<1> QED BY <1>1, <1>2 DEF Forget, TypeOK, Blank
-----------------------------------------------------------------------------
(* The steps *)

\* Every step keeps the types.
LEMMA NextTypeOK == TypeOK /\ DeliveryAccounted /\ [Next]_vars => TypeOK'
<1> SUFFICES ASSUME TypeOK, DeliveryAccounted, [Next]_vars PROVE TypeOK'
  OBVIOUS
<1> USE DEF connVars, clientVars, queueVars, countVars
<1>1. ASSUME NEW c \in Clients, Vanish(c) PROVE TypeOK'
  BY <1>1 DEF Vanish, TypeOK
<1>2. CASE Close
  BY <1>2 DEF Close, TypeOK
<1>3. CASE Shutdown
  BY <1>3 DEF Shutdown, TypeOK
<1>4. ASSUME NEW c \in Clients, Connect(c) PROVE TypeOK'
  <2>1. overlap' \in BOOLEAN
    BY <1>4, Zenon DEF Connect, TypeOK
  <2> QED BY <1>4, <2>1 DEF Connect, TypeOK
<1>5. ASSUME NEW c \in Clients, Register(c) PROVE TypeOK'
  BY <1>5 DEF Register, TypeOK
<1>6. ASSUME NEW c \in Clients, AcceptFails(c) PROVE TypeOK'
  BY <1>6 DEF AcceptFails, TypeOK
<1>7. ASSUME NEW c \in Clients, NEW f \in Filters, SetFilter(c, f) PROVE TypeOK'
  BY <1>7 DEF SetFilter, TypeOK
<1>8. ASSUME NEW c \in Clients, Disconnect(c) PROVE TypeOK'
  <2>1. /\ clients' \subseteq Clients /\ filter' \in [Clients -> SUBSET Kinds]
        /\ endpoint' \in [Clients -> {"out", "accept", "receive", "leave"}]
    BY <1>8 DEF Disconnect, TypeOK
  <2>2. UNCHANGED <<server, connects, overlap, peers, countVars>>
    BY <1>8 DEF Disconnect
  <2>3. CASE Forget(c)
    BY <2>1, <2>2, <2>3, ForgetFacts DEF TypeOK
  <2>4. CASE UNCHANGED queueVars
    BY <2>1, <2>2, <2>4 DEF TypeOK
  <2> QED BY <1>8, <2>3, <2>4 DEF Disconnect
<1>9. ASSUME NEW c \in Clients, SenderCancelled(c) PROVE TypeOK'
  <2>1. /\ endpoint' \in [Clients -> {"out", "accept", "receive", "leave"}]
        /\ UNCHANGED <<server, connects, overlap, peers, clientVars, countVars>> /\ Forget(c)
    BY <1>9 DEF SenderCancelled, TypeOK
  <2> QED BY <2>1, ForgetFacts DEF TypeOK
<1>10. ASSUME NEW k \in Kinds, BroadcastItem(k) PROVE TypeOK'
  <2>1. broadcasts' \in [Kinds -> Nat] /\ counted' \in Nat
    BY <1>10 DEF BroadcastItem, TypeOK
  <2>2. unsent' \in [Clients -> [Kinds -> Nat]]
    BY <1>10 DEF BroadcastItem, TypeOK
  <2>3. deque' \in [Clients -> [Kinds -> 0..QueueMax]] /\ dropped' \in [Clients -> [Kinds -> Nat]]
    BY <1>10, OfferFacts DEF BroadcastItem
  <2> QED BY <1>10, <2>1, <2>2, <2>3 DEF BroadcastItem, TypeOK
<1>11. ASSUME NEW c \in Clients, Wake(c) PROVE TypeOK'
  <2>1. PICK k \in Kinds \cup {"wait"} : Drain(c, k)
    BY <1>11, NextBatchFacts DEF Wake
  <2> QED BY <1>11, <2>1, DrainFacts DEF Wake, TypeOK
<1>12. ASSUME NEW c \in Clients, Sent(c) PROVE TypeOK'
  <2>1. PICK k \in Kinds \cup {"wait"} : Drain(c, k)
    <3>1. {"alert"} \in SUBSET Kinds
      BY KindsFacts
    <3> QED BY <1>12, <3>1, NextBatchFacts DEF Sent
  <2>2. unsent' \in [Clients -> [Kinds -> Nat]]
    <3> DEFINE j == sender[c]
    <3>1. /\ j \in Kinds /\ unsent[c][j] = batch[c] + deque[c][j] + dropped[c][j]
          /\ unsent[c][j] \in Nat /\ batch[c] \in Nat /\ deque[c][j] \in Nat /\ dropped[c][j] \in Nat
      BY <1>12, KindsFacts DEF Sent, TypeOK, DeliveryAccounted, Running, InBatch
    <3>2. unsent[c][j] - batch[c] \in Nat
      BY <3>1
    <3>3. unsent' = [unsent EXCEPT ![c][j] = unsent[c][j] - batch[c]]
      BY <1>12 DEF Sent
    <3> HIDE DEF j
    <3> QED BY <3>1, <3>2, <3>3 DEF TypeOK
  <2> QED BY <1>12, <2>1, <2>2, DrainFacts DEF Sent, TypeOK
<1>13. ASSUME NEW c \in Clients, SendFails(c) PROVE TypeOK'
  <2>1. dead' \in [Clients -> BOOLEAN]
    <3>1. PICK d \in BOOLEAN : dead' = [dead EXCEPT ![c] = d]
      BY <1>13, Zenon DEF SendFails
    <3> QED BY <3>1, Zenon DEF TypeOK
  <2> QED BY <1>13, <2>1 DEF SendFails, TypeOK
<1>14. CASE Status
  BY <1>14 DEF Status, Tick, Queried, StatusSent, StatusDone, TypeOK
<1>15. CASE UNCHANGED vars
  BY <1>15 DEF vars, TypeOK
<1> QED
  BY <1>1, <1>2, <1>3, <1>4, <1>5, <1>6, <1>7, <1>8, <1>9, <1>10, <1>11, <1>12, <1>13, <1>14, <1>15
     DEF Next, Endpoint, Sender

\* What a step leaves of the clients if the endpoints stay where they are and the
\* senders of those that are not registered are left alone.
LEMMA ClientsKept ==
    ASSUME ClientsInv, UNCHANGED <<clients, endpoint>>,
           \A d \in Clients : \/ /\ sender'[d] = sender[d] /\ batch'[d] = batch[d]
                                 /\ deque'[d] = deque[d] /\ dropped'[d] = dropped[d]
                                 /\ unsent'[d] = unsent[d]
                              \/ endpoint[d] = "receive"
    PROVE  ClientsInv'
  BY DEF ClientsInv, Blank, Running

\* A client that is forgotten is blank, and the others are as they were.
LEMMA ClientsForget ==
    ASSUME TypeOK, ClientsInv, NEW c \in Clients, Forget(c),
           endpoint'[c] = "out", clients' = clients \ {c},
           \A d \in Clients : d # c => endpoint'[d] = endpoint[d]
    PROVE  ClientsInv'
<1>1. clients' = {d \in Clients : endpoint'[d] = "receive"}
  BY DEF ClientsInv
<1>2. Blank(c)' /\ ~Running(c)'
  BY ForgetFacts, KindsFacts DEF Blank, Running
<1>3. \A d \in Clients : d # c =>
         /\ sender'[d] = sender[d] /\ batch'[d] = batch[d] /\ deque'[d] = deque[d]
         /\ dropped'[d] = dropped[d] /\ unsent'[d] = unsent[d]
  BY ForgetFacts
<1>4. ASSUME NEW d \in Clients, d # c
      PROVE  /\ endpoint'[d] \in {"out", "accept"} => Blank(d)'
             /\ Running(d)' => endpoint'[d] \in {"receive", "leave"}
  BY <1>3, <1>4 DEF ClientsInv, Blank, Running
<1> QED BY <1>1, <1>2, <1>4 DEF ClientsInv

\* Every step keeps what is said of the clients and their senders.
LEMMA NextClientsInv == TypeOK /\ ClientsInv /\ DownInv /\ [Next]_vars => ClientsInv' /\ DownInv'
<1> SUFFICES ASSUME TypeOK, ClientsInv, DownInv, [Next]_vars PROVE ClientsInv' /\ DownInv'
  OBVIOUS
<1> USE DEF connVars, clientVars, queueVars
<1>1. CASE Close \/ Status \/ UNCHANGED vars \/ \E c \in Clients : Vanish(c)
  <2>1. UNCHANGED <<clients, endpoint, queueVars>> /\ (server' = "down" => server = "down")
    BY <1>1 DEF Close, Status, Tick, Queried, StatusSent, StatusDone, Vanish, vars
  <2> QED BY <2>1, ClientsKept DEF DownInv
<1>2. CASE Shutdown
  BY <1>2 DEF Shutdown, TypeOK, ClientsInv, DownInv, Blank, Running
<1>3. ASSUME NEW c \in Clients, Connect(c) \/ AcceptFails(c) PROVE ClientsInv' /\ DownInv'
  <2>1. /\ UNCHANGED <<server, clients, queueVars>> /\ endpoint[c] \in {"out", "accept"}
        /\ endpoint'[c] \in {"out", "accept"}
        /\ \A d \in Clients : d # c => endpoint'[d] = endpoint[d]
    BY <1>3 DEF Connect, AcceptFails, TypeOK
  <2>2. server = "down" => endpoint' = endpoint
    BY <1>3 DEF Connect, AcceptFails, DownInv
  <2> QED BY <2>1, <2>2 DEF ClientsInv, DownInv, Blank, Running
<1>4. ASSUME NEW c \in Clients, Register(c) PROVE ClientsInv' /\ DownInv'
  BY <1>4 DEF Register, TypeOK, ClientsInv, DownInv, Blank, Running
<1>5. ASSUME NEW c \in Clients, NEW f \in Filters, SetFilter(c, f) PROVE ClientsInv' /\ DownInv'
  BY <1>5, ClientsKept DEF SetFilter, DownInv
<1>6. ASSUME NEW c \in Clients, Disconnect(c) PROVE ClientsInv' /\ DownInv'
  <2>1. /\ server' = server /\ clients' = clients \ {c} /\ endpoint[c] = "receive"
        /\ \A d \in Clients : d # c => endpoint'[d] = endpoint[d]
    BY <1>6 DEF Disconnect, TypeOK
  <2>2. server # "down"
    BY <2>1 DEF DownInv
  <2>3. CASE Forget(c) /\ endpoint'[c] = "out"
    <3>1. DownInv'
      BY <2>1, <2>2 DEF DownInv
    <3> QED BY <2>1, <2>3, <3>1, ClientsForget
  <2>4. CASE UNCHANGED queueVars /\ endpoint'[c] = "leave"
    BY <2>1, <2>2, <2>4 DEF ClientsInv, DownInv, Blank, Running
  <2> QED BY <1>6, <2>3, <2>4 DEF Disconnect, TypeOK
<1>7. ASSUME NEW c \in Clients, SenderCancelled(c) PROVE ClientsInv' /\ DownInv'
  <2>1. /\ UNCHANGED <<server, clients>> /\ endpoint[c] = "leave" /\ endpoint'[c] = "out"
        /\ Forget(c) /\ \A d \in Clients : d # c => endpoint'[d] = endpoint[d]
    BY <1>7 DEF SenderCancelled, TypeOK
  <2>2. clients' = clients \ {c}
    BY <2>1 DEF ClientsInv
  <2>3. DownInv'
    BY <2>1 DEF DownInv
  <2> QED BY <2>1, <2>2, <2>3, ClientsForget
<1>8. ASSUME NEW k \in Kinds, BroadcastItem(k) PROVE ClientsInv' /\ DownInv'
  <2>1. UNCHANGED <<server, clients, endpoint, sender, batch>>
    BY <1>8 DEF BroadcastItem
  <2>2. \A d \in Clients : endpoint[d] # "receive" => ~Receives(d, k)
    BY DEF ClientsInv, Receives
  <2>3. \A d \in Clients : ~Receives(d, k) => unsent'[d] = unsent[d]
    BY <1>8 DEF BroadcastItem
  <2> QED BY <1>8, <2>1, <2>2, <2>3, OfferFacts, ClientsKept DEF BroadcastItem, DownInv
<1>9. ASSUME NEW c \in Clients, Sender(c) PROVE ClientsInv' /\ DownInv'
  <2>1. UNCHANGED <<server, clients, endpoint>> /\ endpoint[c] = "receive"
    BY <1>9, KindsFacts DEF Sender, Wake, Sent, SendFails, ClientsInv, Running, Kinds, TypeOK
  <2>2. \A d \in Clients : d # c => /\ sender'[d] = sender[d] /\ batch'[d] = batch[d]
                                    /\ deque'[d] = deque[d] /\ dropped'[d] = dropped[d]
                                    /\ unsent'[d] = unsent[d]
    BY ZenonT(30), <1>9 DEF Sender, Wake, Sent, SendFails, Drain, TypeOK
  <2> QED BY <2>1, <2>2, ClientsKept DEF DownInv
<1> QED
  BY <1>1, <1>2, <1>3, <1>4, <1>5, <1>6, <1>7, <1>8, <1>9 DEF Next, Endpoint

\* The places that are taken can be counted.
LEMMA TakenFacts ==
    /\ IsFiniteSet(Taken) /\ Cardinality(Taken) \in Nat
    /\ \A S \in SUBSET Taken : Cardinality(S) \in Nat /\ Cardinality(S) <= Cardinality(Taken)
<1>1. Taken \subseteq Clients
  BY DEF Taken
<1>2. IsFiniteSet(Taken)
  BY <1>1, FS_Subset
<1>3. ASSUME NEW S \in SUBSET Taken
      PROVE  Cardinality(S) \in Nat /\ Cardinality(S) <= Cardinality(Taken)
  BY <1>2, FS_Subset, FS_CardinalityType
<1> QED BY <1>2, <1>3, FS_CardinalityType

\* Every step keeps the limit until two connect() overlap: the place of the one in
\* accept() is counted before it is registered.
LEMMA NextCapInv == TypeOK /\ ClientsInv /\ CapInv /\ [Next]_vars => CapInv'
<1> SUFFICES ASSUME TypeOK, ClientsInv, CapInv, [Next]_vars PROVE CapInv'
  OBVIOUS
<1> USE DEF connVars, clientVars, queueVars
<1>1. ASSUME overlap' = overlap, Taken' \subseteq Taken PROVE CapInv'
  <2>1. Taken' \in SUBSET Taken /\ MaxConnections \in Nat
    BY <1>1
  <2>2. Cardinality(Taken') <= Cardinality(Taken) /\ Cardinality(Taken') \in Nat
        /\ Cardinality(Taken) \in Nat
    BY <2>1, TakenFacts
  <2> QED BY <1>1, <2>1, <2>2 DEF CapInv
<1>2. ASSUME UNCHANGED <<overlap, endpoint>> PROVE CapInv'
  BY <1>2 DEF CapInv, Taken
<1>3. ASSUME NEW c \in Clients, Connect(c) PROVE CapInv'
  <2>1. CASE UNCHANGED <<endpoint, overlap>>
    BY <1>2, <2>1
  <2>2. CASE MayConnect /\ endpoint' = [endpoint EXCEPT ![c] = "accept"]
             /\ overlap' = (overlap \/ \E d \in Clients : endpoint[d] = "accept")
    <3> SUFFICES ASSUME overlap' # TRUE PROVE Cardinality(Taken') <= MaxConnections
      BY DEF CapInv
    <3>1. overlap # TRUE /\ \A d \in Clients : endpoint[d] # "accept"
      BY <2>2, Zenon DEF TypeOK
    <3>2. Taken = clients
      BY <3>1 DEF Taken, ClientsInv
    <3>3. Taken' = Taken \cup {c} /\ c \notin Taken
      BY <1>3, <2>2 DEF Taken, Connect, TypeOK
    <3>4. Cardinality(Taken') = Cardinality(Taken) + 1
      BY <3>3, TakenFacts, FS_AddElement
    <3>5. Cardinality(Taken) < MaxConnections
      BY <2>2, <3>2 DEF MayConnect
    <3> QED BY <3>4, <3>5, TakenFacts
  <2> QED BY <1>3, <2>1, <2>2 DEF Connect
<1>4. ASSUME NEW c \in Clients, Endpoint(c) PROVE CapInv'
  <2>1. overlap' = overlap
    BY <1>4 DEF Endpoint, Register, AcceptFails, Disconnect, SenderCancelled
  <2>2. /\ \A d \in Clients : d # c => endpoint'[d] = endpoint[d]
        /\ endpoint'[c] = "receive" => endpoint[c] = "accept"
        /\ endpoint'[c] # "accept"
    BY <1>4 DEF Endpoint, Register, AcceptFails, Disconnect, SenderCancelled, TypeOK
  <2>3. Taken' \subseteq Taken
    BY <2>2 DEF Taken
  <2> QED BY <1>1, <2>1, <2>3
<1>5. CASE Close \/ Shutdown \/ Status \/ UNCHANGED vars
  BY <1>2, <1>5 DEF Close, Shutdown, Status, Tick, Queried, StatusSent, StatusDone, vars
<1>6. ASSUME NEW c \in Clients, Vanish(c) \/ Sender(c) \/ \E f \in Filters : SetFilter(c, f)
      PROVE  CapInv'
  BY <1>2, <1>6 DEF Vanish, Sender, Wake, Sent, SendFails, SetFilter
<1>7. ASSUME NEW k \in Kinds, BroadcastItem(k) PROVE CapInv'
  BY <1>2, <1>7 DEF BroadcastItem
<1> QED
  BY <1>3, <1>4, <1>5, <1>6, <1>7 DEF Next

\* What a step leaves of the account of the clients whose queues, batch and count
\* it leaves alone or who have no sender any more.
LEMMA AccountKept ==
    ASSUME DeliveryAccounted,
           \A d \in Clients : \/ /\ sender'[d] = sender[d] /\ batch'[d] = batch[d]
                                 /\ deque'[d] = deque[d] /\ dropped'[d] = dropped[d]
                                 /\ unsent'[d] = unsent[d]
                              \/ sender'[d] \in {"none", "done"}
    PROVE  DeliveryAccounted'
  BY DEF DeliveryAccounted, Running, InBatch

\* Every step keeps the account.
LEMMA NextAccounted == TypeOK /\ ClientsInv /\ DeliveryAccounted /\ [Next]_vars => DeliveryAccounted'
<1> SUFFICES ASSUME TypeOK, ClientsInv, DeliveryAccounted, [Next]_vars PROVE DeliveryAccounted'
  OBVIOUS
<1> USE DEF connVars, clientVars, queueVars
<1>1. ASSUME UNCHANGED queueVars PROVE DeliveryAccounted'
  BY <1>1, AccountKept
<1>2. CASE Close \/ Status \/ UNCHANGED vars
  BY <1>1, <1>2 DEF Close, Status, Tick, Queried, StatusSent, StatusDone, vars
<1>3. ASSUME NEW c \in Clients, Vanish(c) \/ Connect(c) \/ AcceptFails(c)
                                \/ \E f \in Filters : SetFilter(c, f)
      PROVE  DeliveryAccounted'
  BY <1>1, <1>3 DEF Vanish, Connect, AcceptFails, SetFilter
<1>4. CASE Shutdown
  <2>1. /\ UNCHANGED <<deque, dropped, batch, unsent>>
        /\ \A d \in Clients : sender'[d] = sender[d] \/ sender'[d] = "done"
    BY <1>4 DEF Shutdown
  <2> QED BY <2>1, AccountKept
<1>5. ASSUME NEW c \in Clients, Disconnect(c) \/ SenderCancelled(c) PROVE DeliveryAccounted'
  <2>1. CASE UNCHANGED queueVars
    BY <1>1, <2>1
  <2>2. CASE Forget(c)
    <3>1. sender'[c] = "none"
      BY <2>2, ForgetFacts DEF Blank
    <3>2. \A d \in Clients : d # c =>
             /\ sender'[d] = sender[d] /\ batch'[d] = batch[d] /\ deque'[d] = deque[d]
             /\ dropped'[d] = dropped[d] /\ unsent'[d] = unsent[d]
      BY <2>2, ForgetFacts
    <3> QED BY <3>1, <3>2, AccountKept
  <2> QED BY <1>5, <2>1, <2>2 DEF Disconnect, SenderCancelled
<1>6. ASSUME NEW c \in Clients, Register(c) PROVE DeliveryAccounted'
  <2>1. /\ UNCHANGED <<deque, dropped, batch, unsent>> /\ sender'[c] = "wait" /\ Blank(c)
        /\ \A d \in Clients : d # c => sender'[d] = sender[d]
    BY <1>6 DEF Register, TypeOK, ClientsInv
  <2>2. \A k \in Kinds : unsent'[c][k] = InBatch(c, k)' + deque'[c][k] + dropped'[c][k]
    BY <2>1, KindsFacts DEF Blank, InBatch, Zero
  <2>3. ASSUME NEW d \in Clients, d # c, NEW k \in Kinds, Running(d)'
        PROVE  unsent'[d][k] = InBatch(d, k)' + deque'[d][k] + dropped'[d][k]
    BY <2>1, <2>3 DEF DeliveryAccounted, Running, InBatch
  <2> QED BY <2>2, <2>3 DEF DeliveryAccounted
<1>7. ASSUME NEW k \in Kinds, BroadcastItem(k) PROVE DeliveryAccounted'
  <2> SUFFICES ASSUME NEW c \in Clients, NEW j \in Kinds, Running(c)'
               PROVE  unsent'[c][j] = InBatch(c, j)' + deque'[c][j] + dropped'[c][j]
    BY DEF DeliveryAccounted
  <2>1. sender' = sender /\ batch' = batch /\ Offer(k)
    BY <1>7 DEF BroadcastItem
  <2>2. unsent[c][j] = InBatch(c, j) + deque[c][j] + dropped[c][j]
    BY <2>1 DEF DeliveryAccounted, Running
  <2>3. InBatch(c, j)' = InBatch(c, j) /\ InBatch(c, j) \in Nat
    BY <2>1 DEF InBatch, TypeOK
  <2>4. /\ deque[c][j] \in Nat /\ dropped[c][j] \in Nat /\ unsent[c][j] \in Nat
        /\ deque'[c][j] \in Nat /\ dropped'[c][j] \in Nat
    BY <2>1, OfferFacts DEF TypeOK
  <2>5. CASE Receives(c, k) /\ j = k
    <3>1. unsent'[c][j] = unsent[c][j] + 1
      BY <1>7, <2>5 DEF BroadcastItem, TypeOK
    <3>2. deque'[c][j] + dropped'[c][j] = deque[c][j] + dropped[c][j] + 1
      BY <2>1, <2>5, OfferFacts
    <3> QED BY <2>2, <2>3, <2>4, <3>1, <3>2
  <2>6. CASE ~(Receives(c, k) /\ j = k)
    <3>1. unsent'[c][j] = unsent[c][j]
      BY <1>7, <2>6 DEF BroadcastItem, TypeOK
    <3>2. deque'[c][j] + dropped'[c][j] = deque[c][j] + dropped[c][j] + 0
      BY <2>1, <2>6, OfferFacts
    <3> QED BY <2>2, <2>3, <2>4, <3>1, <3>2
  <2> QED BY <2>5, <2>6
<1>8. ASSUME NEW c \in Clients, NEW k \in Kinds \cup {"wait"}, Drain(c, k), dropped' = dropped,
             \A d \in Clients : d # c => unsent'[d] = unsent[d],
             \A j \in Kinds : unsent'[c][j] = deque[c][j] + dropped[c][j]
      PROVE  DeliveryAccounted'
  <2>1. ASSUME NEW j \in Kinds
        PROVE  unsent'[c][j] = InBatch(c, j)' + deque'[c][j] + dropped'[c][j]
    <3>1. InBatch(c, j)' + deque'[c][j] = deque[c][j]
      BY <1>8, DrainFacts DEF InBatch
    <3>2. InBatch(c, j)' \in Nat /\ deque'[c][j] \in Nat /\ dropped[c][j] \in Nat
      BY <1>8, DrainFacts DEF InBatch, TypeOK
    <3> QED BY <1>8, <3>1, <3>2
  <2>2. ASSUME NEW d \in Clients, d # c, NEW j \in Kinds, Running(d)'
        PROVE  unsent'[d][j] = InBatch(d, j)' + deque'[d][j] + dropped'[d][j]
    <3>1. sender'[d] = sender[d] /\ batch'[d] = batch[d] /\ deque'[d] = deque[d]
      BY <1>8, <2>2, DrainFacts
    <3> QED BY <1>8, <2>2, <3>1 DEF DeliveryAccounted, Running, InBatch
  <2> QED BY <2>1, <2>2 DEF DeliveryAccounted
<1>9. ASSUME NEW c \in Clients, Wake(c) PROVE DeliveryAccounted'
  <2>1. PICK k \in Kinds \cup {"wait"} : Drain(c, k)
    BY <1>9, NextBatchFacts DEF Wake
  <2>2. dropped' = dropped /\ unsent' = unsent /\ Running(c) /\ \A j \in Kinds : InBatch(c, j) = 0
    BY <1>9, KindsFacts DEF Wake, Running, InBatch
  <2>3. \A j \in Kinds : unsent[c][j] = deque[c][j] + dropped[c][j]
    BY <2>2 DEF DeliveryAccounted, TypeOK
  <2> QED BY <1>8, <2>1, <2>2, <2>3
<1>10. ASSUME NEW c \in Clients, Sent(c) PROVE DeliveryAccounted'
  <2>1. PICK k \in Kinds \cup {"wait"} : Drain(c, k)
    <3>1. {"alert"} \in SUBSET Kinds
      BY KindsFacts
    <3> QED BY <1>10, <3>1, NextBatchFacts DEF Sent
  <2>2. /\ dropped' = dropped /\ Running(c) /\ sender[c] \in Kinds
        /\ unsent' = [unsent EXCEPT ![c][sender[c]] = unsent[c][sender[c]] - batch[c]]
    BY <1>10, KindsFacts DEF Sent, Running
  <2>3. ASSUME NEW j \in Kinds PROVE unsent'[c][j] = deque[c][j] + dropped[c][j]
    <3>1. unsent[c][j] = InBatch(c, j) + deque[c][j] + dropped[c][j]
      BY <2>2 DEF DeliveryAccounted
    <3>2. unsent'[c][j] = IF sender[c] = j THEN unsent[c][j] - batch[c] ELSE unsent[c][j]
      BY <2>2 DEF TypeOK
    <3>3. batch[c] \in Nat /\ deque[c][j] \in Nat /\ dropped[c][j] \in Nat /\ unsent[c][j] \in Nat
      BY DEF TypeOK
    <3> QED BY <3>1, <3>2, <3>3 DEF InBatch
  <2>4. \A d \in Clients : d # c => unsent'[d] = unsent[d]
    BY <2>2 DEF TypeOK
  <2> QED BY <1>8, <2>1, <2>2, <2>3, <2>4
<1>11. ASSUME NEW c \in Clients, SendFails(c) PROVE DeliveryAccounted'
  <2>1. /\ UNCHANGED <<deque, dropped, batch, unsent>> /\ sender'[c] = "done"
        /\ \A d \in Clients : d # c => sender'[d] = sender[d]
    BY <1>11 DEF SendFails, TypeOK
  <2> QED BY <2>1, AccountKept
<1> QED
  BY <1>2, <1>3, <1>4, <1>5, <1>6, <1>7, <1>9, <1>10, <1>11 DEF Next, Endpoint, Sender

\* Every step keeps the count of the events.
LEMMA NextCounted == TypeOK /\ CountedOnce /\ [Next]_vars => CountedOnce'
<1> SUFFICES ASSUME TypeOK, CountedOnce, [Next]_vars PROVE CountedOnce'
  OBVIOUS
<1> USE KindsFacts DEF CountedOnce, TypeOK
<1>1. ASSUME UNCHANGED <<broadcasts, counted, reported>> PROVE CountedOnce'
  BY <1>1
<1>2. CASE Close \/ Shutdown \/ UNCHANGED vars \/ (\E c \in Clients : Vanish(c) \/ Connect(c))
  BY <1>1, <1>2 DEF Close, Shutdown, Vanish, Connect, vars, countVars
<1>3. ASSUME NEW c \in Clients, Endpoint(c) \/ Sender(c) \/ \E f \in Filters : SetFilter(c, f)
      PROVE  CountedOnce'
  BY <1>1, <1>3 DEF Endpoint, Register, AcceptFails, Disconnect, SenderCancelled, Sender, Wake,
                    Sent, SendFails, SetFilter, countVars
<1>4. CASE Status
  <2>1. \/ UNCHANGED <<broadcasts, counted, reported>>
        \/ broadcasts' = broadcasts /\ reported' = reported + counted /\ counted' = 0
    BY <1>4 DEF Status, Tick, Queried, StatusSent, StatusDone
  <2> QED BY <2>1
<1>5. ASSUME NEW k \in Kinds, BroadcastItem(k) PROVE CountedOnce'
  <2>1. /\ reported' = reported /\ broadcasts' = [broadcasts EXCEPT ![k] = broadcasts[k] + 1]
        /\ counted' = IF k = "event" THEN counted + 1 ELSE counted
    BY <1>5 DEF BroadcastItem
  <2> QED BY <2>1
<1> QED
  BY <1>2, <1>3, <1>4, <1>5 DEF Next
-----------------------------------------------------------------------------
(* The theorems *)

\* The invariant holds in every state of the server.
LEMMA Inductive == Spec => []IInv
<1>1. IInv /\ [Next]_vars => IInv'
  BY NextTypeOK, NextClientsInv, NextCapInv, NextAccounted, NextCounted DEF IInv
<1> QED
  BY InitIInv, <1>1, PTL DEF Spec

\* The type invariant; the deques and the batches keep their bounds.
THEOREM Typed == Spec => []TypeOK
<1>1. IInv => TypeOK
  BY DEF IInv
<1> QED
  BY Inductive, <1>1, PTL

\* Every item the filter of a client let through is sent, waiting, being sent or in
\* the dropped count, as long as its sender runs.
THEOREM EveryItemAccounted == Spec => []DeliveryAccounted
<1>1. IInv => DeliveryAccounted
  BY DEF IInv
<1> QED
  BY Inductive, <1>1, PTL

\* No sender outlives its client, and none the server.
THEOREM SendersEnd == Spec => []NoOrphanSender
<1>1. IInv => NoOrphanSender
  BY DEF IInv, ClientsInv, DownInv, NoOrphanSender
<1> QED
  BY Inductive, <1>1, PTL

\* More clients than max_connections are there only after two connect() overlapped
\* in accept(), for every limit and any number of clients.
THEOREM CapHoldsWithoutOverlap == Spec => []CapNeedsOverlap
<1>1. IInv => CapNeedsOverlap
  <2> SUFFICES ASSUME IInv, Cardinality(clients) > MaxConnections, overlap # TRUE PROVE FALSE
    BY DEF IInv, TypeOK, CapNeedsOverlap
  <2>1. clients \in SUBSET Taken
    BY DEF IInv, ClientsInv, Taken
  <2>2. Cardinality(Taken) <= MaxConnections
    BY DEF IInv, CapInv
  <2> QED BY <2>1, <2>2, TakenFacts
<1> QED
  BY Inductive, <1>1, PTL

\* Every event broadcast is counted in exactly one status message, or will be.
THEOREM EventsCountedOnce == Spec => []CountedOnce
<1>1. IInv => CountedOnce
  BY DEF IInv
<1> QED
  BY Inductive, <1>1, PTL
=============================================================================
