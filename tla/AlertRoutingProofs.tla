------------------------- MODULE AlertRoutingProofs -------------------------
(***************************************************************************)
(* What holds of the dispatcher and the digests for any number of alerts,   *)
(* channels of either kind, notify lists and windows that overlap.          *)
(***************************************************************************)
EXTENDS AlertRouting, FiniteSetTheorems, TLAPS

USE RoutingAssumption

\* A flight has a list of its key that holds alerts, and is at one of them.
FlightsInv ==
    \A k \in Digest :
        /\ \A i \in 1..Len(lists[k]) : lists[k][i] # <<>>
        /\ \A s \in Slots : Flying(k, s) =>
             /\ flights[<<k, s>>].list \in 1..Len(lists[k])
             /\ flights[<<k, s>>].at \in 1..Len(lists[k][flights[<<k, s>>].list])

\* While stop() drains, no buffer is there but those it took.
DrainInv ==
    /\ worker \notin {"drain", "done"} => drain = {}
    /\ \A k \in Digest, l \in Nat : <<k, l>> \in drain => buffer[k] \in {0, l}

\* An alert in the buffer that is not late and was not delivered lies ahead of
\* every delivery of its key that goes on: any of them may pop the buffer.
CoverInv ==
    \A k \in Digest, a \in Alerts, s \in Slots :
        a \in Buffered(k) /\ <<k, a>> \notin late /\ attempts[k][a] = 0 /\ Flying(k, s)
            => a \in Ahead(k, s)

IInv == TypeOK /\ FlightsInv /\ DrainInv /\ CoverInv /\ NoneForgotten

-----------------------------------------------------------------------------
(* Helpers *)

\* The alerts of a list that gets one more.
LEMMA ElementsAppend ==
    ASSUME NEW S, NEW q \in Seq(S), NEW a \in S
    PROVE  /\ Append(q, a) \in Seq(S) /\ Append(q, a) # <<>>
           /\ Len(Append(q, a)) = Len(q) + 1 /\ Append(q, a)[Len(q) + 1] = a
           /\ \A i \in 1..Len(q) : Append(q, a)[i] = q[i]
           /\ Elements(Append(q, a)) = Elements(q) \cup {a}
<1>1. /\ Append(q, a) \in Seq(S) /\ Len(Append(q, a)) = Len(q) + 1 /\ Len(q) \in Nat
      /\ Append(q, a)[Len(q) + 1] = a /\ \A i \in 1..Len(q) : Append(q, a)[i] = q[i]
  OBVIOUS
<1>2. Append(q, a) # <<>>
  BY <1>1
<1>3. Elements(Append(q, a)) = Elements(q) \cup {a}
  <2> DEFINE r == Append(q, a)
  <2>1. DOMAIN r = 1..(Len(q) + 1) /\ DOMAIN q = 1..Len(q)
    BY <1>1
  <2> HIDE DEF r
  <2>2. \A x : (\E i \in 1..(Len(q) + 1) : x = r[i]) <=> (\E i \in 1..Len(q) : x = q[i]) \/ x = a
    <3>1. r[Len(q) + 1] = a /\ \A i \in 1..Len(q) : r[i] = q[i]
      BY <1>1 DEF r
    <3>2. \A i \in 1..(Len(q) + 1) : i = Len(q) + 1 \/ i \in 1..Len(q)
      BY <1>1
    <3>3. Len(q) + 1 \in 1..(Len(q) + 1) /\ \A i \in 1..Len(q) : i \in 1..(Len(q) + 1)
      BY <1>1
    <3> QED
      BY <3>1, <3>2, <3>3, Zenon
  <2>3. \A x : x \in Elements(r) <=> x \in Elements(q) \cup {a}
    BY <2>1, <2>2 DEF Elements
  <2> QED
    BY <2>3 DEF r
<1> QED
  BY <1>1, <1>2, <1>3

\* A digest holds the alerts of the lists of its key.
LEMMA DigestsOf ==
    \A k \in Digest, a \in Alerts :
        <<k, a>> \in Digests <=> \E i \in DOMAIN lists[k] : a \in Elements(lists[k][i])
  BY DEF Digests

\* What a delivery leaves in the record of attempts.
LEMMA CountedFacts ==
    ASSUME TypeOK, NEW k \in Channels, NEW sent \in SUBSET Alerts, Counted(k, sent)
    PROVE  /\ attempts' \in [Channels -> [Alerts -> Nat]]
           /\ \A c \in Channels, a \in Alerts : attempts'[c][a] >= attempts[c][a]
           /\ \A a \in Alerts : a \in sent => attempts'[k][a] > 0
           /\ \A a \in Alerts : attempts'[k][a] =
                IF a \in sent THEN attempts[k][a] + 1 ELSE attempts[k][a]
           /\ \A c \in Channels : c # k => attempts'[c] = attempts[c]
<1>1. attempts' = [attempts EXCEPT ![k] =
                     [a \in Alerts |-> IF a \in sent THEN attempts[k][a] + 1 ELSE attempts[k][a]]]
  BY Zenon DEF Counted
<1>2. attempts \in [Channels -> [Alerts -> Nat]]
  BY DEF TypeOK
<1>3. \A a \in Alerts : attempts'[k][a] = IF a \in sent THEN attempts[k][a] + 1 ELSE attempts[k][a]
  BY <1>1, <1>2
<1>4. \A c \in Channels : c # k => attempts'[c] = attempts[c]
  BY <1>1, <1>2
<1>5. \A c \in Channels, a \in Alerts : attempts[c][a] \in Nat
  BY <1>2
<1>6. \A a \in Alerts : attempts'[k][a] \in Nat /\ attempts'[k][a] >= attempts[k][a]
                        /\ (a \in sent => attempts'[k][a] > 0)
  <2> TAKE a \in Alerts
  <2> DEFINE n == attempts[k][a]
             m == attempts'[k][a]
  <2>1. n \in Nat
    BY <1>5
  <2>2. m = IF a \in sent THEN n + 1 ELSE n
    BY <1>3
  <2>3. (a \in sent => m = n + 1) /\ (a \notin sent => m = n)
    BY <2>2, Zenon
  <2>4. m = n + 1 \/ m = n
    BY <2>3, Zenon
  <2> HIDE DEF n, m
  <2>5. m \in Nat /\ m >= n /\ (m = n + 1 => m > 0)
    BY <2>1, <2>4
  <2> QED
    BY <2>3, <2>5, Zenon DEF n, m
<1>7. attempts' \in [Channels -> [Alerts -> Nat]]
  <2> DEFINE g == [a \in Alerts |-> IF a \in sent THEN attempts[k][a] + 1 ELSE attempts[k][a]]
  <2>1. attempts'[k] = g
    BY <1>1, <1>2
  <2>2. DOMAIN g = Alerts /\ g = [a \in Alerts |-> g[a]]
    OBVIOUS
  <2> HIDE DEF g
  <2>3. g \in [Alerts -> Nat]
    BY <1>6, <2>1, <2>2
  <2>4. attempts' = [attempts EXCEPT ![k] = g]
    BY <1>1 DEF g
  <2> QED
    BY <1>2, <2>3, <2>4
<1>8. \A c \in Channels, a \in Alerts : attempts'[c][a] >= attempts[c][a]
  <2> TAKE c \in Channels, a \in Alerts
  <2>1. CASE c = k
    BY <1>6, <2>1
  <2>2. CASE c # k
    BY <1>4, <1>5, <2>2
  <2> QED
    BY <2>1, <2>2
<1> QED
  BY <1>3, <1>4, <1>6, <1>7, <1>8

\* Where an alert goes that is buffered: its list grows by it at the end, and the
\* other lists stay.
LEMMA BufferFacts ==
    ASSUME TypeOK, FlightsInv, alert \in Alerts, NEW k \in Digest, BufferForDigest(k)
    PROVE  /\ lists' \in [Digest -> Seq(Seq(Alerts))] /\ buffer' \in [Digest -> Nat]
           /\ \A j \in Digest : j # k => lists'[j] = lists[j] /\ buffer'[j] = buffer[j]
           /\ buffer'[k] = ListOf(k) /\ ListOf(k) \in 1..Len(lists'[k])
           /\ Len(lists'[k]) >= Len(lists[k])
           /\ \A i \in 1..Len(lists'[k]) : i # ListOf(k) =>
                i \in 1..Len(lists[k]) /\ lists'[k][i] = lists[k][i]
           /\ \A i \in 1..Len(lists[k]) :
                /\ Len(lists'[k][i]) >= Len(lists[k][i])
                /\ \A x \in 1..Len(lists[k][i]) : lists'[k][i][x] = lists[k][i][x]
           /\ Elements(lists'[k][ListOf(k)]) = Buffered(k) \cup {alert}
           /\ buffer[k] # 0 => /\ Len(lists'[k][buffer[k]]) = Len(lists[k][buffer[k]]) + 1
                               /\ lists'[k][buffer[k]][Len(lists[k][buffer[k]]) + 1] = alert
           /\ \A i \in 1..Len(lists'[k]) : lists'[k][i] # <<>>
<1>1. /\ lists \in [Digest -> Seq(Seq(Alerts))] /\ buffer \in [Digest -> Nat]
      /\ buffer[k] \in 0..Len(lists[k]) /\ lists[k] \in Seq(Seq(Alerts))
      /\ \A i \in 1..Len(lists[k]) : lists[k][i] # <<>>
  BY DEF TypeOK, FlightsInv
<1>2. buffer' = [buffer EXCEPT ![k] = ListOf(k)]
  BY DEF BufferForDigest
<1>3. CASE buffer[k] = 0
  <2> DEFINE new == Append(lists[k], <<alert>>)
  <2>1. lists' = [lists EXCEPT ![k] = new]
    BY <1>3 DEF BufferForDigest, Filled
  <2>2. <<alert>> \in Seq(Alerts) /\ <<alert>> # <<>> /\ Elements(<<alert>>) = {alert}
    BY DEF Elements
  <2>3. /\ new \in Seq(Seq(Alerts)) /\ Len(new) = Len(lists[k]) + 1
        /\ new[Len(lists[k]) + 1] = <<alert>>
        /\ \A i \in 1..Len(lists[k]) : new[i] = lists[k][i]
    BY <1>1, <2>2, ElementsAppend
  <2>4. ListOf(k) = Len(lists[k]) + 1 /\ Buffered(k) = {} /\ Len(lists[k]) \in Nat
    BY <1>1, <1>3 DEF ListOf, Buffered
  <2> HIDE DEF new
  <2>5. lists'[k] = new /\ \A j \in Digest : j # k => lists'[j] = lists[j] /\ buffer'[j] = buffer[j]
    BY <1>1, <1>2, <2>1
  <2>6. lists' \in [Digest -> Seq(Seq(Alerts))] /\ buffer' \in [Digest -> Nat] /\ buffer'[k] = ListOf(k)
    BY <1>1, <1>2, <2>1, <2>3, <2>4
  <2>7. \A i \in 1..Len(new) : new[i] # <<>>
    <3> TAKE i \in 1..Len(new)
    <3>1. i = Len(lists[k]) + 1 \/ i \in 1..Len(lists[k])
      BY <2>3, <2>4
    <3> QED
      BY <1>1, <2>2, <2>3, <3>1, Zenon
  <2>8. \A i \in 1..Len(lists[k]) :
           /\ Len(new[i]) >= Len(lists[k][i])
           /\ \A x \in 1..Len(lists[k][i]) : new[i][x] = lists[k][i][x]
    <3> TAKE i \in 1..Len(lists[k])
    <3>1. Len(lists[k][i]) \in Nat /\ new[i] = lists[k][i]
      BY <1>1, <2>3
    <3> QED
      BY <3>1
  <2>9. ListOf(k) \in 1..Len(new) /\ Len(new) >= Len(lists[k])
        /\ \A i \in 1..Len(new) : i # ListOf(k) => i \in 1..Len(lists[k]) /\ new[i] = lists[k][i]
    BY <2>3, <2>4, SMTT(30)
  <2>10. Elements(new[ListOf(k)]) = Buffered(k) \cup {alert}
    BY <2>2, <2>3, <2>4
  <2> QED
    BY <1>3, <2>5, <2>6, <2>7, <2>8, <2>9, <2>10
<1>4. CASE buffer[k] # 0
  <2> DEFINE old == lists[k][buffer[k]]
             more == Append(old, alert)
             new == [lists[k] EXCEPT ![buffer[k]] = more]
  <2>1. lists' = [lists EXCEPT ![k] = new]
    <3>1. Filled(k) = new
      BY <1>4 DEF Filled
    <3> QED
      BY <3>1 DEF BufferForDigest
  <2>2. old \in Seq(Alerts) /\ buffer[k] \in 1..Len(lists[k])
    BY <1>1, <1>4
  <2>3. /\ more \in Seq(Alerts) /\ more # <<>> /\ Len(more) = Len(old) + 1
        /\ more[Len(old) + 1] = alert /\ \A i \in 1..Len(old) : more[i] = old[i]
        /\ Elements(more) = Elements(old) \cup {alert}
    BY <2>2, ElementsAppend, SMTT(30)
  <2>4. ListOf(k) = buffer[k] /\ Buffered(k) = Elements(old)
    BY <1>4 DEF ListOf, Buffered
  <2> HIDE DEF more, old
  <2>5. /\ new \in Seq(Seq(Alerts)) /\ Len(new) = Len(lists[k]) /\ new[buffer[k]] = more
        /\ \A i \in 1..Len(lists[k]) : i # buffer[k] => new[i] = lists[k][i]
    BY <1>1, <2>2, <2>3
  <2> HIDE DEF new
  <2>6. lists'[k] = new /\ \A j \in Digest : j # k => lists'[j] = lists[j] /\ buffer'[j] = buffer[j]
    BY <1>1, <1>2, <2>1
  <2>7. lists' \in [Digest -> Seq(Seq(Alerts))] /\ buffer' \in [Digest -> Nat] /\ buffer'[k] = ListOf(k)
    BY <1>1, <1>2, <2>1, <2>4, <2>5
  <2>8. \A i \in 1..Len(lists[k]) : new[i] # <<>>
    BY <1>1, <2>3, <2>5
  <2>9. lists[k][buffer[k]] = old /\ Len(old) \in Nat
    BY <2>2 DEF old
  <2>10. \A i \in 1..Len(lists[k]) :
           /\ Len(new[i]) >= Len(lists[k][i])
           /\ \A x \in 1..Len(lists[k][i]) : new[i][x] = lists[k][i][x]
    <3> TAKE i \in 1..Len(lists[k])
    <3>1. CASE i = buffer[k]
      BY <2>3, <2>5, <2>9, <3>1, SMTT(30)
    <3>2. CASE i # buffer[k]
      <4>1. Len(lists[k][i]) \in Nat /\ new[i] = lists[k][i]
        BY <1>1, <2>5, <3>2
      <4> QED
        BY <4>1
    <3> QED
      BY <3>1, <3>2
  <2>11. Len(lists[k]) \in Nat
    BY <1>1
  <2>12. ListOf(k) \in 1..Len(new) /\ Len(new) >= Len(lists[k])
         /\ \A i \in 1..Len(new) : i # ListOf(k) => i \in 1..Len(lists[k]) /\ new[i] = lists[k][i]
    BY <2>2, <2>4, <2>5, <2>11
  <2>13. Elements(new[ListOf(k)]) = Buffered(k) \cup {alert}
    BY <2>3, <2>4, <2>5
  <2>14. Len(new[buffer[k]]) = Len(old) + 1 /\ new[buffer[k]][Len(old) + 1] = alert
    BY <2>3, <2>5
  <2>15. \A i \in 1..Len(new) : new[i] # <<>>
    BY <2>5, <2>8
  <2> QED
    BY <2>6, <2>7, <2>9, <2>10, <2>12, <2>13, <2>14, <2>15
<1> QED
  BY <1>3, <1>4

\* A delivery that begins has all of its list ahead.
LEMMA FlightFacts ==
    ASSUME TypeOK, FlightsInv, NEW k \in Digest, NEW s \in Slots, NEW l \in 1..Len(lists[k]),
           flights' = [flights EXCEPT ![<<k, s>>] = Flight(k, l)], lists' = lists
    PROVE  /\ flights' \in [Digest \X Slots -> [list : Nat, at : Nat, mail : SUBSET Alerts]]
           /\ \A j \in Digest, r \in Slots : <<j, r>> # <<k, s>> => flights'[<<j, r>>] = flights[<<j, r>>]
           /\ Flying(k, s)' /\ flights'[<<k, s>>].list = l /\ flights'[<<k, s>>].at = 1
           /\ Ahead(k, s)' = Elements(lists[k][l])
<1>1. /\ flights \in [Digest \X Slots -> [list : Nat, at : Nat, mail : SUBSET Alerts]]
      /\ lists[k] \in Seq(Seq(Alerts)) /\ lists[k][l] \in Seq(Alerts) /\ l \in Nat /\ l # 0
  BY SMTT(30) DEF TypeOK
<1>2. Elements(lists[k][l]) = {lists[k][l][i] : i \in 1..Len(lists[k][l])}
      /\ Elements(lists[k][l]) \subseteq Alerts
  BY <1>1, SMTT(30) DEF Elements
<1> DEFINE f == [list |-> l, at |-> 1, mail |-> Elements(lists[k][l])]
<1>3. f \in [list : Nat, at : Nat, mail : SUBSET Alerts] /\ f # NoFlight
      /\ f.list = l /\ f.at = 1 /\ f.mail = Elements(lists[k][l])
  BY <1>1, <1>2 DEF NoFlight
<1>4. flights' = [flights EXCEPT ![<<k, s>>] = f]
  BY DEF Flight
<1> HIDE DEF f
<1>5. flights'[<<k, s>>] = f
  BY <1>1, <1>4
<1>6. flights' \in [Digest \X Slots -> [list : Nat, at : Nat, mail : SUBSET Alerts]]
  BY <1>1, <1>3, <1>4
<1>7. \A j \in Digest, r \in Slots : <<j, r>> # <<k, s>> => flights'[<<j, r>>] = flights[<<j, r>>]
  BY <1>1, <1>4
<1>8. Flying(k, s)'
  BY <1>3, <1>5 DEF Flying
<1>9. Ahead(k, s)' = Elements(lists[k][l])
  <2>1. CASE k \in Mail
    BY <1>3, <1>5, <1>8, <2>1 DEF Ahead
  <2>2. CASE k \notin Mail
    <3>1. flights'[<<k, s>>].list = l /\ flights'[<<k, s>>].at = 1
      BY <1>3, <1>5
    <3>2. Ahead(k, s)' = {lists[k][l][i] : i \in 1..Len(lists[k][l])}
      BY <1>8, <2>2, <3>1 DEF Ahead
    <3> QED
      BY <1>2, <3>2
  <2> QED
    BY <2>1, <2>2
<1> QED
  BY <1>3, <1>5, <1>6, <1>7, <1>8, <1>9

\* What a delivery that comes back changes: its alerts are counted, or still ahead.
LEMMA DeliverFacts ==
    ASSUME TypeOK, FlightsInv, NEW k \in Digest, NEW s \in Slots, DeliverDigest(k, s)
    PROVE  /\ attempts' \in [Channels -> [Alerts -> Nat]]
           /\ \A c \in Channels, a \in Alerts : attempts'[c][a] >= attempts[c][a]
           /\ flights' \in [Digest \X Slots -> [list : Nat, at : Nat, mail : SUBSET Alerts]]
           /\ \A j \in Digest, r \in Slots : <<j, r>> # <<k, s>> => flights'[<<j, r>>] = flights[<<j, r>>]
           /\ \A a \in Alerts : a \in Ahead(k, s) =>
                attempts'[k][a] > 0 \/ (~Last(k, s) /\ a \in Ahead(k, s)')
           /\ Last(k, s) => ~Flying(k, s)' /\ buffer' = [buffer EXCEPT ![k] = 0]
           /\ ~Last(k, s) =>
                /\ buffer' = buffer
                /\ flights'[<<k, s>>].list = flights[<<k, s>>].list
                /\ flights'[<<k, s>>].at \in 1..Len(lists[k][flights[<<k, s>>].list])
<1> DEFINE f == flights[<<k, s>>]
           l == lists[k][f.list]
           sent == IF k \in Mail THEN f.mail ELSE {l[f.at]}
<1>1. /\ flights \in [Digest \X Slots -> [list : Nat, at : Nat, mail : SUBSET Alerts]]
      /\ f \in [list : Nat, at : Nat, mail : SUBSET Alerts]
      /\ Flying(k, s) /\ lists' = lists
  BY DEF TypeOK, DeliverDigest
<1>2. f.list \in 1..Len(lists[k]) /\ f.at \in 1..Len(l)
  BY <1>1 DEF FlightsInv
<1>3. lists[k] \in Seq(Seq(Alerts))
  BY DEF TypeOK
<1>4. l \in Seq(Alerts) /\ Len(l) \in Nat /\ f.list # 0
  BY <1>2, <1>3
<1>5. sent \in SUBSET Alerts
  <2>1. l[f.at] \in Alerts
    BY <1>2, <1>4
  <2>2. f.mail \in SUBSET Alerts
    BY <1>1
  <2> QED
    BY <2>1, <2>2
<1>6. Counted(k, sent)
  BY DEF DeliverDigest
<1>7. k \in Channels
  OBVIOUS
<1>8. /\ attempts' \in [Channels -> [Alerts -> Nat]]
      /\ \A c \in Channels, a \in Alerts : attempts'[c][a] >= attempts[c][a]
      /\ \A a \in Alerts : a \in sent => attempts'[k][a] > 0
  <2> HIDE DEF sent
  <2> QED
    BY <1>5, <1>6, <1>7, CountedFacts
<1>9. Ahead(k, s) = IF k \in Mail THEN f.mail ELSE {l[i] : i \in f.at..Len(l)}
  BY <1>1 DEF Ahead
<1>10. CASE Last(k, s)
  <2>1. flights' = [flights EXCEPT ![<<k, s>>] = NoFlight] /\ buffer' = [buffer EXCEPT ![k] = 0]
    BY <1>10 DEF DeliverDigest
  <2>2. NoFlight \in [list : Nat, at : Nat, mail : SUBSET Alerts]
    BY DEF NoFlight
  <2>3. flights'[<<k, s>>] = NoFlight /\
        \A j \in Digest, r \in Slots : <<j, r>> # <<k, s>> => flights'[<<j, r>>] = flights[<<j, r>>]
    BY <1>1, <2>1
  <2>4. flights' \in [Digest \X Slots -> [list : Nat, at : Nat, mail : SUBSET Alerts]]
    BY <1>1, <2>1, <2>2
  <2>5. Ahead(k, s) \subseteq sent
    <3>1. CASE k \in Mail
      BY <1>9, <3>1
    <3>2. CASE k \notin Mail
      <4>1. f.at = Len(l)
        BY <1>10, <3>2 DEF Last
      <4>2. \A i \in f.at..Len(l) : i = f.at
        BY <1>4, <4>1
      <4> QED
        BY <1>9, <3>2, <4>2
    <3> QED
      BY <3>1, <3>2
  <2>6. ~Flying(k, s)'
    BY <2>3 DEF Flying
  <2> HIDE DEF sent, l, f
  <2> QED
    BY <1>8, <1>10, <2>1, <2>3, <2>4, <2>5, <2>6
<1>11. CASE ~Last(k, s)
  <2> DEFINE g == [f EXCEPT !.at = @ + 1]
  <2>1. flights' = [flights EXCEPT ![<<k, s>>].at = @ + 1] /\ buffer' = buffer
    BY <1>11 DEF DeliverDigest
  <2>2. k \notin Mail /\ f.at # Len(l)
    BY <1>11 DEF Last
  <2>3. g \in [list : Nat, at : Nat, mail : SUBSET Alerts] /\ g.list = f.list /\ g.at = f.at + 1
    <3> HIDE DEF f
    <3>1. f.list \in Nat /\ f.at \in Nat /\ f.mail \in SUBSET Alerts
      BY <1>1
    <3>2. g = [list |-> f.list, at |-> f.at + 1, mail |-> f.mail]
      BY <1>1
    <3> QED
      BY <3>1, <3>2
  <2>4. flights' = [flights EXCEPT ![<<k, s>>] = g]
    BY <1>1, <2>1
  <2> HIDE DEF g
  <2>5. flights'[<<k, s>>] = g /\
        \A j \in Digest, r \in Slots : <<j, r>> # <<k, s>> => flights'[<<j, r>>] = flights[<<j, r>>]
    BY <1>1, <2>4
  <2>6. flights' \in [Digest \X Slots -> [list : Nat, at : Nat, mail : SUBSET Alerts]]
    BY <1>1, <2>3, <2>4
  <2>7. g.at \in 1..Len(l)
    <3> HIDE DEF f, l
    <3> QED
      BY <1>2, <1>4, <2>2, <2>3
  <2>8. Flying(k, s)'
    <3>1. g.list # 0
      BY <1>4, <2>3
    <3> QED
      BY <2>5, <3>1 DEF Flying, NoFlight
  <2>9. Ahead(k, s)' = {l[i] : i \in (f.at + 1)..Len(l)}
    <3>1. flights'[<<k, s>>].list = f.list /\ flights'[<<k, s>>].at = f.at + 1
      BY <2>3, <2>5
    <3> QED
      BY <1>1, <2>2, <2>8, <3>1 DEF Ahead
  <2>10. \A a \in Alerts : a \in Ahead(k, s) => a \in sent \/ a \in Ahead(k, s)'
    <3>1. \A i \in f.at..Len(l) : i = f.at \/ i \in (f.at + 1)..Len(l)
      BY <1>2, <1>4
    <3> HIDE DEF f, l
    <3>2. sent = {l[f.at]} /\ Ahead(k, s) = {l[i] : i \in f.at..Len(l)}
      BY <1>9, <2>2
    <3> HIDE DEF sent
    <3> QED
      BY <2>9, <3>1, <3>2
  <2>11. flights'[<<k, s>>].list = f.list /\ flights'[<<k, s>>].at \in 1..Len(l)
    BY <2>3, <2>5, <2>7
  <2>12. \A a \in Alerts : a \in Ahead(k, s) => attempts'[k][a] > 0 \/ (~Last(k, s) /\ a \in Ahead(k, s)')
    <3> HIDE DEF sent
    <3> QED
      BY <1>8, <1>11, <2>10
  <2> HIDE DEF sent
  <2> QED
    BY <1>8, <1>11, <2>1, <2>5, <2>6, <2>11, <2>12
<1> QED
  BY <1>10, <1>11
-----------------------------------------------------------------------------
(* The steps *)


\* A digest that begins while others are in flight is counted for its key.
LEMMA OverlapFacts ==
    ASSUME TypeOK, NEW K \in SUBSET Digest, Overlapping(K)
    PROVE  /\ overlaps' \in [Digest -> Nat]
           /\ \A k \in Digest :
                IF k \in K /\ buffer[k] # 0 /\ InFlight(k) THEN overlaps'[k] = overlaps[k] + 1
                ELSE overlaps'[k] = overlaps[k]
<1> DEFINE Counts(k) == k \in K /\ buffer[k] # 0 /\ InFlight(k)
<1>1. overlaps \in [Digest -> Nat]
  BY DEF TypeOK
<1>2. overlaps' = [k \in Digest |-> IF Counts(k) THEN overlaps[k] + 1 ELSE overlaps[k]]
  BY DEF Overlapping
<1> HIDE DEF Counts
<1>3. \A k \in Digest : IF Counts(k) THEN overlaps'[k] = overlaps[k] + 1
                        ELSE overlaps'[k] = overlaps[k]
  BY <1>2
<1>4. overlaps' \in [Digest -> Nat]
  BY <1>1, <1>2
<1> QED
  BY <1>3, <1>4 DEF Counts

\* Every step keeps the types.
LEMMA NextTypeOK ==
    ASSUME TypeOK, FlightsInv, [Next]_vars PROVE TypeOK'
<1> USE DEF TypeOK
<1>1. CASE Enqueue
  <2>1. enqueued + 1 \in Alerts /\ enqueued' \in 0..NumAlerts
    BY <1>1 DEF Enqueue, Alerts
  <2>2. queue' \in Seq(Alerts) /\ Len(queue') <= QueueSize
    <3>1. CASE Len(queue) < QueueSize
      <4>1. queue' = Append(queue, enqueued + 1)
        BY <1>1, <3>1 DEF Enqueue
      <4>2. Append(queue, enqueued + 1) \in Seq(Alerts) /\ Len(Append(queue, enqueued + 1)) = Len(queue) + 1
        BY <2>1
      <4>3. Len(queue) + 1 <= QueueSize
        <5>1. Len(queue) \in Nat /\ QueueSize \in Nat
          OBVIOUS
        <5> QED
          BY <3>1, <5>1
      <4> QED
        BY <4>1, <4>2, <4>3
    <3>2. CASE ~(Len(queue) < QueueSize)
      BY <1>1, <3>2 DEF Enqueue
    <3> QED
      BY <3>1, <3>2
  <2> QED
    BY <1>1, <2>1, <2>2 DEF Enqueue, workerVars, digestVars
<1>2. CASE Stop
  BY <1>2 DEF Stop, workerVars, digestVars
<1>3. CASE Get
  <2>1. /\ queue # <<>> /\ queue' = Tail(queue) /\ alert' = Head(queue)
        /\ entries' = Notify[Head(queue)] /\ worker' = "route"
        /\ UNCHANGED <<enqueued, running, lists, buffer, timers, flights, drain, attempts, late, overlaps>>
    BY <1>3 DEF Get, digestVars
  <2>2. queue' \in Seq(Alerts) /\ Len(queue') <= QueueSize /\ alert' \in Alerts
    <3>1. Head(queue) \in Alerts /\ Tail(queue) \in Seq(Alerts) /\ Len(Tail(queue)) = Len(queue) - 1
      BY <2>1
    <3>2. Len(queue) \in Nat /\ QueueSize \in Nat
      OBVIOUS
    <3>3. Len(queue) - 1 <= QueueSize
      BY <3>2
    <3> QED
      BY <2>1, <3>1, <3>3
  <2>3. alert' # 0
    BY <2>2 DEF Alerts
  <2>4. entries' \in Seq(Channels)
    BY <2>1, <2>2
  <2> QED
    BY <2>1, <2>2, <2>3, <2>4
<1>4. CASE Deliver
  <2>1. entries \in Seq(Channels) /\ entries # <<>> /\ worker = "route" /\ alert \in Alerts
    BY <1>4 DEF Deliver
  <2>2. Head(entries) \in Channels /\ Tail(entries) \in Seq(Channels)
    BY <2>1
  <2>3. attempts' \in [Channels -> [Alerts -> Nat]]
    <3>1. Counted(Head(entries), {alert}) /\ {alert} \in SUBSET Alerts
      BY <1>4, <2>1 DEF Deliver
    <3> QED
      BY <2>2, <3>1, CountedFacts
  <2> QED
    BY <1>4, <2>2, <2>3 DEF Deliver, digestVars
<1>5. CASE RouteToDigest
  <2> DEFINE k == Head(entries)
  <2>1. /\ entries \in Seq(Channels) /\ entries # <<>> /\ alert \in Alerts /\ k \in Digest
        /\ BufferForDigest(k)
    BY <1>5 DEF RouteToDigest
  <2>2. Tail(entries) \in Seq(Channels)
    BY <2>1
  <2>3. late' = late \cup {<<k, alert>>} \/ late' = late
    BY <1>5 DEF RouteToDigest
  <2>4. timers' = timers \cup {k}
    BY <2>1 DEF BufferForDigest
  <2>5. UNCHANGED <<enqueued, queue, running, worker, alert, flights, drain, attempts,
                  overlaps>>
        /\ entries' = Tail(entries)
    BY <1>5 DEF RouteToDigest
  <2> HIDE DEF k
  <2>6. /\ lists' \in [Digest -> Seq(Seq(Alerts))] /\ buffer' \in [Digest -> Nat]
        /\ \A j \in Digest : j # k => lists'[j] = lists[j] /\ buffer'[j] = buffer[j]
        /\ buffer'[k] \in 1..Len(lists'[k])
    BY <2>1, BufferFacts
  <2>7. \A j \in Digest : buffer'[j] \in 0..Len(lists'[j])
    <3> TAKE j \in Digest
    <3>1. CASE j = k
      <4>1. Len(lists'[k]) \in Nat
        BY <2>1, <2>6
      <4> QED
        BY <2>6, <3>1, <4>1
    <3>2. CASE j # k
      BY <2>6, <3>2
    <3> QED
      BY <3>1, <3>2
  <2>8. late' \subseteq Digest \X Alerts /\ timers' \subseteq Digest
    BY <2>1, <2>3, <2>4
  <2> QED
    BY <2>2, <2>5, <2>6, <2>7, <2>8
<1>6. CASE RouteDone
  BY <1>6 DEF RouteDone, digestVars
<1>7. CASE StopTimers
  BY <1>7 DEF StopTimers
<1>8. CASE BeginDrain
  <2>1. overlaps' \in [Digest -> Nat]
    BY <1>8, OverlapFacts DEF BeginDrain
  <2> QED
    BY <1>8, <2>1 DEF BeginDrain, digestVars
<1>9. CASE DrainDone
  BY <1>9 DEF DrainDone, digestVars
<1>10. ASSUME NEW k \in Digest, DrainNext(k) PROVE TypeOK'
  <2>1. PICK l \in 1..Len(lists[k]) : /\ drain' = drain \ {<<k, l>>}
                                      /\ flights' = [flights EXCEPT ![<<k, 0>>] = Flight(k, l)]
    BY <1>10 DEF DrainNext
  <2>2. UNCHANGED <<enqueued, queue, running, worker, alert, entries, lists, buffer, timers,
                    attempts, late, overlaps>>
    BY <1>10 DEF DrainNext, workerVars, digestVars
  <2>3. 0 \in Slots
    BY DEF Slots
  <2>4. flights' \in [Digest \X Slots -> [list : Nat, at : Nat, mail : SUBSET Alerts]]
    BY <2>1, <2>2, <2>3, FlightFacts
  <2> QED
    BY <2>1, <2>2, <2>4
<1>11. ASSUME NEW k \in Digest, NEW s \in Slots, Flush(k, s) PROVE TypeOK'
  <2>1. /\ timers' = timers \ {k}
        /\ UNCHANGED <<enqueued, queue, running, worker, alert, entries, lists, buffer, drain,
                       attempts, late>>
    BY <1>11 DEF Flush, workerVars
  <2>2. flights' \in [Digest \X Slots -> [list : Nat, at : Nat, mail : SUBSET Alerts]]
    <3>1. CASE buffer[k] = 0
      BY <1>11, <3>1 DEF Flush
    <3>2. CASE buffer[k] # 0
      <4>1. flights' = [flights EXCEPT ![<<k, s>>] = Flight(k, buffer[k])]
        BY <1>11, <3>2 DEF Flush
      <4>2. buffer[k] \in 1..Len(lists[k])
        BY <3>2
      <4> QED
        BY <2>1, <4>1, <4>2, FlightFacts
    <3> QED
      BY <3>1, <3>2
  <2>3. overlaps' \in [Digest -> Nat]
    <3>1. {k} \in SUBSET Digest /\ Overlapping({k})
      BY <1>11 DEF Flush
    <3> QED
      BY <3>1, OverlapFacts
  <2> QED
    BY <2>1, <2>2, <2>3
<1>12. ASSUME NEW k \in Digest, NEW s \in Slots, DeliverDigest(k, s) PROVE TypeOK'
  <2>1. UNCHANGED <<enqueued, queue, running, worker, alert, entries, lists, timers, drain, late,
                  overlaps>>
    BY <1>12 DEF DeliverDigest, workerVars
  <2>2. /\ attempts' \in [Channels -> [Alerts -> Nat]]
        /\ flights' \in [Digest \X Slots -> [list : Nat, at : Nat, mail : SUBSET Alerts]]
        /\ buffer' = buffer \/ buffer' = [buffer EXCEPT ![k] = 0]
    BY <1>12, DeliverFacts
  <2>3. buffer \in [Digest -> Nat] /\ \A j \in Digest : Len(lists[j]) \in Nat /\ buffer[j] \in 0..Len(lists[j])
    OBVIOUS
  <2>4. buffer' \in [Digest -> Nat] /\ \A j \in Digest : buffer'[j] = buffer[j] \/ buffer'[j] = 0
    <3> HIDE DEF TypeOK
    <3>1. CASE buffer' = buffer
      BY <2>3, <3>1
    <3>2. CASE buffer' = [buffer EXCEPT ![k] = 0]
      <4>1. buffer \in [Digest -> Nat]
        BY <2>3
      <4> QED
        BY <3>2, <4>1
    <3> QED
      BY <2>2, <3>1, <3>2
  <2>5. \A j \in Digest : buffer'[j] \in 0..Len(lists[j])
    <3> HIDE DEF TypeOK
    <3> TAKE j \in Digest
    <3> DEFINE n == Len(lists[j])
    <3>1. n \in Nat /\ buffer[j] \in 0..n
      BY <2>3
    <3>2. buffer'[j] = buffer[j] \/ buffer'[j] = 0
      BY <2>4
    <3> HIDE DEF n
    <3>3. 0 \in 0..n
      BY <3>1
    <3>4. buffer'[j] \in 0..n
      BY <3>1, <3>2, <3>3, Zenon
    <3> QED
      BY <3>4 DEF n
  <2> QED
    BY <2>1, <2>2, <2>4, <2>5
<1>13. CASE UNCHANGED vars
  BY <1>13 DEF vars, workerVars, digestVars
<1> QED
  BY <1>1, <1>2, <1>3, <1>4, <1>5, <1>6, <1>7, <1>8, <1>9, <1>10, <1>11, <1>12, <1>13
     DEF Next, Worker, Flusher

\* The parts of the invariant about the digests.
DigestInv == FlightsInv /\ CoverInv /\ NoneForgotten

\* A delivery that is not touched has the same alerts ahead.
LEMMA AheadSame ==
    ASSUME NEW k \in Digest, NEW s \in Slots,
           flights'[<<k, s>>] = flights[<<k, s>>], lists'[k] = lists[k]
    PROVE  (Flying(k, s)' <=> Flying(k, s)) /\ Ahead(k, s)' = Ahead(k, s)
  BY DEF Flying, Ahead

\* A step that leaves the digests alone, and only counts deliveries, keeps it.
LEMMA KeptByOthers ==
    ASSUME TypeOK, TypeOK', DigestInv, UNCHANGED <<lists, buffer, flights, late>>,
           drain \subseteq drain',
           \A c \in Channels, a \in Alerts : attempts'[c][a] >= attempts[c][a]
    PROVE  DigestInv'
<1>1. FlightsInv'
  BY DEF DigestInv, FlightsInv, Flying
<1>2. /\ \A k \in Digest, s \in Slots : Ahead(k, s)' = Ahead(k, s) /\ (Flying(k, s)' <=> Flying(k, s))
      /\ \A k \in Digest : Buffered(k)' = Buffered(k)
      /\ Digests' = Digests
  BY DEF Ahead, Flying, Buffered, Digests
<1>3. \A c \in Digest, a \in Alerts :
          (attempts[c][a] > 0 => attempts'[c][a] > 0) /\ (attempts'[c][a] = 0 => attempts[c][a] = 0)
  <2> TAKE c \in Digest, a \in Alerts
  <2> DEFINE m == attempts[c][a]
             n == attempts'[c][a]
  <2>1. m \in Nat /\ n \in Nat /\ n >= m
    BY DEF TypeOK
  <2> HIDE DEF m, n
  <2>2. (m > 0 => n > 0) /\ (n = 0 => m = 0)
    BY <2>1
  <2> QED
    BY <2>2 DEF m, n
<1>4. CoverInv'
  BY <1>2, <1>3 DEF DigestInv, CoverInv
<1>5. NoneForgotten'
  <2> SUFFICES ASSUME NEW k \in Digest, NEW a \in Alerts
               PROVE  \/ <<k, a>> \notin Digests \/ <<k, a>> \in late
                      \/ attempts'[k][a] > 0
                      \/ a \in Buffered(k) \/ \E s \in Slots : a \in Ahead(k, s)
                      \/ \E l \in 1..Len(lists[k]) : <<k, l>> \in drain' /\ a \in Elements(lists[k][l])
    BY <1>2 DEF NoneForgotten
  <2>1. \/ <<k, a>> \notin Digests \/ <<k, a>> \in late
        \/ attempts[k][a] > 0
        \/ a \in Buffered(k) \/ \E s \in Slots : a \in Ahead(k, s)
        \/ \E l \in 1..Len(lists[k]) : <<k, l>> \in drain /\ a \in Elements(lists[k][l])
    BY DEF DigestInv, NoneForgotten
  <2>2. attempts[k][a] > 0 => attempts'[k][a] > 0
    BY <1>3
  <2> QED
    BY <2>1, <2>2, Zenon
<1> QED
  BY <1>1, <1>4, <1>5 DEF DigestInv

\* A delivery that begins has all of the buffer ahead, or is of the one list of
\* the key that stop() has to deliver.
LEMMA KeptByBegin ==
    ASSUME TypeOK, TypeOK', DigestInv, NEW k \in Digest, NEW s \in Slots,
           NEW l \in 1..Len(lists[k]), ~Flying(k, s), buffer[k] \in {0, l},
           flights' = [flights EXCEPT ![<<k, s>>] = Flight(k, l)],
           UNCHANGED <<lists, buffer, attempts, late>>,
           drain' \in {drain, drain \ {<<k, l>>}}
    PROVE  DigestInv'
<1> USE DEF DigestInv
<1>1. /\ \A j \in Digest, r \in Slots : <<j, r>> # <<k, s>> => flights'[<<j, r>>] = flights[<<j, r>>]
      /\ Flying(k, s)' /\ flights'[<<k, s>>].list = l /\ flights'[<<k, s>>].at = 1
      /\ Ahead(k, s)' = Elements(lists[k][l])
  <2>1. FlightsInv /\ lists' = lists
    OBVIOUS
  <2> HIDE DEF DigestInv
  <2> QED
    BY <2>1, FlightFacts, ZenonT(30)
<1>2. /\ \A j \in Digest, r \in Slots : <<j, r>> # <<k, s>> =>
            (Flying(j, r)' <=> Flying(j, r)) /\ Ahead(j, r)' = Ahead(j, r)
      /\ \A j \in Digest : Buffered(j)' = Buffered(j)
      /\ Digests' = Digests
  BY <1>1, AheadSame DEF Buffered, Digests
<1>3. Ahead(k, s) = {}
  BY DEF Ahead
<1>4. FlightsInv'
  <2>1. 1 \in 1..Len(lists[k][l])
    <3>1. lists[k] \in Seq(Seq(Alerts)) /\ lists[k][l] # <<>>
      BY DEF FlightsInv, TypeOK
    <3>2. lists[k][l] \in Seq(Alerts)
      BY <3>1
    <3> QED
      BY <3>1, <3>2
  <2> SUFFICES ASSUME NEW j \in Digest, NEW r \in Slots, Flying(j, r)'
               PROVE  /\ flights'[<<j, r>>].list \in 1..Len(lists[j])
                      /\ flights'[<<j, r>>].at \in 1..Len(lists[j][flights'[<<j, r>>].list])
    BY DEF FlightsInv
  <2>2. CASE <<j, r>> = <<k, s>>
    BY <1>1, <2>1, <2>2
  <2>3. CASE <<j, r>> # <<k, s>>
    BY <1>1, <1>2, <2>3 DEF FlightsInv
  <2> QED
    BY <2>2, <2>3
<1>5. CoverInv'
  <2> SUFFICES ASSUME NEW j \in Digest, NEW a \in Alerts, NEW r \in Slots,
                      a \in Buffered(j), <<j, a>> \notin late, attempts[j][a] = 0, Flying(j, r)'
               PROVE  a \in Ahead(j, r)'
    BY <1>2 DEF CoverInv
  <2>1. CASE <<j, r>> = <<k, s>>
    BY <1>1, <2>1 DEF Buffered
  <2>2. CASE <<j, r>> # <<k, s>>
    BY <1>2, <2>2 DEF CoverInv
  <2> QED
    BY <2>1, <2>2
<1>6. NoneForgotten'
  <2> SUFFICES ASSUME NEW j \in Digest, NEW a \in Alerts,
                      <<j, a>> \in Digests, <<j, a>> \notin late, ~(attempts[j][a] > 0),
                      a \notin Buffered(j), \A r \in Slots : a \notin Ahead(j, r)'
               PROVE  \E i \in 1..Len(lists[j]) : <<j, i>> \in drain' /\ a \in Elements(lists[j][i])
    BY <1>2 DEF NoneForgotten
  <2>1. \A r \in Slots : a \notin Ahead(j, r)
    BY <1>2, <1>3
  <2>2. PICK i \in 1..Len(lists[j]) : <<j, i>> \in drain /\ a \in Elements(lists[j][i])
    BY <2>1 DEF NoneForgotten
  <2>3. <<j, i>> # <<k, l>>
    BY <1>1, <2>2
  <2> QED
    BY <2>2, <2>3
<1> QED
  BY <1>4, <1>5, <1>6

\* An alert that is buffered comes to lie ahead of every delivery that goes on, or
\* is recorded as late.
LEMMA KeptByBuffering ==
    ASSUME TypeOK, TypeOK', DigestInv, DrainInv, RouteToDigest,
           NEW k \in Digest, k = Head(entries)
    PROVE  DigestInv'
<1> DEFINE n == ListOf(k)
           Missed(r) == Flying(k, r) /\ (k \in Mail \/ flights[<<k, r>>].list # n)
<1>1. /\ worker = "route" /\ alert \in Alerts /\ k \in Digest /\ BufferForDigest(k)
      /\ late' = IF \E r \in Slots : Missed(r) THEN late \cup {<<k, alert>>} ELSE late
      /\ flights' = flights /\ drain' = drain /\ attempts' = attempts
  BY DEF RouteToDigest, TypeOK
<1>2. drain = {} /\ FlightsInv
  BY <1>1 DEF DrainInv, DigestInv
<1>3. /\ \A j \in Digest : j # k => lists'[j] = lists[j] /\ buffer'[j] = buffer[j]
      /\ buffer'[k] = n /\ n \in 1..Len(lists'[k])
      /\ \A i \in 1..Len(lists'[k]) : i # n => i \in 1..Len(lists[k]) /\ lists'[k][i] = lists[k][i]
      /\ \A i \in 1..Len(lists[k]) :
           /\ Len(lists'[k][i]) >= Len(lists[k][i])
           /\ \A x \in 1..Len(lists[k][i]) : lists'[k][i][x] = lists[k][i][x]
      /\ Elements(lists'[k][n]) = Buffered(k) \cup {alert}
      /\ \A i \in 1..Len(lists'[k]) : lists'[k][i] # <<>>
      /\ Len(lists'[k]) >= Len(lists[k])
      /\ buffer[k] # 0 => /\ Len(lists'[k][buffer[k]]) = Len(lists[k][buffer[k]]) + 1
                          /\ lists'[k][buffer[k]][Len(lists[k][buffer[k]]) + 1] = alert
  BY <1>1, <1>2, BufferFacts
<1>4. /\ Buffered(k)' = Buffered(k) \cup {alert}
      /\ \A j \in Digest : j # k => Buffered(j)' = Buffered(j)
  <2>1. n # 0
    BY <1>3
  <2> HIDE DEF n
  <2> QED
    BY <1>3, <2>1 DEF Buffered
<1>5. \A j \in Digest : lists[j] \in Seq(Seq(Alerts)) /\ lists'[j] \in Seq(Seq(Alerts))
                        /\ Len(lists[j]) \in Nat /\ Len(lists'[j]) \in Nat
  <2>1. lists \in [Digest -> Seq(Seq(Alerts))] /\ lists' \in [Digest -> Seq(Seq(Alerts))]
    BY DEF TypeOK
  <2> QED
    BY <2>1
<1> HIDE DEF n
<1>6. \A r \in Slots : Flying(k, r) =>
         LET f == flights[<<k, r>>]
         IN  /\ f.list \in 1..Len(lists[k]) /\ f.list \in 1..Len(lists'[k])
             /\ f.at \in 1..Len(lists[k][f.list]) /\ f.at \in 1..Len(lists'[k][f.list])
             /\ f.at..Len(lists[k][f.list]) \subseteq f.at..Len(lists'[k][f.list])
             /\ \A i \in f.at..Len(lists[k][f.list]) : lists'[k][f.list][i] = lists[k][f.list][i]
  <2> SUFFICES ASSUME NEW r \in Slots, Flying(k, r)
               PROVE  LET f == flights[<<k, r>>]
                      IN  /\ f.list \in 1..Len(lists[k]) /\ f.list \in 1..Len(lists'[k])
                          /\ f.at \in 1..Len(lists[k][f.list]) /\ f.at \in 1..Len(lists'[k][f.list])
                          /\ f.at..Len(lists[k][f.list]) \subseteq f.at..Len(lists'[k][f.list])
                          /\ \A i \in f.at..Len(lists[k][f.list]) :
                                lists'[k][f.list][i] = lists[k][f.list][i]
    OBVIOUS
  <2> DEFINE f == flights[<<k, r>>]
             old == lists[k][f.list]
             more == lists'[k][f.list]
  <2>1. f.list \in 1..Len(lists[k]) /\ f.at \in 1..Len(old)
    BY <1>1, <1>2 DEF FlightsInv
  <2> HIDE DEF f
  <2>2. f.list \in 1..Len(lists'[k])
    BY <1>1, <1>3, <1>5, <2>1, SMTT(30)
  <2>3. Len(old) \in Nat /\ Len(more) \in Nat
    <3>1. lists[k] \in Seq(Seq(Alerts)) /\ lists'[k] \in Seq(Seq(Alerts))
      BY <1>5
    <3>2. old \in Seq(Alerts) /\ more \in Seq(Alerts)
      BY <2>1, <2>2, <3>1, SMTT(30)
    <3> HIDE DEF old, more
    <3> QED
      BY <3>2
  <2>4. Len(more) >= Len(old) /\ \A x \in 1..Len(old) : more[x] = old[x]
    BY <1>3, <2>1
  <2> HIDE DEF old, more
  <2>5. f.at \in 1..Len(more) /\ f.at..Len(old) \subseteq f.at..Len(more)
        /\ f.at..Len(old) \subseteq 1..Len(old)
    BY <2>1, <2>3, <2>4
  <2>6. \A i \in f.at..Len(old) : more[i] = old[i]
    BY <2>4, <2>5
  <2> QED
    BY <2>1, <2>2, <2>5, <2>6, Zenon DEF f, old, more
<1>7. \A j \in Digest, r \in Slots : (Flying(j, r)' <=> Flying(j, r)) /\ Ahead(j, r) \subseteq Ahead(j, r)'
  <2> TAKE j \in Digest, r \in Slots
  <2>1. CASE j # k
    BY <1>1, <1>3, <2>1, AheadSame
  <2>2. CASE j = k
    <3>1. Flying(k, r)' <=> Flying(k, r)
      BY <1>1 DEF Flying
    <3>2. CASE k \in Mail \/ ~Flying(k, r)
      BY <1>1, <2>2, <3>1, <3>2 DEF Ahead
    <3>3. CASE k \notin Mail /\ Flying(k, r)
      <4> DEFINE f == flights[<<k, r>>]
      <4>1. /\ f.at..Len(lists[k][f.list]) \subseteq f.at..Len(lists'[k][f.list])
            /\ \A i \in f.at..Len(lists[k][f.list]) : lists'[k][f.list][i] = lists[k][f.list][i]
        BY <1>6, <3>3
      <4>2. /\ Ahead(k, r) = {lists[k][f.list][i] : i \in f.at..Len(lists[k][f.list])}
            /\ Ahead(k, r)' = {lists'[k][f.list][i] : i \in f.at..Len(lists'[k][f.list])}
        BY <1>1, <3>1, <3>3 DEF Ahead
      <4> HIDE DEF f
      <4>3. Ahead(k, r) \subseteq Ahead(k, r)'
        BY <4>1, <4>2
      <4> QED
        BY <2>2, <3>1, <4>3
    <3> QED
      BY <3>2, <3>3
  <2> QED
    BY <2>1, <2>2
<1>8. FlightsInv'
  <2> SUFFICES ASSUME NEW j \in Digest
               PROVE  /\ \A i \in 1..Len(lists'[j]) : lists'[j][i] # <<>>
                      /\ \A r \in Slots : Flying(j, r) =>
                           /\ flights[<<j, r>>].list \in 1..Len(lists'[j])
                           /\ flights[<<j, r>>].at \in 1..Len(lists'[j][flights[<<j, r>>].list])
    BY <1>1, <1>7 DEF FlightsInv
  <2>1. CASE j = k
    BY <1>3, <1>6, <2>1
  <2>2. CASE j # k
    <3>1. lists'[j] = lists[j]
      BY <1>3, <2>2
    <3> QED
      BY <1>2, <3>1 DEF FlightsInv
  <2> QED
    BY <2>1, <2>2
<1>9. late \subseteq late'
  BY <1>1
<1>10. CoverInv'
  <2> SUFFICES ASSUME NEW j \in Digest, NEW a \in Alerts, NEW r \in Slots, a \in Buffered(j)',
                      <<j, a>> \notin late', attempts[j][a] = 0, Flying(j, r)
               PROVE  a \in Ahead(j, r)'
    BY <1>1, <1>7 DEF CoverInv
  <2>1. CASE a \in Buffered(j)
    <3>1. a \in Ahead(j, r)
      BY <1>9, <2>1 DEF DigestInv, CoverInv
    <3> QED
      BY <1>7, <3>1
  <2>2. CASE a \notin Buffered(j)
    <3>1. j = k /\ a = alert
      BY <1>4, <2>2
    <3>2. ~Missed(r)
      BY <1>1, <3>1
    <3> DEFINE f == flights[<<k, r>>]
    <3>3. k \notin Mail /\ f.list = n
      BY <3>1, <3>2
    <3>4. f.list \in 1..Len(lists[k]) /\ f.at \in 1..Len(lists[k][f.list])
      BY <1>6, <3>1
    <3>5. buffer[k] = n /\ buffer[k] # 0
      <4>1. n = IF buffer[k] = 0 THEN Len(lists[k]) + 1 ELSE buffer[k]
        BY DEF n, ListOf
      <4>2. n # Len(lists[k]) + 1
        <5> HIDE DEF f
        <5> QED
          BY <1>1, <1>5, <3>3, <3>4
      <4> QED
        BY <4>1, <4>2
    <3>6. /\ Len(lists'[k][n]) = Len(lists[k][n]) + 1 /\ lists'[k][n][Len(lists[k][n]) + 1] = alert
      BY <1>3, <3>5
    <3>7. Len(lists[k][n]) \in Nat
      BY <1>1, <1>5, <3>3, <3>4
    <3>8. Len(lists[k][n]) + 1 \in f.at..Len(lists'[k][n])
      <4> HIDE DEF f
      <4> QED
        BY <3>3, <3>4, <3>6, <3>7
    <3>9. Ahead(k, r)' = {lists'[k][n][i] : i \in f.at..Len(lists'[k][n])}
      BY <1>1, <1>7, <3>1, <3>3 DEF Ahead
    <3> HIDE DEF f
    <3> QED
      BY <3>1, <3>6, <3>8, <3>9
  <2> QED
    BY <2>1, <2>2
<1>11. NoneForgotten'
  <2> SUFFICES ASSUME NEW j \in Digest, NEW a \in Alerts, <<j, a>> \in Digests', <<j, a>> \notin late',
                      ~(attempts[j][a] > 0), \A r \in Slots : a \notin Ahead(j, r)'
               PROVE  a \in Buffered(j)'
    BY <1>1 DEF NoneForgotten
  <2>1. PICK i \in DOMAIN lists'[j] : a \in Elements(lists'[j][i])
    BY DEF Digests
  <2>2. DOMAIN lists'[j] = 1..Len(lists'[j]) /\ DOMAIN lists[j] = 1..Len(lists[j])
    BY <1>5
  <2>3. CASE j = k /\ i = n
    BY <1>3, <1>4, <2>1, <2>3
  <2>4. CASE ~(j = k /\ i = n)
    <3>1. i \in DOMAIN lists[j] /\ lists'[j][i] = lists[j][i]
      <4>1. CASE j = k
        BY <1>3, <2>1, <2>2, <2>4, <4>1
      <4>2. CASE j # k
        BY <1>3, <2>1, <2>2, <4>2
      <4> QED
        BY <4>1, <4>2
    <3>2. <<j, a>> \in Digests
      BY <2>1, <3>1 DEF Digests
    <3>3. <<j, a>> \notin late /\ \A r \in Slots : a \notin Ahead(j, r)
      BY <1>7, <1>9
    <3>4. a \in Buffered(j)
      BY <1>2, <3>2, <3>3 DEF DigestInv, NoneForgotten
    <3> QED
      BY <1>4, <3>4
  <2> QED
    BY <2>3, <2>4
<1> QED
  BY <1>8, <1>10, <1>11 DEF DigestInv

\* A delivery that ends pops the buffer of its key: what was in it was ahead of
\* this delivery, so it is delivered, or it is recorded as late.
LEMMA KeptByDelivery ==
    ASSUME TypeOK, TypeOK', DigestInv, NEW k \in Digest, NEW s \in Slots, DeliverDigest(k, s)
    PROVE  DigestInv'
<1>1. /\ \A c \in Channels, a \in Alerts : attempts'[c][a] >= attempts[c][a]
      /\ \A j \in Digest, r \in Slots : <<j, r>> # <<k, s>> => flights'[<<j, r>>] = flights[<<j, r>>]
      /\ \A a \in Alerts : a \in Ahead(k, s) =>
           attempts'[k][a] > 0 \/ (~Last(k, s) /\ a \in Ahead(k, s)')
      /\ Last(k, s) => ~Flying(k, s)' /\ buffer' = [buffer EXCEPT ![k] = 0]
      /\ ~Last(k, s) =>
           /\ buffer' = buffer
           /\ flights'[<<k, s>>].list = flights[<<k, s>>].list
           /\ flights'[<<k, s>>].at \in 1..Len(lists[k][flights[<<k, s>>].list])
  BY DeliverFacts DEF DigestInv
<1>2. Flying(k, s) /\ lists' = lists /\ drain' = drain /\ late' = late /\ Digests' = Digests
  BY DEF DeliverDigest, Digests
<1>3. \A j \in Digest, r \in Slots : <<j, r>> # <<k, s>> =>
          (Flying(j, r)' <=> Flying(j, r)) /\ Ahead(j, r)' = Ahead(j, r)
  BY <1>1, <1>2, AheadSame
<1>4. /\ \A j \in Digest : j # k => Buffered(j)' = Buffered(j)
      /\ Last(k, s) => Buffered(k)' = {}
      /\ ~Last(k, s) => Buffered(k)' = Buffered(k)
  <2>1. buffer \in [Digest -> Nat]
    BY DEF TypeOK
  <2>2. (Last(k, s) => buffer'[k] = 0) /\ (~Last(k, s) => buffer'[k] = buffer[k])
        /\ \A j \in Digest : j # k => buffer'[j] = buffer[j]
    BY <1>1, <2>1
  <2> QED
    BY <1>2, <2>2 DEF Buffered
<1>5. \A c \in Digest, a \in Alerts :
          (attempts[c][a] > 0 => attempts'[c][a] > 0) /\ (attempts'[c][a] = 0 => attempts[c][a] = 0)
          /\ (~(attempts'[c][a] > 0) => attempts'[c][a] = 0)
  <2> TAKE c \in Digest, a \in Alerts
  <2> DEFINE m == attempts[c][a]
             n == attempts'[c][a]
  <2>1. m \in Nat /\ n \in Nat /\ n >= m
    BY <1>1 DEF TypeOK
  <2> HIDE DEF m, n
  <2>2. (m > 0 => n > 0) /\ (n = 0 => m = 0) /\ (~(n > 0) => n = 0) /\ (n = 0 => ~(n > 0))
    BY <2>1
  <2> QED
    BY <2>2 DEF m, n
<1>6. FlightsInv'
  <2> SUFFICES ASSUME NEW j \in Digest, NEW r \in Slots, Flying(j, r)'
               PROVE  /\ flights'[<<j, r>>].list \in 1..Len(lists[j])
                      /\ flights'[<<j, r>>].at \in 1..Len(lists[j][flights'[<<j, r>>].list])
    BY <1>2 DEF FlightsInv, DigestInv
  <2>1. CASE <<j, r>> = <<k, s>>
    <3>1. j = k /\ r = s /\ ~Last(k, s)
      BY <1>1, <2>1
    <3>2. flights[<<k, s>>].list \in 1..Len(lists[k])
      BY <1>2 DEF DigestInv, FlightsInv
    <3> QED
      BY <1>1, <3>1, <3>2
  <2>2. CASE <<j, r>> # <<k, s>>
    <3>1. Flying(j, r) /\ flights'[<<j, r>>] = flights[<<j, r>>]
      BY <1>1, <1>3, <2>2
    <3> QED
      BY <3>1 DEF DigestInv, FlightsInv
  <2> QED
    BY <2>1, <2>2
<1>7. CoverInv'
  <2> SUFFICES ASSUME NEW j \in Digest, NEW a \in Alerts, NEW r \in Slots, a \in Buffered(j)',
                      <<j, a>> \notin late, attempts'[j][a] = 0, Flying(j, r)'
               PROVE  a \in Ahead(j, r)'
    BY <1>2 DEF CoverInv
  <2>1. a \in Buffered(j) /\ attempts[j][a] = 0
    BY <1>4, <1>5
  <2>2. CASE <<j, r>> = <<k, s>>
    <3>1. j = k /\ r = s
      BY <2>2
    <3>2. a \in Ahead(k, s)
      BY <1>2, <2>1, <3>1 DEF DigestInv, CoverInv
    <3>3. ~(attempts'[k][a] > 0)
      <4> DEFINE n == attempts'[k][a]
      <4>1. n = 0
        BY <3>1
      <4> HIDE DEF n
      <4>2. ~(n > 0)
        BY <4>1
      <4> QED
        BY <4>2 DEF n
    <3> QED
      BY <1>1, <3>1, <3>2, <3>3
  <2>3. CASE <<j, r>> # <<k, s>>
    BY <1>3, <2>1, <2>3 DEF DigestInv, CoverInv
  <2> QED
    BY <2>2, <2>3
<1>8. NoneForgotten'
  <2> SUFFICES ASSUME NEW j \in Digest, NEW a \in Alerts, <<j, a>> \in Digests, <<j, a>> \notin late,
                      ~(attempts'[j][a] > 0), a \notin Buffered(j)',
                      \A r \in Slots : a \notin Ahead(j, r)'
               PROVE  \E l \in 1..Len(lists[j]) : <<j, l>> \in drain /\ a \in Elements(lists[j][l])
    BY <1>2 DEF NoneForgotten
  <2>1. ~(attempts[j][a] > 0) /\ attempts[j][a] = 0
    BY <1>5
  <2>2. \A r \in Slots : a \notin Ahead(j, r)
    <3> TAKE r \in Slots
    <3>1. CASE <<j, r>> = <<k, s>>
      BY <1>1, <3>1
    <3>2. CASE <<j, r>> # <<k, s>>
      BY <1>3, <3>2
    <3> QED
      BY <3>1, <3>2
  <2>3. a \notin Buffered(j)
    <3>1. CASE j = k
      BY <1>2, <2>1, <2>2, <3>1 DEF DigestInv, CoverInv
    <3>2. CASE j # k
      BY <1>4, <3>2
    <3> QED
      BY <3>1, <3>2
  <2> QED
    BY <2>1, <2>2, <2>3 DEF DigestInv, NoneForgotten
<1> QED
  BY <1>6, <1>7, <1>8 DEF DigestInv

\* stop() takes the buffers once, when no alert is routed any more.
LEMMA NextDrainInv ==
    ASSUME TypeOK, FlightsInv, DrainInv, [Next]_vars PROVE DrainInv'
<1> USE DEF DrainInv
<1>1. CASE Enqueue
  BY <1>1 DEF Enqueue, workerVars, digestVars
<1>2. CASE Stop
  BY <1>2 DEF Stop, workerVars, digestVars
<1>3. CASE Get
  BY <1>3 DEF Get, digestVars
<1>4. CASE Deliver
  BY <1>4 DEF Deliver, digestVars
<1>5. CASE RouteToDigest
  <2>1. drain' = {}
    BY <1>5 DEF RouteToDigest
  <2> QED
    BY <2>1
<1>6. CASE RouteDone
  BY <1>6 DEF RouteDone, digestVars
<1>7. CASE StopTimers
  BY <1>7 DEF StopTimers
<1>8. CASE BeginDrain
  <2>1. \A k \in Digest, l \in Nat : <<k, l>> \in drain' => l = buffer[k]
    BY <1>8 DEF BeginDrain
  <2> QED
    BY <1>8, <2>1 DEF BeginDrain, digestVars
<1>9. CASE DrainDone
  BY <1>9 DEF DrainDone, digestVars
<1>10. ASSUME NEW k \in Digest, DrainNext(k) PROVE DrainInv'
  <2>1. drain' \subseteq drain /\ worker = "drain" /\ worker' = worker /\ buffer' = buffer
    BY <1>10 DEF DrainNext, workerVars, digestVars
  <2> QED
    BY <2>1
<1>11. ASSUME NEW k \in Digest, NEW s \in Slots, Flush(k, s) PROVE DrainInv'
  BY <1>11 DEF Flush, workerVars
<1>12. ASSUME NEW k \in Digest, NEW s \in Slots, DeliverDigest(k, s) PROVE DrainInv'
  <2>1. drain' = drain /\ worker' = worker
    BY <1>12 DEF DeliverDigest, workerVars
  <2>2. buffer' = buffer \/ buffer' = [buffer EXCEPT ![k] = 0]
    BY <1>12, DeliverFacts
  <2>3. buffer \in [Digest -> Nat]
    BY DEF TypeOK
  <2>4. \A j \in Digest : buffer'[j] = buffer[j] \/ buffer'[j] = 0
    BY <2>2, <2>3
  <2> QED
    BY <2>1, <2>4
<1>13. CASE UNCHANGED vars
  BY <1>13 DEF vars, workerVars, digestVars
<1> QED
  BY <1>1, <1>2, <1>3, <1>4, <1>5, <1>6, <1>7, <1>8, <1>9, <1>10, <1>11, <1>12, <1>13
     DEF Next, Worker, Flusher

\* Every step keeps what holds of the digests.
LEMMA NextDigestInv ==
    ASSUME TypeOK, TypeOK', DigestInv, DrainInv, [Next]_vars PROVE DigestInv'
<1> DEFINE Aside == /\ lists' = lists /\ buffer' = buffer /\ flights' = flights /\ late' = late
                    /\ drain \subseteq drain'
<1>1. Aside /\ attempts' = attempts => DigestInv'
  <2> SUFFICES ASSUME Aside, attempts' = attempts PROVE DigestInv'
    OBVIOUS
  <2>1. \A c \in Channels, a \in Alerts : attempts'[c][a] >= attempts[c][a]
    <3> TAKE c \in Channels, a \in Alerts
    <3> DEFINE n == attempts[c][a]
    <3>1. n \in Nat /\ attempts'[c][a] = n
      BY DEF TypeOK
    <3> HIDE DEF n
    <3>2. n >= n
      BY <3>1
    <3> QED
      BY <3>1, <3>2
  <2> QED
    BY <2>1, KeptByOthers
<1>2. CASE Enqueue
  BY <1>1, <1>2 DEF Enqueue, digestVars
<1>3. CASE Stop
  BY <1>1, <1>3 DEF Stop, digestVars
<1>4. CASE Get
  BY <1>1, <1>4 DEF Get, digestVars
<1>5. CASE Deliver
  <2>1. Aside
    BY <1>5 DEF Deliver, digestVars
  <2>2. entries \in Seq(Channels) /\ entries # <<>> /\ worker = "route" /\ alert \in Alerts
    BY <1>5 DEF Deliver, TypeOK
  <2>3. Head(entries) \in Channels /\ {alert} \in SUBSET Alerts /\ Counted(Head(entries), {alert})
    BY <1>5, <2>2 DEF Deliver
  <2>4. \A c \in Channels, a \in Alerts : attempts'[c][a] >= attempts[c][a]
    BY <2>3, CountedFacts
  <2> QED
    BY <2>1, <2>4, KeptByOthers
<1>6. CASE RouteToDigest
  <2>1. Head(entries) \in Digest
    BY <1>6 DEF RouteToDigest
  <2> QED
    BY <1>6, <2>1, KeptByBuffering
<1>7. CASE RouteDone
  BY <1>1, <1>7 DEF RouteDone, digestVars
<1>8. CASE StopTimers
  BY <1>1, <1>8 DEF StopTimers
<1>9. CASE BeginDrain
  <2>1. drain = {}
    BY <1>9 DEF BeginDrain, DrainInv
  <2> QED
    BY <1>1, <1>9, <2>1 DEF BeginDrain, digestVars
<1>10. CASE DrainDone
  BY <1>1, <1>10 DEF DrainDone, digestVars
<1>11. ASSUME NEW k \in Digest, DrainNext(k) PROVE DigestInv'
  <2>1. PICK l \in 1..Len(lists[k]) : /\ <<k, l>> \in drain /\ drain' = drain \ {<<k, l>>}
                                      /\ flights' = [flights EXCEPT ![<<k, 0>>] = Flight(k, l)]
    BY <1>11 DEF DrainNext
  <2>2. 0 \in Slots /\ ~Flying(k, 0)
    BY <1>11 DEF DrainNext, Draining, Slots
  <2>3. lists' = lists /\ buffer' = buffer /\ attempts' = attempts /\ late' = late
    BY <1>11 DEF DrainNext, digestVars
  <2>4. buffer[k] \in {0, l}
    <3>1. l \in Nat
      BY DEF TypeOK
    <3> QED
      BY <2>1, <3>1 DEF DrainInv
  <2>5. drain' \in {drain, drain \ {<<k, l>>}}
    BY <2>1
  <2> QED
    BY <2>1, <2>2, <2>3, <2>4, <2>5, KeptByBegin
<1>12. ASSUME NEW k \in Digest, NEW s \in Slots, Flush(k, s) PROVE DigestInv'
  <2>1. /\ lists' = lists /\ buffer' = buffer /\ attempts' = attempts /\ late' = late
        /\ drain' = drain /\ ~Flying(k, s)
    BY <1>12 DEF Flush
  <2>2. CASE buffer[k] = 0
    <3>1. flights' = flights
      BY <1>12, <2>2 DEF Flush
    <3> QED
      BY <1>1, <2>1, <3>1
  <2>3. CASE buffer[k] # 0
    <3>1. flights' = [flights EXCEPT ![<<k, s>>] = Flight(k, buffer[k])]
      BY <1>12, <2>3 DEF Flush
    <3>2. buffer[k] \in 1..Len(lists[k])
      BY <2>3 DEF TypeOK
    <3>3. drain' \in {drain, drain \ {<<k, buffer[k]>>}} /\ buffer[k] \in {0, buffer[k]}
      BY <2>1
    <3> QED
      BY <2>1, <3>1, <3>2, <3>3, KeptByBegin
  <2> QED
    BY <2>2, <2>3
<1>13. ASSUME NEW k \in Digest, NEW s \in Slots, DeliverDigest(k, s) PROVE DigestInv'
  BY <1>13, KeptByDelivery
<1>14. CASE UNCHANGED vars
  BY <1>1, <1>14 DEF vars, digestVars
<1> HIDE DEF Aside
<1> QED
  BY <1>2, <1>3, <1>4, <1>5, <1>6, <1>7, <1>8, <1>9, <1>10, <1>11, <1>12, <1>13, <1>14
     DEF Next, Worker, Flusher
-----------------------------------------------------------------------------
(* The theorems *)

\* The invariant holds at the start.
LEMMA InitInv == Init => IInv
<1> SUFFICES ASSUME Init PROVE IInv
  OBVIOUS
<1> USE DEF Init
<1>1. TypeOK
  <2>1. 0 \in 0..NumAlerts /\ Len(<<>>) <= QueueSize
    OBVIOUS
  <2>2. \A k \in Digest : lists[k] = <<>> /\ buffer[k] = 0 /\ 0 \in 0..Len(lists[k])
    OBVIOUS
  <2>3. NoFlight \in [list : Nat, at : Nat, mail : SUBSET Alerts]
    BY DEF NoFlight
  <2> QED
    BY <2>1, <2>2, <2>3 DEF TypeOK
<1>2. /\ \A k \in Digest : lists[k] = <<>> /\ Buffered(k) = {}
      /\ \A k \in Digest, s \in Slots : ~Flying(k, s)
  BY DEF Buffered, Flying
<1>3. FlightsInv
  <2>1. \A k \in Digest : 1..Len(lists[k]) = {}
    BY <1>2
  <2> QED
    BY <1>2, <2>1 DEF FlightsInv
<1>4. DrainInv
  BY DEF DrainInv
<1>5. CoverInv
  BY <1>2 DEF CoverInv
<1>6. NoneForgotten
  <2>1. Digests = {}
    BY <1>2 DEF Digests
  <2> QED
    BY <2>1 DEF NoneForgotten
<1> QED
  BY <1>1, <1>3, <1>4, <1>5, <1>6 DEF IInv

\* Every step keeps the invariant.
LEMMA NextInv == IInv /\ [Next]_vars => IInv'
<1> SUFFICES ASSUME IInv, [Next]_vars PROVE IInv'
  OBVIOUS
<1>1. TypeOK'
  BY NextTypeOK DEF IInv
<1>2. DrainInv'
  BY NextDrainInv DEF IInv
<1>3. DigestInv'
  BY <1>1, NextDigestInv DEF IInv, DigestInv
<1> QED
  BY <1>1, <1>2, <1>3 DEF IInv, DigestInv

\* The inductive invariant holds at every time.
LEMMA Invariant == Spec => []IInv
  BY InitInv, NextInv, PTL DEF Spec

\* For any number of alerts and channels the queue keeps its bound, and the buffer
\* of a key is a list made for it.
THEOREM Typed == Spec => []TypeOK
<1>1. IInv => TypeOK
  BY DEF IInv
<1> QED
  BY <1>1, Invariant, PTL

\* An alert put in a digest is delivered, in the buffer, in a delivery or with
\* stop(), unless it was buffered while an older digest was in flight: however
\* many windows of a key overlap, and whatever channel the digest goes to, a
\* buffer that is popped holds no other alert that was not delivered.
THEOREM DigestsAreKept == Spec => []NoneForgotten
<1>1. IInv => NoneForgotten
  BY DEF IInv
<1> QED
  BY <1>1, Invariant, PTL
-----------------------------------------------------------------------------
(* How often an alert is delivered *)

\* The alert may yet be routed to the channel.
ToRoute(k, a) ==
    a > enqueued \/ a \in Elements(queue) \/ (a = alert /\ k \in Elements(entries))

\* Alerts leave the queue one by one, each of them once, and a channel leaves the
\* entries of an alert as often as it is listed.
OrderInv ==
    /\ \A i, j \in DOMAIN queue : queue[i] = queue[j] => i = j
    /\ \A i \in DOMAIN queue : queue[i] <= enqueued /\ queue[i] # alert
    /\ alert <= enqueued
    /\ worker = "route" => \A k \in Channels : Single(Notify[alert], k) => Single(entries, k)

\* What may yet be routed to a channel was not delivered there, nor buffered.
RoutedInv ==
    \A k \in Channels, a \in Alerts : Single(Notify[a], k) /\ ToRoute(k, a) =>
        attempts[k][a] = 0 /\ (k \in Digest => <<k, a>> \notin Digests)

\* A channel that is notified at once gets an alert once.
DirectInv ==
    \A k \in Channels \ Digest, a \in Alerts : Single(Notify[a], k) => attempts[k][a] <= 1

\* No window ends once stop() has begun, and it takes one buffer of a key.
StopInv ==
    /\ worker \in {"stop", "drain", "done"} => timers = {}
    /\ \A k \in Digest : \A l, m \in Nat : <<k, l>> \in drain /\ <<k, m>> \in drain => l = m

FlyingSlots(k) == {s \in Slots : Flying(k, s)}
DueSlots(k, a) == {s \in Slots : a \in Ahead(k, s)}

\* The deliveries of an alert: those that were, and those that are to come of the
\* digests in flight.
Total(k, a) == attempts[k][a] + Cardinality(DueSlots(k, a))
Drained(k)  == \E l \in Nat : <<k, l>> \in drain

\* An alert is in a list of the key at one place, and in a message if it is in its list.
ListInv(k) ==
    /\ \A s \in Slots : k \in Mail /\ Flying(k, s) =>
         flights[<<k, s>>].mail \subseteq Elements(lists[k][flights[<<k, s>>].list])
    /\ \A a \in Alerts : Single(Notify[a], k) =>
         \A i \in DOMAIN lists[k] : Single(lists[k][i], a)

\* Digests in flight beyond the first are overlaps, and what stop() has taken up
\* while one was in flight is counted before it begins.
FlyingInv(k) ==
    /\ Cardinality(FlyingSlots(k)) <= 1 + overlaps[k]
    /\ Drained(k) => Cardinality(FlyingSlots(k)) <= overlaps[k]

\* The deliveries of an alert are one and an overlap each.  In a buffer of which
\* no delivery goes on, nothing was delivered: one that had ended popped it.
TotalInv(k, a) ==
    /\ Total(k, a) <= 1 + overlaps[k]
    /\ a \in Buffered(k) /\ ~InFlight(k) => attempts[k][a] = 0
    /\ \A l \in Nat : <<k, l>> \in drain /\ a \in Elements(lists[k][l]) =>
         Total(k, a) <= overlaps[k]

KeyInv(k) ==
    /\ ListInv(k) /\ FlyingInv(k)
    /\ \A a \in Alerts : Single(Notify[a], k) => TotalInv(k, a)

OnceInv == OrderInv /\ RoutedInv /\ DirectInv /\ StopInv /\ \A k \in Digest : KeyInv(k)

-----------------------------------------------------------------------------
(* Sets of slots *)

\* The sizes of sets of slots, one of which gains or loses a member.
LEMMA SlotSets ==
    /\ \A S \in SUBSET Slots : Cardinality(S) \in Nat /\ (S = {} <=> Cardinality(S) = 0)
    /\ \A S, T \in SUBSET Slots : S \subseteq T => Cardinality(S) <= Cardinality(T)
    /\ \A S, T \in SUBSET Slots, s \in Slots :
         T \subseteq S \cup {s} => Cardinality(T) <= Cardinality(S) + 1
    /\ \A S, T \in SUBSET Slots, s \in Slots :
         s \in S /\ T \subseteq S \ {s} => Cardinality(T) + 1 <= Cardinality(S)
<1>1. IsFiniteSet(Slots)
  BY FS_Interval DEF Slots
<1>2. \A S \in SUBSET Slots : IsFiniteSet(S) /\ Cardinality(S) \in Nat
  BY <1>1, FS_Subset, FS_CardinalityType
<1>3. \A S \in SUBSET Slots : S = {} <=> Cardinality(S) = 0
  BY <1>2, FS_EmptySet
<1>4. \A S, T \in SUBSET Slots : S \subseteq T => Cardinality(S) <= Cardinality(T)
  BY <1>2, FS_Subset
<1>5. ASSUME NEW S \in SUBSET Slots, NEW T \in SUBSET Slots, NEW s \in Slots,
             T \subseteq S \cup {s}
      PROVE  Cardinality(T) <= Cardinality(S) + 1
  <2> DEFINE U == S \cup {s}
  <2>1. U \in SUBSET Slots /\ T \subseteq U
    BY <1>5
  <2>2. Cardinality(U) = Cardinality(S) \/ Cardinality(U) = Cardinality(S) + 1
    BY <1>2, FS_AddElement
  <2> HIDE DEF U
  <2>3. Cardinality(T) <= Cardinality(U) /\ Cardinality(T) \in Nat /\ Cardinality(S) \in Nat
    BY <1>2, <1>4, <2>1
  <2> QED
    BY <2>2, <2>3
<1>6. ASSUME NEW S \in SUBSET Slots, NEW T \in SUBSET Slots, NEW s \in Slots,
             s \in S, T \subseteq S \ {s}
      PROVE  Cardinality(T) + 1 <= Cardinality(S)
  <2> DEFINE U == S \ {s}
  <2>1. U \in SUBSET Slots /\ T \subseteq U
    BY <1>6
  <2>2. Cardinality(U) = Cardinality(S) - 1
    BY <1>2, <1>6, FS_RemoveElement
  <2> HIDE DEF U
  <2>3. Cardinality(T) <= Cardinality(U) /\ Cardinality(T) \in Nat /\ Cardinality(S) \in Nat
    BY <1>2, <1>4, <2>1
  <2> QED
    BY <2>2, <2>3
<1> QED
  BY <1>2, <1>3, <1>4, <1>5, <1>6

-----------------------------------------------------------------------------
(* What is still to be routed *)

\* The items of a queue that one is appended to, or taken from.
LEMMA QueueFacts ==
    ASSUME NEW S, NEW q \in Seq(S)
    PROVE  /\ DOMAIN q = 1..Len(q) /\ Len(q) \in Nat
           /\ q # <<>> => /\ DOMAIN Tail(q) = 1..(Len(q) - 1) /\ 1 \in DOMAIN q /\ Head(q) = q[1]
                          /\ Len(q) \in Nat \ {0}
                          /\ \A i \in DOMAIN Tail(q) : /\ i + 1 \in DOMAIN q /\ i + 1 # 1
                                                       /\ Tail(q)[i] = q[i + 1]
           /\ \A x \in S : /\ DOMAIN Append(q, x) = 1..(Len(q) + 1)
                           /\ Append(q, x)[Len(q) + 1] = x
                           /\ \A i \in 1..Len(q) : Append(q, x)[i] = q[i]
  OBVIOUS

\* Every step keeps the order in which alerts are routed.
LEMMA NextOrderInv ==
    ASSUME TypeOK, TypeOK', OrderInv, [Next]_vars PROVE OrderInv'
<1> USE DEF OrderInv
<1>1. queue \in Seq(Alerts) /\ entries \in Seq(Channels) /\ enqueued \in Nat
      /\ alert \in Nat /\ \A i \in DOMAIN queue : queue[i] \in Alerts
  <2>1. queue \in Seq(Alerts) /\ entries \in Seq(Channels) /\ enqueued \in 0..NumAlerts
        /\ alert \in Alerts \cup {0}
    BY DEF TypeOK
  <2>2. enqueued \in Nat /\ alert \in Nat
    BY <2>1 DEF Alerts
  <2> QED
    BY <2>1, <2>2
<1>2. CASE Enqueue
  <2>1. enqueued' = enqueued + 1 /\ alert' = alert /\ entries' = entries /\ worker' = worker
        /\ enqueued + 1 \in Alerts
    BY <1>1, <1>2 DEF Enqueue, workerVars, Alerts
  <2>2. CASE queue' = queue
    <3>1. \A i \in DOMAIN queue : queue[i] <= enqueued + 1
      BY <1>1 DEF Alerts
    <3> QED
      BY <1>1, <2>1, <2>2, <3>1
  <2>3. CASE queue' = Append(queue, enqueued + 1)
    <3>1. /\ DOMAIN queue = 1..Len(queue) /\ Len(queue) \in Nat
          /\ DOMAIN queue' = 1..(Len(queue) + 1) /\ queue'[Len(queue) + 1] = enqueued + 1
          /\ \A i \in 1..Len(queue) : queue'[i] = queue[i]
      BY <1>1, <2>1, <2>3, QueueFacts
    <3>2. \A i \in DOMAIN queue' : i = Len(queue) + 1 \/ i \in DOMAIN queue
      BY <3>1
    <3>3. \A i \in DOMAIN queue : queue[i] # enqueued + 1 /\ queue[i] <= enqueued + 1
      BY <1>1 DEF Alerts
    <3>4. enqueued + 1 # alert /\ alert <= enqueued + 1 /\ enqueued + 1 <= enqueued + 1
      BY <1>1
    <3>5. \A i \in DOMAIN queue' : queue'[i] <= enqueued + 1 /\ queue'[i] # alert
      BY <3>1, <3>2, <3>3, <3>4
    <3>6. \A i, j \in DOMAIN queue' : queue'[i] = queue'[j] => i = j
      BY <3>1, <3>2, <3>3
    <3> QED
      BY <2>1, <3>4, <3>5, <3>6
  <2> QED
    BY <1>2, <2>2, <2>3 DEF Enqueue
<1>3. CASE Get
  <2>1. queue # <<>> /\ queue' = Tail(queue) /\ alert' = Head(queue) /\ enqueued' = enqueued
        /\ entries' = Notify[alert']
    BY <1>3 DEF Get
  <2>2. /\ alert' = queue[1] /\ 1 \in DOMAIN queue
        /\ \A i \in DOMAIN queue' : i + 1 \in DOMAIN queue /\ i + 1 # 1 /\ queue'[i] = queue[i + 1]
    BY <1>1, <2>1, QueueFacts
  <2>3. \A i, j \in DOMAIN queue' : i \in Nat /\ j \in Nat
    <3>1. DOMAIN queue' = 1..(Len(queue) - 1)
      BY <1>1, <2>1, QueueFacts
    <3> QED
      BY <3>1
  <2>4. \A i, j \in DOMAIN queue' : queue'[i] = queue'[j] => i + 1 = j + 1
    BY <2>2
  <2>5. \A i, j \in DOMAIN queue' : queue'[i] = queue'[j] => i = j
    BY <2>3, <2>4
  <2>6. \A i \in DOMAIN queue' : queue'[i] <= enqueued' /\ queue'[i] # alert'
    BY <2>1, <2>2
  <2>7. alert' <= enqueued'
    BY <2>1, <2>2
  <2> QED
    BY <2>1, <2>5, <2>6, <2>7
<1>4. CASE Deliver \/ RouteToDigest
  <2>1. entries # <<>> /\ entries' = Tail(entries) /\ UNCHANGED <<queue, enqueued, alert, worker>>
    BY <1>4 DEF Deliver, RouteToDigest
  <2>2. \A i \in DOMAIN entries' : i \in Nat /\ i + 1 \in DOMAIN entries /\ entries'[i] = entries[i + 1]
    BY <1>1, <2>1, QueueFacts
  <2>3. \A k : Single(entries, k) => Single(entries', k)
    <3> SUFFICES ASSUME NEW k, Single(entries, k), NEW i \in DOMAIN entries', NEW j \in DOMAIN entries',
                        entries'[i] = k, entries'[j] = k
                 PROVE  i = j
      BY DEF Single
    <3>1. i + 1 = j + 1
      BY <2>2 DEF Single
    <3> QED
      BY <2>2, <3>1
  <2> QED
    BY <2>1, <2>3
<1>5. CASE RouteDone
  <2>1. alert' = 0 /\ worker' = "get" /\ queue' = queue /\ enqueued' = enqueued
    BY <1>5 DEF RouteDone
  <2>2. (\A i \in DOMAIN queue : queue[i] # 0) /\ 0 <= enqueued
    BY <1>1 DEF Alerts
  <2> QED
    BY <2>1, <2>2
<1>6. CASE Stop \/ StopTimers \/ BeginDrain \/ DrainDone \/ (\E k \in Digest : DrainNext(k) \/ Flusher(k))
           \/ UNCHANGED vars
  <2>1. UNCHANGED <<queue, enqueued, alert, entries>> /\ (worker' = "route" => worker = "route")
    BY <1>6 DEF Stop, StopTimers, BeginDrain, DrainDone, DrainNext, Flusher, Flush, DeliverDigest,
                vars, workerVars
  <2> QED
    BY <2>1
<1> QED
  BY <1>2, <1>3, <1>4, <1>5, <1>6 DEF Next, Worker

\* Nothing comes to be routed that was not so before, and a single entry of an
\* alert is done with when it is taken.
LEMMA RoutedFacts ==
    ASSUME TypeOK, OrderInv, [Next]_vars, NEW k \in Channels, NEW a \in Alerts, ToRoute(k, a)'
    PROVE  /\ ToRoute(k, a)
           /\ Deliver \/ RouteToDigest =>
                ~(k = Head(entries) /\ a = alert /\ Single(Notify[alert], k))
<1>1. queue \in Seq(Alerts) /\ entries \in Seq(Channels) /\ enqueued \in Nat /\ a \in Nat
  BY DEF TypeOK, Alerts
<1>2. CASE Enqueue
  <2>1. enqueued' = enqueued + 1 /\ alert' = alert /\ entries' = entries
        /\ enqueued + 1 \in Alerts
    BY <1>1, <1>2 DEF Enqueue, workerVars, Alerts
  <2>2. Elements(queue') \subseteq Elements(queue) \cup {enqueued + 1}
    BY <1>1, <1>2, <2>1, ElementsAppend DEF Enqueue
  <2>3. enqueued + 1 > enqueued /\ (a > enqueued + 1 => a > enqueued)
    BY <1>1
  <2>4. ToRoute(k, a)
    BY <2>1, <2>2, <2>3 DEF ToRoute
  <2> QED
    BY <1>2, <2>1, <2>4 DEF Deliver, RouteToDigest
<1>3. CASE Get
  <2>1. queue # <<>> /\ queue' = Tail(queue) /\ alert' = Head(queue) /\ enqueued' = enqueued
        /\ worker = "get"
    BY <1>3 DEF Get
  <2>2. \A i \in DOMAIN queue' : i + 1 \in DOMAIN queue /\ queue'[i] = queue[i + 1]
    BY <1>1, <2>1, QueueFacts
  <2>3. alert' \in Elements(queue) /\ Elements(queue') \subseteq Elements(queue)
    BY <1>1, <2>1, <2>2, QueueFacts DEF Elements
  <2> QED
    BY <2>1, <2>3 DEF ToRoute, Deliver, RouteToDigest
<1>4. CASE Deliver \/ RouteToDigest
  <2>1. entries # <<>> /\ entries' = Tail(entries) /\ UNCHANGED <<queue, enqueued, alert>>
        /\ worker = "route"
    BY <1>4 DEF Deliver, RouteToDigest
  <2>2. /\ \A i \in DOMAIN entries' : /\ i + 1 \in DOMAIN entries /\ i + 1 # 1
                                      /\ entries'[i] = entries[i + 1]
        /\ Head(entries) = entries[1] /\ 1 \in DOMAIN entries
    BY <1>1, <2>1, QueueFacts
  <2>3. Elements(entries') \subseteq Elements(entries)
    BY <2>2 DEF Elements
  <2>4. ToRoute(k, a)
    BY <2>1, <2>3 DEF ToRoute
  <2>5. ASSUME k = Head(entries), a = alert, Single(Notify[alert], k)
        PROVE  FALSE
    <3>1. Single(entries, k)
      BY <2>1, <2>5 DEF OrderInv
    <3>2. k \notin Elements(entries')
      BY <2>2, <2>5, <3>1 DEF Elements, Single
    <3>3. ~(alert > enqueued)
      <4>1. alert \in Nat
        BY DEF TypeOK, Alerts
      <4> QED
        BY <1>1, <4>1 DEF OrderInv
    <3>4. alert \notin Elements(queue)
      BY DEF OrderInv, Elements
    <3> QED
      BY <2>1, <2>5, <3>2, <3>3, <3>4 DEF ToRoute
  <2> QED
    BY <2>4, <2>5
<1>5. CASE RouteDone
  BY <1>1, <1>5 DEF RouteDone, ToRoute, Elements, Alerts, Deliver, RouteToDigest
<1>6. CASE Stop \/ StopTimers \/ BeginDrain \/ DrainDone \/ (\E j \in Digest : DrainNext(j) \/ Flusher(j))
           \/ UNCHANGED vars
  <2>1. UNCHANGED <<queue, enqueued, alert, entries>>
    BY <1>6 DEF Stop, StopTimers, BeginDrain, DrainDone, DrainNext, Flusher, Flush, DeliverDigest,
                vars, workerVars
  <2>2. ToRoute(k, a)
    BY <2>1 DEF ToRoute
  <2>3. ~Deliver /\ ~RouteToDigest
    <3>1. ASSUME Deliver \/ RouteToDigest PROVE FALSE
      <4>1. entries # <<>> /\ entries' = Tail(entries)
        BY <3>1 DEF Deliver, RouteToDigest
      <4>2. Len(entries') = Len(entries) - 1 /\ Len(entries) \in Nat
        BY <1>1, <4>1
      <4> QED
        BY <2>1, <4>2
    <3> QED
      BY <3>1
  <2> QED
    BY <2>2, <2>3
<1> QED
  BY <1>2, <1>3, <1>4, <1>5, <1>6 DEF Next, Worker

-----------------------------------------------------------------------------
(* What the steps do to the digests of a key *)

\* stop() cancels the flushers that sleep, and nothing is routed after that.
LEMMA NextStopInv ==
    ASSUME TypeOK, DrainInv, StopInv, [Next]_vars PROVE StopInv'
<1> USE DEF StopInv
<1>1. CASE StopTimers
  BY <1>1 DEF StopTimers
<1>2. CASE BeginDrain
  BY <1>2 DEF BeginDrain, digestVars
<1>3. CASE RouteToDigest
  <2>1. worker' = "route" /\ drain' = drain
    BY <1>3 DEF RouteToDigest
  <2> QED
    BY <2>1
<1>4. ASSUME NEW k \in Digest, DrainNext(k) \/ \E s \in Slots : Flush(k, s) PROVE StopInv'
  <2>1. timers' \subseteq timers /\ worker' = worker /\ drain' \subseteq drain
    BY <1>4 DEF DrainNext, Flush, workerVars, digestVars
  <2> QED
    BY <2>1
<1>5. CASE Get \/ RouteDone
  BY <1>5 DEF Get, RouteDone
<1>6. CASE Enqueue \/ Stop \/ Deliver \/ DrainDone \/ UNCHANGED vars
           \/ \E k \in Digest, s \in Slots : DeliverDigest(k, s)
  <2>1. /\ timers' = timers /\ drain' = drain
        /\ worker' \in {"stop", "drain", "done"} => worker \in {"stop", "drain", "done"}
    BY <1>6 DEF Enqueue, Stop, Deliver, DrainDone, DeliverDigest, vars, workerVars, digestVars
  <2> QED
    BY <2>1
<1> QED
  BY <1>1, <1>2, <1>3, <1>4, <1>5, <1>6 DEF Next, Worker, Flusher

\* A key whose digests a step leaves alone.
Quiet(k) ==
    /\ lists'[k] = lists[k] /\ buffer'[k] = buffer[k] /\ attempts'[k] = attempts[k]
    /\ overlaps'[k] = overlaps[k] /\ \A s \in Slots : flights'[<<k, s>>] = flights[<<k, s>>]
    /\ \A l \in Nat : <<k, l>> \in drain' => <<k, l>> \in drain

\* What holds of such a key goes on to hold.
LEMMA QuietKey ==
    ASSUME NEW k \in Digest, Quiet(k), KeyInv(k) PROVE KeyInv(k)'
<1> USE DEF Quiet
<1>1. \A s \in Slots : (Flying(k, s)' <=> Flying(k, s)) /\ Ahead(k, s)' = Ahead(k, s)
  BY AheadSame
<1>2. FlyingSlots(k)' = FlyingSlots(k) /\ \A a : DueSlots(k, a)' = DueSlots(k, a)
  BY <1>1 DEF FlyingSlots, DueSlots
<1>3. (InFlight(k)' <=> InFlight(k)) /\ Buffered(k)' = Buffered(k)
  BY <1>1 DEF InFlight, Buffered
<1>4. \A a : Total(k, a)' = Total(k, a)
  BY <1>2 DEF Total
<1>5. ListInv(k)'
  BY <1>1 DEF KeyInv, ListInv
<1>6. FlyingInv(k)'
  BY <1>2 DEF KeyInv, FlyingInv, Drained
<1>7. \A a \in Alerts : TotalInv(k, a) => TotalInv(k, a)'
  BY <1>3, <1>4 DEF TotalInv
<1> QED
  BY <1>5, <1>6, <1>7 DEF KeyInv

\* The slots of a key, and the counts, have their types.
LEMMA CountTypes ==
    ASSUME TypeOK, NEW k \in Digest
    PROVE  /\ FlyingSlots(k) \in SUBSET Slots /\ Cardinality(FlyingSlots(k)) \in Nat
           /\ overlaps[k] \in Nat
           /\ FlyingSlots(k) = {} <=> ~InFlight(k)
           /\ \A a : /\ DueSlots(k, a) \in SUBSET Slots /\ Cardinality(DueSlots(k, a)) \in Nat
                     /\ DueSlots(k, a) \subseteq FlyingSlots(k)
           /\ \A a \in Alerts : attempts[k][a] \in Nat /\ Total(k, a) \in Nat
<1>1. FlyingSlots(k) \in SUBSET Slots /\ \A a : DueSlots(k, a) \in SUBSET Slots
  BY DEF FlyingSlots, DueSlots
<1>2. \A a : DueSlots(k, a) \subseteq FlyingSlots(k)
  BY DEF DueSlots, FlyingSlots, Ahead
<1>3. FlyingSlots(k) = {} <=> ~InFlight(k)
  BY DEF FlyingSlots, InFlight
<1>4. overlaps[k] \in Nat /\ \A a \in Alerts : attempts[k][a] \in Nat
  BY DEF TypeOK
<1>5. Cardinality(FlyingSlots(k)) \in Nat /\ \A a : Cardinality(DueSlots(k, a)) \in Nat
  BY <1>1, SlotSets
<1>6. \A a \in Alerts : Total(k, a) \in Nat
  <2> TAKE a \in Alerts
  <2>1. \A m, n \in Nat : m + n \in Nat
    OBVIOUS
  <2> QED
    BY <1>4, <1>5, <2>1 DEF Total
<1> QED
  BY <1>1, <1>2, <1>3, <1>4, <1>5, <1>6

\* A step that concerns this key only.
Elsewhere(k) == \A j \in Digest : j # k => Quiet(j)

\* A step changes the deliveries of one key, or of none, or stop() takes up the
\* buffers.
LEMMA Kinds ==
    ASSUME TypeOK, TypeOK', FlightsInv, DrainInv, StopInv, [Next]_vars
    PROVE  \/ \A j \in Digest : Quiet(j)
           \/ BeginDrain
           \/ \E k \in Digest : /\ Elsewhere(k)
                                /\ \/ RouteToDigest /\ k = Head(entries)
                                   \/ DrainNext(k)
                                   \/ \E s \in Slots : Flush(k, s) /\ buffer[k] # 0
                                   \/ \E s \in Slots : DeliverDigest(k, s)
<1> DEFINE Same == UNCHANGED <<lists, buffer, flights, attempts, overlaps, drain>>
<1>1. Same => \A j \in Digest : Quiet(j)
  BY DEF Quiet
<1>2. CASE Enqueue \/ Stop \/ Get \/ RouteDone \/ StopTimers \/ DrainDone \/ UNCHANGED vars
  <2>1. Same
    BY <1>2 DEF Enqueue, Stop, Get, RouteDone, StopTimers, DrainDone, vars, workerVars, digestVars
  <2> QED
    BY <1>1, <2>1
<1>3. CASE Deliver
  <2>1. /\ UNCHANGED <<lists, buffer, flights, overlaps, drain>> /\ Counted(Head(entries), {alert})
        /\ Head(entries) \notin Digest
    BY <1>3 DEF Deliver, digestVars
  <2>2. \A j \in Digest : attempts'[j] = attempts[j]
    <3>1. attempts \in [Channels -> [Alerts -> Nat]]
      BY DEF TypeOK
    <3> QED
      BY <2>1, <3>1 DEF Counted
  <2> QED
    BY <2>1, <2>2 DEF Quiet
<1>4. CASE RouteToDigest
  <2> DEFINE k == Head(entries)
  <2>1. k \in Digest /\ BufferForDigest(k) /\ UNCHANGED <<flights, attempts, overlaps, drain>>
        /\ worker = "route"
    BY <1>4 DEF RouteToDigest
  <2>2. \A j \in Digest : j # k => lists'[j] = lists[j] /\ buffer'[j] = buffer[j]
    <3>1. alert \in Alerts
      BY <2>1 DEF TypeOK
    <3> HIDE DEF k
    <3> QED
      BY <2>1, <3>1, BufferFacts
  <2> QED
    BY <1>4, <2>1, <2>2 DEF Quiet, Elsewhere
<1>5. ASSUME NEW k \in Digest, DrainNext(k) PROVE Elsewhere(k)
  <2>1. /\ UNCHANGED <<lists, buffer, attempts, overlaps>> /\ drain' \subseteq drain
        /\ \E f : flights' = [flights EXCEPT ![<<k, 0>>] = f]
    BY <1>5 DEF DrainNext, digestVars
  <2>2. \A j \in Digest, s \in Slots : j # k => flights'[<<j, s>>] = flights[<<j, s>>]
    BY <2>1 DEF TypeOK
  <2> QED
    BY <2>1, <2>2 DEF Quiet, Elsewhere
<1>6. ASSUME NEW k \in Digest, NEW s \in Slots, Flush(k, s)
      PROVE  IF buffer[k] = 0 THEN \A j \in Digest : Quiet(j) ELSE Elsewhere(k)
  <2>1. UNCHANGED <<lists, buffer, attempts, drain>> /\ Overlapping({k})
    BY <1>6 DEF Flush
  <2>2. \A j \in Digest : j # k \/ buffer[k] = 0 => overlaps'[j] = overlaps[j]
    <3>1. {k} \in SUBSET Digest
      OBVIOUS
    <3> QED
      BY <2>1, <3>1, OverlapFacts
  <2>3. CASE buffer[k] = 0
    <3>1. flights' = flights
      BY <1>6, <2>3 DEF Flush
    <3> QED
      BY <2>1, <2>2, <2>3, <3>1 DEF Quiet
  <2>4. CASE buffer[k] # 0
    <3>1. flights' = [flights EXCEPT ![<<k, s>>] = Flight(k, buffer[k])]
      BY <1>6, <2>4 DEF Flush
    <3>2. \A j \in Digest, r \in Slots : j # k => flights'[<<j, r>>] = flights[<<j, r>>]
      BY <3>1 DEF TypeOK
    <3> QED
      BY <2>1, <2>2, <2>4, <3>2 DEF Quiet, Elsewhere
  <2> QED
    BY <2>3, <2>4
<1>7. ASSUME NEW k \in Digest, NEW s \in Slots, DeliverDigest(k, s) PROVE Elsewhere(k)
  <2>1. /\ UNCHANGED <<lists, overlaps, drain>>
        /\ \A j \in Digest, r \in Slots : j # k => flights'[<<j, r>>] = flights[<<j, r>>]
        /\ buffer' = buffer \/ buffer' = [buffer EXCEPT ![k] = 0]
    <3>1. UNCHANGED <<lists, overlaps, drain>>
      BY <1>7 DEF DeliverDigest
    <3>2. /\ \A j \in Digest, r \in Slots : <<j, r>> # <<k, s>> => flights'[<<j, r>>] = flights[<<j, r>>]
          /\ buffer' = buffer \/ buffer' = [buffer EXCEPT ![k] = 0]
      BY <1>7, DeliverFacts
    <3> QED
      BY <3>1, <3>2
  <2>2. buffer \in [Digest -> Nat] /\ attempts \in [Channels -> [Alerts -> Nat]]
    BY DEF TypeOK
  <2>3. \A j \in Digest : j # k => buffer'[j] = buffer[j] /\ attempts'[j] = attempts[j]
    <3>1. \A j \in Digest : j # k => buffer'[j] = buffer[j]
      BY <2>1, <2>2
    <3>2. \E f : attempts' = [attempts EXCEPT ![k] = f]
      BY <1>7 DEF DeliverDigest, Counted
    <3>3. \A j \in Digest : j # k => attempts'[j] = attempts[j]
      BY <2>2, <3>2
    <3> QED
      BY <3>1, <3>3
  <2> QED
    BY <2>1, <2>3 DEF Quiet, Elsewhere
<1> HIDE DEF Same
<1> QED
  BY <1>2, <1>3, <1>4, <1>5, <1>6, <1>7 DEF Next, Worker, Flusher

\* An alert that is buffered is due in digests in flight, at most, and it was not
\* delivered before.
LEMMA KeyBuffering ==
    ASSUME TypeOK, TypeOK', FlightsInv, DrainInv, RoutedInv, RouteToDigest,
           Head(entries) \in Digest, KeyInv(Head(entries))
    PROVE  \A k \in Digest : k = Head(entries) => KeyInv(k)'
<1> SUFFICES ASSUME NEW k \in Digest, k = Head(entries) PROVE KeyInv(k)'
  OBVIOUS
<1> DEFINE n == ListOf(k)
           base == IF buffer[k] = 0 THEN <<>> ELSE lists[k][n]
<1>1. /\ BufferForDigest(k) /\ UNCHANGED <<flights, attempts, overlaps, drain>> /\ alert \in Alerts
      /\ drain = {} /\ entries # <<>> /\ entries \in Seq(Channels)
  BY DEF RouteToDigest, TypeOK, DrainInv
<1>2. /\ lists \in [Digest -> Seq(Seq(Alerts))] /\ lists[k] \in Seq(Seq(Alerts))
      /\ buffer[k] \in 0..Len(lists[k]) /\ lists' \in [Digest -> Seq(Seq(Alerts))]
  BY DEF TypeOK
<1>3. /\ buffer'[k] = n /\ n \in 1..Len(lists'[k]) /\ Len(lists'[k]) >= Len(lists[k])
      /\ \A i \in 1..Len(lists'[k]) : i # n => i \in 1..Len(lists[k]) /\ lists'[k][i] = lists[k][i]
      /\ Elements(lists'[k][n]) = Buffered(k) \cup {alert}
  BY <1>1, BufferFacts
<1>4. base \in Seq(Alerts) /\ lists'[k][n] = Append(base, alert)
  <2>1. CASE buffer[k] = 0
    <3>1. lists' = [lists EXCEPT ![k] = Append(lists[k], <<alert>>)]
      BY <1>1, <2>1 DEF BufferForDigest, Filled
    <3>2. lists'[k] = Append(lists[k], <<alert>>) /\ n = Len(lists[k]) + 1
      BY <1>2, <2>1, <3>1 DEF ListOf
    <3>3. <<alert>> \in Seq(Alerts) /\ <<alert>> = Append(<<>>, alert) /\ <<>> \in Seq(Alerts)
      BY <1>1
    <3>4. lists'[k][n] = <<alert>>
      BY <1>2, <3>2, <3>3, ElementsAppend
    <3> QED
      BY <2>1, <3>3, <3>4
  <2>2. CASE buffer[k] # 0
    <3>1. lists' = [lists EXCEPT ![k] = [lists[k] EXCEPT ![buffer[k]] = Append(lists[k][buffer[k]], alert)]]
      BY <1>1, <2>2 DEF BufferForDigest, Filled
    <3>2. n = buffer[k] /\ n \in 1..Len(lists[k])
      BY <1>2, <2>2 DEF ListOf
    <3> HIDE DEF n
    <3>3. lists[k][n] \in Seq(Alerts)
      BY <1>2, <3>2
    <3>4. lists'[k] = [lists[k] EXCEPT ![n] = Append(lists[k][n], alert)]
      BY <1>2, <3>1, <3>2
    <3>5. lists'[k][n] = Append(lists[k][n], alert)
      BY <1>2, <3>2, <3>4
    <3> QED
      BY <2>2, <3>3, <3>5
  <2> QED
    BY <2>1, <2>2
<1>5. \A s \in Slots : Flying(k, s) =>
        /\ flights[<<k, s>>].list \in 1..Len(lists[k])
        /\ flights[<<k, s>>].at \in 1..Len(lists[k][flights[<<k, s>>].list])
  BY DEF FlightsInv
<1>6. \A i \in 1..Len(lists[k]) : i = n => base = lists[k][n]
  BY <1>2 DEF ListOf
<1>7. /\ DOMAIN base = 1..Len(base) /\ Len(base) \in Nat
      /\ DOMAIN lists'[k][n] = 1..(Len(base) + 1) /\ Len(lists'[k][n]) = Len(base) + 1
      /\ lists'[k][n][Len(base) + 1] = alert
      /\ \A x \in 1..Len(base) : lists'[k][n][x] = base[x]
  <2> HIDE DEF base, n
  <2>1. Len(Append(base, alert)) = Len(base) + 1
    BY <1>1, <1>4, ElementsAppend
  <2> QED
    BY <1>1, <1>4, <2>1, QueueFacts
<1>8. \A i \in 1..Len(lists[k]) : i \in 1..Len(lists'[k])
  BY <1>2, <1>3
<1> HIDE DEF n, base
<1>9. \A i \in 1..Len(lists[k]) : Elements(lists[k][i]) \subseteq Elements(lists'[k][i])
  <2> SUFFICES ASSUME NEW i \in 1..Len(lists[k]), i = n
               PROVE  Elements(base) \subseteq Elements(lists'[k][n])
    BY <1>3, <1>6, <1>8
  <2> QED
    BY <1>7 DEF Elements
<1>10. \A s \in Slots : (Flying(k, s)' <=> Flying(k, s)) /\ Ahead(k, s)' \subseteq Ahead(k, s) \cup {alert}
  <2> TAKE s \in Slots
  <2> DEFINE f == flights[<<k, s>>]
  <2>1. Flying(k, s)' <=> Flying(k, s)
    BY <1>1 DEF Flying
  <2>2. CASE ~Flying(k, s) \/ k \in Mail
    BY <1>1, <2>1, <2>2 DEF Ahead
  <2>3. CASE Flying(k, s) /\ k \notin Mail
    <3>1. /\ Ahead(k, s) = {lists[k][f.list][i] : i \in f.at..Len(lists[k][f.list])}
          /\ Ahead(k, s)' = {lists'[k][f.list][i] : i \in f.at..Len(lists'[k][f.list])}
      BY <1>1, <2>1, <2>3 DEF Ahead
    <3>2. f.list \in 1..Len(lists[k]) /\ f.at \in 1..Len(lists[k][f.list])
      BY <1>5, <2>3
    <3> HIDE DEF f
    <3>3. CASE f.list # n
      <4>1. lists'[k][f.list] = lists[k][f.list]
        BY <1>3, <1>8, <3>2, <3>3
      <4> QED
        BY <2>1, <3>1, <4>1
    <3>4. CASE f.list = n
      <4>1. base = lists[k][n]
        BY <1>6, <3>2, <3>4
      <4> DEFINE p == f.at
                 b == Len(base)
      <4>2. p \in 1..b /\ b \in Nat
        BY <1>7, <3>2, <3>4, <4>1
      <4>3. /\ Ahead(k, s) = {base[i] : i \in p..b}
            /\ Ahead(k, s)' = {lists'[k][n][i] : i \in p..(b + 1)}
        BY <1>7, <3>1, <3>4, <4>1
      <4>4. /\ \A i \in 1..b : lists'[k][n][i] = base[i]
            /\ lists'[k][n][b + 1] = alert
        BY <1>7
      <4> HIDE DEF p, b
      <4>5. \A i \in p..(b + 1) : i = b + 1 \/ (i \in p..b /\ i \in 1..b)
        BY <4>2
      <4> QED
        BY <2>1, <4>3, <4>4, <4>5
    <3> QED
      BY <3>3, <3>4
  <2> QED
    BY <2>1, <2>2, <2>3
<1>11. /\ FlyingSlots(k)' = FlyingSlots(k) /\ (InFlight(k)' <=> InFlight(k))
       /\ \A a : a # alert => DueSlots(k, a)' \subseteq DueSlots(k, a)
       /\ \A a : DueSlots(k, a)' \subseteq FlyingSlots(k)
  <2>1. FlyingSlots(k)' = FlyingSlots(k) /\ (InFlight(k)' <=> InFlight(k))
    BY <1>10 DEF FlyingSlots, InFlight
  <2>2. \A a : a # alert => DueSlots(k, a)' \subseteq DueSlots(k, a)
    BY <1>10 DEF DueSlots
  <2>3. \A a, s : a \in Ahead(k, s)' => Flying(k, s)'
    BY DEF Ahead
  <2>4. \A a : DueSlots(k, a)' \subseteq FlyingSlots(k)'
    BY <2>3 DEF DueSlots, FlyingSlots
  <2> QED
    BY <2>1, <2>2, <2>4
<1>12. Single(Notify[alert], k) =>
         attempts[k][alert] = 0 /\ \A i \in DOMAIN lists[k] : alert \notin Elements(lists[k][i])
  <2>1. k \in Elements(entries)
    BY <1>1, QueueFacts DEF Elements
  <2>2. ToRoute(k, alert)
    BY <2>1 DEF ToRoute
  <2> QED
    BY <1>1, <2>2, DigestsOf DEF RoutedInv
<1>13. ListInv(k)'
  <2>1. \A s \in Slots : k \in Mail /\ Flying(k, s)' =>
          flights'[<<k, s>>].mail \subseteq Elements(lists'[k][flights'[<<k, s>>].list])
    BY <1>1, <1>5, <1>9, <1>10 DEF KeyInv, ListInv
  <2>2. ASSUME NEW a \in Alerts, Single(Notify[a], k), NEW i \in DOMAIN lists'[k]
        PROVE  Single(lists'[k][i], a)
    <3>0. i \in 1..Len(lists'[k]) /\ DOMAIN lists[k] = 1..Len(lists[k])
      BY <1>2
    <3>1. CASE i # n
      BY <1>3, <2>2, <3>0, <3>1 DEF KeyInv, ListInv
    <3>2. CASE i = n
      <4>1. Single(base, a) /\ (a = alert => a \notin Elements(base))
        <5>1. CASE buffer[k] = 0
          BY <5>1 DEF base, Single, Elements
        <5>2. CASE buffer[k] # 0
          <6>1. n \in DOMAIN lists[k] /\ base = lists[k][n]
            BY <1>2, <3>0, <5>2 DEF n, base, ListOf
          <6> QED
            BY <1>12, <2>2, <6>1 DEF KeyInv, ListInv
        <5> QED
          BY <5>1, <5>2
      <4>2. SUFFICES ASSUME NEW x \in DOMAIN lists'[k][n], NEW y \in DOMAIN lists'[k][n],
                            lists'[k][n][x] = a, lists'[k][n][y] = a
                     PROVE  x = y
        BY <3>2 DEF Single
      <4>3. (x = Len(base) + 1 \/ x \in DOMAIN base) /\ (y = Len(base) + 1 \/ y \in DOMAIN base)
        BY <1>7
      <4>4. \A z \in DOMAIN base : lists'[k][n][z] = base[z] /\ base[z] \in Elements(base)
        BY <1>7 DEF Elements
      <4>5. CASE x \in DOMAIN base /\ y \in DOMAIN base
        BY <4>1, <4>2, <4>4, <4>5 DEF Single
      <4>6. CASE x = Len(base) + 1 \/ y = Len(base) + 1
        BY <1>7, <4>1, <4>2, <4>3, <4>4, <4>6
      <4> QED
        BY <4>3, <4>5, <4>6
    <3> QED
      BY <3>1, <3>2
  <2> QED
    BY <2>1, <2>2 DEF ListInv
<1>14. FlyingInv(k)'
  BY <1>1, <1>11 DEF KeyInv, FlyingInv, Drained
<1>15. ASSUME NEW a \in Alerts, Single(Notify[a], k) PROVE TotalInv(k, a)'
  <2>1. a \in Buffered(k)' => a \in Buffered(k) \/ a = alert
    <3>1. Buffered(k)' = Elements(lists'[k][n])
      <4>1. n # 0
        BY <1>2, <1>3
      <4> QED
        BY <1>3, <4>1 DEF Buffered
    <3> QED
      BY <1>3, <3>1
  <2>2. a \in Buffered(k)' /\ ~InFlight(k)' => attempts'[k][a] = 0
    BY <1>1, <1>11, <1>12, <1>15, <2>1 DEF KeyInv, TotalInv
  <2>3. Total(k, a)' <= 1 + overlaps'[k]
    <3> DEFINE m == attempts[k][a]
               o == overlaps[k]
               c == Cardinality(DueSlots(k, a))
               d == Cardinality(DueSlots(k, a)')
               e == Cardinality(FlyingSlots(k))
    <3>1. m \in Nat /\ o \in Nat /\ c \in Nat /\ d \in Nat /\ e \in Nat
          /\ m + c <= 1 + o /\ e <= 1 + o
      <4>1. DueSlots(k, a)' \in SUBSET Slots
        BY DEF DueSlots
      <4>2. d \in Nat
        BY <4>1, SlotSets
      <4>3. m + c <= 1 + o /\ e <= 1 + o
        BY <1>15 DEF KeyInv, FlyingInv, TotalInv, Total
      <4> QED
        BY <4>2, <4>3, CountTypes
    <3>2. Total(k, a)' = m + d /\ overlaps'[k] = o
      BY <1>1 DEF Total
    <3>3. d <= c \/ (m = 0 /\ d <= e)
      <4>1. DueSlots(k, a)' \in SUBSET Slots /\ DueSlots(k, a) \in SUBSET Slots /\ FlyingSlots(k) \in SUBSET Slots
        BY DEF DueSlots, FlyingSlots
      <4>2. DueSlots(k, a)' \subseteq DueSlots(k, a) => d <= c
        BY <4>1, SlotSets
      <4>3. DueSlots(k, a)' \subseteq FlyingSlots(k) => d <= e
        BY <4>1, SlotSets
      <4> QED
        BY <1>11, <1>12, <1>15, <4>2, <4>3
    <3> HIDE DEF m, o, c, d, e
    <3>4. m + d <= 1 + o
      BY <3>1, <3>3
    <3> QED
      BY <3>2, <3>4
  <2> QED
    BY <1>1, <2>2, <2>3 DEF TotalInv
<1> QED
  BY <1>13, <1>14, <1>15 DEF KeyInv

\* A digest that begins has its slot in flight, and due for the alerts of its list.
LEMMA BegunSlots ==
    ASSUME TypeOK, FlightsInv, NEW k \in Digest, NEW s \in Slots, NEW l \in 1..Len(lists[k]),
           flights' = [flights EXCEPT ![<<k, s>>] = Flight(k, l)], lists' = lists, ListInv(k)
    PROVE  /\ ListInv(k)' /\ InFlight(k)'
           /\ FlyingSlots(k)' \subseteq FlyingSlots(k) \cup {s}
           /\ \A a : /\ DueSlots(k, a)' \subseteq DueSlots(k, a) \cup {s}
                     /\ a \notin Elements(lists[k][l]) => DueSlots(k, a)' \subseteq DueSlots(k, a)
<1>1. /\ \A j \in Digest, r \in Slots : <<j, r>> # <<k, s>> => flights'[<<j, r>>] = flights[<<j, r>>]
      /\ Flying(k, s)' /\ flights'[<<k, s>>].list = l
      /\ Ahead(k, s)' = Elements(lists[k][l])
  BY FlightFacts, ZenonT(60)
<1>2. \A r \in Slots : r # s => /\ flights'[<<k, r>>] = flights[<<k, r>>]
                                /\ (Flying(k, r)' <=> Flying(k, r)) /\ Ahead(k, r)' = Ahead(k, r)
  BY <1>1, AheadSame
<1>3. ASSUME NEW r \in Slots, k \in Mail, Flying(k, r)'
      PROVE  flights'[<<k, r>>].mail \subseteq Elements(lists[k][flights'[<<k, r>>].list])
  <2>1. CASE r = s
    <3>1. flights'[<<k, s>>].mail = Elements(lists[k][l])
      BY <1>1, <1>3 DEF Ahead
    <3> QED
      BY <1>1, <2>1, <3>1
  <2>2. CASE r # s
    BY <1>2, <1>3, <2>2 DEF ListInv
  <2> QED
    BY <2>1, <2>2
<1>4. ListInv(k)'
  BY <1>3 DEF ListInv
<1>5. InFlight(k)' /\ FlyingSlots(k)' \subseteq FlyingSlots(k) \cup {s}
  BY <1>1, <1>2 DEF InFlight, FlyingSlots
<1>6. ASSUME NEW a
      PROVE  /\ DueSlots(k, a)' \subseteq DueSlots(k, a) \cup {s}
             /\ a \notin Elements(lists[k][l]) => DueSlots(k, a)' \subseteq DueSlots(k, a)
  BY <1>1, <1>2 DEF DueSlots
<1> QED
  BY <1>4, <1>5, <1>6

\* The flusher of a window begins: it is the only digest in flight, and what is in
\* the buffer was not delivered, or it is one overlap more.
LEMMA KeyFlush ==
    ASSUME TypeOK, TypeOK', FlightsInv, DrainInv, StopInv, NEW k \in Digest, NEW s \in Slots,
           Flush(k, s), buffer[k] # 0, KeyInv(k)
    PROVE  KeyInv(k)'
<1>1. /\ flights' = [flights EXCEPT ![<<k, s>>] = Flight(k, buffer[k])]
      /\ lists' = lists /\ buffer' = buffer /\ attempts' = attempts /\ drain' = drain
      /\ k \in timers
  BY DEF Flush
<1>2. drain = {}
  BY <1>1 DEF DrainInv, StopInv
<1>3. buffer[k] \in 1..Len(lists[k]) /\ Buffered(k) = Elements(lists[k][buffer[k]])
  BY DEF TypeOK, Buffered
<1>4. /\ ListInv(k)' /\ InFlight(k)'
      /\ FlyingSlots(k)' \subseteq FlyingSlots(k) \cup {s}
      /\ \A a : /\ DueSlots(k, a)' \subseteq DueSlots(k, a) \cup {s}
                /\ a \notin Buffered(k) => DueSlots(k, a)' \subseteq DueSlots(k, a)
  <2> DEFINE l == buffer[k]
  <2>1. l \in 1..Len(lists[k]) /\ flights' = [flights EXCEPT ![<<k, s>>] = Flight(k, l)]
        /\ Buffered(k) = Elements(lists[k][l]) /\ lists' = lists /\ ListInv(k)
    BY <1>1, <1>3 DEF KeyInv
  <2> HIDE DEF l
  <2>2. /\ ListInv(k)' /\ InFlight(k)'
        /\ FlyingSlots(k)' \subseteq FlyingSlots(k) \cup {s}
        /\ \A a : /\ DueSlots(k, a)' \subseteq DueSlots(k, a) \cup {s}
                  /\ a \notin Elements(lists[k][l]) => DueSlots(k, a)' \subseteq DueSlots(k, a)
    BY <2>1, BegunSlots
  <2> QED
    BY <2>1, <2>2
<1>5. IF InFlight(k) THEN overlaps'[k] = overlaps[k] + 1 ELSE overlaps'[k] = overlaps[k]
  <2>1. {k} \in SUBSET Digest /\ Overlapping({k})
    BY DEF Flush
  <2> QED
    BY <2>1, OverlapFacts
<1> DEFINE c == Cardinality(FlyingSlots(k))
           d == Cardinality(FlyingSlots(k)')
           o == overlaps[k]
<1>6. c \in Nat /\ d \in Nat /\ o \in Nat /\ d <= c + 1 /\ c <= 1 + o /\ (~InFlight(k) => c = 0)
  <2>1. FlyingSlots(k) \in SUBSET Slots /\ FlyingSlots(k)' \in SUBSET Slots
    BY DEF FlyingSlots
  <2>2. d \in Nat /\ d <= c + 1 /\ (FlyingSlots(k) = {} => c = 0)
    BY <1>4, <2>1, SlotSets
  <2> QED
    BY <2>2, CountTypes DEF KeyInv, FlyingInv
<1>7. FlyingInv(k)'
  <2>1. d <= 1 + overlaps'[k]
    <3> HIDE DEF c, d, o
    <3>1. CASE InFlight(k)
      <4>1. overlaps'[k] = o + 1
        BY <1>5, <3>1 DEF o
      <4> QED
        BY <1>6, <4>1
    <3>2. CASE ~InFlight(k)
      <4>1. overlaps'[k] = o
        BY <1>5, <3>2 DEF o
      <4> QED
        BY <1>6, <3>2, <4>1
    <3> QED
      BY <3>1, <3>2
  <2> QED
    BY <1>1, <1>2, <2>1 DEF FlyingInv, Drained
<1>8. ASSUME NEW a \in Alerts, Single(Notify[a], k) PROVE TotalInv(k, a)'
  <2> DEFINE m == attempts[k][a]
             e == Cardinality(DueSlots(k, a))
             f == Cardinality(DueSlots(k, a)')
  <2>1. /\ m \in Nat /\ e \in Nat /\ f \in Nat /\ f <= e + 1 /\ m + e <= 1 + o
        /\ ~InFlight(k) => e = 0
        /\ a \notin Buffered(k) => f <= e
        /\ a \in Buffered(k) /\ ~InFlight(k) => m = 0
    <3>1. DueSlots(k, a) \in SUBSET Slots /\ DueSlots(k, a)' \in SUBSET Slots
      BY DEF DueSlots
    <3>2. f \in Nat /\ f <= e + 1 /\ (a \notin Buffered(k) => f <= e) /\ (DueSlots(k, a) = {} => e = 0)
      BY <1>4, <3>1, SlotSets
    <3>3. ~InFlight(k) => DueSlots(k, a) = {}
      BY CountTypes
    <3>4. m + e <= 1 + o /\ (a \in Buffered(k) /\ ~InFlight(k) => m = 0)
      BY <1>8 DEF KeyInv, TotalInv, Total
    <3> QED
      BY <3>2, <3>3, <3>4, CountTypes
  <2>2. Total(k, a)' = m + f
    BY <1>1 DEF Total
  <2>3. m + f <= 1 + overlaps'[k]
    <3> HIDE DEF c, d, o, m, e, f
    <3>1. CASE InFlight(k)
      <4>1. overlaps'[k] = o + 1
        BY <1>5, <3>1 DEF o
      <4> QED
        BY <1>6, <2>1, <4>1
    <3>2. CASE ~InFlight(k)
      <4>1. overlaps'[k] = o
        BY <1>5, <3>2 DEF o
      <4> QED
        BY <1>6, <2>1, <3>2, <4>1
    <3> QED
      BY <3>1, <3>2
  <2> QED
    BY <1>1, <1>2, <1>4, <2>2, <2>3 DEF TotalInv
<1> QED
  BY <1>4, <1>7, <1>8 DEF KeyInv

\* stop() delivers a buffer it took up: that was counted then.
LEMMA KeyDrain ==
    ASSUME TypeOK, TypeOK', FlightsInv, StopInv, NEW k \in Digest, DrainNext(k), KeyInv(k)
    PROVE  KeyInv(k)'
<1>1. PICK l \in 1..Len(lists[k]) : /\ <<k, l>> \in drain /\ drain' = drain \ {<<k, l>>}
                                    /\ flights' = [flights EXCEPT ![<<k, 0>>] = Flight(k, l)]
  BY DEF DrainNext
<1>2. /\ lists' = lists /\ buffer' = buffer /\ attempts' = attempts /\ overlaps' = overlaps
      /\ 0 \in Slots /\ l \in Nat
  BY DEF DrainNext, digestVars, Slots, TypeOK
<1>3. /\ ListInv(k)' /\ InFlight(k)'
      /\ FlyingSlots(k)' \subseteq FlyingSlots(k) \cup {0}
      /\ \A a : /\ DueSlots(k, a)' \subseteq DueSlots(k, a) \cup {0}
                /\ a \notin Elements(lists[k][l]) => DueSlots(k, a)' \subseteq DueSlots(k, a)
  BY <1>1, <1>2, BegunSlots DEF KeyInv
<1>4. \A m \in Nat : <<k, m>> \notin drain'
  BY <1>1, <1>2 DEF StopInv
<1> DEFINE c == Cardinality(FlyingSlots(k))
           d == Cardinality(FlyingSlots(k)')
           o == overlaps[k]
<1>5. c \in Nat /\ d \in Nat /\ o \in Nat /\ d <= c + 1 /\ c <= o
  <2>1. FlyingSlots(k) \in SUBSET Slots /\ FlyingSlots(k)' \in SUBSET Slots
    BY DEF FlyingSlots
  <2>2. d \in Nat /\ d <= c + 1
    BY <1>2, <1>3, <2>1, SlotSets
  <2>3. c <= o
    BY <1>1, <1>2 DEF KeyInv, FlyingInv, Drained
  <2> QED
    BY <2>2, <2>3, CountTypes
<1>6. FlyingInv(k)'
  <2>1. d <= 1 + o
    <3> HIDE DEF c, d, o
    <3> QED
      BY <1>5
  <2> QED
    BY <1>2, <1>4, <2>1 DEF FlyingInv, Drained
<1>7. ASSUME NEW a \in Alerts, Single(Notify[a], k) PROVE TotalInv(k, a)'
  <2> DEFINE m == attempts[k][a]
             e == Cardinality(DueSlots(k, a))
             f == Cardinality(DueSlots(k, a)')
  <2>1. /\ m \in Nat /\ e \in Nat /\ f \in Nat
        /\ (f <= e + 1 /\ m + e <= o) \/ (f <= e /\ m + e <= 1 + o)
    <3>1. DueSlots(k, a) \in SUBSET Slots /\ DueSlots(k, a)' \in SUBSET Slots
      BY DEF DueSlots
    <3>2. f \in Nat /\ f <= e + 1 /\ (a \notin Elements(lists[k][l]) => f <= e)
      BY <1>2, <1>3, <3>1, SlotSets
    <3>3. m + e <= 1 + o /\ (a \in Elements(lists[k][l]) => m + e <= o)
      BY <1>1, <1>2, <1>7 DEF KeyInv, TotalInv, Total
    <3> QED
      BY <3>2, <3>3, CountTypes
  <2>2. Total(k, a)' = m + f
    BY <1>2 DEF Total
  <2>3. m + f <= 1 + o
    <3> HIDE DEF o, m, e, f
    <3> QED
      BY <1>5, <2>1
  <2> QED
    BY <1>2, <1>3, <1>4, <2>2, <2>3 DEF TotalInv
<1> QED
  BY <1>3, <1>6, <1>7 DEF KeyInv

\* stop() takes up the buffers: of one in flight, the delivery is an overlap, and of
\* the others nothing was delivered.
LEMMA KeyTakenUp ==
    ASSUME TypeOK, TypeOK', NEW k \in Digest, BeginDrain, KeyInv(k)
    PROVE  KeyInv(k)'
<1>1. /\ lists' = lists /\ buffer' = buffer /\ attempts' = attempts /\ flights' = flights
      /\ \A l \in Nat : <<k, l>> \in drain' => l = buffer[k] /\ buffer[k] # 0
  BY DEF BeginDrain, digestVars
<1>2. IF buffer[k] # 0 /\ InFlight(k) THEN overlaps'[k] = overlaps[k] + 1
      ELSE overlaps'[k] = overlaps[k]
  <2>1. Digest \in SUBSET Digest /\ Overlapping(Digest)
    BY DEF BeginDrain
  <2> QED
    BY <2>1, OverlapFacts
<1>3. /\ FlyingSlots(k)' = FlyingSlots(k) /\ InFlight(k)' = InFlight(k) /\ Buffered(k)' = Buffered(k)
      /\ ListInv(k)' = ListInv(k) /\ \A a : Total(k, a)' = Total(k, a)
  BY <1>1 DEF FlyingSlots, InFlight, Buffered, ListInv, Total, DueSlots, Flying, Ahead
<1> DEFINE c == Cardinality(FlyingSlots(k))
           o == overlaps[k]
           p == overlaps'[k]
<1>4. c \in Nat /\ o \in Nat /\ p \in Nat /\ c <= 1 + o /\ (~InFlight(k) => c = 0)
  <2>1. p \in Nat
    BY DEF TypeOK
  <2>2. FlyingSlots(k) = {} => c = 0
    BY FS_EmptySet
  <2> QED
    BY <2>1, <2>2, CountTypes DEF KeyInv, FlyingInv
<1>5. o <= p /\ (buffer[k] # 0 /\ InFlight(k) => p = o + 1)
  <2>1. p = o + 1 \/ p = o
    BY <1>2
  <2>2. buffer[k] # 0 /\ InFlight(k) => p = o + 1
    BY <1>2
  <2> HIDE DEF c, o, p
  <2> QED
    BY <1>4, <2>1, <2>2
<1>6. FlyingInv(k)'
  <2>1. c <= 1 + p /\ (buffer[k] # 0 => c <= p)
    <3> HIDE DEF c, o, p
    <3> QED
      BY <1>4, <1>5
  <2> QED
    BY <1>1, <1>3, <2>1 DEF FlyingInv, Drained
<1>7. ASSUME NEW a \in Alerts, Single(Notify[a], k) PROVE TotalInv(k, a)'
  <2> DEFINE t == Total(k, a)
  <2>1. t \in Nat /\ t <= 1 + o
    BY <1>7, CountTypes DEF KeyInv, TotalInv
  <2>2. a \in Buffered(k) /\ ~InFlight(k) => t = 0
    <3> SUFFICES ASSUME a \in Buffered(k), ~InFlight(k) PROVE t = 0
      OBVIOUS
    <3>1. attempts[k][a] = 0
      BY <1>7 DEF KeyInv, TotalInv
    <3>2. DueSlots(k, a) = {}
      BY CountTypes
    <3>3. Cardinality(DueSlots(k, a)) = 0
      BY <3>2, FS_EmptySet
    <3> QED
      BY <3>1, <3>3 DEF Total
  <2>3. t <= 1 + p /\ (buffer[k] # 0 /\ a \in Buffered(k) => t <= p)
    <3> HIDE DEF o, p, t
    <3> QED
      BY <1>4, <1>5, <2>1, <2>2
  <2>4. a \in Buffered(k)' /\ ~InFlight(k)' => attempts'[k][a] = 0
    BY <1>1, <1>3, <1>7 DEF KeyInv, TotalInv
  <2>5. \A l \in Nat : <<k, l>> \in drain' /\ a \in Elements(lists[k][l]) =>
          buffer[k] # 0 /\ a \in Buffered(k)
    BY <1>1 DEF Buffered
  <2> QED
    BY <1>1, <1>3, <2>3, <2>4, <2>5 DEF TotalInv
<1> QED
  BY <1>3, <1>6, <1>7 DEF KeyInv

\* A delivery that comes back counts for its alerts, and is not due for them any
\* more.
LEMMA KeyDelivery ==
    ASSUME TypeOK, TypeOK', FlightsInv, NEW k \in Digest, NEW s \in Slots,
           DeliverDigest(k, s), KeyInv(k)
    PROVE  KeyInv(k)'
<1> DEFINE f == flights[<<k, s>>]
           l == lists[k][f.list]
           sent == IF k \in Mail THEN f.mail ELSE {l[f.at]}
<1>1. /\ Flying(k, s) /\ lists' = lists /\ drain' = drain /\ overlaps' = overlaps
      /\ Counted(k, sent)
      /\ IF Last(k, s) THEN flights' = [flights EXCEPT ![<<k, s>>] = NoFlight]
                            /\ buffer' = [buffer EXCEPT ![k] = 0]
         ELSE flights' = [flights EXCEPT ![<<k, s>>].at = @ + 1] /\ buffer' = buffer
  <2>1. Flying(k, s) /\ lists' = lists /\ drain' = drain /\ overlaps' = overlaps
    BY DEF DeliverDigest
  <2>2. Counted(k, sent)
    BY DEF DeliverDigest
  <2>3. Last(k, s) => /\ flights' = [flights EXCEPT ![<<k, s>>] = NoFlight]
                      /\ buffer' = [buffer EXCEPT ![k] = 0]
    BY DEF DeliverDigest
  <2>4. ~Last(k, s) => /\ flights' = [flights EXCEPT ![<<k, s>>].at = @ + 1]
                       /\ buffer' = buffer
    BY DEF DeliverDigest
  <2> QED
    BY <2>1, <2>2, <2>3, <2>4
<1>2. f.list \in 1..Len(lists[k]) /\ f.at \in 1..Len(l)
  BY <1>1 DEF FlightsInv
<1>3. /\ f \in [list : Nat, at : Nat, mail : SUBSET Alerts]
      /\ lists[k] \in Seq(Seq(Alerts))
      /\ flights \in [Digest \X Slots -> [list : Nat, at : Nat, mail : SUBSET Alerts]]
      /\ buffer \in [Digest -> Nat] /\ k \in Channels
  BY DEF TypeOK
<1>4. l \in Seq(Alerts) /\ DOMAIN l = 1..Len(l) /\ Len(l) \in Nat /\ f.list \in DOMAIN lists[k]
  <2> DEFINE i == f.list
  <2>1. i \in 1..Len(lists[k]) /\ lists[k] \in Seq(Seq(Alerts))
    BY <1>2, <1>3
  <2> HIDE DEF i
  <2>2. lists[k][i] \in Seq(Alerts) /\ i \in DOMAIN lists[k]
    BY <2>1
  <2> HIDE DEF l
  <2>3. l \in Seq(Alerts)
    BY <2>2 DEF l, i
  <2> QED
    BY <2>2, <2>3 DEF i
<1>5. sent \in SUBSET Alerts
  <2>1. l[f.at] \in Alerts
    BY <1>2, <1>4
  <2> QED
    BY <1>3, <2>1
<1>6. \A a \in Alerts : attempts'[k][a] = IF a \in sent THEN attempts[k][a] + 1 ELSE attempts[k][a]
  <2> HIDE DEF sent
  <2> QED
    BY <1>1, <1>3, <1>5, CountedFacts
<1>7. \A r \in Slots : r # s => (Flying(k, r)' <=> Flying(k, r)) /\ Ahead(k, r)' = Ahead(k, r)
                                /\ flights'[<<k, r>>] = flights[<<k, r>>]
  <2>1. \A r \in Slots : r # s => flights'[<<k, r>>] = flights[<<k, r>>]
    BY <1>1, <1>3
  <2> QED
    BY <1>1, <2>1, AheadSame
<1>8. Ahead(k, s) = IF k \in Mail THEN f.mail ELSE {l[i] : i \in f.at..Len(l)}
  BY <1>1 DEF Ahead
<1>9. sent \subseteq Ahead(k, s)
  <2>1. f.at \in f.at..Len(l)
    BY <1>2
  <2> QED
    BY <1>8, <2>1
<1>10. ASSUME Last(k, s) PROVE ~Flying(k, s)' /\ Buffered(k)' = {}
  <2>1. flights'[<<k, s>>] = NoFlight /\ buffer'[k] = 0
    BY <1>1, <1>3, <1>10
  <2>2. ~Flying(k, s)' /\ Buffered(k)' = {}
    BY <2>1 DEF Flying, Buffered
  <2> QED
    BY <2>2
<1>11. ASSUME ~Last(k, s)
       PROVE  /\ Flying(k, s)' /\ k \notin Mail /\ Buffered(k)' = Buffered(k)
              /\ Ahead(k, s)' \subseteq Ahead(k, s)
              /\ \A a \in Alerts : Single(Notify[a], k) /\ a \in sent => a \notin Ahead(k, s)'
  <2>1. k \notin Mail /\ buffer' = buffer
    BY <1>1, <1>11 DEF Last
  <2>2. flights' = [flights EXCEPT ![<<k, s>>] = [f EXCEPT !.at = f.at + 1]]
    BY <1>1, <1>11
  <2>3. flights'[<<k, s>>] = [f EXCEPT !.at = f.at + 1]
    BY <1>3, <2>2
  <2>4. flights'[<<k, s>>].list = f.list /\ flights'[<<k, s>>].at = f.at + 1
    BY <1>3, <2>3
  <2>5. f.list # 0
    BY <1>2
  <2>6. Flying(k, s)'
    BY <2>4, <2>5 DEF Flying, NoFlight
  <2>7. Ahead(k, s)' = {l[i] : i \in (f.at + 1)..Len(l)}
    BY <1>1, <2>1, <2>4, <2>6 DEF Ahead
  <2>8. f.at \in Nat
    BY <1>3
  <2>9. (f.at + 1)..Len(l) \subseteq f.at..Len(l) /\ f.at \notin (f.at + 1)..Len(l)
    <3> DEFINE p == f.at
               b == Len(l)
    <3>1. p \in Nat /\ b \in Nat
      BY <1>4, <2>8
    <3> HIDE DEF p, b
    <3>2. (p + 1)..b \subseteq p..b /\ p \notin (p + 1)..b
      BY <3>1
    <3> QED
      BY <3>2 DEF p, b
  <2> DEFINE W == (f.at + 1)..Len(l)
  <2>10. Ahead(k, s)' = {l[i] : i \in W} /\ W \subseteq f.at..Len(l) /\ W \subseteq DOMAIN l
         /\ f.at \notin W /\ f.at \in DOMAIN l
    <3>1. W \subseteq DOMAIN l /\ f.at \in DOMAIN l
      <4> DEFINE p == f.at
                 b == Len(l)
      <4>1. p \in 1..b /\ b \in Nat
        BY <1>2, <1>4
      <4> HIDE DEF p, b
      <4>2. (p + 1)..b \subseteq 1..b /\ p \in 1..b
        BY <4>1
      <4> QED
        BY <1>4, <4>2 DEF p, b
    <3> QED
      BY <2>7, <2>9, <3>1
  <2> HIDE DEF W
  <2>11. Ahead(k, s)' \subseteq Ahead(k, s)
    BY <1>8, <2>1, <2>10
  <2>12. \A a \in Alerts : Single(Notify[a], k) /\ a \in sent => a \notin Ahead(k, s)'
    <3> SUFFICES ASSUME NEW a \in Alerts, Single(Notify[a], k), a \in sent, a \in Ahead(k, s)'
                 PROVE  FALSE
      OBVIOUS
    <3>1. a = l[f.at]
      BY <2>1
    <3>2. PICK i \in W : a = l[i]
      BY <2>10
    <3>3. Single(l, a)
      BY <1>4 DEF KeyInv, ListInv
    <3> QED
      BY <2>10, <3>1, <3>2, <3>3 DEF Single
  <2>13. Buffered(k)' = Buffered(k)
    BY <1>1, <2>1 DEF Buffered
  <2> QED
    BY <2>1, <2>4, <2>6, <2>11, <2>12, <2>13
<1> HIDE DEF sent, f, l
<1>12. Last(k, s) => Ahead(k, s)' = {}
  BY <1>10 DEF Ahead
<1>13. /\ Flying(k, s)' => k \notin Mail
       /\ Ahead(k, s)' \subseteq Ahead(k, s)
       /\ \A a \in Alerts : Single(Notify[a], k) /\ a \in sent => a \notin Ahead(k, s)'
       /\ Buffered(k)' = {} \/ (Buffered(k)' = Buffered(k) /\ Flying(k, s)')
  BY <1>10, <1>11, <1>12
<1>14. FlyingSlots(k)' \subseteq FlyingSlots(k) /\ \A a : DueSlots(k, a)' \subseteq DueSlots(k, a)
  BY <1>1, <1>7, <1>13 DEF FlyingSlots, DueSlots
<1>15. ListInv(k)'
  <2>1. \A r \in Slots : k \in Mail /\ Flying(k, r)' => r # s
    BY <1>13
  <2>2. \A r \in Slots : k \in Mail /\ Flying(k, r)' =>
          flights'[<<k, r>>].mail \subseteq Elements(lists[k][flights'[<<k, r>>].list])
    BY <1>7, <2>1 DEF KeyInv, ListInv
  <2> QED
    BY <1>1, <2>2 DEF KeyInv, ListInv
<1>16. FlyingInv(k)'
  <2> DEFINE c == Cardinality(FlyingSlots(k))
             d == Cardinality(FlyingSlots(k)')
             o == overlaps[k]
  <2>1. c \in Nat /\ d \in Nat /\ o \in Nat /\ d <= c /\ c <= 1 + o /\ (Drained(k) => c <= o)
    <3>1. FlyingSlots(k) \in SUBSET Slots /\ FlyingSlots(k)' \in SUBSET Slots
      BY DEF FlyingSlots
    <3>2. d \in Nat /\ d <= c
      BY <1>14, <3>1, SlotSets
    <3> QED
      BY <3>2, CountTypes DEF KeyInv, FlyingInv
  <2>2. d <= 1 + o /\ (Drained(k) => d <= o)
    <3> HIDE DEF c, d, o
    <3> QED
      BY <2>1
  <2> QED
    BY <1>1, <2>2 DEF FlyingInv, Drained
<1>17. ASSUME NEW a \in Alerts, Single(Notify[a], k) PROVE TotalInv(k, a)'
  <2> DEFINE m == attempts[k][a]
             n == attempts'[k][a]
             c == Cardinality(DueSlots(k, a))
             d == Cardinality(DueSlots(k, a)')
  <2>1. m \in Nat /\ c \in Nat /\ d \in Nat /\ overlaps[k] \in Nat
    <3>1. DueSlots(k, a)' \in SUBSET Slots
      BY DEF DueSlots
    <3> QED
      BY <3>1, SlotSets, CountTypes
  <2>2. (n = m + 1 /\ d + 1 <= c) \/ (n = m /\ d <= c)
    <3>1. DueSlots(k, a) \in SUBSET Slots /\ DueSlots(k, a)' \in SUBSET Slots
      BY DEF DueSlots
    <3>2. CASE a \in sent
      <4>1. s \in DueSlots(k, a) /\ DueSlots(k, a)' \subseteq DueSlots(k, a) \ {s}
        BY <1>9, <1>13, <1>14, <1>17, <3>2 DEF DueSlots
      <4>2. d + 1 <= c
        BY <3>1, <4>1, SlotSets
      <4>3. n = m + 1
        BY <1>6, <3>2
      <4> QED
        BY <4>2, <4>3
    <3>3. CASE a \notin sent
      <4>1. n = m /\ d <= c
        BY <1>6, <1>14, <3>1, <3>3, SlotSets
      <4> QED
        BY <4>1
    <3> QED
      BY <3>2, <3>3
  <2>3. n + d <= m + c /\ n + d \in Nat /\ m + c \in Nat
    <3> HIDE DEF m, n, c, d
    <3> QED
      BY <2>1, <2>2
  <2>4. Total(k, a)' = n + d /\ Total(k, a) = m + c
    BY DEF Total
  <2>5. \A x \in Nat : Total(k, a) <= x => Total(k, a)' <= x
    <3> HIDE DEF m, n, c, d
    <3> QED
      BY <2>3, <2>4
  <2>6. Total(k, a)' <= 1 + overlaps[k]
    <3>1. 1 + overlaps[k] \in Nat
      BY <2>1
    <3> QED
      BY <1>17, <2>5, <3>1 DEF KeyInv, TotalInv
  <2>7. \A i \in Nat : <<k, i>> \in drain /\ a \in Elements(lists[k][i]) => Total(k, a)' <= overlaps[k]
    BY <1>17, <2>1, <2>5 DEF KeyInv, TotalInv
  <2>8. ~(a \in Buffered(k)' /\ ~InFlight(k)')
    BY <1>13 DEF InFlight
  <2> QED
    BY <1>1, <2>6, <2>7, <2>8 DEF TotalInv
<1> QED
  BY <1>15, <1>16, <1>17 DEF KeyInv


\* What is to be routed is not delivered before that.
LEMMA NextRoutedInv ==
    ASSUME TypeOK, TypeOK', FlightsInv, OrderInv, RoutedInv, DirectInv,
           \A k \in Digest : KeyInv(k), [Next]_vars
    PROVE  RoutedInv' /\ DirectInv'
<1>1. /\ attempts \in [Channels -> [Alerts -> Nat]] /\ entries \in Seq(Channels)
      /\ worker = "route" => alert \in Alerts
  BY DEF TypeOK
<1>2. CASE Deliver
  <2> DEFINE c == Head(entries)
  <2>1. /\ c \in Channels \ Digest /\ alert \in Alerts /\ Counted(c, {alert}) /\ lists' = lists
        /\ entries # <<>> /\ alert' = alert
    BY <1>1, <1>2 DEF Deliver, digestVars
  <2>2. /\ \A a \in Alerts : attempts'[c][a] = IF a = alert THEN attempts[c][a] + 1 ELSE attempts[c][a]
        /\ \A k \in Channels : k # c => attempts'[k] = attempts[k]
    BY <2>1, CountedFacts
  <2>3. Digests' = Digests
    BY <2>1 DEF Digests
  <2>4. RoutedInv'
    <3> SUFFICES ASSUME NEW k \in Channels, NEW a \in Alerts, Single(Notify[a], k), ToRoute(k, a)'
                 PROVE  attempts'[k][a] = 0 /\ (k \in Digest => <<k, a>> \notin Digests')
      BY DEF RoutedInv
    <3>1. ToRoute(k, a) /\ ~(k = c /\ a = alert)
      BY <1>2, RoutedFacts
    <3>2. attempts'[k][a] = attempts[k][a]
      BY <2>2, <3>1
    <3> QED
      BY <2>3, <3>1, <3>2 DEF RoutedInv
  <2>5. DirectInv'
    <3> SUFFICES ASSUME NEW k \in Channels \ Digest, NEW a \in Alerts, Single(Notify[a], k)
                 PROVE  attempts'[k][a] <= 1
      BY DEF DirectInv
    <3>1. CASE k = c /\ a = alert
      <4>1. ToRoute(c, alert)
        BY <1>1, <2>1, QueueFacts DEF ToRoute, Elements
      <4>2. attempts[k][a] = 0
        BY <3>1, <4>1 DEF RoutedInv
      <4> QED
        BY <2>2, <3>1, <4>2
    <3>2. CASE ~(k = c /\ a = alert)
      BY <2>2, <3>2 DEF DirectInv
    <3> QED
      BY <3>1, <3>2
  <2> QED
    BY <2>4, <2>5
<1>3. CASE RouteToDigest
  <2> DEFINE c == Head(entries)
  <2>1. /\ c \in Digest /\ BufferForDigest(c) /\ alert \in Alerts /\ attempts' = attempts
    BY <1>1, <1>3 DEF RouteToDigest
  <2>2. \A k \in Digest, a \in Alerts : <<k, a>> \in Digests' => <<k, a>> \in Digests \/ (k = c /\ a = alert)
    <3> SUFFICES ASSUME NEW k \in Digest, NEW a \in Alerts, <<k, a>> \in Digests', ~(k = c /\ a = alert)
                 PROVE  <<k, a>> \in Digests
      OBVIOUS
    <3>1. PICK i \in DOMAIN lists'[k] : a \in Elements(lists'[k][i])
      BY DEF Digests
    <3>2. lists[k] \in Seq(Seq(Alerts)) /\ lists'[k] \in Seq(Seq(Alerts)) /\ buffer[k] \in 0..Len(lists[k])
      BY DEF TypeOK
    <3>3. DOMAIN lists[k] = 1..Len(lists[k]) /\ DOMAIN lists'[k] = 1..Len(lists'[k])
      BY <3>2
    <3> HIDE DEF c
    <3>4. /\ \A j \in Digest : j # c => lists'[j] = lists[j]
          /\ \A x \in 1..Len(lists'[c]) : x # ListOf(c) =>
               x \in 1..Len(lists[c]) /\ lists'[c][x] = lists[c][x]
          /\ Elements(lists'[c][ListOf(c)]) = Buffered(c) \cup {alert}
      BY <2>1, BufferFacts
    <3>5. CASE k # c \/ i # ListOf(c)
      <4>1. i \in DOMAIN lists[k] /\ lists'[k][i] = lists[k][i]
        BY <3>3, <3>4, <3>5
      <4> QED
        BY <3>1, <4>1, DigestsOf
    <3>6. CASE k = c /\ i = ListOf(c)
      <4>1. a \in Buffered(k)
        BY <3>1, <3>4, <3>6
      <4>2. buffer[k] \in DOMAIN lists[k] /\ a \in Elements(lists[k][buffer[k]])
        BY <3>2, <3>3, <4>1 DEF Buffered
      <4> QED
        BY <4>2, DigestsOf
    <3> QED
      BY <3>5, <3>6
  <2>3. RoutedInv'
    <3> SUFFICES ASSUME NEW k \in Channels, NEW a \in Alerts, Single(Notify[a], k), ToRoute(k, a)'
                 PROVE  attempts'[k][a] = 0 /\ (k \in Digest => <<k, a>> \notin Digests')
      BY DEF RoutedInv
    <3>1. ToRoute(k, a) /\ ~(k = c /\ a = alert)
      BY <1>3, RoutedFacts
    <3> QED
      BY <2>1, <2>2, <3>1 DEF RoutedInv
  <2> QED
    BY <2>1, <2>3 DEF DirectInv
<1>4. ASSUME NEW c \in Digest, NEW s \in Slots, DeliverDigest(c, s) PROVE RoutedInv' /\ DirectInv'
  <2> DEFINE f == flights[<<c, s>>]
             sent == IF c \in Mail THEN f.mail ELSE {lists[c][f.list][f.at]}
  <2>1. lists' = lists /\ Counted(c, sent) /\ Flying(c, s) /\ c \in Channels
    BY <1>4 DEF DeliverDigest
  <2>2. f.list \in 1..Len(lists[c]) /\ f.at \in 1..Len(lists[c][f.list])
    BY <2>1 DEF FlightsInv
  <2>3. lists[c] \in Seq(Seq(Alerts))
    BY DEF TypeOK
  <2>4. f.list \in DOMAIN lists[c] /\ lists[c][f.list] \in Seq(Alerts)
    BY <2>2, <2>3
  <2>5. sent \subseteq Elements(lists[c][f.list])
    <3>1. CASE c \in Mail
      BY <2>1, <3>1 DEF KeyInv, ListInv
    <3>2. CASE c \notin Mail
      <4>1. f.at \in DOMAIN lists[c][f.list]
        BY <2>2, <2>4
      <4> QED
        BY <3>2, <4>1 DEF Elements
    <3> QED
      BY <3>1, <3>2
  <2>6. Elements(lists[c][f.list]) \subseteq Alerts
    BY <2>4 DEF Elements
  <2> HIDE DEF sent
  <2>7. /\ \A a \in Alerts : attempts'[c][a] = IF a \in sent THEN attempts[c][a] + 1 ELSE attempts[c][a]
        /\ \A k \in Channels : k # c => attempts'[k] = attempts[k]
    <3>1. sent \in SUBSET Alerts
      BY <2>5, <2>6
    <3> QED
      BY <2>1, <3>1, CountedFacts
  <2>8. \A k \in Channels, a \in Alerts : (k \in Digest => <<k, a>> \notin Digests) => attempts'[k][a] = attempts[k][a]
    <3> SUFFICES ASSUME NEW k \in Channels, NEW a \in Alerts, k \in Digest => <<k, a>> \notin Digests
                 PROVE  attempts'[k][a] = attempts[k][a]
      OBVIOUS
    <3>1. CASE k = c
      <4>1. a \notin sent
        BY <2>4, <2>5, <3>1, DigestsOf
      <4> QED
        BY <2>7, <3>1, <4>1
    <3>2. CASE k # c
      BY <2>7, <3>2
    <3> QED
      BY <3>1, <3>2
  <2>9. Digests' = Digests
    BY <2>1 DEF Digests
  <2>10. RoutedInv'
    BY <2>8, <2>9, RoutedFacts DEF RoutedInv
  <2>11. DirectInv'
    BY <2>7 DEF DirectInv
  <2> QED
    BY <2>10, <2>11
<1>5. CASE UNCHANGED <<attempts, lists>>
  <2>1. Digests' = Digests
    BY <1>5 DEF Digests
  <2> QED
    BY <1>5, <2>1, RoutedFacts DEF RoutedInv, DirectInv
<1>6. CASE Enqueue \/ Stop \/ Get \/ RouteDone \/ StopTimers \/ BeginDrain \/ DrainDone \/ UNCHANGED vars
           \/ \E k \in Digest : DrainNext(k) \/ \E s \in Slots : Flush(k, s)
  <2>1. UNCHANGED <<attempts, lists>>
    BY <1>6 DEF Enqueue, Stop, Get, RouteDone, StopTimers, BeginDrain, DrainDone, DrainNext, Flush,
                vars, digestVars
  <2> QED
    BY <1>5, <2>1
<1> QED
  BY <1>2, <1>3, <1>4, <1>6 DEF Next, Worker, Flusher

\* Every step keeps the invariant on how often alerts are delivered.
LEMMA NextOnceInv ==
    ASSUME IInv, IInv', OnceInv, [Next]_vars PROVE OnceInv'
<1> USE DEF IInv
<1>1. OrderInv' /\ StopInv' /\ RoutedInv' /\ DirectInv'
  BY NextOrderInv, NextStopInv, NextRoutedInv DEF OnceInv
<1>2. ASSUME NEW k \in Digest PROVE KeyInv(k)'
  <2>1. KeyInv(k) /\ StopInv /\ RoutedInv
    BY DEF OnceInv
  <2>2. CASE Quiet(k)
    BY <2>1, <2>2, QuietKey
  <2>3. CASE BeginDrain
    BY <2>1, <2>3, KeyTakenUp
  <2>4. CASE ~Quiet(k) /\ ~BeginDrain
    <3>1. \/ RouteToDigest /\ k = Head(entries)
          \/ DrainNext(k)
          \/ \E s \in Slots : Flush(k, s) /\ buffer[k] # 0
          \/ \E s \in Slots : DeliverDigest(k, s)
      BY <2>1, <2>4, Kinds DEF Elsewhere
    <3>2. CASE RouteToDigest /\ k = Head(entries)
      BY <2>1, <3>2, KeyBuffering
    <3> QED
      BY <2>1, <3>1, <3>2, KeyDrain, KeyFlush, KeyDelivery
  <2> QED
    BY <2>2, <2>3, <2>4
<1> QED
  BY <1>1, <1>2 DEF OnceInv

\* The invariant holds at the start.
LEMMA InitOnceInv == Init => OnceInv
<1> SUFFICES ASSUME Init PROVE OnceInv
  OBVIOUS
<1> USE DEF Init
<1>1. OrderInv
  BY DEF OrderInv
<1>2. \A k \in Digest : lists[k] = <<>> /\ buffer[k] = 0 /\ Buffered(k) = {} /\ overlaps[k] = 0
  BY DEF Buffered
<1>3. Digests = {}
  BY <1>2 DEF Digests
<1>4. RoutedInv /\ DirectInv
  BY <1>3 DEF RoutedInv, DirectInv
<1>5. StopInv
  BY DEF StopInv
<1>6. ASSUME NEW k \in Digest PROVE KeyInv(k)
  <2>1. \A s \in Slots : ~Flying(k, s)
    BY DEF Flying
  <2>2. FlyingSlots(k) = {} /\ \A a : DueSlots(k, a) = {}
    BY <2>1 DEF FlyingSlots, DueSlots, Ahead
  <2>3. Cardinality({}) = 0
    BY FS_EmptySet
  <2>4. ListInv(k)
    BY <1>2, <2>1 DEF ListInv
  <2>5. FlyingInv(k)
    BY <1>2, <2>2, <2>3 DEF FlyingInv, Drained
  <2>6. \A a \in Alerts : TotalInv(k, a)
    <3> TAKE a \in Alerts
    <3>1. attempts[k][a] = 0 /\ Total(k, a) = 0 + 0
      BY <2>2, <2>3 DEF Total
    <3>2. Total(k, a) <= 1 + overlaps[k]
      BY <1>2, <3>1
    <3> QED
      BY <3>1, <3>2 DEF TotalInv
  <2> QED
    BY <2>4, <2>5, <2>6 DEF KeyInv
<1> QED
  BY <1>1, <1>4, <1>5, <1>6 DEF OnceInv

\* It is inductive relative to the first one, which is proved above.
LEMMA OnceInvariant == Spec => []OnceInv
<1>1. Init => OnceInv
  BY InitOnceInv
<1>2. IInv /\ IInv' /\ OnceInv /\ [Next]_vars => OnceInv'
  BY NextOnceInv
<1> QED
  BY <1>1, <1>2, Invariant, PTL DEF Spec

\* However many windows of a key overlap, and whenever stop() comes, an alert that
\* is listed once for a channel is delivered there once, and once more at most for
\* each digest of the key taken up while another was in flight; a channel that is
\* notified at once gets it once.
THEOREM EachOnce == Spec => []DeliveredOnce
<1>1. IInv /\ OnceInv => DeliveredOnce
  <2> SUFFICES ASSUME IInv, OnceInv, NEW k \in Channels, NEW a \in Alerts, Single(Notify[a], k)
               PROVE  attempts[k][a] <= IF k \in Digest THEN 1 + overlaps[k] ELSE 1
    BY DEF DeliveredOnce
  <2>1. CASE k \in Digest
    <3> DEFINE m == attempts[k][a]
               c == Cardinality(DueSlots(k, a))
               o == overlaps[k]
    <3>1. m \in Nat /\ c \in Nat /\ o \in Nat
      BY <2>1, CountTypes DEF IInv
    <3>2. m + c <= 1 + o
      BY <2>1 DEF OnceInv, KeyInv, TotalInv, Total
    <3> HIDE DEF m, c, o
    <3>3. m <= 1 + o
      BY <3>1, <3>2
    <3> QED
      BY <2>1, <3>3 DEF m, o
  <2>2. CASE k \notin Digest
    BY <2>2 DEF OnceInv, DirectInv
  <2> QED
    BY <2>1, <2>2
<1> QED
  BY <1>1, Invariant, OnceInvariant, PTL

-----------------------------------------------------------------------------
(* What the end of run() leaves *)

\* From stop() on the queue is empty.  While the buffers are drained, those that
\* are left are to be delivered by stop() or being delivered; then none is.
ExitInv ==
    /\ worker \in {"stop", "drain", "done"} => queue = <<>> /\ running # TRUE
    /\ worker # "drain" => \A k \in Digest : ~Flying(k, 0)
    /\ worker = "drain" => \A k \in Digest :
          buffer[k] = 0 \/ <<k, buffer[k]>> \in drain \/ Flying(k, 0)
    /\ worker = "done" => drain = {} /\ \A k \in Digest : buffer[k] = 0

\* What AlertDispatcher.stop() says of pending digests, as far as it is so.
SettledAtExit ==
    worker = "done" =>
        /\ queue = <<>> /\ timers = {} /\ \A k \in Digest : buffer[k] = 0
        /\ \A k \in Digest, a \in Alerts : <<k, a>> \in Digests =>
              \/ attempts[k][a] > 0 \/ <<k, a>> \in late
              \/ \E s \in Slots \ {0} : a \in Ahead(k, s)

\* A step that leaves the worker, the drain and slot 0 alone, and gives no key a
\* buffer, keeps what holds at the exit.
LEMMA ExitKept ==
    ASSUME ExitInv, UNCHANGED <<worker, drain>>,
           queue' = queue \/ worker \notin {"stop", "drain", "done"},
           running' = running \/ running' # TRUE,
           \A k \in Digest : /\ Flying(k, 0)' <=> Flying(k, 0)
                             /\ buffer'[k] \in {0, buffer[k]} \/ worker \notin {"drain", "done"}
    PROVE  ExitInv'
  BY DEF ExitInv

\* Every step keeps what holds at the exit.
LEMMA NextExitInv ==
    ASSUME TypeOK, FlightsInv, ExitInv, [Next]_vars PROVE ExitInv'
<1>0. 0 \in Slots
  BY RoutingAssumption DEF Slots
<1>1. CASE Enqueue
  <2>1. running = TRUE \/ running # TRUE
    OBVIOUS
  <2>2. running = TRUE
    BY <1>1, Zenon DEF Enqueue, TypeOK
  <2>3. worker \notin {"stop", "drain", "done"}
    BY <2>2 DEF ExitInv
  <2>4. UNCHANGED <<worker, drain, running, flights, buffer>>
    BY <1>1 DEF Enqueue, workerVars, digestVars
  <2> QED BY <2>3, <2>4, ExitKept DEF Flying
<1>2. CASE Stop
  <2>1. UNCHANGED <<worker, drain, queue, flights, buffer>> /\ running' # TRUE
    <3>1. running' = FALSE
      BY <1>2, Zenon DEF Stop
    <3> QED BY <1>2, <3>1 DEF Stop, workerVars, digestVars
  <2> QED BY <2>1, ExitKept DEF Flying
<1>3. CASE Get \/ RouteDone
  <2>1. /\ worker \in {"get", "route"} /\ worker' \in {"get", "route"}
        /\ UNCHANGED <<flights, running>>
    BY <1>3 DEF Get, RouteDone
  <2> QED BY <2>1 DEF ExitInv, Flying
<1>4. CASE Deliver
  <2>1. UNCHANGED <<worker, drain, queue, running, flights, buffer>>
    BY <1>4 DEF Deliver, digestVars
  <2> QED BY <2>1, ExitKept DEF Flying
<1>5. CASE RouteToDigest
  <2>1. UNCHANGED <<worker, drain, queue, running, flights>> /\ worker = "route"
    BY <1>5 DEF RouteToDigest
  <2> QED BY <2>1, ExitKept DEF Flying
<1>6. CASE StopTimers
  <2>1. /\ worker = "get" /\ worker' = "stop" /\ queue' = <<>> /\ running' # TRUE
        /\ flights' = flights
    <3>1. running' = running /\ running # TRUE
      BY <1>6, Zenon DEF StopTimers
    <3> QED BY <1>6, <3>1 DEF StopTimers
  <2> QED BY <2>1 DEF ExitInv, Flying
<1>7. CASE BeginDrain
  <2>1. /\ worker = "stop" /\ worker' = "drain"
        /\ UNCHANGED <<queue, running, flights, buffer>>
        /\ drain' = {<<k, buffer[k]>> : k \in {c \in Digest : buffer[c] # 0}}
    BY <1>7 DEF BeginDrain, digestVars
  <2>2. \A k \in Digest : buffer[k] # 0 => <<k, buffer[k]>> \in drain'
    BY <2>1
  <2> QED BY <2>1, <2>2 DEF ExitInv
<1>8. ASSUME NEW k \in Digest, DrainNext(k) PROVE ExitInv'
  <2>1. PICK l \in 1..Len(lists[k]) :
             /\ drain' = drain \ {<<k, l>>}
             /\ flights' = [flights EXCEPT ![<<k, 0>>] = Flight(k, l)]
    BY <1>8 DEF DrainNext
  <2>2. worker = "drain" /\ UNCHANGED <<worker, queue, running, buffer, lists>>
    BY <1>8 DEF DrainNext, workerVars, digestVars
  <2>3. /\ Flying(k, 0)'
        /\ \A j \in Digest : j # k => flights'[<<j, 0>>] = flights[<<j, 0>>]
    BY <1>0, <2>1, <2>2, FlightFacts
  <2>4. ASSUME NEW j \in Digest, j # k
        PROVE  buffer[j] = 0 \/ <<j, buffer[j]>> \in drain' \/ Flying(j, 0)'
    BY <2>1, <2>2, <2>3, <2>4 DEF ExitInv, Flying
  <2> QED BY <2>2, <2>3, <2>4 DEF ExitInv
<1>9. CASE DrainDone
  <2>1. /\ worker = "drain" /\ worker' = "done" /\ drain = {} /\ ~Draining
        /\ UNCHANGED <<queue, running, buffer, flights, drain>>
    BY <1>9 DEF DrainDone, digestVars
  <2> QED BY <2>1 DEF ExitInv, Draining, Flying
<1>10. ASSUME NEW k \in Digest, NEW s \in Slots, Flush(k, s) PROVE ExitInv'
  <2>1. s # 0 /\ UNCHANGED <<worker, drain, queue, running, buffer>>
        /\ (flights' = flights \/ flights' = [flights EXCEPT ![<<k, s>>] = Flight(k, buffer[k])])
    BY <1>10 DEF Flush, workerVars
  <2>2. \A j \in Digest : flights'[<<j, 0>>] = flights[<<j, 0>>]
    BY <1>0, <2>1 DEF TypeOK
  <2> QED BY <2>1, <2>2, ExitKept DEF Flying
<1>11. ASSUME NEW k \in Digest, NEW s \in Slots, DeliverDigest(k, s) PROVE ExitInv'
  <2>1. UNCHANGED <<worker, drain, queue, running, lists>> /\ Flying(k, s)
    BY <1>11 DEF DeliverDigest, workerVars
  <2>2. CASE Last(k, s)
    <3>1. /\ flights' = [flights EXCEPT ![<<k, s>>] = NoFlight]
          /\ buffer' = [buffer EXCEPT ![k] = 0]
      BY <1>11, <2>2 DEF DeliverDigest
    <3>2. /\ buffer'[k] = 0 /\ ~Flying(k, s)'
          /\ \A j \in Digest : j # k => /\ buffer'[j] = buffer[j]
                                        /\ flights'[<<j, 0>>] = flights[<<j, 0>>]
          /\ s # 0 => flights'[<<k, 0>>] = flights[<<k, 0>>]
      BY <1>0, <3>1 DEF TypeOK, Flying
    <3>3. s = 0 => worker = "drain"
      BY <2>1 DEF ExitInv
    <3>4. CASE s = 0
      BY <2>1, <3>2, <3>3, <3>4 DEF ExitInv, Flying
    <3>5. CASE s # 0
      BY <2>1, <3>2, <3>5, ExitKept DEF Flying
    <3> QED BY <3>4, <3>5
  <2>3. CASE ~Last(k, s)
    <3> DEFINE f == flights[<<k, s>>]
               g == [f EXCEPT !.at = @ + 1]
    <3>1. /\ flights' = [flights EXCEPT ![<<k, s>>] = g] /\ buffer' = buffer
      BY <1>11, <2>3 DEF DeliverDigest
    <3>2. f \in [list : Nat, at : Nat, mail : SUBSET Alerts] /\ f.list # 0
      <4>1. f \in [list : Nat, at : Nat, mail : SUBSET Alerts]
        BY DEF TypeOK
      <4>2. Flying(k, s) => f.list \in 1..Len(lists[k])
        BY DEF FlightsInv
      <4>3. f.list # 0
        BY <2>1, <4>2
      <4> QED BY <4>1, <4>3
    <3>3. g # NoFlight
      BY <3>2 DEF NoFlight
    <3> HIDE DEF g
    <3>4. Flying(k, s)' /\ \A j \in Digest : <<j, 0>> # <<k, s>> => flights'[<<j, 0>>] = flights[<<j, 0>>]
      BY <1>0, <3>1, <3>3 DEF TypeOK, Flying
    <3>5. \A j \in Digest : Flying(j, 0)' <=> Flying(j, 0)
      BY <2>1, <3>4 DEF Flying
    <3> QED BY <2>1, <3>1, <3>5, ExitKept
  <2> QED BY <2>2, <2>3
<1>12. CASE UNCHANGED vars
  <2>1. UNCHANGED <<worker, drain, queue, running, flights, buffer>>
    BY <1>12 DEF vars, workerVars, digestVars
  <2> QED BY <2>1, ExitKept DEF Flying
<1> QED
  BY <1>1, <1>2, <1>3, <1>4, <1>5, <1>6, <1>7, <1>8, <1>9, <1>10, <1>11, <1>12
     DEF Next, Worker, Flusher

\* When run() has ended, an alert of a digest that was neither delivered nor
\* buffered while an older digest was in flight is in one that a flusher still
\* delivers.
THEOREM ExitIsSettled == Spec => []SettledAtExit
<1>1. Init => ExitInv
  BY RoutingAssumption DEF Init, ExitInv, Flying, Slots
<1>2. IInv /\ ExitInv /\ [Next]_vars => ExitInv'
  BY NextExitInv DEF IInv
<1>3. Spec => []ExitInv
  BY <1>1, <1>2, Invariant, PTL DEF Spec
<1>4. IInv /\ OnceInv /\ ExitInv => SettledAtExit
  <2> SUFFICES ASSUME IInv, OnceInv, ExitInv, worker = "done"
               PROVE  /\ queue = <<>> /\ timers = {} /\ \A k \in Digest : buffer[k] = 0
                      /\ \A k \in Digest, a \in Alerts : <<k, a>> \in Digests =>
                            \/ attempts[k][a] > 0 \/ <<k, a>> \in late
                            \/ \E s \in Slots \ {0} : a \in Ahead(k, s)
    BY DEF SettledAtExit
  <2>1. /\ queue = <<>> /\ timers = {} /\ drain = {}
        /\ \A k \in Digest : buffer[k] = 0 /\ ~Flying(k, 0)
    BY DEF OnceInv, StopInv, ExitInv
  <2>2. \A k \in Digest : Buffered(k) = {} /\ Ahead(k, 0) = {}
    BY <2>1 DEF Buffered, Ahead
  <2> QED BY <2>1, <2>2 DEF IInv, NoneForgotten
<1> QED
  BY <1>3, <1>4, Invariant, OnceInvariant, PTL
=============================================================================
