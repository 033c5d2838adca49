------------------------- MODULE ThreatIntelProofs -------------------------
(***************************************************************************)
(* What holds of the feeds and the matcher for any feeds, caps, thresholds *)
(* and numbers of polls and sessions: the types, the pause of the circuit  *)
(* breaker, that the cursor passes over no indicator, and that a matcher   *)
(* at rest has the snapshots that are stored; and that no step moves a     *)
(* cursor back.                                                            *)
(***************************************************************************)
EXTENDS ThreatIntel, TLAPS

USE IntelAssumption

Polling == {"load", "fetch", "persist"}

\* The breaker counts the auth failures in a row up to its threshold, is open
\* exactly then, and a poll goes on only in an open circuit that is half-open.
BreakerOf(f) ==
    /\ strikes[f] = failures[f]
    /\ opened[f] # "no" <=> failures[f] = Threshold
    /\ halfOpen[f] = TRUE => opened[f] = "elapsed"
    /\ failures[f] = Threshold /\ cooled[f] = FALSE => opened[f] = "fresh"
    /\ task[f] \in Polling => opened[f] # "fresh"
    /\ task[f] \in Polling /\ opened[f] = "elapsed" => halfOpen[f] = TRUE

BreakerInv == \A f \in Feeds : BreakerOf(f)

\* A persist goes on only for a poll that waits for it, or was cancelled by the end
\* of the manager; without a session up there is no matcher.
TasksInv ==
    /\ main # "up" => matcher = "off"
    /\ \A f \in Feeds : persist[f] # "none" =>
         task[f] = "persist" \/ (main = "stopped" /\ task[f] = "done")
    /\ main \in {"off", "stopped"} => \A f \in Feeds : task[f] \in {"none", "done", "dead"}

\* What a poll has fetched is what lies between the stored cursor and its own.
CursorOf(f) ==
    /\ 1..cursor[f] \subseteq ever[f] \cup truncated[f]
    /\ task[f] = "fetch" \/ persist[f] = "snapshot" => after[f] = cursor[f]
    /\ persist[f] = "snapshot" /\ last[f] # None =>
         fetched[f] = {i \in Ids : after[f] < i /\ i <= last[f] /\ i <= after[f] + Cap}
    /\ persist[f] = "cursor" => 1..last[f] \subseteq ever[f] \cup truncated[f]

CursorInv == \A f \in Feeds : CursorOf(f)

Sync(t, f) == t[f] = snapshot[f] \/ persist[f] = "cursor" \/ task[f] = "dead"

\* The feeds a rebuild has read are as they are stored, or it will be told.
ReadInv == matcher = "build" /\ dirty # TRUE => \A f \in Feeds \ toRead : Sync(read, f)

\* And so is the table of a matcher that rests.
TableInv == matcher = "wait" /\ dirty # TRUE /\ failed # TRUE => \A f \in Feeds : Sync(table, f)

IInv == TypeOK /\ BreakerInv /\ TasksInv /\ CursorInv /\ ReadInv /\ TableInv

\* The invariant holds at the start.
LEMMA InitIInv == Init => IInv
<1> SUFFICES ASSUME Init PROVE IInv
  OBVIOUS
<1>1. TypeOK
  <2>1. dirty \in BOOLEAN /\ failed \in BOOLEAN
    BY Zenon DEF Init
  <2>2. halfOpen \in [Feeds -> BOOLEAN] /\ cooled \in [Feeds -> BOOLEAN]
    BY Zenon DEF Init, Every
  <2> QED BY <2>1, <2>2 DEF Init, TypeOK, Every, None, Ids
<1>2. BreakerInv
  BY DEF Init, BreakerInv, BreakerOf, Every, Polling
<1>3. TasksInv
  BY DEF Init, TasksInv, Every
<1>4. CursorInv
  BY DEF Init, CursorInv, CursorOf, Every, None
<1>5. ReadInv /\ TableInv
  BY DEF Init, ReadInv, TableInv
<1> QED BY <1>1, <1>2, <1>3, <1>4, <1>5 DEF IInv
-----------------------------------------------------------------------------
(* The types *)

\* What the breaker is after a failure or a success.
LEMMA BreakerTypes ==
    ASSUME TypeOK, BreakerInv, NEW f \in Feeds,
           RecordSuccess(f) \/ (RecordFailure(f) /\ task[f] = "fetch")
    PROVE  /\ failures' \in [Feeds -> 0..Threshold] /\ strikes' \in [Feeds -> 0..Threshold]
           /\ opened' \in [Feeds -> {"no", "fresh", "elapsed"}]
           /\ halfOpen' \in [Feeds -> BOOLEAN] /\ cooled' \in [Feeds -> BOOLEAN]
<1>1. halfOpen' \in [Feeds -> BOOLEAN] /\ cooled' \in [Feeds -> BOOLEAN]
  <2>1. halfOpen \in [Feeds -> BOOLEAN] /\ cooled \in [Feeds -> BOOLEAN]
    BY DEF TypeOK
  <2>2. cooled' = [cooled EXCEPT ![f] = FALSE]
    BY DEF RecordSuccess, RecordFailure
  <2>3. halfOpen' = [halfOpen EXCEPT ![f] = FALSE] \/ halfOpen' = halfOpen
    BY DEF RecordSuccess, RecordFailure
  <2> QED BY <2>1, <2>2, <2>3, Zenon
<1>2. CASE RecordSuccess(f)
  BY <1>1, <1>2 DEF RecordSuccess, TypeOK
<1>3. CASE RecordFailure(f) /\ task[f] = "fetch"
  <2>1. failures[f] \in 0..Threshold /\ strikes[f] \in 0..Threshold /\ Threshold \in Nat
    BY DEF TypeOK
  <2>2. strikes' \in [Feeds -> 0..Threshold]
    BY <1>3, <2>1 DEF RecordFailure, TypeOK
  <2>3. opened' \in [Feeds -> {"no", "fresh", "elapsed"}]
    BY <1>3 DEF RecordFailure, TypeOK
  <2>4. CASE halfOpen[f]
    BY <1>1, <1>3, <2>2, <2>3, <2>4 DEF RecordFailure, TypeOK
  <2>5. CASE ~halfOpen[f]
    <3>1. failures[f] < Threshold
      BY <1>3, <2>1, <2>5 DEF BreakerInv, BreakerOf, Polling, TypeOK
    <3>2. failures' \in [Feeds -> 0..Threshold]
      BY <1>3, <2>1, <2>5, <3>1 DEF RecordFailure, TypeOK
    <3> QED BY <1>1, <2>2, <2>3, <3>2
  <2> QED BY <2>4, <2>5
<1> QED BY <1>2, <1>3

\* Every step keeps the types.
LEMMA NextTypeOK == TypeOK /\ BreakerInv /\ [Next]_vars => TypeOK'
<1> SUFFICES ASSUME TypeOK, BreakerInv, [Next]_vars PROVE TypeOK'
  OBVIOUS
<1> USE DEF pollVars, storeVars, breakerVars, matcherVars, sessionVars, savedVars, strikeVars
<1>0. FALSE \in BOOLEAN /\ TRUE \in BOOLEAN
  BY Zenon
<1>1. Every(FALSE) \in [Feeds -> BOOLEAN]
  BY Zenon DEF Every
<1>2. CASE Boot
  <2>1. failed' \in BOOLEAN /\ dirty' \in BOOLEAN
    BY <1>2, Zenon DEF Boot
  <2>2. halfOpen' \in [Feeds -> BOOLEAN] /\ cooled' \in [Feeds -> BOOLEAN]
    BY <1>1, <1>2 DEF Boot
  <2> QED BY <1>2, <2>1, <2>2 DEF Boot, TypeOK, Every
<1>3. CASE Stop
  BY <1>3 DEF Stop, TypeOK, Every
<1>4. CASE Stopped
  BY <1>4 DEF Stopped, TypeOK
<1>5. CASE End
  <2>1. failed' \in BOOLEAN /\ dirty' \in BOOLEAN
    BY <1>5, Zenon DEF End
  <2>2. halfOpen' \in [Feeds -> BOOLEAN] /\ cooled' \in [Feeds -> BOOLEAN]
    BY <1>1, <1>5 DEF End
  <2> QED BY <1>5, <2>1, <2>2 DEF End, TypeOK, Every, None
<1>6. CASE Matcher
  <2>1. CASE Hear
    BY <2>1 DEF Hear, TypeOK
  <2>2. CASE Rebuild
    <3>1. dirty' \in BOOLEAN
      BY <2>2, Zenon DEF Rebuild
    <3> QED BY <2>2, <3>1 DEF Rebuild, TypeOK
  <2>3. ASSUME NEW f \in Feeds, ReadFeed(f) PROVE TypeOK'
    <3>1. failed' \in BOOLEAN
      BY <2>3, Zenon DEF ReadFeed, TypeOK
    <3>2. [read EXCEPT ![f] = snapshot[f]] \in [Feeds -> SUBSET Ids]
      BY DEF TypeOK
    <3> QED BY <2>3, <3>1, <3>2 DEF ReadFeed, TypeOK, Every
  <2>4. CASE RebuildFails
    <3>1. failed' \in BOOLEAN
      BY <2>4, Zenon DEF RebuildFails
    <3> QED BY <2>4, <3>1 DEF RebuildFails, TypeOK, Every
  <2> QED BY <1>6, <2>1, <2>2, <2>3, <2>4 DEF Matcher
<1>7. ASSUME NEW f \in Feeds, Poll(f) PROVE TypeOK'
  <2>1. halfOpen' \in [Feeds -> BOOLEAN]
    <3>1. (halfOpen[f] \/ opened[f] = "elapsed") \in BOOLEAN
      BY Zenon
    <3>2. halfOpen' = [halfOpen EXCEPT ![f] = halfOpen[f] \/ opened[f] = "elapsed"]
      BY <1>7, Zenon DEF Poll, TypeOK
    <3> QED BY <3>1, <3>2, Zenon DEF TypeOK
  <2> QED BY <1>7, <2>1 DEF Poll, TypeOK
<1>8. ASSUME NEW f \in Feeds, Leave(f) \/ LoadCursor(f) \/ PollRaises(f) PROVE TypeOK'
  BY <1>8 DEF Leave, LoadCursor, PollRaises, Forget, None, TypeOK
<1>9. ASSUME NEW f \in Feeds, WindowElapses(f) PROVE TypeOK'
  <2>1. cooled' \in [Feeds -> BOOLEAN]
    BY <1>9, Zenon DEF WindowElapses, TypeOK
  <2> QED BY <1>9, <2>1 DEF WindowElapses, TypeOK
<1>10. ASSUME NEW f \in Feeds, FetchFails(f) PROVE TypeOK'
  <2>1. /\ failures' \in [Feeds -> 0..Threshold] /\ strikes' \in [Feeds -> 0..Threshold]
        /\ opened' \in [Feeds -> {"no", "fresh", "elapsed"}]
        /\ halfOpen' \in [Feeds -> BOOLEAN] /\ cooled' \in [Feeds -> BOOLEAN]
    BY <1>10, BreakerTypes DEF FetchFails, TypeOK
  <2>2. /\ task' \in [Feeds -> {"none", "wait", "load", "fetch", "persist", "done", "dead"}]
        /\ after' \in [Feeds -> 0..NumIndicators] /\ last' \in [Feeds -> 0..NumIndicators]
        /\ fetched' \in [Feeds -> SUBSET Ids]
    BY <1>10 DEF FetchFails, Rest, Forget, None, TypeOK
  <2>3. UNCHANGED <<sessionVars, polls, persist, storeVars, matcherVars, savedVars>>
    BY <1>10 DEF FetchFails
  <2> QED BY <2>1, <2>2, <2>3 DEF TypeOK
<1>11. ASSUME NEW f \in Feeds, NEW p \in 0..NumIndicators, Collected(f, p) PROVE TypeOK'
  BY <1>11 DEF Collected, None, TypeOK
<1>12. ASSUME NEW f \in Feeds, Persisted(f)
       PROVE  /\ persist' \in [Feeds -> {"none", "snapshot", "cursor"}] /\ dirty' \in BOOLEAN
              /\ task' \in [Feeds -> {"none", "wait", "load", "fetch", "persist", "done", "dead"}]
              /\ after' \in [Feeds -> 0..NumIndicators] /\ last' \in [Feeds -> 0..NumIndicators]
              /\ fetched' \in [Feeds -> SUBSET Ids]
              /\ failures' \in [Feeds -> 0..Threshold] /\ strikes' \in [Feeds -> 0..Threshold]
              /\ opened' \in [Feeds -> {"no", "fresh", "elapsed"}]
              /\ halfOpen' \in [Feeds -> BOOLEAN] /\ cooled' \in [Feeds -> BOOLEAN]
  <2>1. dirty' \in BOOLEAN
    BY <1>12, Zenon DEF Persisted
  <2>2. /\ failures' \in [Feeds -> 0..Threshold] /\ strikes' \in [Feeds -> 0..Threshold]
        /\ opened' \in [Feeds -> {"no", "fresh", "elapsed"}]
        /\ halfOpen' \in [Feeds -> BOOLEAN] /\ cooled' \in [Feeds -> BOOLEAN]
    BY <1>12, BreakerTypes DEF Persisted, TypeOK
  <2>3. /\ task' \in [Feeds -> {"none", "wait", "load", "fetch", "persist", "done", "dead"}]
        /\ after' \in [Feeds -> 0..NumIndicators] /\ last' \in [Feeds -> 0..NumIndicators]
        /\ fetched' \in [Feeds -> SUBSET Ids]
    BY <1>12 DEF Persisted, Rest, Forget, None, TypeOK
  <2>4. persist' \in [Feeds -> {"none", "snapshot", "cursor"}]
    BY <1>12 DEF Persisted, TypeOK
  <2> QED BY <2>1, <2>2, <2>3, <2>4
<1>13. ASSUME NEW f \in Feeds, SaveSnapshot(f) PROVE TypeOK'
  <2>1. /\ snapshot' \in [Feeds -> SUBSET Ids] /\ ever' \in [Feeds -> SUBSET Ids]
        /\ truncated' \in [Feeds -> SUBSET Ids]
    BY <1>13 DEF SaveSnapshot, TypeOK
  <2>2. CASE last[f] # None
    BY <1>13, <2>1, <2>2 DEF SaveSnapshot, TypeOK
  <2>3. CASE last[f] = None
    BY <1>12, <1>13, <2>1, <2>3 DEF SaveSnapshot, TypeOK
  <2> QED BY <2>2, <2>3
<1>14. ASSUME NEW f \in Feeds, SaveCursor(f) PROVE TypeOK'
  <2>1. cursor' \in [Feeds -> 0..NumIndicators]
    BY <1>14 DEF SaveCursor, TypeOK
  <2> QED BY <1>12, <1>14, <2>1 DEF SaveCursor, TypeOK
<1>15. ASSUME NEW f \in Feeds, SaveRaises(f) PROVE TypeOK'
  BY <1>15 DEF SaveRaises, Forget, None, TypeOK
<1>16. CASE UNCHANGED vars
  BY <1>16 DEF vars, TypeOK
<1> QED
  BY <1>2, <1>3, <1>4, <1>5, <1>6, <1>7, <1>8, <1>9, <1>10, <1>11, <1>13, <1>14, <1>15, <1>16
     DEF Next, Persist
-----------------------------------------------------------------------------
(* The circuit breaker *)

\* What a step leaves of a feed's breaker if it leaves its variables alone and
\* starts no poll.
LEMMA BreakerKept ==
    ASSUME BreakerInv, UNCHANGED <<breakerVars, strikeVars>>,
           \A f \in Feeds : task'[f] \in Polling => task[f] \in Polling
    PROVE  BreakerInv'
  BY DEF BreakerInv, BreakerOf, breakerVars, strikeVars

\* A success closes the circuit of its feed, and touches no other.
LEMMA BreakerSuccess ==
    ASSUME TypeOK, BreakerInv, NEW f \in Feeds, RecordSuccess(f),
           \A g \in Feeds : task'[g] \in Polling => task[g] \in Polling
    PROVE  BreakerInv'
<1>1. BreakerOf(f)'
  BY DEF TypeOK, RecordSuccess, BreakerOf
<1>2. ASSUME NEW g \in Feeds, g # f PROVE BreakerOf(g)'
  BY <1>2 DEF TypeOK, RecordSuccess, BreakerOf, BreakerInv
<1> QED BY <1>1, <1>2 DEF BreakerInv

\* A failure counts until the circuit opens, or opens that of a probe again.
LEMMA BreakerFailure ==
    ASSUME TypeOK, BreakerInv, NEW f \in Feeds, RecordFailure(f), task[f] = "fetch",
           task'[f] \notin Polling,
           \A g \in Feeds : task'[g] \in Polling => task[g] \in Polling
    PROVE  BreakerInv'
<1>1. BreakerOf(f)'
  <2>1. /\ failures[f] \in 0..Threshold /\ strikes[f] = failures[f] /\ Threshold \in Nat \ {0}
        /\ opened[f] # "fresh" /\ opened[f] \in {"no", "fresh", "elapsed"}
        /\ opened[f] # "no" <=> failures[f] = Threshold
        /\ halfOpen[f] = TRUE <=> opened[f] = "elapsed"
    BY DEF TypeOK, BreakerInv, BreakerOf, Polling
  <2>2. strikes'[f] = IF strikes[f] < Threshold THEN strikes[f] + 1 ELSE strikes[f]
    BY DEF TypeOK, RecordFailure
  <2>3. CASE halfOpen[f]
    <3>1. failures'[f] = failures[f] /\ opened'[f] = "fresh" /\ halfOpen'[f] = FALSE
      BY <2>3 DEF TypeOK, RecordFailure
    <3>2. failures[f] = Threshold
      BY <2>1, <2>3
    <3> QED BY <2>1, <2>2, <3>1, <3>2 DEF BreakerOf
  <2>4. CASE ~halfOpen[f]
    <3>1. /\ failures'[f] = failures[f] + 1 /\ halfOpen'[f] = halfOpen[f]
          /\ opened'[f] = IF failures[f] + 1 >= Threshold THEN "fresh" ELSE opened[f]
      BY <2>4 DEF TypeOK, RecordFailure
    <3>2. halfOpen[f] # TRUE
      BY <2>4, Zenon
    <3>3. opened[f] = "no"
      BY <2>1, <3>2
    <3>4. failures[f] < Threshold
      BY <2>1, <3>3
    <3> QED BY <2>1, <2>2, <3>1, <3>2, <3>3, <3>4 DEF BreakerOf
  <2> QED BY <2>3, <2>4
<1>2. ASSUME NEW g \in Feeds, g # f PROVE BreakerOf(g)'
  BY <1>2 DEF TypeOK, RecordFailure, BreakerOf, BreakerInv
<1> QED BY <1>1, <1>2 DEF BreakerInv

\* Every step keeps what is said of the breakers.
LEMMA NextBreakerInv == TypeOK /\ BreakerInv /\ [Next]_vars => BreakerInv'
<1> SUFFICES ASSUME TypeOK, BreakerInv, [Next]_vars PROVE BreakerInv'
  OBVIOUS
<1>1. CASE Boot \/ End
  <2>1. /\ failures' = Every(0) /\ opened' = Every("no") /\ halfOpen' = Every(FALSE)
        /\ strikes' = Every(0) /\ cooled' = Every(FALSE)
        /\ \A f \in Feeds : task'[f] \notin Polling
    BY <1>1 DEF Boot, End, Every, Polling
  <2> QED BY <2>1 DEF BreakerInv, BreakerOf, Every
<1>2. CASE Stop \/ Stopped \/ Matcher \/ UNCHANGED vars
  <2>1. UNCHANGED <<breakerVars, strikeVars>>
    BY <1>2 DEF Stop, Stopped, Matcher, Hear, Rebuild, ReadFeed, RebuildFails, vars
  <2>2. \A f \in Feeds : task'[f] \in Polling => task[f] \in Polling
    BY <1>2 DEF Stop, Stopped, Matcher, Hear, Rebuild, ReadFeed, RebuildFails, vars, Polling
  <2> QED BY <2>1, <2>2, BreakerKept
<1>3. ASSUME NEW f \in Feeds, Poll(f) PROVE BreakerInv'
  <2>1. /\ UNCHANGED <<failures, opened, strikes, cooled>> /\ opened[f] # "fresh"
        /\ \A g \in Feeds : g # f => halfOpen'[g] = halfOpen[g] /\ task'[g] = task[g]
    BY <1>3 DEF Poll, Allow, TypeOK, strikeVars
  <2>4. /\ opened[f] = "elapsed" => halfOpen'[f] = TRUE
        /\ opened[f] # "elapsed" => halfOpen'[f] = halfOpen[f]
    <3>1. halfOpen[f] \in BOOLEAN /\ halfOpen'[f] = (halfOpen[f] \/ opened[f] = "elapsed")
      BY <1>3, Zenon DEF Poll, TypeOK
    <3> QED BY <3>1, Zenon
  <2>2. BreakerOf(f)'
    BY <2>1, <2>4 DEF BreakerInv, BreakerOf
  <2>3. ASSUME NEW g \in Feeds, g # f PROVE BreakerOf(g)'
    BY <2>1, <2>3 DEF BreakerInv, BreakerOf
  <2> QED BY <2>2, <2>3 DEF BreakerInv
<1>4. ASSUME NEW f \in Feeds, Leave(f) \/ LoadCursor(f) \/ PollRaises(f) \/ SaveRaises(f)
      PROVE  BreakerInv'
  <2>1. \A g \in Feeds : task'[g] \in Polling => task[g] \in Polling
    BY <1>4 DEF Leave, LoadCursor, PollRaises, SaveRaises, Polling, TypeOK
  <2> QED BY <1>4, <2>1, BreakerKept DEF Leave, LoadCursor, PollRaises, SaveRaises
<1>5. ASSUME NEW f \in Feeds, NEW p \in 0..NumIndicators, Collected(f, p) PROVE BreakerInv'
  <2>1. \A g \in Feeds : task'[g] \in Polling => task[g] \in Polling
    BY <1>5 DEF Collected, Polling, TypeOK
  <2> QED BY <1>5, <2>1, BreakerKept DEF Collected
<1>6. ASSUME NEW f \in Feeds, WindowElapses(f) PROVE BreakerInv'
  <2>1. /\ opened[f] = "fresh" /\ opened'[f] = "elapsed" /\ cooled'[f] = TRUE
        /\ UNCHANGED <<failures, strikes, halfOpen, task>>
        /\ \A g \in Feeds : g # f => opened'[g] = opened[g] /\ cooled'[g] = cooled[g]
    BY <1>6 DEF WindowElapses, TypeOK
  <2>2. BreakerOf(f)'
    BY <2>1 DEF BreakerInv, BreakerOf
  <2>3. ASSUME NEW g \in Feeds, g # f PROVE BreakerOf(g)'
    BY <2>1, <2>3 DEF BreakerInv, BreakerOf
  <2> QED BY <2>2, <2>3 DEF BreakerInv
<1>7. ASSUME NEW f \in Feeds, FetchFails(f) PROVE BreakerInv'
  <2>1. /\ task[f] = "fetch" /\ task'[f] \notin Polling
        /\ \A g \in Feeds : task'[g] \in Polling => task[g] \in Polling
    BY <1>7 DEF FetchFails, Rest, Polling, TypeOK
  <2>2. CASE RecordFailure(f)
    BY <2>1, <2>2, BreakerFailure
  <2>3. CASE UNCHANGED <<breakerVars, strikeVars>>
    BY <2>1, <2>3, BreakerKept
  <2> QED BY <1>7, <2>2, <2>3 DEF FetchFails
<1>8. ASSUME NEW f \in Feeds, Persisted(f) PROVE BreakerInv'
  <2>1. \A g \in Feeds : task'[g] \in Polling => task[g] \in Polling
    BY <1>8 DEF Persisted, Rest, Polling, TypeOK
  <2>2. RecordSuccess(f) \/ UNCHANGED <<breakerVars, strikeVars>>
    BY <1>8 DEF Persisted
  <2> QED BY <2>1, <2>2, BreakerKept, BreakerSuccess
<1>9. ASSUME NEW f \in Feeds, SaveSnapshot(f) \/ SaveCursor(f) PROVE BreakerInv'
  <2>1. Persisted(f) \/ UNCHANGED <<task, breakerVars, strikeVars>>
    BY <1>9 DEF SaveSnapshot, SaveCursor
  <2> QED BY <1>8, <2>1, BreakerKept
<1> QED
  BY <1>1, <1>2, <1>3, <1>4, <1>5, <1>6, <1>7, <1>9 DEF Next, Persist
-----------------------------------------------------------------------------
(* The tasks and the cursor *)

\* Every step keeps what is said of the tasks.
LEMMA NextTasksInv == TypeOK /\ TasksInv /\ [Next]_vars => TasksInv'
<1> SUFFICES ASSUME TypeOK, TasksInv, [Next]_vars PROVE TasksInv'
  OBVIOUS
<1> USE DEF TypeOK, TasksInv, sessionVars, matcherVars
<1>1. CASE Boot
  <2>1. \A f \in Feeds : persist[f] = "none"
    BY <1>1 DEF Boot
  <2> QED BY <1>1, <2>1 DEF Boot, Every
<1>2. CASE Stop
  BY <1>2 DEF Stop
<1>3. CASE Stopped
  BY <1>3 DEF Stopped
<1>4. CASE End
  BY <1>4 DEF End, Every
<1>5. CASE Matcher \/ UNCHANGED vars
  <2>1. /\ UNCHANGED <<main, task, persist>>
        /\ matcher = "off" => matcher' = "off"
    BY <1>5 DEF Matcher, Hear, Rebuild, ReadFeed, RebuildFails, vars
  <2> QED BY <2>1
<1>6. ASSUME NEW f \in Feeds, Poll(f) \/ Leave(f) \/ LoadCursor(f) \/ PollRaises(f)
      PROVE  TasksInv'
  BY <1>6 DEF Poll, Leave, LoadCursor, PollRaises
<1>7. ASSUME NEW f \in Feeds, WindowElapses(f) \/ FetchFails(f) PROVE TasksInv'
  BY <1>7 DEF WindowElapses, FetchFails, Rest
<1>8. ASSUME NEW f \in Feeds, NEW p \in 0..NumIndicators, Collected(f, p) PROVE TasksInv'
  BY <1>8 DEF Collected
<1>9. ASSUME NEW f \in Feeds, SaveSnapshot(f) \/ SaveCursor(f) \/ SaveRaises(f) PROVE TasksInv'
  <2>1. UNCHANGED <<main, matcher>>
    BY <1>9 DEF SaveSnapshot, SaveCursor, SaveRaises
  <2>2. \A g \in Feeds : g # f => task'[g] = task[g] /\ persist'[g] = persist[g]
    BY <1>9 DEF SaveSnapshot, SaveCursor, SaveRaises, Persisted
  <2>3. persist[f] # "none" /\ (persist'[f] = "none" \/ task'[f] = task[f])
    BY <1>9 DEF SaveSnapshot, SaveCursor, SaveRaises, Persisted
  <2>4. main \in {"off", "stopped"} => task'[f] \in {"none", "done", "dead"}
    BY <1>9 DEF SaveSnapshot, SaveCursor, SaveRaises, Persisted
  <2> QED BY <2>1, <2>2, <2>3, <2>4
<1> QED
  BY <1>1, <1>2, <1>3, <1>4, <1>5, <1>6, <1>7, <1>8, <1>9 DEF Next, Persist

\* What the cursor says stays true as long as nothing is saved and every feed
\* keeps its poll or has ended it.
LEMMA CursorKept ==
    ASSUME CursorInv, UNCHANGED <<storeVars, savedVars>>,
           \A g \in Feeds :
              \/ /\ persist'[g] = persist[g] /\ after'[g] = after[g]
                 /\ fetched'[g] = fetched[g] /\ last'[g] = last[g]
                 /\ task'[g] = "fetch" => task[g] = "fetch"
              \/ persist'[g] = "none" /\ task'[g] # "fetch"
    PROVE  CursorInv'
  BY DEF CursorInv, CursorOf, storeVars, savedVars

\* The saved snapshot and what the cap passed over make up all that lies between
\* the stored cursor and that of the poll.
LEMMA SnapshotCovers ==
    ASSUME TypeOK, CursorInv, NEW f \in Feeds, SaveSnapshot(f), last[f] # None
    PROVE  1..last[f] \subseteq ever'[f] \cup truncated'[f]
<1>1. /\ last[f] \in 0..NumIndicators /\ cursor[f] \in 0..NumIndicators
      /\ NumIndicators \in Nat /\ Cap \in Nat /\ after[f] = cursor[f]
    BY DEF TypeOK, CursorInv, CursorOf, SaveSnapshot
<1>2. /\ ever'[f] = ever[f] \cup fetched[f]
      /\ truncated'[f] = truncated[f] \cup {i \in Ids : after[f] + Cap < i /\ i <= last[f]}
    BY DEF TypeOK, SaveSnapshot
<1>3. fetched[f] = {i \in Ids : after[f] < i /\ i <= last[f] /\ i <= after[f] + Cap}
    BY DEF CursorInv, CursorOf, SaveSnapshot
<1>4. 1..cursor[f] \subseteq ever[f] \cup truncated[f]
    BY DEF CursorInv, CursorOf
<1>5. ASSUME NEW i \in 1..last[f] PROVE i \in ever'[f] \cup truncated'[f]
  <2>1. i \in Ids
    BY <1>1 DEF Ids
  <2>2. CASE i <= after[f]
    BY <1>1, <1>2, <1>4, <2>2
  <2>3. CASE after[f] < i /\ i <= after[f] + Cap
    BY <1>1, <1>2, <1>3, <2>1, <2>3
  <2>4. CASE after[f] + Cap < i
    BY <1>1, <1>2, <2>1, <2>4
  <2> QED BY <1>1, <2>2, <2>3, <2>4
<1> QED BY <1>5

\* Every step keeps what is said of the cursor.
LEMMA NextCursorInv == TypeOK /\ TasksInv /\ CursorInv /\ [Next]_vars => CursorInv'
<1> SUFFICES ASSUME TypeOK, TasksInv, CursorInv, [Next]_vars PROVE CursorInv'
  OBVIOUS
<1>1. CASE Boot \/ End
  <2>1. /\ UNCHANGED <<storeVars, savedVars>>
        /\ \A g \in Feeds : persist'[g] = "none" /\ task'[g] # "fetch"
    BY <1>1 DEF Boot, End, Every, TasksInv
  <2> QED BY <2>1, CursorKept
<1>2. CASE Stop \/ Stopped \/ Matcher \/ UNCHANGED vars
  <2>1. /\ UNCHANGED <<storeVars, savedVars, pollVars, persist>>
        /\ \A g \in Feeds : task'[g] = "fetch" => task[g] = "fetch"
    BY <1>2 DEF Stop, Stopped, Matcher, Hear, Rebuild, ReadFeed, RebuildFails, vars
  <2> QED BY <2>1, CursorKept DEF pollVars
<1>3. ASSUME NEW f \in Feeds, Poll(f) \/ Leave(f) \/ WindowElapses(f) PROVE CursorInv'
  <2>1. /\ UNCHANGED <<storeVars, savedVars, pollVars, persist>>
        /\ \A g \in Feeds : task'[g] = "fetch" => task[g] = "fetch"
    BY <1>3 DEF Poll, Leave, WindowElapses, TypeOK
  <2> QED BY <2>1, CursorKept DEF pollVars
<1>4. ASSUME NEW f \in Feeds, LoadCursor(f) PROVE CursorInv'
  <2>1. /\ UNCHANGED <<storeVars, savedVars, persist, fetched, last>>
        /\ after'[f] = cursor[f] /\ persist[f] = "none"
        /\ \A g \in Feeds : g # f => after'[g] = after[g] /\ task'[g] = task[g]
    BY <1>4 DEF LoadCursor, TypeOK, TasksInv
  <2>2. CursorOf(f)'
    BY <2>1 DEF CursorInv, CursorOf, storeVars, savedVars
  <2>3. ASSUME NEW g \in Feeds, g # f PROVE CursorOf(g)'
    BY <2>1, <2>3 DEF CursorInv, CursorOf, storeVars, savedVars
  <2> QED BY <2>2, <2>3 DEF CursorInv
<1>5. ASSUME NEW f \in Feeds, PollRaises(f) \/ FetchFails(f) \/ SaveRaises(f) PROVE CursorInv'
  <2>1. UNCHANGED <<storeVars, savedVars>>
    BY <1>5 DEF PollRaises, FetchFails, SaveRaises
  <2>2. persist'[f] = "none" /\ task'[f] # "fetch"
    BY <1>5 DEF PollRaises, FetchFails, SaveRaises, Rest, TypeOK, TasksInv
  <2>3. \A g \in Feeds : g # f => /\ task'[g] = task[g] /\ persist'[g] = persist[g]
                                  /\ after'[g] = after[g] /\ last'[g] = last[g]
                                  /\ fetched'[g] = fetched[g]
    BY <1>5 DEF PollRaises, FetchFails, SaveRaises, Forget, TypeOK
  <2> QED BY <2>1, <2>2, <2>3, CursorKept
<1>6. ASSUME NEW f \in Feeds, NEW p \in 0..NumIndicators, Collected(f, p) PROVE CursorInv'
  <2>1. /\ UNCHANGED <<storeVars, savedVars, after>> /\ after[f] = cursor[f]
        /\ persist'[f] = "snapshot"
        /\ fetched'[f] = {i \in Ids : after[f] < i /\ i <= p /\ i <= after[f] + Cap}
        /\ last'[f] = IF p > after[f] THEN p ELSE None
    BY <1>6 DEF Collected, TypeOK, CursorInv, CursorOf
  <2>2. \A g \in Feeds : g # f => /\ task'[g] = task[g] /\ persist'[g] = persist[g]
                                  /\ last'[g] = last[g] /\ fetched'[g] = fetched[g]
    BY <1>6 DEF Collected, TypeOK
  <2>3. CursorOf(f)'
    BY <2>1 DEF CursorInv, CursorOf, storeVars, savedVars
  <2>4. ASSUME NEW g \in Feeds, g # f PROVE CursorOf(g)'
    BY <2>1, <2>2, <2>4 DEF CursorInv, CursorOf, storeVars, savedVars
  <2> QED BY <2>3, <2>4 DEF CursorInv
<1>7. ASSUME NEW f \in Feeds, SaveSnapshot(f) \/ SaveCursor(f) PROVE CursorInv'
  <2>1. \A g \in Feeds : g # f => /\ task'[g] = task[g] /\ persist'[g] = persist[g]
                                  /\ after'[g] = after[g] /\ last'[g] = last[g]
                                  /\ fetched'[g] = fetched[g] /\ cursor'[g] = cursor[g]
                                  /\ ever'[g] = ever[g] /\ truncated'[g] = truncated[g]
    BY <1>7 DEF SaveSnapshot, SaveCursor, Persisted, Forget, TypeOK, savedVars, pollVars
  <2>2. ASSUME NEW g \in Feeds, g # f PROVE CursorOf(g)'
    BY <2>1, <2>2 DEF CursorInv, CursorOf
  <2>3. task'[f] # "fetch"
    BY <1>7 DEF SaveSnapshot, SaveCursor, Persisted, Rest, TypeOK, TasksInv
  <2>4. CASE SaveSnapshot(f) /\ last[f] # None
    <3>1. persist'[f] = "cursor" /\ last'[f] = last[f] /\ cursor' = cursor
      BY <2>4 DEF SaveSnapshot, TypeOK, pollVars
    <3>2. ever[f] \cup truncated[f] \subseteq ever'[f] \cup truncated'[f]
      BY <2>4 DEF SaveSnapshot, TypeOK
    <3>3. 1..last[f] \subseteq ever'[f] \cup truncated'[f]
      BY <2>4, SnapshotCovers
    <3>4. CursorOf(f)'
      BY <2>3, <3>1, <3>2, <3>3 DEF CursorInv, CursorOf
    <3> QED BY <2>2, <3>4 DEF CursorInv
  <2>5. CASE SaveSnapshot(f) /\ last[f] = None
    <3>1. persist'[f] = "none" /\ cursor' = cursor
      BY <2>5 DEF SaveSnapshot, Persisted, TypeOK
    <3>2. ever[f] \cup truncated[f] \subseteq ever'[f] \cup truncated'[f]
      BY <2>5 DEF SaveSnapshot, TypeOK
    <3>3. CursorOf(f)'
      BY <2>3, <3>1, <3>2 DEF CursorInv, CursorOf
    <3> QED BY <2>2, <3>3 DEF CursorInv
  <2>6. CASE SaveCursor(f)
    <3>1. /\ persist'[f] = "none" /\ cursor'[f] = last[f] /\ UNCHANGED savedVars
          /\ persist[f] = "cursor"
      BY <2>6 DEF SaveCursor, Persisted, TypeOK
    <3>2. CursorOf(f)'
      BY <2>3, <3>1 DEF CursorInv, CursorOf, savedVars
    <3> QED BY <2>2, <3>2 DEF CursorInv
  <2> QED BY <1>7, <2>4, <2>5, <2>6
<1> QED
  BY <1>1, <1>2, <1>3, <1>4, <1>5, <1>6, <1>7 DEF Next, Persist
-----------------------------------------------------------------------------
(* The table of the matcher *)

\* A step that leaves the matcher and the snapshots alone, and ends no persist but
\* with the death of its poll, keeps what is said of them.
LEMMA SyncKept ==
    ASSUME ReadInv, TableInv, UNCHANGED <<matcherVars, snapshot>>,
           \A g \in Feeds : /\ persist[g] = "cursor" => persist'[g] = "cursor" \/ task'[g] = "dead"
                            /\ task[g] = "dead" => task'[g] = "dead"
    PROVE  ReadInv' /\ TableInv'
  BY DEF ReadInv, TableInv, Sync, matcherVars

\* A step of the matcher keeps it.
LEMMA MatcherStep ==
    ASSUME TypeOK, ReadInv, TableInv, Matcher
    PROVE  ReadInv' /\ TableInv'
<1> USE DEF ReadInv, TableInv, Sync, storeVars
<1>1. CASE Hear
  BY <1>1 DEF Hear
<1>2. CASE Rebuild
  BY <1>2 DEF Rebuild
<1>3. CASE RebuildFails
  BY <1>3 DEF RebuildFails
<1>4. ASSUME NEW f \in Feeds, ReadFeed(f) PROVE ReadInv' /\ TableInv'
  <2> DEFINE new == [read EXCEPT ![f] = snapshot[f]]
  <2>1. /\ UNCHANGED <<snapshot, persist, task, dirty>> /\ matcher = "build"
        /\ toRead' = toRead \ {f}
    BY <1>4 DEF ReadFeed
  <2>2. dirty # TRUE => \A g \in Feeds \ toRead' : Sync(new, g)
    BY <2>1 DEF TypeOK
  <2>3. CASE toRead = {f}
    <3>1. table' = new /\ matcher' = "wait" /\ toRead' = {}
      BY <1>4, <2>3 DEF ReadFeed
    <3> HIDE DEF new
    <3> QED BY <2>1, <2>2, <3>1
  <2>4. CASE toRead # {f}
    <3>1. read' = new /\ matcher' = "build"
      BY <1>4, <2>4 DEF ReadFeed
    <3> HIDE DEF new
    <3> QED BY <2>1, <2>2, <3>1
  <2> QED BY <2>3, <2>4
<1> QED BY <1>1, <1>2, <1>3, <1>4 DEF Matcher

\* Every step keeps what is said of the matcher.
LEMMA NextTableInv ==
    TypeOK /\ TasksInv /\ ReadInv /\ TableInv /\ [Next]_vars => ReadInv' /\ TableInv'
<1> SUFFICES ASSUME TypeOK, TasksInv, ReadInv, TableInv, [Next]_vars
             PROVE  ReadInv' /\ TableInv'
  OBVIOUS
<1>1. ASSUME matcher' = "off" PROVE ReadInv' /\ TableInv'
  BY <1>1 DEF ReadInv, TableInv
<1>2. ASSUME dirty' = TRUE PROVE ReadInv' /\ TableInv'
  BY <1>2 DEF ReadInv, TableInv
<1>3. CASE Boot
  BY <1>3 DEF Boot, ReadInv, TableInv, Sync, storeVars
<1>4. CASE Stop \/ Stopped \/ End
  BY <1>1, <1>4 DEF Stop, Stopped, End, TasksInv, matcherVars
<1>5. CASE Matcher
  BY <1>5, MatcherStep
<1>6. ASSUME NEW f \in Feeds, Poll(f) \/ LoadCursor(f) \/ PollRaises(f) \/ Leave(f) \/ WindowElapses(f)
      PROVE  ReadInv' /\ TableInv'
  <2>1. UNCHANGED <<matcherVars, snapshot, persist>>
    BY <1>6 DEF Poll, LoadCursor, PollRaises, Leave, WindowElapses, storeVars
  <2>2. \A g \in Feeds : task[g] = "dead" => task'[g] = "dead"
    BY <1>6 DEF Poll, LoadCursor, PollRaises, Leave, WindowElapses, TypeOK
  <2> QED BY <2>1, <2>2, SyncKept
<1>7. ASSUME NEW f \in Feeds, FetchFails(f) PROVE ReadInv' /\ TableInv'
  <2>1. UNCHANGED <<matcherVars, snapshot, persist>>
    BY <1>7 DEF FetchFails, storeVars
  <2>2. \A g \in Feeds : task[g] = "dead" => task'[g] = "dead"
    BY <1>7 DEF FetchFails, TypeOK
  <2> QED BY <2>1, <2>2, SyncKept
<1>8. ASSUME NEW f \in Feeds, NEW p \in 0..NumIndicators, Collected(f, p)
      PROVE  ReadInv' /\ TableInv'
  <2>1. UNCHANGED <<matcherVars, snapshot>> /\ persist[f] = "none"
    BY <1>8 DEF Collected, storeVars, TasksInv
  <2>2. \A g \in Feeds : /\ task[g] = "dead" => task'[g] = "dead"
                         /\ g # f => persist'[g] = persist[g]
    BY <1>8 DEF Collected, TypeOK
  <2> QED BY <2>1, <2>2, SyncKept
<1>9. ASSUME NEW f \in Feeds, SaveSnapshot(f) PROVE ReadInv' /\ TableInv'
  <2>1. CASE last[f] = None
    BY <1>2, <1>9, <2>1 DEF SaveSnapshot, Persisted
  <2>2. CASE last[f] # None
    <3>1. /\ UNCHANGED <<matcherVars, task>> /\ persist'[f] = "cursor"
          /\ \A g \in Feeds : g # f => snapshot'[g] = snapshot[g] /\ persist'[g] = persist[g]
      BY <1>9, <2>2 DEF SaveSnapshot, matcherVars, TypeOK
    <3> QED BY <3>1 DEF ReadInv, TableInv, Sync, matcherVars
  <2> QED BY <2>1, <2>2
<1>10. ASSUME NEW f \in Feeds, SaveCursor(f) PROVE ReadInv' /\ TableInv'
  BY <1>2, <1>10 DEF SaveCursor, Persisted
<1>11. ASSUME NEW f \in Feeds, SaveRaises(f) PROVE ReadInv' /\ TableInv'
  <2>1. UNCHANGED <<matcherVars, snapshot>>
    BY <1>11 DEF SaveRaises, storeVars
  <2>2. CASE main = "up"
    <3>1. \A g \in Feeds : /\ task[g] = "dead" => task'[g] = "dead"
                           /\ g # f => persist'[g] = persist[g]
      BY <1>11 DEF SaveRaises, TypeOK
    <3>2. task'[f] = "dead"
      BY <1>11, <2>2 DEF SaveRaises, TypeOK, TasksInv
    <3> QED BY <2>1, <3>1, <3>2, SyncKept
  <2>3. CASE main # "up"
    BY <1>1, <2>1, <2>3 DEF TasksInv, matcherVars
  <2> QED BY <2>2, <2>3
<1>12. CASE UNCHANGED vars
  BY <1>12, SyncKept DEF vars, storeVars
<1> QED
  BY <1>3, <1>4, <1>5, <1>6, <1>7, <1>8, <1>9, <1>10, <1>11, <1>12 DEF Next, Persist
-----------------------------------------------------------------------------
(* The theorems *)

\* The invariant holds in every state of any number of sessions.
LEMMA Inductive == Spec => []IInv
<1>1. IInv /\ [Next]_vars => IInv'
  BY NextTypeOK, NextBreakerInv, NextTasksInv, NextCursorInv, NextTableInv DEF IInv
<1> QED
  BY InitIInv, <1>1, PTL DEF Spec

\* The type invariant; the breaker never counts past its threshold.
THEOREM Typed == Spec => []TypeOK
<1>1. IInv => TypeOK
  BY DEF IInv
<1> QED
  BY Inductive, <1>1, PTL

\* The stored cursor passes over no indicator that was neither in a saved snapshot
\* nor cut off by the cap, whatever was cancelled, failed or killed.
THEOREM CursorSkipsNothing == Spec => []NothingSkipped
<1>1. IInv => NothingSkipped
  BY DEF IInv, CursorInv, CursorOf, NothingSkipped
<1> QED
  BY Inductive, <1>1, PTL

\* After as many auth failures in a row as the threshold says, a feed is left alone
\* until a whole window has passed since the last of them.
THEOREM BreakerPauses == Spec => []PausedAfterStrikes
<1>1. IInv => PausedAfterStrikes
  <2> SUFFICES ASSUME IInv, NEW f \in Feeds, strikes[f] = Threshold, ~cooled[f]
               PROVE  task[f] \notin Polling
    BY DEF PausedAfterStrikes, Polling
  <2>1. cooled[f] = FALSE
    BY Zenon DEF IInv, TypeOK
  <2> QED BY <2>1 DEF IInv, BreakerInv, BreakerOf
<1> QED
  BY Inductive, <1>1, PTL

\* A matcher at rest has the snapshots that are stored, however the polls of the
\* feeds, the debounce and the reads of a rebuild fell together.
THEOREM MatcherConverges == Spec => []Converged
<1>1. IInv => Converged
  <2> SUFFICES ASSUME IInv, matcher = "wait", ~dirty, ~failed, NEW f \in Feeds
               PROVE  Sync(table, f)
    BY DEF Converged, Sync
  <2>1. dirty # TRUE /\ failed # TRUE
    BY Zenon
  <2> QED BY <2>1 DEF IInv, TableInv
<1> QED
  BY Inductive, <1>1, PTL

-----------------------------------------------------------------------------
(* The cursors *)

\* A cursor about to be saved is past the one that is stored.
AheadOf(f) ==
    persist[f] = "cursor" \/ (persist[f] = "snapshot" /\ last[f] # None) => cursor[f] < last[f]

AheadInv == \A f \in Feeds : AheadOf(f)

\* The cursors on disk move, from one feed to the next, forward only.
CursorAdvances == [][\A f \in Feeds : cursor[f] <= cursor'[f]]_vars

\* A feed whose persist a step leaves alone, or ends.
LEMMA AheadKept ==
    ASSUME AheadInv, UNCHANGED cursor,
           \A f \in Feeds : persist'[f] = "none"
                              \/ (persist'[f] = persist[f] /\ last'[f] = last[f])
    PROVE  AheadInv'
  BY DEF AheadInv, AheadOf

\* Every step keeps what is said of the cursors, and takes none of them back.
LEMMA NextAhead ==
    TypeOK /\ TasksInv /\ CursorInv /\ AheadInv /\ [Next]_vars =>
        AheadInv' /\ \A f \in Feeds : cursor[f] <= cursor'[f]
<1> SUFFICES ASSUME TypeOK, TasksInv, CursorInv, AheadInv, [Next]_vars
             PROVE  AheadInv' /\ \A f \in Feeds : cursor[f] <= cursor'[f]
  OBVIOUS
<1>0. \A f \in Feeds : cursor[f] \in Nat /\ cursor[f] <= cursor[f] /\ last[f] \in Nat
  BY DEF TypeOK
<1>1. CASE Boot \/ End
  <2>1. UNCHANGED cursor /\ \A f \in Feeds : persist'[f] = "none"
    BY <1>1 DEF Boot, End, Every, TasksInv, storeVars
  <2> QED BY <1>0, <2>1, AheadKept
<1>2. CASE Stop \/ Stopped \/ Matcher \/ UNCHANGED vars
  <2>1. UNCHANGED <<cursor, persist, last>>
    BY <1>2 DEF Stop, Stopped, Matcher, Hear, Rebuild, ReadFeed, RebuildFails, vars, storeVars,
       pollVars
  <2> QED BY <1>0, <2>1, AheadKept
<1>3. ASSUME NEW f \in Feeds, Poll(f) \/ Leave(f) \/ WindowElapses(f) \/ LoadCursor(f)
      PROVE  AheadInv' /\ \A g \in Feeds : cursor[g] <= cursor'[g]
  <2>1. UNCHANGED <<cursor, persist, last>>
    BY <1>3 DEF Poll, Leave, WindowElapses, LoadCursor, storeVars, pollVars
  <2> QED BY <1>0, <2>1, AheadKept
<1>4. ASSUME NEW f \in Feeds, PollRaises(f) \/ FetchFails(f) \/ SaveRaises(f)
      PROVE  AheadInv' /\ \A g \in Feeds : cursor[g] <= cursor'[g]
  <2>1. UNCHANGED cursor /\ persist'[f] = "none"
    BY <1>4 DEF PollRaises, FetchFails, SaveRaises, storeVars, TasksInv, TypeOK
  <2>2. \A g \in Feeds : g # f => persist'[g] = persist[g] /\ last'[g] = last[g]
    BY <1>4 DEF PollRaises, FetchFails, SaveRaises, Forget, TypeOK
  <2> QED BY <1>0, <2>1, <2>2, AheadKept
<1>5. ASSUME NEW f \in Feeds, NEW p \in 0..NumIndicators, Collected(f, p)
      PROVE  AheadInv' /\ \A g \in Feeds : cursor[g] <= cursor'[g]
  <2>1. /\ UNCHANGED cursor /\ persist'[f] = "snapshot" /\ after[f] = cursor[f]
        /\ last'[f] = IF p > after[f] THEN p ELSE None
        /\ \A g \in Feeds : g # f => persist'[g] = persist[g] /\ last'[g] = last[g]
    BY <1>5 DEF Collected, CursorInv, CursorOf, TypeOK, storeVars
  <2>2. AheadOf(f)'
    BY <1>0, <2>1 DEF AheadOf
  <2>3. ASSUME NEW g \in Feeds, g # f PROVE AheadOf(g)'
    BY <2>1, <2>3 DEF AheadInv, AheadOf
  <2> QED BY <1>0, <2>1, <2>2, <2>3 DEF AheadInv
<1>6. ASSUME NEW f \in Feeds, SaveSnapshot(f)
      PROVE  AheadInv' /\ \A g \in Feeds : cursor[g] <= cursor'[g]
  <2>1. UNCHANGED cursor
    BY <1>6 DEF SaveSnapshot
  <2>2. CASE last[f] = None
    <3>1. /\ persist'[f] = "none"
          /\ \A g \in Feeds : g # f => persist'[g] = persist[g] /\ last'[g] = last[g]
      BY <1>6, <2>2 DEF SaveSnapshot, Persisted, Forget, TypeOK
    <3> QED BY <1>0, <2>1, <3>1, AheadKept
  <2>3. CASE last[f] # None
    <3>1. /\ persist[f] = "snapshot" /\ last' = last
          /\ \A g \in Feeds : g # f => persist'[g] = persist[g]
      BY <1>6, <2>3 DEF SaveSnapshot, pollVars, TypeOK
    <3>2. cursor[f] < last[f]
      BY <2>3, <3>1 DEF AheadInv, AheadOf
    <3> QED BY <1>0, <2>1, <3>1, <3>2 DEF AheadInv, AheadOf
  <2> QED BY <2>2, <2>3
<1>7. ASSUME NEW f \in Feeds, SaveCursor(f)
      PROVE  AheadInv' /\ \A g \in Feeds : cursor[g] <= cursor'[g]
  <2>1. /\ persist'[f] = "none" /\ cursor'[f] = last[f] /\ cursor[f] < last[f]
        /\ \A g \in Feeds : g # f => /\ persist'[g] = persist[g] /\ last'[g] = last[g]
                                     /\ cursor'[g] = cursor[g]
    BY <1>7 DEF SaveCursor, Persisted, Forget, TypeOK, AheadInv, AheadOf
  <2>2. AheadInv'
    BY <2>1 DEF AheadInv, AheadOf
  <2>3. ASSUME NEW g \in Feeds PROVE cursor[g] <= cursor'[g]
    BY <1>0, <2>1
  <2> QED BY <2>2, <2>3
<1> QED
  BY <1>1, <1>2, <1>3, <1>4, <1>5, <1>6, <1>7 DEF Next, Persist

\* The cursor of a feed never moves back.
THEOREM CursorsAdvance == Spec => CursorAdvances
<1>1. Init => AheadInv
  BY DEF Init, AheadInv, AheadOf, Every
<1>2. IInv /\ AheadInv /\ [Next]_vars => AheadInv' /\ \A f \in Feeds : cursor[f] <= cursor'[f]
  BY NextAhead DEF IInv
<1>3. Spec => []AheadInv
  BY <1>1, <1>2, Inductive, PTL DEF Spec
<1>4. IInv /\ AheadInv /\ [Next]_vars => [\A f \in Feeds : cursor[f] <= cursor'[f]]_vars
  BY <1>2
<1> QED
  BY <1>3, <1>4, Inductive, PTL DEF Spec, CursorAdvances
=============================================================================
