---------------------------- MODULE ThreatIntel ----------------------------
(***************************************************************************)
(* Threat intelligence: a TAXIIFeedConsumer with its AuthCircuitBreaker    *)
(* for every feed, the state they keep in the store, the IoCMatcher that   *)
(* rebuilds its table from it, and the starts and ends of the session.     *)
(*                                                                         *)
(* The indicators of a feed are 1, 2, ... in the order they were added; a  *)
(* cursor is the last one a poll has seen.                                 *)
(***************************************************************************)
EXTENDS Naturals, FiniteSets

CONSTANTS
    Feeds,          \* the enabled feeds
    NumIndicators,  \* bound: indicators a feed publishes
    Cap,            \* max_indicators_per_feed
    Threshold,      \* of the circuit breaker
    MaxPolls,       \* bound: polls of all feeds together
    MaxBoots        \* bound: sessions

Ids == 1..NumIndicators
None == 0           \* no cursor

ASSUME IntelAssumption ==
    /\ NumIndicators \in Nat /\ Cap \in Nat \ {0} /\ Threshold \in Nat \ {0}
    /\ MaxPolls \in Nat /\ MaxBoots \in Nat

VARIABLES
    main, boots, polls,     \* the session
    task, persist,          \* run_forever of each feed, and its shielded _persist
    after, fetched, last,   \* of the poll: the cursor it loaded and what it got
    snapshot, cursor,       \* taxii:snapshot:* and taxii:cursor:* in the store
    failures, opened, halfOpen,         \* AuthCircuitBreaker, the window by its age
    matcher, dirty, table, read, toRead, failed,    \* IoCMatcher
    ever, truncated,        \* history: indicators saved, and passed over by the cap
    strikes, cooled         \* history: auth failures in a row, a window since the last

pollVars    == <<after, fetched, last>>
storeVars   == <<snapshot, cursor>>
breakerVars == <<failures, opened, halfOpen>>
matcherVars == <<matcher, dirty, table, read, toRead, failed>>
sessionVars == <<main, boots>>
savedVars   == <<ever, truncated>>
strikeVars  == <<strikes, cooled>>
vars == <<sessionVars, polls, task, persist, pollVars, storeVars, breakerVars,
          matcherVars, savedVars, strikeVars>>

Every(x) == [f \in Feeds |-> x]

Init ==
    /\ main = "off" /\ boots = 0 /\ polls = 0
    /\ task = Every("none") /\ persist = Every("none")
    /\ after = Every(None) /\ fetched = Every({}) /\ last = Every(None)
    /\ snapshot = Every({}) /\ cursor = Every(None)
    /\ failures = Every(0) /\ opened = Every("no") /\ halfOpen = Every(FALSE)
    /\ matcher = "off" /\ dirty = FALSE /\ table = Every({}) /\ read = Every({})
    /\ toRead = {} /\ failed = FALSE
    /\ ever = Every({}) /\ truncated = Every({})
    /\ strikes = Every(0) /\ cooled = Every(FALSE)
-----------------------------------------------------------------------------
(* The session: _build_threat_intel, teardown() and the death of a process *)

\* The matcher has refreshed itself before the first poll; its event exists.
Boot ==
    /\ main = "off" /\ boots < MaxBoots
    /\ main' = "up" /\ boots' = boots + 1
    /\ task' = Every("wait") /\ matcher' = "wait" /\ dirty' = FALSE
    /\ \/ table' = snapshot /\ failed' = FALSE
       \/ table' = Every({}) /\ failed' = TRUE
    /\ failures' = Every(0) /\ opened' = Every("no") /\ halfOpen' = Every(FALSE)
    /\ strikes' = Every(0) /\ cooled' = Every(FALSE)
    /\ UNCHANGED <<polls, persist, pollVars, storeVars, read, toRead, savedVars>>

\* IoCMatcher.stop(), then TAXIIFeedManager.stop() sets its event.
Stop ==
    /\ main = "up" /\ main' = "stopping"
    /\ matcher' = "off" /\ toRead' = {} /\ read' = Every({})
    /\ UNCHANGED <<boots, polls, task, persist, pollVars, storeVars, breakerVars,
                   dirty, table, failed, savedVars, strikeVars>>

\* All consumers are done, or two seconds are over and those that are not get
\* cancelled.  A persist under way is shielded and goes on by itself.
Stopped ==
    /\ main = "stopping" /\ main' = "stopped"
    /\ task' = [f \in Feeds |-> IF task[f] = "dead" THEN "dead" ELSE "done"]
    /\ UNCHANGED <<boots, polls, persist, pollVars, storeVars, breakerVars,
                   matcherVars, savedVars, strikeVars>>

\* The process ends, after storage.close() or killed at any moment before.
End ==
    /\ main # "off" /\ main' = "off"
    /\ task' = Every("none") /\ persist' = Every("none")
    /\ after' = Every(None) /\ fetched' = Every({}) /\ last' = Every(None)
    /\ failures' = Every(0) /\ opened' = Every("no") /\ halfOpen' = Every(FALSE)
    /\ strikes' = Every(0) /\ cooled' = Every(FALSE)
    /\ matcher' = "off" /\ dirty' = FALSE /\ table' = Every({}) /\ read' = Every({})
    /\ toRead' = {} /\ failed' = FALSE
    /\ UNCHANGED <<boots, polls, storeVars, savedVars>>
-----------------------------------------------------------------------------
(* AuthCircuitBreaker *)

\* open_seconds have passed since _opened_at.
WindowElapses(f) ==
    /\ opened[f] = "fresh"
    /\ opened' = [opened EXCEPT ![f] = "elapsed"]
    /\ cooled' = [cooled EXCEPT ![f] = TRUE]
    /\ UNCHANGED <<sessionVars, polls, task, persist, pollVars, storeVars, failures,
                   halfOpen, matcherVars, savedVars, strikes>>

Allow(f) == opened[f] # "fresh"

RecordSuccess(f) ==
    /\ failures' = [failures EXCEPT ![f] = 0]
    /\ opened' = [opened EXCEPT ![f] = "no"]
    /\ halfOpen' = [halfOpen EXCEPT ![f] = FALSE]
    /\ strikes' = [strikes EXCEPT ![f] = 0]
    /\ cooled' = [cooled EXCEPT ![f] = FALSE]

\* Mutant: the window of a failed probe is not opened again.
RecordFailureOnce(f) ==
    /\ IF halfOpen[f]
       THEN halfOpen' = [halfOpen EXCEPT ![f] = FALSE] /\ UNCHANGED <<failures, opened>>
       ELSE /\ failures' = [failures EXCEPT ![f] = @ + 1]
            /\ opened' = [opened EXCEPT ![f] =
                             IF failures[f] + 1 >= Threshold THEN "fresh" ELSE @]
            /\ halfOpen' = halfOpen
    /\ strikes' = [strikes EXCEPT ![f] = IF @ < Threshold THEN @ + 1 ELSE @]
    /\ cooled' = [cooled EXCEPT ![f] = FALSE]

RecordFailure(f) ==
    /\ IF halfOpen[f]
       THEN /\ opened' = [opened EXCEPT ![f] = "fresh"]
            /\ halfOpen' = [halfOpen EXCEPT ![f] = FALSE]
            /\ failures' = failures
       ELSE /\ failures' = [failures EXCEPT ![f] = @ + 1]
            /\ opened' = [opened EXCEPT ![f] =
                             IF failures[f] + 1 >= Threshold THEN "fresh" ELSE @]
            /\ halfOpen' = halfOpen
    /\ strikes' = [strikes EXCEPT ![f] = IF @ < Threshold THEN @ + 1 ELSE @]
    /\ cooled' = [cooled EXCEPT ![f] = FALSE]
-----------------------------------------------------------------------------
(* TAXIIFeedConsumer: run_forever and poll_once *)

\* Where run_forever goes when a poll returns.
Rest == IF main = "up" THEN "wait" ELSE "done"

\* The interval is over.  An open circuit lets no request out until its window
\* has elapsed; then it is half-open, and stays so until a result is recorded.
Poll(f) ==
    /\ main = "up" /\ task[f] = "wait" /\ polls < MaxPolls /\ Allow(f)
    /\ polls' = polls + 1
    /\ task' = [task EXCEPT ![f] = "load"]
    /\ halfOpen' = [halfOpen EXCEPT ![f] = @ \/ opened[f] = "elapsed"]
    /\ UNCHANGED <<sessionVars, persist, pollVars, storeVars, failures, opened,
                   matcherVars, savedVars, strikeVars>>

\* run_forever is told to stop while it waits for the interval.
Leave(f) ==
    /\ main = "stopping" /\ task[f] = "wait"
    /\ task' = [task EXCEPT ![f] = "done"]
    /\ UNCHANGED <<sessionVars, polls, persist, pollVars, storeVars, breakerVars,
                   matcherVars, savedVars, strikeVars>>

\* The locals of a poll that has ended are garbage.
Forget(f) ==
    /\ after' = [after EXCEPT ![f] = None] /\ fetched' = [fetched EXCEPT ![f] = {}]
    /\ last' = [last EXCEPT ![f] = None]

LoadCursor(f) ==
    /\ task[f] = "load"
    /\ task' = [task EXCEPT ![f] = "fetch"] /\ after' = [after EXCEPT ![f] = cursor[f]]
    /\ UNCHANGED <<sessionVars, polls, persist, fetched, last, storeVars, breakerVars,
                   matcherVars, savedVars, strikeVars>>

\* An exception poll_once does not catch, from the store or the parser, ends
\* run_forever, and nobody looks at the task.
PollRaises(f) ==
    /\ task[f] \in {"load", "fetch"} /\ task' = [task EXCEPT ![f] = "dead"]
    /\ Forget(f)
    /\ UNCHANGED <<sessionVars, polls, persist, storeVars, breakerVars,
                   matcherVars, savedVars, strikeVars>>

\* GetWithRetryError: a 401 or 403 counts with the breaker, nothing else does.
FetchFails(f) ==
    /\ task[f] = "fetch" /\ task' = [task EXCEPT ![f] = Rest]
    /\ RecordFailure(f) \/ UNCHANGED <<breakerVars, strikeVars>>
    /\ Forget(f)
    /\ UNCHANGED <<sessionVars, polls, persist, storeVars, matcherVars, savedVars>>

\* Mutant: the marker of an empty page is taken for the next indicator.
CollectedMarker(f, p) ==
    /\ task[f] = "fetch" /\ p >= after[f]
    /\ fetched' = [fetched EXCEPT ![f] = {i \in 1..(p + 1) : after[f] < i
                                                      /\ i <= after[f] + Cap}]
    /\ last' = [last EXCEPT ![f] = p + 1]
    /\ task' = [task EXCEPT ![f] = "persist"]
    /\ persist' = [persist EXCEPT ![f] = "snapshot"]
    /\ UNCHANGED <<sessionVars, polls, after, storeVars, breakerVars, matcherVars,
                   savedVars, strikeVars>>

\* All pages are read: the first indicators after the cursor are collected, and
\* those beyond the cap passed over.  A poll that finds none has no cursor.
Collected(f, p) ==
    /\ task[f] = "fetch" /\ p >= after[f]
    /\ fetched' = [fetched EXCEPT ![f] = {i \in Ids : after[f] < i /\ i <= p
                                                      /\ i <= after[f] + Cap}]
    /\ last' = [last EXCEPT ![f] = IF p > after[f] THEN p ELSE None]
    /\ task' = [task EXCEPT ![f] = "persist"]
    /\ persist' = [persist EXCEPT ![f] = "snapshot"]
    /\ UNCHANGED <<sessionVars, polls, after, storeVars, breakerVars, matcherVars,
                   savedVars, strikeVars>>

\* The end of _persist tells the matcher; the poll, if it still waits, succeeds.
Persisted(f) ==
    /\ persist' = [persist EXCEPT ![f] = "none"] /\ dirty' = TRUE /\ Forget(f)
    /\ IF task[f] = "persist"
       THEN RecordSuccess(f) /\ task' = [task EXCEPT ![f] = Rest]
       ELSE UNCHANGED <<breakerVars, strikeVars, task>>

\* Mutant: the cursor is saved first.
SaveCursorFirst(f) ==
    /\ persist[f] = "snapshot"
    /\ cursor' = [cursor EXCEPT ![f] = IF last[f] = None THEN @ ELSE last[f]]
    /\ persist' = [persist EXCEPT ![f] = "cursor"]
    /\ UNCHANGED <<sessionVars, polls, task, pollVars, snapshot, breakerVars,
                   matcherVars, savedVars, strikeVars>>

\* The snapshot of this poll takes the place of the one before.
SaveSnapshot(f) ==
    /\ persist[f] = "snapshot"
    /\ snapshot' = [snapshot EXCEPT ![f] = fetched[f]]
    /\ ever' = [ever EXCEPT ![f] = @ \cup fetched[f]]
    /\ truncated' = [truncated EXCEPT ![f] =
                        @ \cup {i \in Ids : after[f] + Cap < i /\ i <= last[f]}]
    /\ IF last[f] # None
       THEN persist' = [persist EXCEPT ![f] = "cursor"]
            /\ UNCHANGED <<task, dirty, pollVars, breakerVars, strikeVars>>
       ELSE Persisted(f)
    /\ UNCHANGED <<sessionVars, polls, cursor, matcher, table, read,
                   toRead, failed>>

SaveCursor(f) ==
    /\ persist[f] = "cursor"
    /\ cursor' = [cursor EXCEPT ![f] = last[f]]
    /\ Persisted(f)
    /\ UNCHANGED <<sessionVars, polls, snapshot, matcher, table, read,
                   toRead, failed, savedVars>>

\* save_state raises, into the poll if that still waits.
SaveRaises(f) ==
    /\ persist[f] # "none" /\ persist' = [persist EXCEPT ![f] = "none"]
    /\ task' = [task EXCEPT ![f] = IF @ = "persist" THEN "dead" ELSE @]
    /\ Forget(f)
    /\ UNCHANGED <<sessionVars, polls, storeVars, breakerVars, matcherVars,
                   savedVars, strikeVars>>
-----------------------------------------------------------------------------
(* IoCMatcher: _run_loop and refresh *)

Hear ==
    /\ matcher = "wait" /\ dirty /\ matcher' = "sleep"
    /\ UNCHANGED <<sessionVars, polls, task, persist, pollVars, storeVars, breakerVars,
                   dirty, table, read, toRead, failed, savedVars, strikeVars>>

\* Mutant: the debounce goes on while the event is set.
RebuildIfQuiet ==
    /\ matcher = "sleep" /\ ~dirty /\ matcher' = "build"
    /\ toRead' = Feeds /\ dirty' = FALSE
    /\ UNCHANGED <<sessionVars, polls, task, persist, pollVars, storeVars, breakerVars,
                   table, read, failed, savedVars, strikeVars>>

\* The debounce is over: the event is cleared before the feeds are read.
Rebuild ==
    /\ matcher = "sleep" /\ matcher' = "build"
    /\ toRead' = Feeds /\ dirty' = FALSE
    /\ UNCHANGED <<sessionVars, polls, task, persist, pollVars, storeVars, breakerVars,
                   table, read, failed, savedVars, strikeVars>>

\* Mutant: the event is cleared when the table is there.
ReadFeedAndClear(f) ==
    /\ matcher = "build" /\ f \in toRead
    /\ toRead' = toRead \ {f}
    /\ IF toRead = {f}
       THEN /\ table' = [read EXCEPT ![f] = snapshot[f]] /\ read' = Every({})
            /\ matcher' = "wait" /\ failed' = FALSE /\ dirty' = FALSE
       ELSE /\ read' = [read EXCEPT ![f] = snapshot[f]]
            /\ UNCHANGED <<table, matcher, failed, dirty>>
    /\ UNCHANGED <<sessionVars, polls, task, persist, pollVars, storeVars, breakerVars,
                   savedVars, strikeVars>>

\* The snapshots are loaded one by one; with the last the new table is there.
ReadFeed(f) ==
    /\ matcher = "build" /\ f \in toRead
    /\ toRead' = toRead \ {f}
    /\ IF toRead = {f}
       THEN /\ table' = [read EXCEPT ![f] = snapshot[f]] /\ read' = Every({})
            /\ matcher' = "wait" /\ failed' = FALSE
       ELSE /\ read' = [read EXCEPT ![f] = snapshot[f]]
            /\ UNCHANGED <<table, matcher, failed>>
    /\ UNCHANGED <<sessionVars, polls, task, persist, pollVars, storeVars, breakerVars,
                   dirty, savedVars, strikeVars>>

\* A load or the new filter fails: the table stays.
RebuildFails ==
    /\ matcher = "build"
    /\ matcher' = "wait" /\ failed' = TRUE /\ toRead' = {} /\ read' = Every({})
    /\ UNCHANGED <<sessionVars, polls, task, persist, pollVars, storeVars, breakerVars,
                   dirty, table, savedVars, strikeVars>>

Persist(f) == SaveSnapshot(f) \/ SaveCursor(f) \/ SaveRaises(f)
Matcher    == Hear \/ Rebuild \/ (\E f \in Feeds : ReadFeed(f)) \/ RebuildFails

Next ==
    \/ Boot \/ Stop \/ Stopped \/ End \/ Matcher
    \/ \E f \in Feeds : \/ Poll(f) \/ Leave(f) \/ LoadCursor(f) \/ PollRaises(f)
                        \/ FetchFails(f) \/ Persist(f) \/ WindowElapses(f)
                        \/ \E p \in 0..NumIndicators : Collected(f, p)

\* A call to the store comes to an end, and the event loop runs the matcher.
Fairness == WF_vars(Matcher) /\ \A f \in Feeds : WF_vars(Persist(f))

Spec == Init /\ [][Next]_vars
FairSpec == Spec /\ Fairness
-----------------------------------------------------------------------------
\* The type invariant: cursors and snapshots are of indicators the feed has
\* published, and the breaker counts no further than its threshold.
TypeOK ==
    /\ main \in {"off", "up", "stopping", "stopped"}
    /\ boots \in 0..MaxBoots /\ polls \in 0..MaxPolls
    /\ task \in [Feeds -> {"none", "wait", "load", "fetch", "persist", "done", "dead"}]
    /\ persist \in [Feeds -> {"none", "snapshot", "cursor"}]
    /\ after \in [Feeds -> 0..NumIndicators] /\ last \in [Feeds -> 0..NumIndicators]
    /\ cursor \in [Feeds -> 0..NumIndicators]
    /\ fetched \in [Feeds -> SUBSET Ids] /\ snapshot \in [Feeds -> SUBSET Ids]
    /\ table \in [Feeds -> SUBSET Ids] /\ read \in [Feeds -> SUBSET Ids]
    /\ ever \in [Feeds -> SUBSET Ids] /\ truncated \in [Feeds -> SUBSET Ids]
    /\ failures \in [Feeds -> 0..Threshold] /\ strikes \in [Feeds -> 0..Threshold]
    /\ opened \in [Feeds -> {"no", "fresh", "elapsed"}]
    /\ halfOpen \in [Feeds -> BOOLEAN] /\ cooled \in [Feeds -> BOOLEAN]
    /\ matcher \in {"off", "wait", "sleep", "build"} /\ toRead \subseteq Feeds
    /\ dirty \in BOOLEAN /\ failed \in BOOLEAN

\* The cursor on disk passes over no indicator: every one up to it has been in a
\* saved snapshot or was truncated, whatever was cancelled, failed or killed.
NothingSkipped ==
    \A f \in Feeds : 1..cursor[f] \subseteq ever[f] \cup truncated[f]

\* A matcher that rests with its event clear has the snapshots that are stored,
\* unless its last rebuild failed, the _persist of a feed has yet to signal, or
\* it died between the two saves.
Converged ==
    matcher = "wait" /\ ~dirty /\ ~failed => \A f \in Feeds :
        table[f] = snapshot[f] \/ persist[f] = "cursor" \/ task[f] = "dead"

\* After Threshold auth failures without a success between them no request goes
\* out until a whole window has passed since the last of them.
PausedAfterStrikes ==
    \A f \in Feeds : strikes[f] = Threshold /\ ~cooled[f]
                     => task[f] \notin {"load", "fetch", "persist"}

Stale(f) == matcher # "off" /\ table[f] # snapshot[f]

\* A saved snapshot reaches the table of the matcher, however polls, rebuilds and
\* the debounce fall together, unless a rebuild or the save of the cursor fails.
SnapshotReaches ==
    \A f \in Feeds : Stale(f) ~> \/ ~Stale(f) \/ failed \/ task[f] = "dead"
=============================================================================
