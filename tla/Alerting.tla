------------------------------ MODULE Alerting ------------------------------
(***************************************************************************)
(* From an event to an alert and the verdicts on it: the stages of the     *)
(* handler, the KillChainTracker they feed, the alert table with its dedup *)
(* windows, and the feedback requests of the API.                          *)
(*                                                                         *)
(* One entity, whose stages raise one alert an event at most.  Every source *)
(* has a rule, a dedup key and a MITRE tactic of its own.  The id of an    *)
(* alert is a UUID5 of its key and its time, so the time stands for it.     *)
(***************************************************************************)
EXTENDS Integers, Sequences, FiniteSets, Functions

CONSTANTS
    Stages,         \* of the handler, in its order
    Times,          \* timestamps of events
    DedupWindow,    \* dedup_window_ns
    KillWindow,     \* window_seconds of the tracker
    TacticThreshold,
    Requests,       \* feedback requests
    Verdicts,       \* true or false positive
    MaxEvents,      \* bound: events the handler gets
    MaxRestarts     \* bound: ends of the process

Sources  == Range(Stages) \ {"store"}
Keys     == Sources \cup {"kill-chain"}
None     == "none"
NoTime   == -1
NoRow    == [id |-> NoTime]

ASSUME AlertingAssumption ==
    /\ Range(Stages) \subseteq {"ueba", "ioc", "correlation", "graph", "store", "ml",
                                "sigma", "risk", "algorithms"}
    /\ \A i, j \in DOMAIN Stages : Stages[i] = Stages[j] => i = j
    /\ Stages \in Seq(Range(Stages)) /\ Stages # <<>>
    /\ Times \subseteq Nat /\ DedupWindow \in Nat /\ KillWindow \in Nat
    /\ None \notin Verdicts /\ TacticThreshold \in Nat \ {0}
    /\ MaxEvents \in Nat /\ MaxRestarts \in Nat

VARIABLES
    pc, stage, now,     \* the handler, the time of its event
    key, isNew,         \* the alert being written and what write_alert said
    riskAlerted,
    seen, fired,        \* KillChainTracker: _entity_tactics and _fired_entities
    rows, saved,        \* table alerts as the connection shows it, and as committed
    audit,              \* table alert_feedback_events
    request,            \* of each request: where it is, its alert and verdict
    events, restarts,
    told,               \* history: whether the sinks got the alert of a window
    fed, late,          \* history: what the tracker was fed in this process, and
                        \* whether one alert came more than a window behind another
    swapped             \* history: another alert was shown between two looks

handlerVars == <<pc, stage, now, key, isNew, riskAlerted, events>>
trackerVars == <<seen, fired, fed, late>>
tableVars   == <<rows, saved, audit>>
requestVars == <<request, swapped>>
vars == <<handlerVars, trackerVars, tableVars, requestVars, restarts, told>>

Idle == [pc |-> "idle", key |-> None, id |-> NoTime, verdict |-> None]

Init ==
    /\ pc = "idle" /\ stage = 1 /\ now = NoTime /\ key = None /\ isNew = FALSE
    /\ riskAlerted = FALSE /\ events = 0 /\ restarts = 0
    /\ seen = [s \in Sources |-> NoTime] /\ fired = FALSE
    /\ fed = {} /\ late = FALSE
    /\ rows = [k \in Keys |-> NoRow] /\ saved = rows /\ audit = {}
    /\ request = [r \in Requests |-> Idle] /\ swapped = [r \in Requests |-> FALSE]
    /\ told = [k \in Keys |-> "no"]
-----------------------------------------------------------------------------
(* KillChainTracker.record_alert *)

\* What is left of the tactics when an alert of time t comes, and with its own:
\* the first time of a tactic is kept while it stays in the window.
Fresh(t) == [s \in Sources |-> IF seen[s] < t - KillWindow THEN NoTime ELSE seen[s]]
Tracked(s, t) == [Fresh(t) EXCEPT ![s] = IF @ = NoTime THEN t ELSE @]
StillFired(t) == fired /\ Fresh(t) = seen
Reached(tactics) == Cardinality({s \in Sources : tactics[s] # NoTime}) >= TacticThreshold

\* History: what came is kept.
Feed(s, t) ==
    /\ fed' = fed \cup {<<s, t>>}
    /\ late' = (late \/ \E x \in Sources, u \in Times : <<x, u>> \in fed /\ u > t + KillWindow)

\* Mutant: stale tactics are not evicted.
RecordForEver(s, t) ==
    /\ seen' = [seen EXCEPT ![s] = IF @ = NoTime THEN t ELSE @]
    /\ fired' = (fired \/ Reached(seen')) /\ Feed(s, t)

RecordAlert(s, t) ==
    /\ seen' = Tracked(s, t)
    /\ fired' = (StillFired(t) \/ Reached(Tracked(s, t))) /\ Feed(s, t)

\* Alerts of other entities push this one out of the tracker.
Crowded ==
    /\ pc = "idle" /\ \E s \in Sources : seen[s] # NoTime
    /\ seen' = [s \in Sources |-> NoTime] /\ fired' = FALSE
    /\ UNCHANGED <<handlerVars, fed, late, tableVars, requestVars, restarts, told>>
-----------------------------------------------------------------------------
(* The stages of the handler *)

\* Mutant: one stage too many.
NextStageTooFar == IF stage <= Len(Stages)
                   THEN pc' = "stage" /\ stage' = stage + 1 /\ now' = now
                   ELSE pc' = "idle" /\ stage' = 1 /\ now' = NoTime

NextStage == IF stage < Len(Stages)
             THEN pc' = "stage" /\ stage' = stage + 1 /\ now' = now
             ELSE pc' = "idle" /\ stage' = 1 /\ now' = NoTime

GetEvent(t) ==
    /\ pc = "idle" /\ events < MaxEvents /\ events' = events + 1
    /\ pc' = "stage" /\ now' = t
    /\ UNCHANGED <<stage, key, isNew, riskAlerted, trackerVars, tableVars, requestVars,
                   restarts, told>>

Quiet ==
    /\ pc = "stage" /\ NextStage
    /\ UNCHANGED <<key, isNew, riskAlerted, events, trackerVars, tableVars, requestVars,
                   restarts, told>>

\* write_events, or the flush of the templates after it, raises: nothing catches
\* it in the handler, and the stages that follow are skipped.
StoreRaises ==
    /\ pc = "stage" /\ Stages[stage] = "store"
    /\ pc' = "idle" /\ stage' = 1 /\ now' = NoTime
    /\ UNCHANGED <<key, isNew, riskAlerted, events, trackerVars, tableVars, requestVars,
                   restarts, told>>

\* A stage raises an alert.  The entity over the risk threshold is remembered
\* before its alert is written, and never alerted again by this process.
Raise ==
    /\ pc = "stage" /\ Stages[stage] # "store"
    /\ Stages[stage] = "risk" => ~riskAlerted
    /\ riskAlerted' = (riskAlerted \/ Stages[stage] = "risk")
    /\ pc' = "write" /\ key' = Stages[stage]
    /\ UNCHANGED <<stage, now, isNew, events, trackerVars, tableVars, requestVars,
                   restarts, told>>
-----------------------------------------------------------------------------
(* write_alert and what follows it *)

InWindow(row) == now - row.ts \in (-DedupWindow)..DedupWindow

\* _INSERT_ALERT_SQL: the id and the data are those of the newest alert in any
\* case, the feedback column stays; a count above 2 is as good as 2.
Bumps(row)  == row # NoRow /\ InWindow(row)
Upsert(row) == [id |-> now, ts |-> IF Bumps(row) THEN row.ts ELSE now,
                count |-> IF Bumps(row) THEN 2 ELSE 1,
                fb |-> IF row = NoRow THEN None ELSE row.fb,
                data |-> [id |-> now, fb |-> None]]

\* Another alert is shown than the one a request has found.
Look == swapped' = [r \in Requests |-> swapped[r] \/
                      (/\ request[r].pc = "found" /\ request[r].key = key
                       /\ request[r].id # rows'[key].id)]

\* The upsert: from now on every reader of the connection sees it.  The lock of
\* the writers is held to the commit.
Write ==
    /\ pc = "write" /\ pc' = "written"
    /\ rows' = [rows EXCEPT ![key] = Upsert(@)]
    /\ isNew' = (rows'[key].count = 1) /\ Look
    /\ UNCHANGED <<stage, now, key, riskAlerted, events, trackerVars, saved, audit,
                   request, restarts, told>>

\* A window of an alert begins with its commit.
Begins(how) == told' = IF isNew THEN [told EXCEPT ![key] = how] ELSE told

\* The commit; write_alert has yet to return.
Commit ==
    /\ pc = "written" /\ pc' = "wrote"
    /\ saved' = rows /\ Begins("no")
    /\ UNCHANGED <<stage, now, key, isNew, riskAlerted, events, trackerVars, rows, audit,
                   requestVars, restarts>>

Done == key' = None /\ isNew' = FALSE

\* A statement or the commit raises, what was written is rolled back; the stage
\* logs it and goes on.
WriteFails ==
    /\ pc \in {"write", "written"} /\ NextStage /\ Done
    /\ rows' = saved /\ Look
    /\ UNCHANGED <<riskAlerted, events, trackerVars, saved, audit, request, restarts, told>>

\* The shutdown cancels the handler before its commit: no rollback, and the lock
\* is given back with the transaction open.
CancelWrite ==
    /\ pc = "written" /\ restarts < MaxRestarts
    /\ pc' = "open"
    /\ UNCHANGED <<stage, now, key, isNew, riskAlerted, events, trackerVars, tableVars,
                   requestVars, restarts, told>>

Gone == pc' = "gone" /\ stage' = 1 /\ now' = NoTime /\ Done

\* Another writer's commit takes the open write along, or its rollback takes it
\* back.
OthersEnd ==
    /\ pc = "open" /\ Gone
    /\ \/ saved' = rows /\ rows' = rows /\ Begins("cut")
       \/ saved' = saved /\ rows' = saved /\ told' = told
    /\ Look
    /\ UNCHANGED <<riskAlerted, events, trackerVars, audit, request, restarts>>

\* Which alerts go on to the tracker: of the IoC stage only new ones, and neither
\* those of the risk stage nor the tracker's own.
FeedsTracker == key \notin {"risk", "kill-chain"} /\ (key = "ioc" => isNew)

\* Mutant: the sinks get every alert that is written.
HandOutAll ==
    /\ pc = "wrote"
    /\ told' = [told EXCEPT ![key] = IF @ = "no" THEN "told" ELSE "twice"]
    /\ IF FeedsTracker THEN RecordAlert(key, now) ELSE UNCHANGED trackerVars
    /\ IF FeedsTracker /\ fired' /\ ~StillFired(now)
       THEN /\ pc' = "write" /\ key' = "kill-chain" /\ isNew' = FALSE
            /\ UNCHANGED <<stage, now>>
       ELSE NextStage /\ Done
    /\ UNCHANGED <<riskAlerted, events, tableVars, requestVars, restarts>>

\* The sinks get a new alert, and the tracker may answer with another.
HandOut ==
    /\ pc = "wrote"
    /\ told' = IF isNew THEN [told EXCEPT ![key] = IF @ = "no" THEN "told" ELSE "twice"]
               ELSE told
    /\ IF FeedsTracker THEN RecordAlert(key, now) ELSE UNCHANGED trackerVars
    /\ IF FeedsTracker /\ fired' /\ ~StillFired(now)
       THEN /\ pc' = "write" /\ key' = "kill-chain" /\ isNew' = FALSE
            /\ UNCHANGED <<stage, now>>
       ELSE NextStage /\ Done
    /\ UNCHANGED <<riskAlerted, events, tableVars, requestVars, restarts>>
-----------------------------------------------------------------------------
(* submit_feedback and update_feedback *)

Answered(r, how) == request' = [request EXCEPT ![r].pc = how]

\* The route found the alert, a write that is not committed included; an id that
\* is no more is answered 404.
Submit(r, k, v) ==
    /\ request[r].pc = "idle" /\ rows[k] # NoRow
    /\ request' = [request EXCEPT ![r] = [pc |-> "found", key |-> k, id |-> rows[k].id,
                                          verdict |-> v]]
    /\ UNCHANGED <<handlerVars, trackerVars, tableVars, swapped, restarts, told>>

Current(r) == rows[request[r].key].id = request[r].id

\* The SELECT of update_feedback, without the lock: it reads what the connection
\* shows.  Nothing is written for an alert that is not there, and the request is
\* answered 204 all the same.
ReadRow(r) ==
    /\ request[r].pc = "found" /\ Answered(r, IF Current(r) THEN "read" ELSE "done")
    /\ UNCHANGED <<handlerVars, trackerVars, tableVars, swapped, restarts, told>>

\* Mutant: the row is found by its dedup key.
UpdateByKey(r) ==
    /\ request[r].pc = "read" /\ pc \notin {"written", "open"} /\ Answered(r, "done")
    /\ LET q == request[r] IN
       /\ rows' = [rows EXCEPT ![q.key] = [@ EXCEPT !.fb = q.verdict,
                                            !.data = [id |-> q.id, fb |-> q.verdict]]]
       /\ audit' = audit \cup {[req |-> r, key |-> q.key, id |-> q.id, verdict |-> q.verdict]}
    /\ saved' = rows'
    /\ UNCHANGED <<handlerVars, trackerVars, swapped, restarts, told>>

\* BEGIN IMMEDIATE to COMMIT, with the lock: the column and the data that was
\* read, if the alert is still there, and the audit row in any case.  Readers may
\* see the column before the commit, but no request is told apart by it.
Update(r) ==
    /\ request[r].pc = "read" /\ pc \notin {"written", "open"} /\ Answered(r, "done")
    /\ LET q == request[r] IN
       /\ rows' = IF Current(r)
                  THEN [rows EXCEPT ![q.key] = [@ EXCEPT !.fb = q.verdict,
                                                !.data = [id |-> q.id, fb |-> q.verdict]]]
                  ELSE rows
       /\ audit' = audit \cup {[req |-> r, key |-> q.key, id |-> q.id, verdict |-> q.verdict]}
    /\ saved' = rows'
    /\ UNCHANGED <<handlerVars, trackerVars, swapped, restarts, told>>

\* A statement raises, or the request is cancelled; nothing is left of it.
UpdateFails(r) ==
    /\ request[r].pc \in {"found", "read"} /\ Answered(r, "error")
    /\ UNCHANGED <<handlerVars, trackerVars, tableVars, swapped, restarts, told>>

\* BEGIN raises within the transaction that was left open, and rolls it back.
BeginFails(r) ==
    /\ request[r].pc = "read" /\ pc = "open" /\ Answered(r, "error")
    /\ Gone /\ rows' = saved /\ Look
    /\ UNCHANGED <<riskAlerted, events, trackerVars, saved, audit, restarts, told>>
-----------------------------------------------------------------------------
\* The process ends, by a crash or by the shutdown that cancels the handler, and
\* is started again: the tables are what is left, with a write that had no commit
\* yet or without it.
Restart ==
    /\ restarts < MaxRestarts /\ restarts' = restarts + 1
    /\ pc' = "idle" /\ stage' = 1 /\ now' = NoTime /\ Done /\ riskAlerted' = FALSE
    /\ seen' = [s \in Sources |-> NoTime] /\ fired' = FALSE
    /\ fed' = {} /\ late' = FALSE
    /\ request' = [r \in Requests |-> IF request[r].pc \in {"found", "read"}
                                      THEN [request[r] EXCEPT !.pc = "error"] ELSE request[r]]
    /\ rows' \in {rows, saved} /\ saved' = rows'
    /\ IF pc = "wrote" \/ rows' # saved THEN Begins("cut") ELSE told' = told
    /\ UNCHANGED <<events, audit, swapped>>

Next ==
    \/ \E t \in Times : GetEvent(t)
    \/ Quiet \/ StoreRaises \/ Raise \/ Write \/ Commit \/ WriteFails \/ HandOut
    \/ CancelWrite \/ OthersEnd \/ Crowded \/ Restart
    \/ \E r \in Requests :
        \/ \E k \in Keys, v \in Verdicts : Submit(r, k, v)
        \/ ReadRow(r) \/ Update(r) \/ UpdateFails(r) \/ BeginFails(r)

Spec == Init /\ [][Next]_vars
-----------------------------------------------------------------------------
Time == Times \cup {NoTime}

RowType == [id : Times, ts : Times, count : 1..2, fb : Verdicts \cup {None},
            data : [id : Times, fb : Verdicts \cup {None}]]

RequestType == [pc : {"idle", "found", "read", "done", "error"}, key : Keys \cup {None},
                id : Time, verdict : Verdicts \cup {None}]

\* The type invariant: a row has one alert of one time, a request one verdict, and
\* the handler has an event and is at one of its stages, or has none.
TypeOK ==
    /\ pc \in {"idle", "stage", "write", "written", "wrote", "open", "gone"}
    /\ stage \in DOMAIN Stages /\ now \in Time /\ (pc \in {"idle", "gone"} <=> now = NoTime)
    /\ key \in Keys \cup {None} /\ (pc \in {"write", "written", "wrote", "open"} <=> key # None)
    /\ isNew \in BOOLEAN /\ late \in BOOLEAN
    /\ riskAlerted \in BOOLEAN /\ seen \in [Sources -> Time] /\ fired \in BOOLEAN
    /\ {rows, saved} \subseteq [Keys -> RowType \cup {NoRow}]
    /\ audit \subseteq [req : Requests, key : Keys, id : Times, verdict : Verdicts]
    /\ request \in [Requests -> RequestType]
    /\ \A r \in Requests : request[r].pc # "idle" =>
         request[r].key \in Keys /\ request[r].id \in Times /\ request[r].verdict \in Verdicts
    /\ swapped \in [Requests -> BOOLEAN] /\ told \in [Keys -> {"no", "told", "twice", "cut"}]
    /\ fed \subseteq Sources \X Times /\ events \in 0..MaxEvents /\ restarts \in 0..MaxRestarts

Judged(k, v) == \E a \in audit : a.key = k /\ a.verdict = v

\* Feedback and alerts that are replaced do not mix.  The encoded alert of a row,
\* shown or committed, is the one the row is found by, whatever window reset came
\* between the read and the write of update_feedback; it says what the feedback
\* column says, or nothing after a later alert; what the column says is in the
\* audit log; and a request that is answered 204 is there too, unless another
\* alert was shown in the place of its own between the looks of the route and of
\* update_feedback, be it of a write that is rolled back.
FeedbackTogether ==
    /\ \A k \in Keys : \A row \in {rows[k], saved[k]} : row # NoRow =>
        /\ row.data.id = row.id /\ row.data.fb \in {None, row.fb}
        /\ row.fb # None => Judged(k, row.fb)
    /\ \A r \in Requests : request[r].pc = "done" =>
        swapped[r] \/ \E a \in audit : a.req = r /\ a.verdict = request[r].verdict

\* Every dedup window that is committed is handed to the queues of the sinks, and
\* once: it was, the handler is about to, or the process ended between the two.
\* Dedup bumps, failed writes, restarts and feedback do not change that.
NotifiedOrCut ==
    \A k \in Keys : saved[k] # NoRow =>
        \/ told[k] \in {"told", "cut"}
        \/ told[k] = "no" /\ pc = "wrote" /\ key = k /\ isNew

\* The tactics the tracker was fed for a window from base on.
FedFrom(base) == {s \in Sources :
                    \E u \in Times : <<s, u>> \in fed' /\ base <= u /\ u <= base + KillWindow}

\* Those it was fed not longer than the window before t, and at any time after.
FedSince(t) == {s \in Sources : \E u \in Times : <<s, u>> \in fed' /\ u >= t - KillWindow}

\* A kill-chain alert is raised only on as many tactics as the threshold, fed to
\* this process within one window: what was evicted is not counted, over any number
\* of alerts, restarts and evictions.  Once an alert has come more than a window
\* behind another, they are only not older than the window.
KillChainEarned ==
    [][pc = "wrote" /\ key' = "kill-chain" =>
        /\ Cardinality(FedSince(now)) >= TacticThreshold
        /\ late' \/ \E base \in Times : Cardinality(FedFrom(base)) >= TacticThreshold]_vars

\* What KillChainTracker says: distinct tactics within window_seconds, in whatever
\* order the alerts come.
KillChainWithin ==
    [][pc = "wrote" /\ key' = "kill-chain"
        => \E base \in Times : Cardinality(FedFrom(base)) >= TacticThreshold]_vars
=============================================================================
