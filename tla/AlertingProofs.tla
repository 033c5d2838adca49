--------------------------- MODULE AlertingProofs ---------------------------
(***************************************************************************)
(* What holds of alerts and the verdicts on them for any order of stages,  *)
(* any times, windows and thresholds, and any number of requests, events   *)
(* and restarts.                                                           *)
(***************************************************************************)
EXTENDS Alerting, FiniteSetTheorems, WellFoundedInduction, TLAPS

USE AlertingAssumption

\* Positions in the list of stages, and the sources among its members.
LEMMA StageFacts ==
    /\ Len(Stages) \in Nat \ {0} /\ DOMAIN Stages = 1..Len(Stages)
    /\ \A i \in 1..Len(Stages) : Stages[i] # "store" => Stages[i] \in Sources
    /\ "kill-chain" \notin Sources /\ None \notin Keys /\ NoTime \notin Times
    /\ Sources \subseteq Keys /\ "kill-chain" \in Keys
    /\ \A k \in Keys : k # "kill-chain" => k \in Sources
<1>1. Len(Stages) \in Nat \ {0} /\ DOMAIN Stages = 1..Len(Stages)
  OBVIOUS
<1>2. \A i \in 1..Len(Stages) : Stages[i] # "store" => Stages[i] \in Sources
  BY <1>1 DEF Sources, Range
<1>3. "kill-chain" \notin Sources
  BY DEF Sources
<1>4. None \notin Keys /\ NoTime \notin Times
  BY DEF Keys, Sources, None, NoTime
<1> QED
  BY <1>1, <1>2, <1>3, <1>4 DEF Keys

\* There are finitely many sources.
LEMMA SourcesFinite == IsFiniteSet(Sources)
<1>1. \A a, b : IsFiniteSet({a, b})
  <2> TAKE a, b
  <2>1. IsFiniteSet({a}) /\ IsFiniteSet({b})
    BY FS_Singleton
  <2>2. {a, b} = {a} \cup {b}
    OBVIOUS
  <2>3. IsFiniteSet({a} \cup {b})
    BY <2>1, FS_Union
  <2> QED
    BY <2>2, <2>3
<1>2. IsFiniteSet({"ueba", "ioc"} \cup {"correlation", "graph"})
  BY <1>1, FS_Union
<1>3. IsFiniteSet({"store", "ml"} \cup {"sigma", "risk"})
  BY <1>1, FS_Union
<1>4. IsFiniteSet({"algorithms", "algorithms"})
  BY <1>1
<1>5. IsFiniteSet((({"ueba", "ioc"} \cup {"correlation", "graph"})
                   \cup ({"store", "ml"} \cup {"sigma", "risk"}))
                  \cup {"algorithms", "algorithms"})
  BY <1>2, <1>3, <1>4, FS_Union
<1>6. Sources \subseteq ((({"ueba", "ioc"} \cup {"correlation", "graph"})
                   \cup ({"store", "ml"} \cup {"sigma", "risk"}))
                  \cup {"algorithms", "algorithms"})
  BY DEF Sources
<1> QED
  BY <1>5, <1>6, FS_Subset

\* A set of times that is not empty has a least one.
LEMMA LeastTime ==
    ASSUME NEW N, N \subseteq Nat, N # {}
    PROVE  \E m \in N : \A n \in N : m <= n
<1>1. PICK m \in N : \A n \in N : <<n, m>> \notin OpToRel(<, Nat)
  BY WFMin, NatLessThanWellFounded, Zenon
<1>2. \A n \in N : ~(n < m)
  BY <1>1, Zenon DEF OpToRel
<1> QED
  BY <1>2
-----------------------------------------------------------------------------
(* Types *)

\* The types hold at the start.
LEMMA InitTypeOK == Init => TypeOK
<1> SUFFICES ASSUME Init PROVE TypeOK
  OBVIOUS
<1>1. isNew \in BOOLEAN /\ riskAlerted \in BOOLEAN /\ fired \in BOOLEAN /\ late \in BOOLEAN
  BY Zenon DEF Init
<1>2. request \in [Requests -> RequestType]
  BY DEF Init, Idle, RequestType, Time
<1>3. {rows, saved} \subseteq [Keys -> RowType \cup {NoRow}]
  BY DEF Init
<1>4. swapped \in [Requests -> BOOLEAN]
  BY Zenon DEF Init
<1> QED
  BY <1>1, <1>2, <1>3, <1>4, StageFacts DEF Init, TypeOK, Time, Idle

\* What a stage leaves to the next one keeps the types of the handler.
LEMMA NextStageTypes ==
    ASSUME TypeOK, pc \notin {"idle", "gone"}, NextStage
    PROVE  /\ pc' \in {"idle", "stage"} /\ stage' \in DOMAIN Stages
           /\ now' \in Time /\ (pc' = "idle" <=> now' = NoTime)
  BY StageFacts DEF TypeOK, NextStage, Time

\* An upsert makes a row of the alert's time.
LEMMA UpsertTypes ==
    ASSUME NEW row \in RowType \cup {NoRow}, now \in Times
    PROVE  /\ Upsert(row) \in RowType /\ Upsert(row) # NoRow
           /\ Upsert(row).id = now /\ Upsert(row).data = [id |-> now, fb |-> None]
           /\ Upsert(row).fb = (IF row = NoRow THEN None ELSE row.fb)
           /\ row = NoRow => Upsert(row).count = 1
<1>1. now # NoTime
  BY StageFacts
<1>2. CASE row = NoRow
  BY <1>1, <1>2 DEF Upsert, Bumps, RowType, NoRow
<1>3. CASE row \in RowType /\ row # NoRow
  BY <1>1, <1>3 DEF Upsert, Bumps, RowType, NoRow
<1> QED
  BY <1>2, <1>3

\* A request that is answered keeps the alert and the verdict it is about.
LEMMA AnsweredTypes ==
    ASSUME NEW q \in RequestType, NEW p \in {"idle", "found", "read", "done", "error"}
    PROVE  /\ [q EXCEPT !.pc = p] \in RequestType /\ [q EXCEPT !.pc = p].pc = p
           /\ [q EXCEPT !.pc = p].key = q.key /\ [q EXCEPT !.pc = p].id = q.id
           /\ [q EXCEPT !.pc = p].verdict = q.verdict
  BY DEF RequestType

\* A request that fails still is about its alert.
LEMMA FailedRequest ==
    ASSUME TypeOK, NEW r \in Requests, request[r].pc # "idle",
           \A x \in Requests :
             request'[x] = request[x] \/ (x = r /\ request'[x] = [request[x] EXCEPT !.pc = "error"])
    PROVE  \A x \in Requests : request'[x].pc # "idle" =>
             request'[x].key \in Keys /\ request'[x].id \in Times /\ request'[x].verdict \in Verdicts
<1> SUFFICES ASSUME NEW x \in Requests, request'[x].pc # "idle"
             PROVE  request'[x].key \in Keys /\ request'[x].id \in Times /\ request'[x].verdict \in Verdicts
  OBVIOUS
<1>1. CASE request'[x] = request[x]
  BY <1>1 DEF TypeOK
<1>2. CASE x = r /\ request'[x] = [request[x] EXCEPT !.pc = "error"]
  <2>1. /\ request[x] \in RequestType /\ request[x].key \in Keys
        /\ request[x].id \in Times /\ request[x].verdict \in Verdicts
    BY <1>2 DEF TypeOK
  <2>2. /\ [request[x] EXCEPT !.pc = "error"].key = request[x].key
        /\ [request[x] EXCEPT !.pc = "error"].id = request[x].id
        /\ [request[x] EXCEPT !.pc = "error"].verdict = request[x].verdict
    BY <2>1, AnsweredTypes
  <2> QED
    BY <1>2, <2>1, <2>2
<1> QED
  BY <1>1, <1>2

\* What the tracker is fed keeps its types.
LEMMA RecordAlertTypes ==
    ASSUME TypeOK, NEW s \in Sources, NEW t \in Times, RecordAlert(s, t)
    PROVE  /\ seen' \in [Sources -> Time] /\ fired' \in BOOLEAN
           /\ fed' \subseteq Sources \X Times /\ late' \in BOOLEAN
<1>1. fired' \in BOOLEAN /\ late' \in BOOLEAN
  BY Zenon DEF RecordAlert, Feed
<1> QED
  BY <1>1 DEF TypeOK, RecordAlert, Feed, Tracked, Fresh, Time

\* Every step keeps the types.
LEMMA NextTypeOK == TypeOK /\ [Next]_vars => TypeOK'
<1> SUFFICES ASSUME TypeOK, [Next]_vars PROVE TypeOK'
  OBVIOUS
<1> USE StageFacts DEF TypeOK
<1>1. ASSUME NEW t \in Times, GetEvent(t) PROVE TypeOK'
  BY <1>1 DEF GetEvent, trackerVars, tableVars, requestVars, Time
<1>2. CASE Quiet
  BY <1>2, NextStageTypes DEF Quiet, trackerVars, tableVars, requestVars, Time
<1>3. CASE StoreRaises
  BY <1>3 DEF StoreRaises, trackerVars, tableVars, requestVars, Time
<1>4. CASE Raise
  <2>1. riskAlerted' \in BOOLEAN
    BY <1>4, Zenon DEF Raise
  <2>2. key' \in Sources
    BY <1>4 DEF Raise
  <2> QED
    BY <1>4, <2>1, <2>2 DEF Raise, trackerVars, tableVars, requestVars, Time
<1>5. CASE Write
  <2>1. now \in Times /\ key \in Keys
    BY <1>5 DEF Write, Time
  <2>2. rows' \in [Keys -> RowType \cup {NoRow}]
    BY <1>5, <2>1, UpsertTypes DEF Write
  <2>3. isNew' \in BOOLEAN /\ swapped' \in [Requests -> BOOLEAN]
    BY <1>5, Zenon DEF Write, Look
  <2> QED
    BY <1>5, <2>1, <2>2, <2>3 DEF Write, trackerVars, Time
<1>6. CASE Commit
  <2>1. told' \in [Keys -> {"no", "told", "twice", "cut"}]
    BY <1>6 DEF Commit, Begins
  <2> QED
    BY <1>6, <2>1 DEF Commit, trackerVars, requestVars
<1>15. CASE WriteFails
  <2>1. isNew' \in BOOLEAN /\ swapped' \in [Requests -> BOOLEAN]
    BY <1>15, Zenon DEF WriteFails, Done, Look
  <2> QED
    BY <1>15, <2>1, NextStageTypes DEF WriteFails, Done, trackerVars
<1>16. CASE CancelWrite
  BY <1>16 DEF CancelWrite, trackerVars, tableVars, requestVars
<1>17. CASE OthersEnd
  <2>1. isNew' \in BOOLEAN /\ swapped' \in [Requests -> BOOLEAN]
    BY <1>17, Zenon DEF OthersEnd, Gone, Done, Look
  <2>2. told' \in [Keys -> {"no", "told", "twice", "cut"}]
    BY <1>17 DEF OthersEnd, Begins
  <2> QED
    BY <1>17, <2>1, <2>2 DEF OthersEnd, Gone, Done, trackerVars, Time
<1>7. CASE HandOut
  <2>1. now \in Times /\ key \in Keys
    BY <1>7 DEF HandOut, Time
  <2>2. isNew' \in BOOLEAN
    BY <1>7, Zenon DEF HandOut, Done
  <2>3. told' \in [Keys -> {"no", "told", "twice", "cut"}]
    BY <1>7 DEF HandOut
  <2>4. /\ seen' \in [Sources -> Time] /\ fired' \in BOOLEAN /\ fed' \subseteq Sources \X Times
        /\ late' \in BOOLEAN
    <3>1. CASE FeedsTracker
      <4>1. key \in Sources
        BY <2>1, <3>1 DEF FeedsTracker
      <4>2. RecordAlert(key, now)
        BY <1>7, <3>1 DEF HandOut
      <4> QED
        BY <2>1, <4>1, <4>2, RecordAlertTypes
    <3>2. CASE ~FeedsTracker
      BY <1>7, <3>2 DEF HandOut, trackerVars
    <3> QED
      BY <3>1, <3>2
  <2>5. /\ pc' \in {"idle", "stage", "write"} /\ stage' \in DOMAIN Stages
        /\ now' \in Time /\ (pc' = "idle" <=> now' = NoTime)
        /\ key' \in Keys \cup {None} /\ (pc' = "write" <=> key' # None)
    <3>1. CASE FeedsTracker /\ fired' /\ ~StillFired(now)
      BY <1>7, <2>1, <3>1 DEF HandOut, Time
    <3>2. CASE ~(FeedsTracker /\ fired' /\ ~StillFired(now))
      BY <1>7, <3>2, NextStageTypes DEF HandOut, Done
    <3> QED
      BY <3>1, <3>2
  <2> QED
    BY <1>7, <2>2, <2>3, <2>4, <2>5 DEF HandOut, tableVars, requestVars
<1>8. CASE Crowded
  <2>1. fired' \in BOOLEAN
    BY <1>8, Zenon DEF Crowded
  <2> QED
    BY <1>8, <2>1 DEF Crowded, handlerVars, tableVars, requestVars, Time
<1>9. CASE Restart
  <2>1. isNew' \in BOOLEAN /\ riskAlerted' \in BOOLEAN /\ fired' \in BOOLEAN /\ late' \in BOOLEAN
    BY <1>9, Zenon DEF Restart, Done
  <2>2. request' \in [Requests -> RequestType]
    BY <1>9, AnsweredTypes DEF Restart
  <2>4. ASSUME NEW r \in Requests, request'[r].pc # "idle"
        PROVE  /\ request'[r].key \in Keys /\ request'[r].id \in Times
               /\ request'[r].verdict \in Verdicts
    <3>1. CASE request[r].pc \in {"found", "read"}
      <4>1. request'[r] = [request[r] EXCEPT !.pc = "error"]
        BY <1>9, <3>1 DEF Restart
      <4> QED
        BY <3>1, <4>1 DEF RequestType
    <3>2. CASE request[r].pc \notin {"found", "read"}
      BY <1>9, <2>4, <3>2 DEF Restart
    <3> QED
      BY <3>1, <3>2
  <2>3. told' \in [Keys -> {"no", "told", "twice", "cut"}]
    BY <1>9 DEF Restart, Begins
  <2> QED
    BY <1>9, <2>1, <2>2, <2>3, <2>4 DEF Restart, Done, Time
<1>10. ASSUME NEW r \in Requests, NEW k \in Keys, NEW v \in Verdicts, Submit(r, k, v)
       PROVE  TypeOK'
  <2>1. rows[k] \in RowType
    BY <1>10 DEF Submit
  <2>2. rows[k].id \in Times
    BY <2>1 DEF RowType
  <2>3. [pc |-> "found", key |-> k, id |-> rows[k].id, verdict |-> v] \in RequestType
    BY <2>2 DEF RequestType, Time
  <2> QED
    BY <1>10, <2>2, <2>3 DEF Submit, handlerVars, trackerVars, tableVars
<1>11. ASSUME NEW r \in Requests, ReadRow(r) PROVE TypeOK'
  <2>1. PICK p \in {"read", "done"} : request' = [request EXCEPT ![r] = [@ EXCEPT !.pc = p]]
    BY <1>11, Zenon DEF ReadRow, Answered
  <2>2. request'[r] = [request[r] EXCEPT !.pc = p]
    BY <2>1
  <2>3. request[r].pc # "idle"
    BY <1>11 DEF ReadRow
  <2>4. /\ request'[r] \in RequestType /\ request'[r].key \in Keys
        /\ request'[r].id \in Times /\ request'[r].verdict \in Verdicts
    <3>1. /\ request[r] \in RequestType /\ request[r].key \in Keys
          /\ request[r].id \in Times /\ request[r].verdict \in Verdicts
      BY <2>3
    <3>2. /\ [request[r] EXCEPT !.pc = p] \in RequestType
          /\ [request[r] EXCEPT !.pc = p].key = request[r].key
          /\ [request[r] EXCEPT !.pc = p].id = request[r].id
          /\ [request[r] EXCEPT !.pc = p].verdict = request[r].verdict
      BY <3>1 DEF RequestType
    <3> QED
      BY <2>2, <3>1, <3>2, Zenon
  <2> QED
    BY <1>11, <2>1, <2>4 DEF ReadRow, handlerVars, trackerVars, tableVars
<1>12. ASSUME NEW r \in Requests, Update(r) PROVE TypeOK'
  <2>1. /\ request[r].key \in Keys /\ request[r].id \in Times
        /\ request[r].verdict \in Verdicts
    BY <1>12 DEF Update
  <2>2. rows' \in [Keys -> RowType \cup {NoRow}]
    <3>1. CASE Current(r)
      <4>1. rows[request[r].key] \in RowType
        BY <2>1, <3>1 DEF Current, NoRow
      <4> QED
        BY <1>12, <2>1, <3>1, <4>1 DEF Update, RowType
    <3>2. CASE ~Current(r)
      BY <1>12, <3>2 DEF Update
    <3> QED
      BY <3>1, <3>2
  <2>3. audit' \subseteq [req : Requests, key : Keys, id : Times, verdict : Verdicts]
    BY <1>12, <2>1 DEF Update
  <2> QED
    BY <1>12, <2>2, <2>3 DEF Update, Answered, RequestType, handlerVars, trackerVars
<1>13. ASSUME NEW r \in Requests, UpdateFails(r) PROVE TypeOK'
  <2>1. request' \in [Requests -> RequestType] /\ \A x \in Requests :
          request'[x] = request[x] \/ (x = r /\ request'[x] = [request[x] EXCEPT !.pc = "error"])
    BY <1>13, AnsweredTypes DEF UpdateFails, Answered
  <2> QED
    BY <1>13, <2>1, FailedRequest DEF UpdateFails, handlerVars, trackerVars, tableVars
<1>18. ASSUME NEW r \in Requests, BeginFails(r) PROVE TypeOK'
  <2>1. isNew' \in BOOLEAN /\ swapped' \in [Requests -> BOOLEAN]
    BY <1>18, Zenon DEF BeginFails, Gone, Done, Look
  <2>2. request' \in [Requests -> RequestType] /\ \A x \in Requests :
          request'[x] = request[x] \/ (x = r /\ request'[x] = [request[x] EXCEPT !.pc = "error"])
    BY <1>18, AnsweredTypes DEF BeginFails, Answered
  <2>3. \A x \in Requests : request'[x].pc # "idle" =>
          request'[x].key \in Keys /\ request'[x].id \in Times /\ request'[x].verdict \in Verdicts
    BY <1>18, <2>2, FailedRequest DEF BeginFails
  <2> QED
    BY <1>18, <2>1, <2>2, <2>3 DEF BeginFails, Gone, Done, trackerVars, Time
<1>14. CASE UNCHANGED vars
  BY <1>14 DEF vars, handlerVars, trackerVars, tableVars, requestVars
<1> QED
  BY <1>1, <1>2, <1>3, <1>4, <1>5, <1>6, <1>7, <1>8, <1>9, <1>10, <1>11, <1>12, <1>13,
     <1>14, <1>15, <1>16, <1>17, <1>18 DEF Next

\* The state of the alerts has its types.
THEOREM Typed == Spec => []TypeOK
  BY InitTypeOK, NextTypeOK, PTL DEF Spec
-----------------------------------------------------------------------------
(* The open write *)

\* What the connection shows is committed, but for the row of a write on its way;
\* a write that is not new has a committed row.
OpenInv ==
    /\ pc \notin {"written", "open"} => saved = rows
    /\ pc \in {"written", "open"} =>
         /\ \A k \in Keys : k # key => saved[k] = rows[k]
         /\ isNew # TRUE => saved[key] # NoRow

\* Every step keeps that.
LEMMA NextOpenInv == TypeOK /\ OpenInv /\ [Next]_vars => OpenInv'
<1> SUFFICES ASSUME TypeOK, OpenInv, [Next]_vars PROVE OpenInv'
  OBVIOUS
<1>1. CASE UNCHANGED <<pc, key, isNew, rows, saved>>
  BY <1>1 DEF OpenInv
<1>2. CASE pc' \notin {"written", "open"} /\ saved' = rows'
  BY <1>2 DEF OpenInv
<1>3. CASE Write
  <2>1. /\ now \in Times /\ key \in Keys /\ saved = rows
        /\ rows \in [Keys -> RowType \cup {NoRow}]
    BY <1>3 DEF TypeOK, Write, Time, OpenInv
  <2>2. rows' = [rows EXCEPT ![key] = Upsert(rows[key])] /\ saved' = saved /\ key' = key
    BY <1>3 DEF Write
  <2>3. isNew' = (rows'[key].count = 1)
    BY <1>3, Zenon DEF Write
  <2>4. rows[key] = NoRow => isNew' = TRUE
    <3>1. rows[key] = NoRow => rows'[key].count = 1
      BY <2>1, <2>2, UpsertTypes
    <3> QED
      BY <2>3, <3>1, Zenon
  <2>5. pc' = "written"
    BY <1>3 DEF Write
  <2> QED
    BY <2>1, <2>2, <2>4, <2>5 DEF OpenInv
<1>4. CASE CancelWrite
  BY <1>4 DEF CancelWrite, tableVars, OpenInv
<1>5. CASE UNCHANGED <<rows, saved>> /\ pc \notin {"written", "open"} /\ pc' \notin {"written", "open"}
  BY <1>5 DEF OpenInv
<1>6. CASE Quiet \/ HandOut \/ StoreRaises \/ Raise \/ \E t \in Times : GetEvent(t)
  <2>1. pc' \notin {"written", "open"}
    BY <1>6, NextStageTypes DEF Quiet, HandOut, StoreRaises, Raise, GetEvent
  <2> QED
    BY <1>5, <1>6, <2>1 DEF Quiet, HandOut, StoreRaises, Raise, GetEvent, tableVars
<1>7. CASE WriteFails
  <2>1. pc' \notin {"written", "open"}
    BY <1>7, NextStageTypes DEF WriteFails
  <2> QED
    BY <1>2, <1>7, <2>1 DEF WriteFails
<1>8. CASE Commit \/ OthersEnd \/ Restart
  BY <1>2, <1>8 DEF Commit, OthersEnd, Restart, Gone
<1>9. ASSUME NEW r \in Requests, Update(r) \/ BeginFails(r) PROVE OpenInv'
  BY <1>2, <1>9 DEF Update, BeginFails, Gone, handlerVars
<1> QED
  BY <1>1, <1>3, <1>4, <1>6, <1>7, <1>8, <1>9 DEF Next, Crowded, Submit, ReadRow, UpdateFails,
     vars, handlerVars, tableVars
-----------------------------------------------------------------------------
(* Feedback *)

\* What is said of the rows, and of the requests, in FeedbackTogether; and a
\* request that has found its alert still finds it unless it was replaced.
RowOK(k, row) ==
    row # NoRow => /\ row.data.id = row.id /\ row.data.fb \in {None, row.fb}
                   /\ row.fb # None => Judged(k, row.fb)

RowsInv == \A k \in Keys : RowOK(k, rows[k]) /\ RowOK(k, saved[k])

AnswersInv ==
    \A r \in Requests :
        /\ request[r].pc = "done" =>
             swapped[r] \/ \E a \in audit : a.req = r /\ a.verdict = request[r].verdict
        /\ request[r].pc = "found" => Current(r) \/ swapped[r]

\* An update logs the verdict and answers; of the rows it changes the one of the
\* alert at most, and there it leaves the alert itself.
LEMMA UpdateFacts ==
    ASSUME TypeOK, NEW r \in Requests, Update(r)
    PROVE  /\ request[r].key \in Keys /\ request[r].verdict \in Verdicts
           /\ audit \subseteq audit'
           /\ \E a \in audit' : /\ a.req = r /\ a.key = request[r].key
                                /\ a.verdict = request[r].verdict
           /\ request'[r].pc = "done" /\ request'[r].verdict = request[r].verdict
           /\ \A x \in Requests : x # r => request'[x] = request[x]
           /\ \A k \in Keys : \/ rows'[k] = rows[k]
                              \/ /\ k = request[r].key /\ rows[k] # NoRow /\ rows'[k] # NoRow
                                 /\ rows'[k].id = rows[k].id /\ rows'[k].fb = request[r].verdict
                                 /\ rows'[k].data = [id |-> rows[k].id, fb |-> request[r].verdict]
<1>1. /\ request[r].key \in Keys /\ request[r].id \in Times /\ request[r].verdict \in Verdicts
      /\ request[r] \in RequestType
  BY DEF TypeOK, Update
<1>2. audit \subseteq audit'
  BY DEF Update
<1>3. \E a \in audit' : a.req = r /\ a.key = request[r].key /\ a.verdict = request[r].verdict
  <2> DEFINE b == [req |-> r, key |-> request[r].key, id |-> request[r].id,
                   verdict |-> request[r].verdict]
  <2>1. b \in audit'
    BY Zenon DEF Update
  <2>2. b.req = r /\ b.key = request[r].key /\ b.verdict = request[r].verdict
    OBVIOUS
  <2> QED
    BY <2>1, <2>2, Zenon
<1>4. /\ request'[r].pc = "done" /\ request'[r].verdict = request[r].verdict
      /\ \A x \in Requests : x # r => request'[x] = request[x]
  <2>1. request' = [request EXCEPT ![r] = [request[r] EXCEPT !.pc = "done"]]
    BY Zenon DEF Update, Answered
  <2>2. /\ request'[r] = [request[r] EXCEPT !.pc = "done"]
        /\ \A x \in Requests : x # r => request'[x] = request[x]
    BY <2>1 DEF TypeOK
  <2> QED
    BY <1>1, <2>2, AnsweredTypes
<1>5. CASE Current(r)
  <2>1. rows' = [rows EXCEPT ![request[r].key] =
                   [rows[request[r].key] EXCEPT !.fb = request[r].verdict,
                      !.data = [id |-> request[r].id, fb |-> request[r].verdict]]]
    BY <1>5, Zenon DEF Update
  <2>2. rows[request[r].key] \in RowType /\ rows[request[r].key].id = request[r].id
    BY <1>1, <1>5, StageFacts DEF TypeOK, Current, NoRow
  <2>3. \A k \in Keys : k # request[r].key => rows'[k] = rows[k]
    BY <2>1 DEF TypeOK
  <2>4. rows'[request[r].key] = [rows[request[r].key] EXCEPT !.fb = request[r].verdict,
                                   !.data = [id |-> request[r].id, fb |-> request[r].verdict]]
    BY <1>1, <2>1 DEF TypeOK
  <2>5. rows[request[r].key] # NoRow
    BY <1>1, <2>2, StageFacts DEF NoRow
  <2>6. /\ rows'[request[r].key] # NoRow
        /\ rows'[request[r].key].id = rows[request[r].key].id
        /\ rows'[request[r].key].fb = request[r].verdict
        /\ rows'[request[r].key].data = [id |-> rows[request[r].key].id, fb |-> request[r].verdict]
    BY <1>1, <2>2, <2>4 DEF RowType, NoRow
  <2> QED
    BY <1>1, <1>2, <1>3, <1>4, <2>3, <2>5, <2>6, Zenon
<1>6. CASE ~Current(r)
  <2>1. rows' = rows
    BY <1>6, Zenon DEF Update
  <2> QED
    BY <1>1, <1>2, <1>3, <1>4, <2>1, Zenon
<1> QED
  BY <1>5, <1>6

\* Every step keeps what is said of the rows.
LEMMA NextRowsInv == TypeOK /\ RowsInv /\ [Next]_vars => RowsInv'
<1> SUFFICES ASSUME TypeOK, RowsInv, [Next]_vars PROVE RowsInv'
  OBVIOUS
<1>1. CASE audit' = audit /\ rows' \in {rows, saved} /\ saved' \in {rows, saved}
  BY <1>1 DEF RowsInv, RowOK, Judged
<1>2. CASE Write
  <2>1. now \in Times /\ key \in Keys
    BY <1>2 DEF TypeOK, Write, Time
  <2>2. audit' = audit /\ saved' = saved /\ rows' = [rows EXCEPT ![key] = Upsert(rows[key])]
    BY <1>2 DEF Write
  <2>3. rows[key] \in RowType \cup {NoRow} /\ rows \in [Keys -> RowType \cup {NoRow}]
    BY <2>1 DEF TypeOK
  <2>4. /\ rows'[key].data.id = rows'[key].id /\ rows'[key].data.fb = None
        /\ rows'[key].fb = (IF rows[key] = NoRow THEN None ELSE rows[key].fb)
    BY <2>1, <2>2, <2>3, UpsertTypes
  <2>5. ASSUME NEW k \in Keys, rows'[k] # NoRow
        PROVE  /\ rows'[k].data.id = rows'[k].id /\ rows'[k].data.fb \in {None, rows'[k].fb}
               /\ rows'[k].fb # None => Judged(k, rows'[k].fb)
    <3>1. CASE k = key
      BY <2>1, <2>4, <3>1 DEF RowsInv, RowOK
    <3>2. CASE k # key
      <4>1. rows'[k] = rows[k]
        BY <2>2, <2>3, <3>2
      <4> QED
        BY <2>5, <4>1 DEF RowsInv, RowOK
    <3> QED
      BY <3>1, <3>2
  <2> QED
    BY <2>2, <2>5 DEF RowsInv, RowOK, Judged
<1>3. ASSUME NEW r \in Requests, Update(r) PROVE RowsInv'
  <2>1. ASSUME NEW k \in Keys, rows'[k] # NoRow
        PROVE  /\ rows'[k].data.id = rows'[k].id /\ rows'[k].data.fb \in {None, rows'[k].fb}
               /\ rows'[k].fb # None => \E a \in audit' : a.key = k /\ a.verdict = rows'[k].fb
    <3>1. CASE rows'[k] = rows[k]
      BY <1>3, <2>1, <3>1, UpdateFacts DEF RowsInv, RowOK, Judged
    <3>2. CASE rows'[k] # rows[k]
      <4>1. /\ k = request[r].key /\ rows'[k].id = rows[k].id /\ rows'[k].fb = request[r].verdict
            /\ rows'[k].data = [id |-> rows[k].id, fb |-> request[r].verdict]
        BY <1>3, <3>2, UpdateFacts
      <4>2. \E a \in audit' : a.key = k /\ a.verdict = request[r].verdict
        <5>1. \E a \in audit' : a.key = request[r].key /\ a.verdict = request[r].verdict
          BY <1>3, UpdateFacts
        <5> QED
          BY <4>1, <5>1
      <4>3. rows'[k].data.id = rows[k].id /\ rows'[k].data.fb = request[r].verdict
        BY <4>1
      <4> QED
        BY <4>1, <4>2, <4>3, Zenon
    <3> QED
      BY <3>1, <3>2
  <2>2. saved' = rows'
    BY <1>3 DEF Update
  <2> QED
    BY <2>1, <2>2 DEF RowsInv, RowOK, Judged
<1> QED
  BY <1>1, <1>2, <1>3 DEF Next, GetEvent, Quiet, StoreRaises, Raise, Commit, WriteFails, HandOut,
     CancelWrite, OthersEnd, BeginFails, Crowded, Restart, Submit, ReadRow, UpdateFails, vars, tableVars

\* Every step keeps what is said of the requests.
LEMMA NextAnswersInv == TypeOK /\ OpenInv /\ AnswersInv /\ [Next]_vars => AnswersInv'
<1> SUFFICES ASSUME TypeOK, OpenInv, AnswersInv, [Next]_vars PROVE AnswersInv'
  OBVIOUS
<1>1. CASE UNCHANGED <<rows, audit, requestVars>>
  BY <1>1 DEF requestVars, AnswersInv, Current
<1>2. ASSUME key \in Keys, Look, audit' = audit, \A k \in Keys : k # key => rows'[k] = rows[k],
             \A r \in Requests : request'[r] = request[r] \/ request'[r].pc = "error"
      PROVE  AnswersInv'
  <2>1. \A r \in Requests : swapped'[r] <=>
          \/ swapped[r]
          \/ request[r].pc = "found" /\ request[r].key = key /\ request[r].id # rows'[key].id
    BY <1>2, Zenon DEF Look
  <2>2. ASSUME NEW r \in Requests
        PROVE  /\ request'[r].pc = "done" =>
                    swapped'[r] \/ \E a \in audit' : a.req = r /\ a.verdict = request'[r].verdict
               /\ request'[r].pc = "found" =>
                    rows'[request'[r].key].id = request'[r].id \/ swapped'[r]
    <3>1. request[r].pc = "found" => request[r].key \in Keys
      BY DEF TypeOK
    <3> QED
      BY <1>2, <2>1, <3>1 DEF AnswersInv, Current
  <2> QED
    BY <2>2 DEF AnswersInv, Current
<1>6. CASE Write
  <2>1. key \in Keys /\ rows \in [Keys -> RowType \cup {NoRow}]
    BY <1>6 DEF TypeOK, Write
  <2>2. \A k \in Keys : k # key => rows'[k] = rows[k]
    BY <1>6, <2>1 DEF Write
  <2> QED
    BY <1>2, <1>6, <2>1, <2>2 DEF Write
<1>7. CASE WriteFails \/ OthersEnd \/ \E r \in Requests : BeginFails(r)
  <2>1. key \in Keys /\ audit' = audit /\ Look /\ rows' \in {rows, saved}
    BY <1>7 DEF TypeOK, WriteFails, OthersEnd, BeginFails
  <2>2. \A k \in Keys : k # key => saved[k] = rows[k]
    BY DEF OpenInv
  <2>3. ASSUME NEW r \in Requests, BeginFails(r), NEW x \in Requests
        PROVE  request'[x] = request[x] \/ request'[x].pc = "error"
    <3>1. request' = [request EXCEPT ![r] = [request[r] EXCEPT !.pc = "error"]]
      BY <2>3, Zenon DEF BeginFails, Answered
    <3> QED
      BY <3>1, AnsweredTypes DEF TypeOK
  <2>4. ASSUME WriteFails \/ OthersEnd PROVE request' = request
    BY <2>4 DEF WriteFails, OthersEnd
  <2> QED
    BY <1>2, <1>7, <2>1, <2>2, <2>3, <2>4
<1>3. CASE Restart
  <2>1. UNCHANGED <<audit, swapped>>
    BY <1>3 DEF Restart
  <2>2. ASSUME NEW r \in Requests
        PROVE  \/ request'[r].pc = "error"
               \/ request'[r] = request[r] /\ request[r].pc # "found"
    <3>1. CASE request[r].pc \in {"found", "read"}
      <4>1. request'[r] = [request[r] EXCEPT !.pc = "error"]
        BY <1>3, <3>1 DEF Restart
      <4> QED
        BY <4>1, AnsweredTypes DEF TypeOK
    <3>2. CASE request[r].pc \notin {"found", "read"}
      BY <1>3, <3>2 DEF Restart
    <3> QED
      BY <3>1, <3>2
  <2> QED
    BY <2>1, <2>2 DEF AnswersInv, Current
<1>4. ASSUME NEW r \in Requests,
             (\E k \in Keys, v \in Verdicts : Submit(r, k, v)) \/ ReadRow(r) \/ UpdateFails(r)
      PROVE  AnswersInv'
  <2>1. UNCHANGED <<swapped, audit, rows>> /\ \A x \in Requests : x # r => request'[x] = request[x]
    <3>1. UNCHANGED <<swapped, audit, rows>>
      BY <1>4, Zenon DEF Submit, ReadRow, UpdateFails, tableVars
    <3>2. \E q : request' = [request EXCEPT ![r] = q]
      BY <1>4, Zenon DEF Submit, ReadRow, UpdateFails, Answered
    <3> QED
      BY <3>1, <3>2 DEF TypeOK
  <2>2. ASSUME NEW k \in Keys, NEW v \in Verdicts, Submit(r, k, v)
        PROVE  request'[r].pc = "found" /\ rows[request'[r].key].id = request'[r].id
    BY <2>2 DEF Submit, TypeOK
  <2>3. ASSUME ReadRow(r)
        PROVE  request'[r].pc # "found" /\ (request'[r].pc = "done" => swapped[r])
    <3>1. PICK p \in {"read", "done"} :
            request' = [request EXCEPT ![r] = [request[r] EXCEPT !.pc = p]]
            /\ (p = "done" => ~Current(r))
      BY <2>3, Zenon DEF ReadRow, Answered
    <3>2. request'[r] = [request[r] EXCEPT !.pc = p]
      BY <3>1 DEF TypeOK
    <3>3. request'[r].pc = p
      BY <3>2, AnsweredTypes DEF TypeOK
    <3> QED
      BY <2>3, <3>1, <3>3 DEF ReadRow, AnswersInv
  <2>4. ASSUME UpdateFails(r) PROVE request'[r].pc = "error"
    <3>1. request'[r] = [request[r] EXCEPT !.pc = "error"]
      BY <2>4 DEF UpdateFails, Answered, TypeOK
    <3> QED
      BY <3>1, AnsweredTypes DEF TypeOK
  <2>5. /\ request'[r].pc = "done" => swapped[r]
        /\ request'[r].pc = "found" => rows[request'[r].key].id = request'[r].id
    BY <1>4, <2>2, <2>3, <2>4
  <2> QED
    BY <2>1, <2>5 DEF AnswersInv, Current
<1>5. ASSUME NEW r \in Requests, Update(r) PROVE AnswersInv'
  <2>1. swapped' = swapped
    BY <1>5 DEF Update
  <2>2. \A k \in Keys : rows'[k].id = rows[k].id
    BY <1>5, UpdateFacts
  <2>3. \A x \in Requests : request[x].pc = "found" => request[x].key \in Keys
    BY DEF TypeOK
  <2>4. \A x \in Requests : x # r => request'[x] = request[x]
    BY SMTT(20), <1>5, UpdateFacts
  <2>5. request'[r].pc = "done" /\ \E a \in audit' : a.req = r /\ a.verdict = request'[r].verdict
    <3>1. request'[r].pc = "done" /\ request'[r].verdict = request[r].verdict
      BY <1>5, UpdateFacts
    <3>2. \E a \in audit' : a.req = r /\ a.verdict = request[r].verdict
      BY <1>5, UpdateFacts
    <3> QED
      BY <3>1, <3>2
  <2>6. audit \subseteq audit'
    BY <1>5, UpdateFacts, Zenon
  <2> QED
    BY <2>1, <2>2, <2>3, <2>4, <2>5, <2>6 DEF AnswersInv, Current
<1> QED
  BY <1>1, <1>3, <1>4, <1>5, <1>6, <1>7 DEF Next, GetEvent, Quiet, StoreRaises, Raise, Commit,
     HandOut, CancelWrite, Crowded, vars, tableVars

\* Feedback is about the alert it is found with, and is in the audit log unless
\* another alert, be it of a write that is rolled back, was shown in its place between
\* the looks, for any number of requests, windows and restarts.
THEOREM FeedbackIsTogether == Spec => []FeedbackTogether
<1>1. Init => OpenInv /\ RowsInv /\ AnswersInv
  BY DEF Init, OpenInv, RowsInv, RowOK, AnswersInv, Idle
<1>2. RowsInv /\ AnswersInv => FeedbackTogether
  BY DEF RowsInv, RowOK, AnswersInv, FeedbackTogether
<1> QED
  BY <1>1, <1>2, Typed, NextOpenInv, NextRowsInv, NextAnswersInv, PTL DEF Spec
-----------------------------------------------------------------------------
(* The sinks *)

\* A window whose alert is not handed out yet has told nobody.
ToldInv == NotifiedOrCut /\ (pc = "wrote" /\ isNew => told[key] = "no")

\* Every step keeps what is said of the windows.
LEMMA NextToldInv == TypeOK /\ OpenInv /\ ToldInv /\ [Next]_vars => ToldInv'
<1> SUFFICES ASSUME TypeOK, OpenInv, ToldInv, [Next]_vars PROVE ToldInv'
  OBVIOUS
<1> USE DEF ToldInv, NotifiedOrCut
<1>1. CASE UNCHANGED <<pc, key, isNew, saved, told>>
  BY <1>1
<1>2. CASE pc # "wrote" /\ pc' # "wrote" /\ UNCHANGED <<saved, told>>
  BY <1>2
<1>3. CASE Raise \/ Write \/ CancelWrite
  BY <1>2, <1>3 DEF Raise, Write, CancelWrite, tableVars
<1>4. CASE Commit
  <2>1. key \in Keys /\ saved' = rows /\ \A k \in Keys : k # key => saved'[k] = saved[k]
    BY <1>4 DEF TypeOK, Commit, OpenInv
  <2>2. pc = "written" /\ pc' = "wrote" /\ key' = key /\ (isNew' <=> isNew)
    BY <1>4 DEF Commit
  <2>3. CASE isNew
    <3>1. told' = [told EXCEPT ![key] = "no"]
      BY <1>4, <2>3, Zenon DEF Commit, Begins
    <3> QED
      BY <2>1, <2>2, <2>3, <3>1 DEF TypeOK
  <2>4. CASE ~isNew
    <3>1. told' = told /\ saved[key] # NoRow
      BY <1>4, <2>2, <2>4, Zenon DEF Commit, Begins, OpenInv
    <3> QED
      BY <2>1, <2>2, <2>4, <3>1
  <2> QED
    BY <2>3, <2>4
<1>5. CASE WriteFails
  <2>1. pc # "wrote" /\ pc' # "wrote"
    BY <1>5, NextStageTypes DEF WriteFails
  <2> QED
    BY <1>2, <1>5, <2>1 DEF WriteFails
<1>6. CASE HandOut
  <2>1. pc = "wrote" /\ saved' = saved /\ key \in Keys
    BY <1>6 DEF HandOut, tableVars, TypeOK
  <2>2. pc' # "wrote"
    BY <1>6, NextStageTypes DEF HandOut
  <2>3. CASE isNew
    <3>1. told' = [told EXCEPT ![key] = "told"]
      BY <1>6, <2>1, <2>3 DEF HandOut
    <3> QED
      BY <2>1, <2>2, <3>1 DEF TypeOK
  <2>4. CASE ~isNew
    <3>1. told' = told
      BY <1>6, <2>4 DEF HandOut
    <3> QED
      BY <2>1, <2>2, <2>4, <3>1
  <2> QED
    BY <2>3, <2>4
<1>7. ASSUME pc' # "wrote", key \in Keys, pc \in {"written", "open"},
             Begins("cut"), saved' = rows
      PROVE  ToldInv'
  <2>1. \A k \in Keys : k # key => saved'[k] = saved[k]
    BY <1>7 DEF OpenInv
  <2>2. CASE isNew
    <3>1. told' = [told EXCEPT ![key] = "cut"]
      BY <1>7, <2>2, Zenon DEF Begins
    <3> QED
      BY <1>7, <2>1, <3>1 DEF TypeOK
  <2>3. CASE ~isNew
    <3>1. told' = told /\ saved[key] # NoRow
      BY <1>7, <2>3, Zenon DEF Begins, OpenInv
    <3> QED
      BY <1>7, <2>1, <3>1
  <2> QED
    BY <2>2, <2>3
<1>8. CASE OthersEnd
  <2>1. pc = "open" /\ pc' = "gone" /\ key \in Keys
    BY <1>8 DEF OthersEnd, Gone, TypeOK
  <2>2. CASE saved' = rows /\ Begins("cut")
    BY <1>7, <2>1, <2>2
  <2>3. CASE UNCHANGED <<saved, told>>
    BY <1>2, <2>1, <2>3
  <2> QED
    BY <1>8, <2>2, <2>3 DEF OthersEnd
<1>9. CASE Restart
  <2>1. pc' = "idle" /\ saved' \in {rows, saved}
    BY <1>9 DEF Restart
  <2>2. CASE pc = "wrote" /\ isNew
    <3>1. told' = [told EXCEPT ![key] = "cut"] /\ saved' = saved
      BY <1>9, <2>1, <2>2 DEF Restart, Begins, OpenInv
    <3> QED
      BY <2>1, <3>1 DEF TypeOK
  <2>3. CASE pc = "wrote" /\ ~isNew
    <3>1. told' = told /\ saved' = saved
      BY <1>9, <2>1, <2>3 DEF Restart, Begins, OpenInv
    <3> QED
      BY <2>1, <2>3, <3>1
  <2>4. CASE pc # "wrote" /\ saved' = saved
    <3>1. told' = told
      BY <1>9, <2>4 DEF Restart
    <3> QED
      BY <1>2, <2>1, <2>4, <3>1
  <2>5. CASE pc # "wrote" /\ saved' # saved
    <3>1. saved' = rows /\ pc \in {"written", "open"} /\ Begins("cut")
      BY <1>9, <2>1, <2>5 DEF Restart, OpenInv
    <3>2. key \in Keys
      BY <3>1 DEF TypeOK
    <3> QED
      BY <1>7, <2>1, <3>1, <3>2
  <2> QED
    BY <2>2, <2>3, <2>4, <2>5
<1>10. ASSUME NEW r \in Requests, Update(r) PROVE ToldInv'
  <2>1. \A k \in Keys : rows'[k] # NoRow => rows[k] # NoRow
    BY <1>10, UpdateFacts
  <2>2. saved = rows /\ saved' = rows' /\ UNCHANGED <<pc, key, isNew, told>>
    BY <1>10 DEF Update, OpenInv, handlerVars
  <2> QED
    BY <2>1, <2>2
<1>11. CASE Quiet
  BY <1>2, <1>11, NextStageTypes DEF Quiet, tableVars
<1>12. CASE (\E t \in Times : GetEvent(t)) \/ StoreRaises \/ \E r \in Requests : BeginFails(r)
  BY <1>2, <1>12 DEF GetEvent, StoreRaises, BeginFails, Gone, tableVars
<1> QED
  BY <1>1, <1>3, <1>4, <1>5, <1>6, <1>8, <1>9, <1>10, <1>11, <1>12 DEF Next,
     Crowded, Submit, ReadRow, UpdateFails, vars, handlerVars, tableVars

\* Every committed window of an alert is handed to the sinks' queues, and once,
\* unless the process ends between the two, whatever the windows and the order of
\* the stages.
THEOREM EveryWindowNotified == Spec => []NotifiedOrCut
<1>1. Init => OpenInv /\ ToldInv
  BY DEF Init, OpenInv, ToldInv, NotifiedOrCut
<1>2. ToldInv => NotifiedOrCut
  BY DEF ToldInv
<1> QED
  BY <1>1, <1>2, Typed, NextOpenInv, NextToldInv, PTL DEF Spec
-----------------------------------------------------------------------------
(* The kill chain *)

\* The sources whose alerts the tracker was fed not longer than the window ago, and
\* those it was fed for a window from base on.
Since == {s \in Sources : \E u \in Times : <<s, u>> \in fed /\ u >= now - KillWindow}
From(base) == {s \in Sources :
                 \E u \in Times : <<s, u>> \in fed /\ base <= u /\ u <= base + KillWindow}

Earned ==
    /\ Cardinality(Since) >= TacticThreshold
    /\ late # TRUE => \E base \in Times : Cardinality(From(base)) >= TacticThreshold

\* What the tracker has of a tactic it was fed, all within one window of each other
\* if no alert was late; and a kill-chain alert on its way has the tactics it stands
\* for.
ChainInv ==
    /\ \A s \in Sources : seen[s] # NoTime => <<s, seen[s]>> \in fed
    /\ late # TRUE => \A x, y \in Sources : seen[x] # NoTime /\ seen[y] # NoTime
                                             => seen[x] <= seen[y] + KillWindow
    /\ key = "kill-chain" => Earned

\* As many sources as the threshold are in every set that has those the tracker
\* counts.
LEMMA EnoughSources ==
    ASSUME NEW T, NEW U, T \subseteq U, U \subseteq Sources, Cardinality(T) >= TacticThreshold
    PROVE  Cardinality(U) >= TacticThreshold
<1>1. IsFiniteSet(U)
  BY SourcesFinite, FS_Subset
<1>2. Cardinality(T) <= Cardinality(U) /\ IsFiniteSet(T)
  BY <1>1, FS_Subset
<1>3. Cardinality(T) \in Nat /\ Cardinality(U) \in Nat
  BY <1>1, <1>2, FS_CardinalityType
<1> QED
  BY <1>2, <1>3

\* Feeding the tracker keeps what it has of what it was fed; and when it says that
\* the threshold is reached, as many sources were fed within the window.
LEMMA RecordFacts ==
    ASSUME TypeOK, ChainInv, NEW s \in Sources, NEW t \in Times, RecordAlert(s, t)
    PROVE  /\ \A x \in Sources : seen'[x] # NoTime => <<x, seen'[x]>> \in fed'
           /\ late' # TRUE => \A x, y \in Sources : seen'[x] # NoTime /\ seen'[y] # NoTime
                                                     => seen'[x] <= seen'[y] + KillWindow
           /\ fired' /\ ~StillFired(t) =>
                /\ Cardinality(FedSince(t)) >= TacticThreshold
                /\ late' # TRUE => \E base \in Times : Cardinality(FedFrom(base)) >= TacticThreshold
<1>1. seen' = Tracked(s, t) /\ fed' = fed \cup {<<s, t>>}
  BY DEF RecordAlert, Feed
<1>2. t \in Nat /\ KillWindow \in Nat /\ t # NoTime
  BY StageFacts
<1>3. seen \in [Sources -> Time] /\ Fresh(t) \in [Sources -> Time]
  BY DEF TypeOK, Fresh, Time
<1>4. \A x \in Sources : x # s => seen'[x] = Fresh(t)[x]
  BY <1>1, <1>3 DEF Tracked
<1>5. seen'[s] = (IF Fresh(t)[s] = NoTime THEN t ELSE Fresh(t)[s])
  BY <1>1, <1>3 DEF Tracked
<1>6. ASSUME NEW x \in Sources, Fresh(t)[x] # NoTime
      PROVE  /\ Fresh(t)[x] = seen[x] /\ seen[x] \in Times /\ seen[x] >= t - KillWindow
             /\ <<x, seen[x]>> \in fed
  <2>1. Fresh(t)[x] = seen[x] /\ ~(seen[x] < t - KillWindow)
    BY <1>3, <1>6 DEF Fresh
  <2>2. seen[x] \in Times
    BY <1>3, <1>6, <2>1 DEF Time
  <2>3. seen[x] \in Nat
    BY <2>2
  <2> QED
    BY <1>2, <1>6, <2>1, <2>2, <2>3 DEF ChainInv
<1>7. ASSUME NEW x \in Sources, seen'[x] # NoTime
      PROVE  /\ seen'[x] \in Times /\ seen'[x] >= t - KillWindow /\ <<x, seen'[x]>> \in fed'
             /\ seen'[x] = t \/ (seen'[x] = seen[x] /\ seen[x] # NoTime /\ <<x, seen[x]>> \in fed)
  <2>1. CASE x = s /\ Fresh(t)[s] = NoTime
    BY <1>1, <1>2, <1>5, <2>1
  <2>2. CASE ~(x = s /\ Fresh(t)[s] = NoTime)
    <3>1. seen'[x] = Fresh(t)[x]
      BY <1>4, <1>5, <2>2
    <3> QED
      BY <1>1, <1>6, <1>7, <3>1
  <2> QED
    BY <2>1, <2>2
<1>8. ASSUME late' # TRUE, NEW x \in Sources, NEW y \in Sources,
             seen'[x] # NoTime, seen'[y] # NoTime
      PROVE  seen'[x] <= seen'[y] + KillWindow
  <2>1. late # TRUE /\ \A z \in Sources, u \in Times : <<z, u>> \in fed => ~(u > t + KillWindow)
    BY <1>8, Zenon DEF RecordAlert, Feed
  <2>2. seen'[x] \in Nat /\ seen'[y] \in Nat /\ seen'[y] >= t - KillWindow
    BY <1>7, <1>8
  <2>3. CASE seen'[x] = t
    BY <1>2, <2>2, <2>3
  <2>4. CASE seen'[x] = seen[x] /\ seen[x] # NoTime /\ <<x, seen[x]>> \in fed
    <3>1. ~(seen'[x] > t + KillWindow)
      BY <1>7, <1>8, <2>1, <2>4
    <3>2. CASE seen'[y] = t
      BY <1>2, <2>2, <3>1, <3>2
    <3>3. CASE seen'[y] = seen[y] /\ seen[y] # NoTime
      BY <2>1, <2>4, <3>3 DEF ChainInv
    <3> QED
      BY <1>7, <1>8, <3>2, <3>3
  <2> QED
    BY <1>7, <1>8, <2>3, <2>4
<1>9. ASSUME fired', ~StillFired(t)
      PROVE  /\ Cardinality(FedSince(t)) >= TacticThreshold
             /\ late' # TRUE => \E base \in Times : Cardinality(FedFrom(base)) >= TacticThreshold
  <2> DEFINE T == {x \in Sources : seen'[x] # NoTime}
             N == {seen'[x] : x \in T}
  <2>1. Cardinality(T) >= TacticThreshold
    BY <1>1, <1>9 DEF RecordAlert, Reached
  <2>2. T \subseteq FedSince(t) /\ FedSince(t) \subseteq Sources
    BY <1>7 DEF FedSince
  <2>3. N \subseteq Times /\ N \subseteq Nat
    BY <1>7
  <2>4. N # {}
    <3>1. IsFiniteSet(T)
      BY SourcesFinite, FS_Subset
    <3>2. T # {}
      BY <2>1, <3>1, FS_EmptySet
    <3>3. PICK x \in T : TRUE
      BY <3>2
    <3>4. seen'[x] \in N
      BY Zenon
    <3> QED
      BY <3>4, Zenon
  <2>5. PICK base \in N : \A n \in N : base <= n
    BY <2>3, <2>4, LeastTime, Zenon
  <2>6. ASSUME late' # TRUE PROVE T \subseteq FedFrom(base)
    <3> SUFFICES ASSUME NEW x \in T PROVE x \in FedFrom(base)
      OBVIOUS
    <3>1. PICK y \in T : base = seen'[y]
      OBVIOUS
    <3>2. seen'[x] <= base + KillWindow
      BY <1>8, <2>6, <3>1
    <3>3. base <= seen'[x]
      BY <2>5
    <3> QED
      BY <1>7, <3>2, <3>3 DEF FedFrom
  <2>7. FedFrom(base) \subseteq Sources
    BY DEF FedFrom
  <2> HIDE DEF T
  <2> QED
    BY <2>1, <2>2, <2>3, <2>6, <2>7, EnoughSources
<1> QED
  BY <1>7, <1>8, <1>9

\* Every step keeps what is said of the tracker.
LEMMA NextChainInv == TypeOK /\ ChainInv /\ [Next]_vars => ChainInv'
<1> SUFFICES ASSUME TypeOK, ChainInv, [Next]_vars PROVE ChainInv'
  OBVIOUS
<1>1. CASE UNCHANGED <<now, key, trackerVars>>
  BY <1>1 DEF ChainInv, Earned, Since, From, trackerVars
<1>2. CASE key' # "kill-chain" /\ UNCHANGED trackerVars
  BY <1>2 DEF ChainInv, trackerVars
<1>3. CASE HandOut
  <2>1. pc = "wrote" /\ now \in Times /\ key \in Keys
    BY <1>3 DEF HandOut, TypeOK, Time
  <2>2. CASE ~FeedsTracker
    <3>1. UNCHANGED trackerVars /\ key' = None
      BY <1>3, <2>2 DEF HandOut, Done
    <3> QED
      BY <1>2, <3>1 DEF None
  <2>3. CASE FeedsTracker
    <3>1. key \in Sources
      BY <2>1, <2>3, StageFacts DEF FeedsTracker
    <3>2. RecordAlert(key, now)
      BY <1>3, <2>3 DEF HandOut
    <3>3. /\ \A x \in Sources : seen'[x] # NoTime => <<x, seen'[x]>> \in fed'
          /\ late' # TRUE => \A x, y \in Sources : seen'[x] # NoTime /\ seen'[y] # NoTime
                                                    => seen'[x] <= seen'[y] + KillWindow
          /\ fired' /\ ~StillFired(now) =>
               /\ Cardinality(FedSince(now)) >= TacticThreshold
               /\ late' # TRUE => \E base \in Times : Cardinality(FedFrom(base)) >= TacticThreshold
      BY <2>1, <3>1, <3>2, RecordFacts
    <3>4. CASE fired' /\ ~StillFired(now)
      <4>1. now' = now
        BY <1>3, <2>3, <3>4 DEF HandOut
      <4>2. Since' = FedSince(now) /\ \A base : From(base)' = FedFrom(base)
        BY <4>1 DEF Since, FedSince, From, FedFrom
      <4> QED
        BY <3>3, <3>4, <4>2 DEF ChainInv, Earned
    <3>5. CASE ~(fired' /\ ~StillFired(now))
      <4>1. key' = None
        BY <1>3, <3>5 DEF HandOut, Done
      <4> QED
        BY <3>3, <4>1 DEF ChainInv, None
    <3> QED
      BY <3>4, <3>5
  <2> QED
    BY <2>2, <2>3
<1>4. CASE Crowded \/ Restart
  <2>1. \A s \in Sources : seen'[s] = NoTime
    BY <1>4 DEF Crowded, Restart
  <2>2. key' # "kill-chain"
    <3>1. CASE Crowded
      BY <3>1 DEF Crowded, handlerVars, TypeOK, None
    <3>2. CASE Restart
      BY <3>2 DEF Restart, Done, None
    <3> QED
      BY <1>4, <3>1, <3>2
  <2> QED
    BY <2>1, <2>2 DEF ChainInv
<1>5. CASE (\E t \in Times : GetEvent(t)) \/ Quiet \/ StoreRaises
  BY <1>2, <1>5 DEF GetEvent, Quiet, StoreRaises, TypeOK, None
<1>6. CASE Raise
  <2>1. key' \in Sources
    BY <1>6, StageFacts DEF Raise, TypeOK
  <2> QED
    BY <1>2, <1>6, <2>1, StageFacts DEF Raise
<1>7. CASE WriteFails \/ OthersEnd \/ \E r \in Requests : BeginFails(r)
  BY <1>2, <1>7 DEF WriteFails, OthersEnd, BeginFails, Gone, Done, None
<1> QED
  BY <1>1, <1>3, <1>4, <1>5, <1>6, <1>7 DEF Next, Write, Commit, CancelWrite, Submit, ReadRow,
     Update, UpdateFails, vars, handlerVars

\* A kill-chain alert has its tactics, within one window if no alert was late,
\* whatever the threshold and the window, and whatever is evicted or restarted.
THEOREM KillChainIsEarned == Spec => KillChainEarned
<1>1. Init => ChainInv
  BY DEF Init, ChainInv, None
<1> DEFINE Step ==
      pc = "wrote" /\ key' = "kill-chain" =>
        /\ Cardinality(FedSince(now)) >= TacticThreshold
        /\ late' \/ \E base \in Times : Cardinality(FedFrom(base)) >= TacticThreshold
<1>2. TypeOK /\ ChainInv /\ ChainInv' /\ [Next]_vars => [Step]_vars
  <2> SUFFICES ASSUME TypeOK, ChainInv, ChainInv', Next, pc = "wrote", key' = "kill-chain"
               PROVE  Step
    OBVIOUS
  <2>1. now' = now
    <3>1. CASE HandOut
      BY <3>1 DEF HandOut, Done, None
    <3>2. CASE ~HandOut
      BY <3>2 DEF Next, GetEvent, Quiet, StoreRaises, Raise, Write, Commit, WriteFails, CancelWrite,
         OthersEnd, Crowded, Restart, Gone, Done, None, Submit, ReadRow, Update, UpdateFails,
         BeginFails, handlerVars
    <3> QED
      BY <3>1, <3>2
  <2>2. Since' = FedSince(now) /\ \A base : From(base)' = FedFrom(base)
    BY <2>1 DEF Since, FedSince, From, FedFrom
  <2>3. Earned'
    BY DEF ChainInv
  <2>4. CASE late' = TRUE
    BY <2>2, <2>3, <2>4 DEF Earned
  <2>5. CASE late' # TRUE
    BY <2>2, <2>3, <2>5 DEF Earned
  <2> QED
    BY <2>4, <2>5
<1> QED
  BY <1>1, <1>2, Typed, NextChainInv, PTL DEF Spec, KillChainEarned
=============================================================================
