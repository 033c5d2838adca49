--------------------------- MODULE SessionProofs ---------------------------
(***************************************************************************)
(* What holds of the end of a session for every list of sinks, every size  *)
(* of their queues and any number of events: the types, that the storage   *)
(* is closed last, and that an orderly end leaves nothing behind.          *)
(***************************************************************************)
EXTENDS Session, TLAPS

USE SessionAssumption

\* The drain has four steps.
LEMMA StepsFacts == Len(Steps) = 4 /\ Saved = {Steps[1], Steps[2], Steps[3], Steps[4]}
                                 /\ \A i \in 1..4 : Steps[i] \in Saved
  BY DEF Steps, Saved

\* An index of the list of sinks is that of a sink.
LEMMA SinkFacts ==
    /\ Len(Sinks) \in Nat /\ DOMAIN Sinks = 1..Len(Sinks)
    /\ \A i \in 1..Len(Sinks) : Sinks[i] \in Sink
    /\ \A s \in Sink : \E i \in 1..Len(Sinks) : s = Sinks[i]
  BY DEF Sink

\* The types hold at the start.
LEMMA InitTypeOK == Init => TypeOK
<1> SUFFICES ASSUME Init PROVE TypeOK
  OBVIOUS
<1>1. FALSE \in BOOLEAN /\ TRUE \in BOOLEAN
  BY Zenon
<1>2. /\ fired \in BOOLEAN /\ shouldExit \in BOOLEAN /\ running \in BOOLEAN
      /\ stopped \in BOOLEAN /\ timedOut \in BOOLEAN
      /\ serving \in BOOLEAN /\ forceExit \in BOOLEAN /\ persisting \in BOOLEAN
  BY <1>1, Zenon DEF Init
<1> QED
  BY <1>2 DEF Init, TypeOK

\* Every step of the session keeps the types.
LEMMA NextTypeOK == TypeOK /\ [Next]_vars => TypeOK'
<1> SUFFICES ASSUME TypeOK, [Next]_vars PROVE TypeOK'
  OBVIOUS
<1> USE StepsFacts, SinkFacts DEF TypeOK, peerVars
<1>1. CASE Signal
  <2>1. fired' \in BOOLEAN /\ shouldExit' \in BOOLEAN /\ forceExit' \in BOOLEAN
    BY <1>1, Zenon DEF Signal
  <2> QED BY <1>1, <2>1 DEF Signal, mainVars, sinkVars, saveVars
<1>2. CASE StopStarts
  <2>1. running' \in BOOLEAN /\ stopped' \in BOOLEAN
    BY <1>2, Zenon DEF StopStarts
  <2> QED BY <1>2, <2>1 DEF StopStarts, mainVars, sinkVars, saveVars
<1>3. CASE StopEnds BY <1>3 DEF StopEnds, mainVars, sinkVars, saveVars
<1>4. CASE ServerStep BY <1>4 DEF ServerStep, mainVars, signalVars, sinkVars, saveVars
<1>5. CASE ReloaderEnds BY <1>5 DEF ReloaderEnds, mainVars, signalVars, sinkVars, saveVars
<1>25. CASE Serve
  <2>1. serving' \in BOOLEAN
    BY <1>25, Zenon DEF Serve
  <2> QED BY <1>25, <2>1 DEF Serve, mainVars, signalVars, sinkVars, saveVars
<1>26. CASE Persist
  <2>1. persisting' \in BOOLEAN
    BY <1>26, Zenon DEF Persist
  <2> QED BY <1>26, <2>1 DEF Persist, mainVars, signalVars, sinkVars, saveVars
<1>6. CASE RunStarts BY <1>6 DEF RunStarts, mainVars, sinkVars, saveVars
<1>7. CASE GetEvent BY <1>7 DEF GetEvent, mainVars, signalVars, sinkVars, saveVars
<1>8. CASE NoEvent
  <2>1. running' \in BOOLEAN
    BY <1>8, Zenon DEF NoEvent
  <2> QED BY <1>8, <2>1 DEF NoEvent, mainVars, sinkVars, saveVars
<1>9. CASE Learn BY <1>9 DEF Learn, mainVars, signalVars, sinkVars
<1>10. CASE Alert
  <2>1. queue' \in [Sink -> 0..QueueMax]
    BY <1>10 DEF Alert
  <2>2. running' \in BOOLEAN
    BY <1>10, Zenon DEF Alert
  <2> QED BY <1>10, <2>1, <2>2 DEF Alert, mainVars, saveVars
<1>11. ASSUME NEW s \in Sink, Take(s) PROVE TypeOK'
  BY <1>11 DEF Take, mainVars, signalVars, saveVars
<1>12. ASSUME NEW s \in Sink, Sent(s) PROVE TypeOK'
  BY <1>12 DEF Sent, mainVars, signalVars, saveVars
<1>13. ASSUME NEW s \in Sink, WorkerEnds(s) PROVE TypeOK'
  BY <1>13 DEF WorkerEnds, mainVars, signalVars, saveVars
<1>14. CASE WaitReturns BY <1>14 DEF WaitReturns, GoTo, signalVars, sinkVars, saveVars
<1>15. CASE CancelPipeline BY <1>15 DEF CancelPipeline, GoTo, signalVars, sinkVars, saveVars
<1>16. CASE DrainStep
  <2>1. /\ main' \in {"drain", "teardown"}
        /\ at' \in 1..(IF main' = "drain" THEN Len(Steps) ELSE 1)
    BY <1>16 DEF DrainStep, GoTo
  <2>2. Steps[at] \in Saved
    BY <1>16 DEF DrainStep
  <2>3. dirty' \subseteq Saved /\ failed' \subseteq Saved
    BY <1>16, <2>2 DEF DrainStep
  <2> QED BY <1>16, <2>1, <2>3 DEF DrainStep, signalVars, sinkVars
<1>17. CASE DrainTimesOut BY <1>17 DEF DrainTimesOut, GoTo, signalVars, sinkVars
<1>18. CASE StopReloader BY <1>18 DEF StopReloader, GoTo, signalVars, sinkVars, saveVars
<1>19. CASE StopSink BY <1>19 DEF StopSink, mainVars, signalVars, saveVars
<1>20. CASE SinkStopped BY SMTT(20), <1>20 DEF SinkStopped, GoTo, signalVars, sinkVars, saveVars
<1>21. CASE StopIntel BY <1>21 DEF StopIntel, GoTo, sinkVars, saveVars
<1>22. CASE AwaitServer BY <1>22 DEF AwaitServer, GoTo, signalVars, sinkVars, saveVars
<1>23. CASE CloseStorage BY <1>23 DEF CloseStorage, GoTo, sinkVars, saveVars
<1>24. CASE UNCHANGED vars
  BY <1>24 DEF vars, mainVars, signalVars, sinkVars, saveVars
<1> QED
  BY <1>1, <1>2, <1>3, <1>4, <1>5, <1>6, <1>7, <1>8, <1>9, <1>10, <1>11, <1>12, <1>13, <1>14,
     <1>15, <1>16, <1>17, <1>18, <1>19, <1>20, <1>21, <1>22, <1>23, <1>24, <1>25, <1>26
     DEF Next, Main, Run, Worker

\* The type invariant: what the tasks, the queues and the drain may hold.
THEOREM Typed == Spec => []TypeOK
  BY InitTypeOK, NextTypeOK, PTL DEF Spec
-----------------------------------------------------------------------------
(* What holds of the tasks at each place main can be *)

PipelineOver == pipeline \in {"done", "cancelled"}

\* From the drain on the pipeline is over, and so it is for a sink that is told to
\* stop; the worker of a sink ends only then, and with its queue empty.
SinksInv ==
    /\ main \notin {"wait", "cancel", "raised"} => PipelineOver
    /\ \A s \in Sink : up[s] = FALSE => PipelineOver
    /\ \A s \in Sink : worker[s] = "done" => up[s] = FALSE /\ queue[s] = 0
    /\ main = "sinks" => \A i \in 1..(at - 1) : worker[Sinks[i]] = "done"
    /\ main \in {"intel", "server", "close", "ended"} => \A s \in Sink : worker[s] = "done"

\* The peers go one after the other, and the storage with the last step.  What a
\* peer leaves behind it leaves by being cut off: nothing is served once the server
\* is done, and nothing is saved once the polls have left their loops.
PeersInv ==
    /\ main \in {"sinks", "intel", "server", "close", "ended"} => reload = "done"
    /\ main \in {"server", "close", "ended"} => intel \in {"off", "cut"}
    /\ main \in {"close", "ended"} => server \in {"done", "left", "cut"}
    /\ server = "done" => serving = FALSE
    /\ intel = "off" => persisting = FALSE
    /\ storage = "closed" => main = "ended"

\* What the steps of the drain so far have left is of those that failed.
DrainInv ==
    /\ main = "drain" => \A i \in 1..(at - 1) : Steps[i] \in dirty => Steps[i] \in failed
    /\ main \in {"teardown", "sinks", "intel", "server", "close", "ended"}
         => dirty \subseteq failed \/ timedOut = TRUE

IInv == TypeOK /\ SinksInv /\ PeersInv /\ DrainInv

\* The invariant holds at the start.
LEMMA InitIInv == Init => IInv
<1> SUFFICES ASSUME Init PROVE IInv
  OBVIOUS
<1>1. SinksInv
  <2>1. \A s \in Sink : up[s] = TRUE /\ worker[s] = "get"
    BY DEF Init
  <2>2. main = "wait"
    BY DEF Init
  <2> QED BY <2>1, <2>2 DEF SinksInv
<1>2. PeersInv /\ DrainInv
  BY DEF Init, PeersInv, DrainInv
<1> QED BY <1>1, <1>2, InitTypeOK DEF IInv

\* Every step keeps what is said of the sinks.
LEMMA NextSinksInv == TypeOK /\ SinksInv /\ [Next]_vars => SinksInv'
<1> SUFFICES ASSUME TypeOK, SinksInv, [Next]_vars PROVE SinksInv'
  OBVIOUS
<1> USE StepsFacts, SinkFacts DEF TypeOK, SinksInv, PipelineOver
<1>1. CASE UNCHANGED <<main, at, pipeline, sinkVars>>
  BY <1>1 DEF sinkVars
<1>2. CASE Run
  <2>1. main' = main /\ at' = at /\ UNCHANGED <<worker, up>> /\ ~PipelineOver
    BY <1>2 DEF Run, RunStarts, GetEvent, NoEvent, Learn, Alert, mainVars, sinkVars
  <2> QED BY <2>1
<1>3. ASSUME NEW s \in Sink, Worker(s) PROVE SinksInv'
  <2>1. UNCHANGED <<main, at, pipeline, up>>
    BY <1>3 DEF Worker, Take, Sent, WorkerEnds, mainVars
  <2>2. worker[s] # "done" /\ \A r \in Sink : r # s => worker'[r] = worker[r] /\ queue'[r] = queue[r]
    BY <1>3 DEF Worker, Take, Sent, WorkerEnds
  <2>3. worker'[s] = "done" => up[s] = FALSE /\ queue'[s] = 0
    BY <1>3 DEF Worker, Take, Sent, WorkerEnds
  <2>4. \A r \in Sink : worker'[r] = "done" => up'[r] = FALSE /\ queue'[r] = 0
    BY SMTT(20), <2>1, <2>2, <2>3
  <2>5. \A r \in Sink : worker[r] = "done" => worker'[r] = "done"
    BY <2>2
  <2>6. main' = "sinks" => \A i \in 1..(at' - 1) : worker'[Sinks[i]] = "done"
    BY <2>1, <2>5
  <2> QED BY <2>1, <2>2, <2>4, <2>6
<1>4. CASE WaitReturns
  BY <1>4 DEF WaitReturns, GoTo, sinkVars
<1>5. CASE CancelPipeline
  BY <1>5 DEF CancelPipeline, GoTo, sinkVars
<1>6. CASE DrainStep
  BY <1>6 DEF DrainStep, GoTo, sinkVars
<1>7. CASE DrainTimesOut
  BY <1>7 DEF DrainTimesOut, GoTo, sinkVars
<1>8. CASE StopReloader
  <2>1. Sinks = <<>> => Sink = {}
    BY DEF Sink
  <2> QED BY <1>8, <2>1 DEF StopReloader, GoTo, sinkVars
<1>9. CASE StopSink
  <2>1. UNCHANGED <<main, at, pipeline, worker, queue>> /\ PipelineOver
    BY <1>9 DEF StopSink, mainVars
  <2>2. Sinks[at] \in Sink /\ worker[Sinks[at]] # "done"
    BY <1>9 DEF StopSink
  <2>3. \A s \in Sink : s # Sinks[at] => up'[s] = up[s]
    BY <1>9 DEF StopSink
  <2> QED BY <2>1, <2>2, <2>3
<1>10. CASE SinkStopped
  <2>1. UNCHANGED <<pipeline, worker, up, queue>> /\ main = "sinks" /\ worker[Sinks[at]] = "done"
    BY <1>10 DEF SinkStopped, sinkVars
  <2>2. \A i \in 1..at : worker[Sinks[i]] = "done"
    BY <2>1
  <2>3. CASE at < Len(Sinks)
    BY <1>10, <2>1, <2>2, <2>3 DEF SinkStopped
  <2>4. CASE ~(at < Len(Sinks))
    <3>1. main' = "intel"
      BY <1>10, <2>4 DEF SinkStopped, GoTo
    <3>2. \A s \in Sink : worker[s] = "done"
      <4>1. at \in 1..Len(Sinks)
        BY <2>1
      <4> QED BY <2>2, <2>4, <4>1
    <3>3. pipeline' \in {"done", "cancelled"}
      BY <2>1
    <3>4. \A s \in Sink : worker'[s] = "done"
      BY <2>1, <3>2
    <3>5. \A s \in Sink : up'[s] = FALSE /\ queue'[s] = 0
      BY <2>1, <3>2
    <3> QED BY <3>1, <3>3, <3>4, <3>5
  <2> QED BY <2>3, <2>4
<1>11. CASE StopIntel
  BY <1>11 DEF StopIntel, GoTo, sinkVars
<1>12. CASE AwaitServer
  BY <1>12 DEF AwaitServer, GoTo, sinkVars
<1>13. CASE CloseStorage
  BY <1>13 DEF CloseStorage, GoTo, sinkVars
<1>14. CASE \/ Signal \/ StopStarts \/ StopEnds \/ Serve \/ ServerStep \/ Persist
            \/ ReloaderEnds \/ UNCHANGED vars
  BY <1>1, <1>14 DEF Signal, StopStarts, StopEnds, Serve, ServerStep, Persist, ReloaderEnds,
     vars, mainVars
<1> QED
  BY <1>2, <1>3, <1>4, <1>5, <1>6, <1>7, <1>8, <1>9, <1>10, <1>11, <1>12, <1>13, <1>14
     DEF Next, Main

\* Every step keeps what is said of the server, the reloader, the feeds and the
\* storage: those that have ended do not start again.
LEMMA NextPeersInv == TypeOK /\ PeersInv /\ [Next]_vars => PeersInv'
<1> SUFFICES ASSUME TypeOK, PeersInv, [Next]_vars PROVE PeersInv'
  OBVIOUS
<1> USE DEF TypeOK, PeersInv, peerVars
<1>1. CASE Run
  BY <1>1 DEF Run, RunStarts, GetEvent, NoEvent, Learn, Alert, mainVars
<1>2. ASSUME NEW s \in Sink, Worker(s) PROVE PeersInv'
  BY <1>2 DEF Worker, Take, Sent, WorkerEnds, mainVars
<1>3. CASE Signal \/ StopStarts \/ StopEnds \/ ReloaderEnds \/ UNCHANGED vars
  BY <1>3 DEF Signal, StopStarts, StopEnds, ReloaderEnds, vars, mainVars
<1>4. CASE Serve \/ Persist
  <2>1. /\ server = "done" => serving' = FALSE
        /\ intel = "off" => persisting' = FALSE
    BY <1>4, Zenon DEF Serve, Persist
  <2> QED BY <1>4, <2>1 DEF Serve, Persist, mainVars
<1>5. CASE ServerStep
  <2>1. server' = "done" => serving' = FALSE
    <3>1. ASSUME server' = "done" PROVE ~serving
      BY <1>5, <3>1 DEF ServerStep
    <3>2. serving' = serving
      BY <1>5 DEF ServerStep
    <3> QED BY <3>1, <3>2, Zenon
  <2>2. main \notin {"close", "ended"}
    BY <1>5 DEF ServerStep, Over
  <2> QED BY <1>5, <2>1, <2>2 DEF ServerStep, mainVars
<1>7. CASE WaitReturns \/ CancelPipeline \/ DrainStep \/ DrainTimesOut
  BY <1>7 DEF WaitReturns, CancelPipeline, DrainStep, DrainTimesOut, GoTo
<1>8. CASE StopReloader \/ StopSink \/ SinkStopped
  BY <1>8 DEF StopReloader, StopSink, SinkStopped, GoTo, mainVars
<1>9. CASE StopIntel
  <2>1. intel' = "off" => persisting' = FALSE
    BY <1>9 DEF StopIntel
  <2> QED BY <1>9, <2>1 DEF StopIntel, GoTo
<1>10. CASE AwaitServer \/ CloseStorage
  BY <1>10 DEF AwaitServer, CloseStorage, GoTo
<1> QED
  BY <1>1, <1>2, <1>3, <1>4, <1>5, <1>7, <1>8, <1>9, <1>10 DEF Next, Main

\* Every step keeps what is said of the drain: the pipeline, which alone makes
\* anything dirty, is over by then.
LEMMA NextDrainInv == TypeOK /\ SinksInv /\ DrainInv /\ [Next]_vars => DrainInv'
<1> SUFFICES ASSUME TypeOK, SinksInv, DrainInv, [Next]_vars PROVE DrainInv'
  OBVIOUS
<1> USE StepsFacts DEF TypeOK, DrainInv
<1>1. CASE UNCHANGED <<main, at, saveVars>>
  BY <1>1 DEF saveVars
<1>2. CASE Run
  <2>1. main' = main /\ at' = at /\ ~PipelineOver
    BY <1>2 DEF Run, RunStarts, GetEvent, NoEvent, Learn, Alert, mainVars, PipelineOver
  <2> QED BY <2>1 DEF SinksInv
<1>3. ASSUME NEW s \in Sink, Worker(s) PROVE DrainInv'
  BY <1>1, <1>3 DEF Worker, Take, Sent, WorkerEnds, mainVars
<1>4. CASE \/ Signal \/ StopStarts \/ StopEnds \/ Serve \/ ServerStep \/ Persist
           \/ ReloaderEnds \/ UNCHANGED vars
  BY <1>1, <1>4 DEF Signal, StopStarts, StopEnds, Serve, ServerStep, Persist, ReloaderEnds,
     vars, mainVars
<1>5. CASE WaitReturns \/ CancelPipeline
  BY <1>5 DEF WaitReturns, CancelPipeline, GoTo, saveVars
<1>6. CASE DrainStep
  <2>1. \A i \in 1..at : Steps[i] \in dirty' => Steps[i] \in failed'
    BY <1>6 DEF DrainStep
  <2>2. CASE at < Len(Steps)
    BY <1>6, <2>1, <2>2 DEF DrainStep
  <2>3. CASE at = Len(Steps)
    <3>1. main' = "teardown" /\ dirty' \subseteq Saved
      BY <1>6, <2>3 DEF DrainStep, GoTo
    <3>2. \A x \in Saved : \E i \in 1..at : x = Steps[i]
      BY <2>3
    <3>3. ASSUME NEW x \in dirty' PROVE x \in failed'
      <4>1. PICK i \in 1..at : x = Steps[i]
        BY <3>1, <3>2
      <4> QED BY <2>1, <4>1
    <3>4. dirty' \subseteq failed'
      BY <3>3
    <3> QED BY <3>1, <3>4
  <2>4. at \in 1..Len(Steps)
    BY <1>6 DEF DrainStep
  <2>5. at < Len(Steps) \/ at = Len(Steps)
    BY <2>4
  <2> QED BY <2>2, <2>3, <2>5, Zenon
<1>7. CASE DrainTimesOut
  BY <1>7 DEF DrainTimesOut, GoTo
<1>8. CASE StopReloader \/ StopSink \/ SinkStopped
  BY <1>8 DEF StopReloader, StopSink, SinkStopped, GoTo, mainVars, saveVars
<1>9. CASE StopIntel \/ AwaitServer \/ CloseStorage
  BY <1>9 DEF StopIntel, AwaitServer, CloseStorage, GoTo, saveVars
<1> QED BY <1>2, <1>3, <1>4, <1>5, <1>6, <1>7, <1>8, <1>9 DEF Next, Main

\* The invariant holds in every state of a session.
LEMMA Inductive == Spec => []IInv
<1>1. IInv /\ [Next]_vars => IInv'
  BY NextTypeOK, NextSinksInv, NextPeersInv, NextDrainInv DEF IInv
<1> QED
  BY InitIInv, <1>1, PTL DEF Spec

\* The storage is closed last, after the pipeline, the reloader, the polls, the
\* server's task and every sink, however many sinks there are; what still uses it
\* was cut off by a time limit or left by the server.
THEOREM StorageIsLast == Spec => []CloseIsLast
<1>1. IInv => CloseIsLast
  <2> SUFFICES ASSUME IInv, storage = "closed" PROVE CloseIsLast
    BY DEF CloseIsLast
  <2>1. main = "ended"
    BY DEF IInv, PeersInv
  <2>2. /\ pipeline \in {"done", "cancelled"} /\ reload = "done"
        /\ \A s \in Sink : worker[s] = "done"
    BY <2>1 DEF IInv, SinksInv, PeersInv, PipelineOver
  <2>3. server \in {"done", "left", "cut"} /\ intel \in {"off", "cut"}
    BY <2>1 DEF IInv, PeersInv
  <2>4. (serving => server # "done") /\ (persisting => intel # "off")
    <3>1. server = "done" => serving = FALSE
      BY DEF IInv, PeersInv
    <3>2. intel = "off" => persisting = FALSE
      BY DEF IInv, PeersInv
    <3> QED BY <3>1, <3>2, Zenon
  <2> QED BY <2>2, <2>3, <2>4, Zenon DEF CloseIsLast
<1> QED
  BY Inductive, <1>1, PTL

\* An orderly end has saved all that no failed step and no timeout left, and no
\* alert waits in the queue of a sink.
THEOREM OrderlyEnd == Spec => []NothingLeftBehind
<1>1. IInv => NothingLeftBehind
  BY DEF IInv, SinksInv, DrainInv, NothingLeftBehind
<1> QED
  BY Inductive, <1>1, PTL
=============================================================================
