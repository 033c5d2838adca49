------------------------------ MODULE Session ------------------------------
(***************************************************************************)
(* The end of a live session: _run_with_config from its wait for the       *)
(* pipeline and the API server to storage.close(), with the signal handler,*)
(* Pipeline.stop(), the consumer loop, the rule reloader and the queues of *)
(* the alert sinks that teardown() waits for.                              *)
(*                                                                         *)
(* A queue is its length.  The seconds a wait may last are not counted: a  *)
(* timeout may come at any moment of it.                                   *)
(***************************************************************************)
EXTENDS Naturals, Sequences, FiniteSets

CONSTANTS
    Sinks,          \* the sinks configured, in the order teardown() stops them
    Exporters,      \* those that send all there is at once: the OTLP sink
    QueueMax,       \* maxsize of a sink's queue
    MaxEvents,      \* bound: events the handler gets
    MaxAlerts       \* bound: alerts of one event

Steps == <<"templates", "models", "baselines", "drain3">>
Sink  == {Sinks[i] : i \in DOMAIN Sinks}
Saved == {Steps[i] : i \in DOMAIN Steps}

ASSUME SessionAssumption ==
    /\ Sinks \in Seq(Sink)
    /\ \A i, j \in DOMAIN Sinks : Sinks[i] = Sinks[j] => i = j
    /\ Exporters \subseteq Sink /\ QueueMax \in Nat \ {0}
    /\ MaxEvents \in Nat /\ MaxAlerts \in Nat

VARIABLES
    main, at,               \* where _run_with_config is, and at which step or sink
    fired, shouldExit,      \* _ShutdownContext.fired, Server.should_exit
    stopTask, running, stopped, \* the Pipeline.stop() task, _running, _stopped
    pipeline, events,       \* the pipeline task and what it has got so far
    server, reload, intel,  \* the server task, the reloader's, the TAXII polls
    serving, forceExit,     \* the application has tasks of its own; Server.force_exit
    persisting,             \* a shielded _persist of a poll is writing
    storage,
    worker, up, queue,      \* of each sink: its task, its _running, its queue
    dirty,                  \* what the steps of the drain have yet to save
    failed, timedOut        \* history: steps that raised, the drain timed out

signalVars == <<fired, shouldExit, stopTask, running, stopped>>
sinkVars   == <<worker, up, queue>>
saveVars   == <<dirty, failed, timedOut>>
mainVars   == <<main, at>>
peerVars   == <<server, serving, forceExit, reload, intel, persisting>>
vars == <<mainVars, signalVars, pipeline, events, peerVars, storage, sinkVars, saveVars>>

Init ==
    /\ main = "wait" /\ at = 1 /\ fired = FALSE /\ shouldExit = FALSE
    /\ stopTask = "none" /\ running = FALSE /\ stopped = FALSE
    /\ pipeline = "start" /\ events = 0
    /\ server = "start" /\ serving = FALSE /\ forceExit = FALSE
    /\ reload = "watch" /\ intel = "up" /\ persisting = FALSE /\ storage = "open"
    /\ worker = [s \in Sink |-> "get"] /\ up = [s \in Sink |-> TRUE]
    /\ queue = [s \in Sink |-> 0]
    /\ dirty = {} /\ failed = {} /\ timedOut = FALSE

Over == main \in {"ended", "raised"}
-----------------------------------------------------------------------------
(* Signals, Pipeline.stop() and the tasks that may fail *)

\* A second signal lets uvicorn leave what it still serves.
Signal ==
    /\ ~Over
    /\ IF fired THEN /\ forceExit' = TRUE
                     /\ UNCHANGED <<fired, shouldExit, stopTask>>
                ELSE /\ fired' = TRUE /\ shouldExit' = TRUE /\ stopTask' = "ready"
                     /\ UNCHANGED forceExit
    /\ UNCHANGED <<mainVars, running, stopped, pipeline, events, server, serving,
                   reload, intel, persisting, storage, sinkVars, saveVars>>

StopStarts ==
    /\ ~Over /\ stopTask = "ready"
    /\ stopTask' = "stopping" /\ running' = FALSE /\ stopped' = TRUE
    /\ UNCHANGED <<mainVars, fired, shouldExit, pipeline, events, peerVars, storage,
                   sinkVars, saveVars>>

\* All receivers have been stopped, one after the other.
StopEnds ==
    /\ ~Over /\ stopTask = "stopping" /\ stopTask' = "done"
    /\ UNCHANGED <<mainVars, fired, shouldExit, running, stopped, pipeline, events,
                   peerVars, storage, sinkVars, saveVars>>

\* Requests, WebSockets and the rule counters' flush in _lifespan are tasks of
\* their own, which the end of the server's task does not end.
Serve ==
    /\ ~Over
    /\ \/ server \in {"start", "up"} /\ ~serving /\ serving' = TRUE
       \/ serving /\ serving' = FALSE
    /\ UNCHANGED <<mainVars, signalVars, pipeline, events, server, forceExit, reload,
                   intel, persisting, storage, sinkVars, saveVars>>

\* serve() closes when it is told to, and returns when nothing is served and
\* _lifespan is over, or when the application does not start.  After a second
\* signal, or told to exit before it is up, it leaves the application as it is.
\* It raises when the port is taken.
ServerStep ==
    /\ ~Over
    /\ \/ server = "start" /\ server' = IF shouldExit THEN "left" ELSE "up"
       \/ server = "start" /\ ~serving /\ server' = "done"
       \/ server = "up" /\ shouldExit /\ server' = "closing"
       \/ server = "closing" /\ ~serving /\ server' = "done"
       \/ server = "closing" /\ forceExit /\ server' = "left"
       \/ server \in {"start", "up", "closing"} /\ server' = "failed"
    /\ UNCHANGED <<mainVars, signalVars, pipeline, events, serving, forceExit, reload,
                   intel, persisting, storage, sinkVars, saveVars>>

\* A poll saves what it fetched, behind a shield: the save goes on when the poll
\* is cancelled.
Persist ==
    /\ ~Over
    /\ \/ intel = "up" /\ ~persisting /\ persisting' = TRUE
       \/ persisting /\ persisting' = FALSE
    /\ UNCHANGED <<mainVars, signalVars, pipeline, events, server, serving,
                   forceExit, reload, intel, storage, sinkVars, saveVars>>

\* watch() returns without directories, and raises when one is not there.
ReloaderEnds ==
    /\ ~Over /\ reload = "watch" /\ reload' \in {"done", "failed"}
    /\ UNCHANGED <<mainVars, signalVars, pipeline, events, server, serving,
                   forceExit, intel, persisting, storage, sinkVars, saveVars>>
-----------------------------------------------------------------------------
(* Pipeline.run and what the handler leaves to others *)

\* Mutant: a stop that came first is forgotten.
RunStartsAnew ==
    /\ ~Over /\ pipeline = "start"
    /\ pipeline' = "get" /\ running' = TRUE /\ stopped' = FALSE
    /\ UNCHANGED <<mainVars, fired, shouldExit, stopTask, events, peerVars, storage,
                   sinkVars, saveVars>>

RunStarts ==
    /\ ~Over /\ pipeline = "start"
    /\ pipeline' = "get" /\ running' = TRUE
    /\ UNCHANGED <<mainVars, fired, shouldExit, stopTask, stopped, events, peerVars,
                   storage, sinkVars, saveVars>>

GetEvent ==
    /\ ~Over /\ pipeline = "get" /\ events < MaxEvents
    /\ pipeline' = "handle" /\ events' = events + 1
    /\ UNCHANGED <<mainVars, signalVars, peerVars, storage, sinkVars, saveVars>>

\* get_event() returns None once the manager is stopped and the queue empty.
NoEvent ==
    /\ ~Over /\ pipeline = "get" /\ stopped
    /\ pipeline' = "done" /\ running' = FALSE
    /\ UNCHANGED <<mainVars, fired, shouldExit, stopTask, stopped, events, peerVars,
                   storage, sinkVars, saveVars>>

\* The handler learns from the event, is suspended in its writes, and may alert.
Learn ==
    /\ ~Over /\ pipeline = "handle"
    /\ pipeline' = "alert" /\ dirty' = Saved
    /\ UNCHANGED <<mainVars, signalVars, events, peerVars, storage, sinkVars,
                   failed, timedOut>>

\* Mutant: the queues were made without a maxsize.
AlertUnbounded ==
    /\ ~Over /\ pipeline = "alert"
    /\ \E n \in 0..MaxAlerts : queue' = [s \in Sink |-> queue[s] + n]
    /\ IF running THEN pipeline' = "get" /\ running' = running
                  ELSE pipeline' = "done" /\ running' = FALSE
    /\ UNCHANGED <<mainVars, fired, shouldExit, stopTask, stopped, events, peerVars,
                   storage, worker, up, saveVars>>

\* enqueue() of the sinks, of all alerts of the event: a full queue drops one.
Alert ==
    /\ ~Over /\ pipeline = "alert"
    /\ \E n \in 0..MaxAlerts : queue' = [s \in Sink |->
          IF queue[s] + n > QueueMax THEN QueueMax ELSE queue[s] + n]
    /\ IF running THEN pipeline' = "get" /\ running' = running
                  ELSE pipeline' = "done" /\ running' = FALSE
    /\ UNCHANGED <<mainVars, fired, shouldExit, stopTask, stopped, events, peerVars,
                   storage, worker, up, saveVars>>
-----------------------------------------------------------------------------
(* run() of the sinks *)

\* The loop goes on while the sink is running or its queue not empty.  The OTLP
\* sink waits for the interval or the stop, and takes all there is.
Take(s) ==
    /\ ~Over /\ worker[s] = "get" /\ queue[s] > 0
    /\ worker' = [worker EXCEPT ![s] = "send"]
    /\ queue' = [queue EXCEPT ![s] = IF s \in Exporters THEN 0 ELSE @ - 1]
    /\ UNCHANGED <<mainVars, signalVars, pipeline, events, peerVars, storage, up,
                   saveVars>>

\* The alert is out, or given up after its retries.
Sent(s) ==
    /\ ~Over /\ worker[s] = "send"
    /\ worker' = [worker EXCEPT ![s] = "get"]
    /\ UNCHANGED <<mainVars, signalVars, pipeline, events, peerVars, storage, up,
                   queue, saveVars>>

\* Mutant: the loop ends with what is queued.
WorkerEndsAtOnce(s) ==
    /\ ~Over /\ worker[s] = "get" /\ ~up[s]
    /\ worker' = [worker EXCEPT ![s] = "done"]
    /\ UNCHANGED <<mainVars, signalVars, pipeline, events, peerVars, storage, up,
                   queue, saveVars>>

WorkerEnds(s) ==
    /\ ~Over /\ worker[s] = "get" /\ ~up[s] /\ queue[s] = 0
    /\ worker' = [worker EXCEPT ![s] = "done"]
    /\ UNCHANGED <<mainVars, signalVars, pipeline, events, peerVars, storage, up,
                   queue, saveVars>>
-----------------------------------------------------------------------------
(* _run_with_config: the wait, the drain, the teardown and the end *)

GoTo(m) == main' = m /\ at' = 1

\* The wait is over when one of the two tasks is; task.result() raises what the
\* server raised, out of all that follows.
WaitReturns ==
    /\ main = "wait" /\ (pipeline = "done" \/ server \in {"done", "left", "failed"})
    /\ GoTo(IF server = "failed" THEN "raised" ELSE "cancel")
    /\ UNCHANGED <<signalVars, pipeline, events, peerVars, storage, sinkVars,
                   saveVars>>

\* The pipeline, if it still runs, is cancelled wherever it waits.
CancelPipeline ==
    /\ main = "cancel" /\ GoTo("drain")
    /\ pipeline' = IF pipeline = "done" THEN "done" ELSE "cancelled"
    /\ UNCHANGED <<signalVars, events, peerVars, storage, sinkVars, saveVars>>

\* _persist_session_state: a step that fails is logged and the next one runs.
DrainStep ==
    /\ main = "drain"
    /\ IF at < Len(Steps) THEN main' = main /\ at' = at + 1 ELSE GoTo("teardown")
    /\ \/ dirty' = dirty \ {Steps[at]} /\ failed' = failed
       \/ dirty' = dirty /\ failed' = failed \cup {Steps[at]}
    /\ UNCHANGED <<signalVars, pipeline, events, peerVars, storage, sinkVars,
                   timedOut>>

DrainTimesOut ==
    /\ main = "drain" /\ GoTo("teardown") /\ timedOut' = TRUE
    /\ UNCHANGED <<signalVars, pipeline, events, peerVars, storage, sinkVars, dirty,
                   failed>>

\* teardown() cancels the reloader and awaits it: what a failed one raised comes
\* out here, and the rest of the teardown is skipped.
StopReloader ==
    /\ main = "teardown"
    /\ IF reload = "failed" THEN reload' = reload /\ GoTo("raised")
       ELSE reload' = "done" /\ GoTo(IF Sinks = <<>> THEN "intel" ELSE "sinks")
    /\ UNCHANGED <<signalVars, pipeline, events, server, serving, forceExit, intel,
                   persisting, storage, sinkVars, saveVars>>

StopSink ==
    /\ main = "sinks" /\ up[Sinks[at]] /\ up' = [up EXCEPT ![Sinks[at]] = FALSE]
    /\ UNCHANGED <<mainVars, signalVars, pipeline, events, peerVars, storage,
                   worker, queue, saveVars>>

\* Its task is awaited before its session is closed and the next sink stopped.
SinkStopped ==
    /\ main = "sinks" /\ ~up[Sinks[at]] /\ worker[Sinks[at]] = "done"
    /\ IF at < Len(Sinks) THEN main' = main /\ at' = at + 1 ELSE GoTo("intel")
    /\ UNCHANGED <<signalVars, pipeline, events, peerVars, storage, sinkVars,
                   saveVars>>

\* The IoC matcher stops, then the polls: they leave their loops when a save of
\* theirs is through, or are cancelled after two seconds.  Then uvicorn must stop.
StopIntel ==
    /\ main = "intel" /\ GoTo("server") /\ shouldExit' = TRUE
    /\ intel' \in IF persisting THEN {"cut"} ELSE {"off", "cut"}
    /\ UNCHANGED <<fired, stopTask, running, stopped, pipeline, events, server,
                   serving, forceExit, reload, persisting, storage, sinkVars,
                   saveVars>>

\* Mutant: a server that does not end in time is left to itself.
AwaitServerOnly ==
    /\ main = "server" /\ GoTo("close") /\ server' = server
    /\ UNCHANGED <<signalVars, pipeline, events, serving, forceExit, reload, intel,
                   persisting, storage, sinkVars, saveVars>>

\* What a failed server raised comes out here; one that does not end in time is
\* cancelled, but not what it serves.
AwaitServer ==
    /\ main = "server"
    /\ \/ server = "failed" /\ server' = server /\ GoTo("raised")
       \/ server \in {"done", "left"} /\ server' = server /\ GoTo("close")
       \/ server \in {"start", "up", "closing"} /\ server' = "cut" /\ GoTo("close")
    /\ UNCHANGED <<signalVars, pipeline, events, serving, forceExit, reload, intel,
                   persisting, storage, sinkVars, saveVars>>

\* With the return of main the event loop cancels the tasks that are left.
CloseStorage ==
    /\ main = "close" /\ GoTo("ended") /\ storage' = "closed"
    /\ stopTask' = IF stopTask \in {"ready", "stopping"} THEN "cancelled" ELSE stopTask
    /\ UNCHANGED <<fired, shouldExit, running, stopped, pipeline, events, peerVars,
                   sinkVars, saveVars>>

Main == \/ WaitReturns \/ CancelPipeline \/ DrainStep \/ DrainTimesOut \/ StopReloader
        \/ StopSink \/ SinkStopped \/ StopIntel \/ AwaitServer \/ CloseStorage
Run  == RunStarts \/ GetEvent \/ NoEvent \/ Learn \/ Alert
Worker(s) == Take(s) \/ Sent(s) \/ WorkerEnds(s)

Next ==
    \/ Main \/ Run \/ \E s \in Sink : Worker(s)
    \/ Signal \/ StopStarts \/ StopEnds \/ Serve \/ ServerStep \/ Persist \/ ReloaderEnds

\* The event loop runs what is ready; a send, a save and a write come to an end.
\* Nothing is assumed of the server, the receivers' stop() or the reloader.
Fairness ==
    /\ WF_vars(Main) /\ WF_vars(Run) /\ WF_vars(StopStarts)
    /\ \A s \in Sink : WF_vars(Worker(s))

Spec == Init /\ [][Next]_vars
FairSpec == Spec /\ Fairness
-----------------------------------------------------------------------------
\* The type invariant: the step or the sink main is at is one there is, no queue
\* exceeds its bound and every task is in a state of its own.
TypeOK ==
    /\ main \in {"wait", "cancel", "drain", "teardown", "sinks", "intel", "server",
                 "close", "ended", "raised"}
    /\ at \in 1..(IF main = "drain" THEN Len(Steps) ELSE IF main = "sinks" THEN Len(Sinks) ELSE 1)
    /\ fired \in BOOLEAN /\ shouldExit \in BOOLEAN /\ running \in BOOLEAN
    /\ stopped \in BOOLEAN /\ timedOut \in BOOLEAN
    /\ stopTask \in {"none", "ready", "stopping", "done", "cancelled"}
    /\ pipeline \in {"start", "get", "handle", "alert", "done", "cancelled"}
    /\ events \in 0..MaxEvents
    /\ server \in {"start", "up", "closing", "done", "left", "cut", "failed"}
    /\ reload \in {"watch", "done", "failed"} /\ intel \in {"up", "off", "cut"}
    /\ serving \in BOOLEAN /\ forceExit \in BOOLEAN /\ persisting \in BOOLEAN
    /\ storage \in {"open", "closed"}
    /\ worker \in [Sink -> {"get", "send", "done"}] /\ up \in [Sink -> BOOLEAN]
    /\ queue \in [Sink -> 0..QueueMax]
    /\ dirty \subseteq Saved /\ failed \subseteq Saved

\* The storage is closed last: the pipeline, the reloader, the polls, the server's
\* task and every sink have ended before, whichever task was first to end and
\* whatever timed out.  Only what was cut off may still use it: requests and the
\* flush of a server that was cancelled by its time limit or left its application,
\* and the save of a poll that was cancelled by its own.
CloseIsLast ==
    storage = "closed" =>
        /\ pipeline \in {"done", "cancelled"} /\ reload = "done"
        /\ \A s \in Sink : worker[s] = "done"
        /\ server \in {"done", "left", "cut"} /\ (serving => server # "done")
        /\ intel \in {"off", "cut"} /\ (persisting => intel # "off")

\* An orderly end leaves nothing behind: what the handler learnt until the very
\* end is saved, but for the steps that failed or were cut off by the timeout, and
\* no alert waits in the queue of a sink.
NothingLeftBehind ==
    main = "ended" => /\ dirty \subseteq failed \/ timedOut
                      /\ \A s \in Sink : queue[s] = 0

\* A signal ends the session, wherever the pipeline and the sinks are and even
\* if neither the server nor the receivers' stop() ever end.
SignalEnds == fired ~> Over
=============================================================================
