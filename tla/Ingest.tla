------------------------------- MODULE Ingest -------------------------------
(***************************************************************************)
(* The way of a log line into the pipeline: the file tail receiver, the    *)
(* bounded queue of the ReceiverManager, and the consumer loop of          *)
(* Pipeline.run, through shutdowns, deaths and restarts of the process.    *)
(*                                                                         *)
(* One path is tailed.  Its writer appends numbered lines, rotates the     *)
(* file and truncates it whenever it likes, between the stat() and the     *)
(* open() of one _process_file included.  The process itself is one event  *)
(* loop: nothing else of it runs between these two calls.                  *)
(***************************************************************************)
EXTENDS Integers, Sequences, FiniteSets

CONSTANTS
    NumLines,       \* bound: the lines the writer of the log appends
    Capacity,       \* queue_maxsize
    ReadMax,        \* complete lines in _MAX_BYTES_PER_READ
    MaxRotations,   \* bound: removals of the file
    MaxTruncations, \* bound: truncations of the file
    MaxDeaths,      \* bound: ends of the process, after a stop or not
    Checkpoints,    \* whether a checkpoint_dir is configured
    ServerMayEnd    \* whether the API server may end before the pipeline

ASSUME IngestAssumption ==
    /\ NumLines \in Nat /\ Capacity \in Nat \ {0} /\ ReadMax \in Nat \ {0}
    /\ MaxRotations \in Nat /\ MaxTruncations \in Nat /\ MaxDeaths \in Nat
    /\ Checkpoints \in BOOLEAN /\ ServerMayEnd \in BOOLEAN

VARIABLES
    file,           \* what is at the path: its inode (0: nothing) and lines
    gen,            \* history: truncations, so which content an offset is of
    written,        \* lines 1..written were appended, to this file or another
    changed,        \* changes watchfiles has not yielded yet
    saved,          \* _offsets[path]; gen is a history field
    watched,        \* path \in _watched_files
    checkpoint,     \* file_offsets.json
    tail,           \* the watcher task, _watch_loop
    reading,        \* locals of _process_file after its stat()
    queue, dropped, \* ReceiverManager._queue and _dropped_count
    running,        \* Pipeline._running
    stopped,        \* ReceiverManager._stopped
    consumer,       \* the task of Pipeline.run
    current,        \* the line its handler works on, 0 if none
    reads,          \* history: how often each line was read
    skipped,        \* history: lines in a file first seen by start()
    offered, taken, \* history: calls of put_event and events got, this session
    raced,          \* history: rotations between a stat() and its open()
    rotations, deaths

fileVars     == <<file, gen, written>>
tailVars     == <<saved, watched, checkpoint, tail, reading>>
managerVars  == <<queue, dropped, offered>>
consumerVars == <<consumer, current, taken>>
history      == <<reads, skipped, raced>>
bounds       == <<rotations, deaths>>
vars == <<fileVars, changed, tailVars, managerVars, running, stopped,
          consumerVars, history, bounds>>

Lines == 1..NumLines
Min2(a, b)  == IF a < b THEN a ELSE b
Elements(s) == {s[i] : i \in DOMAIN s}
LastN(s, n) == SubSeq(s, Len(s) - Min2(n, Len(s)) + 1, Len(s))
NoFile   == [inode |-> 0, lines |-> <<>>]
NoOffset == [offset |-> -1, inode |-> 0, gen |-> 0]
FileOffset(o, i, g) == [offset |-> o, inode |-> i, gen |-> g]
Exists == file.inode # 0
Up     == consumer # "off"
Seen   == skipped \cup {l \in Lines : reads[l] > 0}

\* The code of the process runs, and not just after a stat().
Loop == Up /\ tail # "read"

Init ==
    /\ file = [inode |-> 1, lines |-> <<>>] /\ gen = 0 /\ written = 0
    /\ changed = {}
    /\ saved = NoOffset /\ watched = FALSE /\ checkpoint = NoOffset
    /\ tail = "off" /\ reading = NoOffset
    /\ queue = <<>> /\ dropped = 0 /\ offered = 0
    /\ running = FALSE /\ stopped = FALSE
    /\ consumer = "off" /\ current = 0 /\ taken = 0
    /\ reads = [l \in Lines |-> 0] /\ skipped = {} /\ raced = 0
    /\ rotations = 0 /\ deaths = 0
-----------------------------------------------------------------------------
(* The writer of the log.  watchfiles reports changes while it is watching. *)

Notify(kind) ==
    changed' = IF tail \in {"watch", "read"} THEN changed \cup {kind} ELSE changed

AppendLine ==
    /\ Exists /\ written < NumLines
    /\ written' = written + 1
    /\ file' = [file EXCEPT !.lines = Append(@, written + 1)]
    /\ Notify("modified")
    /\ UNCHANGED <<gen, tailVars, managerVars, running, stopped, consumerVars,
                   history, bounds>>

\* Rotation by rename or by unlink: the lines not yet read are out of reach.
Remove ==
    /\ Exists /\ rotations < MaxRotations
    /\ rotations' = rotations + 1
    /\ file' = NoFile
    /\ raced' = IF tail = "read" THEN raced + 1 ELSE raced
    /\ Notify("deleted")
    /\ UNCHANGED <<gen, written, tailVars, managerVars, running, stopped,
                   consumerVars, reads, skipped, deaths>>

\* The next file at the path has an inode of its own.
Create ==
    /\ ~Exists
    /\ file' = [inode |-> rotations + 1, lines |-> <<>>]
    /\ Notify("added")
    /\ UNCHANGED <<gen, written, tailVars, managerVars, running, stopped,
                   consumerVars, history, bounds>>

\* copytruncate: the same inode starts again from its first byte.
Truncate ==
    /\ Exists /\ gen < MaxTruncations
    /\ gen' = gen + 1
    /\ file' = [file EXCEPT !.lines = <<>>]
    /\ Notify("modified")
    /\ UNCHANGED <<written, tailVars, managerVars, running, stopped,
                   consumerVars, history, bounds>>
-----------------------------------------------------------------------------
(* FileTailReceiver *)

\* _expand_globs: the path is watched once it exists, from its end unless an
\* offset of it is known.
ExpandGlobs(known) ==
    IF Exists /\ known = NoOffset
    THEN FileOffset(Len(file.lines), file.inode, gen)
    ELSE known

\* build_pipeline: start() of the receiver loads the checkpoint and expands the
\* globs, then run() creates the task of Pipeline.run.
Start ==
    /\ ~Up
    /\ saved' = ExpandGlobs(checkpoint)
    /\ skipped' = IF Exists /\ checkpoint = NoOffset
                  THEN skipped \cup {file.lines[i] : i \in DOMAIN file.lines}
                  ELSE skipped
    /\ watched' = Exists
    /\ tail' = "begin" /\ consumer' = "begin"
    /\ UNCHANGED <<fileVars, changed, checkpoint, reading, managerVars, running,
                   stopped, current, taken, reads, raced, bounds>>

\* The watcher task gets to awatch(): from here on changes are reported.
Watch ==
    /\ Loop /\ tail = "begin"
    /\ tail' = "watch"
    /\ UNCHANGED <<fileVars, changed, saved, watched, checkpoint, reading,
                   managerVars, running, stopped, consumerVars, history, bounds>>

\* Mutant: the inode of the file is not compared with the saved one.
CheckRotationBySize(s) ==
    IF s.offset > Len(file.lines) THEN "truncated" ELSE "ok"

\* Mutant: off by one, a file read to its end counts as truncated.
CheckRotationEager(s) ==
    CASE file.inode # s.inode -> "rotated"
      [] s.offset >= Len(file.lines) -> "truncated"
      [] OTHER -> "ok"

CheckRotation(s) ==
    CASE file.inode # s.inode -> "rotated"
      [] file.inode = s.inode /\ s.offset > Len(file.lines) -> "truncated"
      [] OTHER -> "ok"

\* Where _process_file starts to read: the record it will save, but for the
\* lines it is about to read.
ReadFrom(s) ==
    IF CheckRotation(s) = "ok" THEN [s EXCEPT !.inode = file.inode]
    ELSE FileOffset(0, file.inode, gen)

\* A batch of changes: a path found anew is read from its first byte, a known
\* one from its offset, and one that is gone is forgotten but for its offset.
Process ==
    /\ Loop /\ tail = "watch" /\ changed # {}
    /\ changed' = {}
    /\ LET isNew == "added" \in changed /\ ~watched /\ Exists
       IN  IF Exists /\ (watched \/ isNew)
           THEN /\ saved' = IF isNew
                            THEN [ExpandGlobs(saved) EXCEPT !.offset = 0, !.gen = gen]
                            ELSE saved
                /\ reading' = ReadFrom(saved')
                /\ tail' = "read" /\ watched' = TRUE
           ELSE /\ watched' = FALSE
                /\ UNCHANGED <<saved, reading, tail>>
    /\ UNCHANGED <<fileVars, checkpoint, managerVars, running, stopped,
                   consumerVars, history, bounds>>

\* The lines _read_new_lines returns from an offset on.
ReadNewLines(offset) == SubSeq(file.lines, offset + 1, Min2(offset + ReadMax, Len(file.lines)))

\* Mutant: the queue was made without a maxsize.
EnqueueUnbounded(new) ==
    /\ queue' = queue \o new
    /\ dropped' = dropped
    /\ offered' = offered + Len(new)

\* Mutant: the oldest events make room, as in a deque with a maxlen.
EnqueueEvicting(new) ==
    /\ queue' = LastN(queue \o new, Capacity)
    /\ dropped' = dropped
    /\ offered' = offered + Len(new)

\* put_event for each line in turn: those the queue has no room for are
\* counted and dropped.
Enqueue(new) ==
    LET room == Min2(Capacity - Len(queue), Len(new))
    IN  /\ queue' = queue \o SubSeq(new, 1, room)
        /\ dropped' = dropped + Len(new) - room
        /\ offered' = offered + Len(new)

\* Mutant: changes reported during the read are taken as read.
ReadSwallowing ==
    /\ tail = "read"
    /\ tail' = "watch" /\ reading' = NoOffset /\ changed' = {}
    /\ IF Exists
       THEN LET new == ReadNewLines(reading.offset)
            IN  /\ saved' = [reading EXCEPT !.offset = @ + Len(new)]
                /\ reads' = [l \in Lines |-> IF l \in Elements(new) THEN reads[l] + 1 ELSE reads[l]]
                /\ Enqueue(new)
       ELSE UNCHANGED <<saved, reads, managerVars>>
    /\ UNCHANGED <<fileVars, watched, checkpoint, running, stopped,
                   consumerVars, skipped, raced, bounds>>

\* The rest of _process_file: the offset moves past all lines read, then each
\* is put; if the file has gone since the stat(), open() raises OSError.
Read ==
    /\ tail = "read"
    /\ tail' = "watch" /\ reading' = NoOffset
    /\ IF Exists
       THEN LET new == ReadNewLines(reading.offset)
            IN  /\ saved' = [reading EXCEPT !.offset = @ + Len(new)]
                /\ reads' = [l \in Lines |-> IF l \in Elements(new) THEN reads[l] + 1 ELSE reads[l]]
                /\ Enqueue(new)
       ELSE UNCHANGED <<saved, reads, managerVars>>
    /\ UNCHANGED <<fileVars, changed, watched, checkpoint, running, stopped,
                   consumerVars, skipped, raced, bounds>>

\* FileTailReceiver.stop(), called by ReceiverManager.stop().
StopTail ==
    /\ Loop /\ stopped /\ tail # "off"
    /\ tail' = "off" /\ changed' = {}
    /\ checkpoint' = IF Checkpoints THEN saved ELSE checkpoint
    /\ UNCHANGED <<fileVars, saved, watched, reading, managerVars, running,
                   stopped, consumerVars, history, bounds>>
-----------------------------------------------------------------------------
(* Pipeline *)

\* A signal: Pipeline.stop() clears _running, ReceiverManager.stop() then sets
\* _stopped and stops the receivers one after the other.
Stop ==
    /\ Loop /\ ~stopped
    /\ running' = FALSE /\ stopped' = TRUE
    /\ UNCHANGED <<fileVars, changed, tailVars, managerVars, consumerVars,
                   history, bounds>>

Run ==
    /\ Loop /\ consumer = "begin"
    /\ running' = TRUE
    /\ consumer' = "get"
    /\ UNCHANGED <<fileVars, changed, tailVars, managerVars, stopped, current,
                   taken, history, bounds>>

\* Mutant: the newest event is got first, as from a LifoQueue.
GetEventNewest ==
    /\ Loop /\ consumer = "get" /\ queue # <<>>
    /\ current' = queue[Len(queue)] /\ queue' = SubSeq(queue, 1, Len(queue) - 1)
    /\ taken' = taken + 1
    /\ consumer' = "handle"
    /\ UNCHANGED <<fileVars, changed, tailVars, dropped, offered, running,
                   stopped, history, bounds>>

\* get_event returns the next event, after a stop as before it.
GetEvent ==
    /\ Loop /\ consumer = "get" /\ queue # <<>>
    /\ current' = Head(queue) /\ queue' = Tail(queue)
    /\ taken' = taken + 1
    /\ consumer' = "handle"
    /\ UNCHANGED <<fileVars, changed, tailVars, dropped, offered, running,
                   stopped, history, bounds>>

\* Mutant: the None of get_event is not taken for the end of the stream.
EndOfStreamIgnored ==
    /\ Loop /\ consumer = "get" /\ stopped /\ queue = <<>>
    /\ consumer' = IF running THEN "get" ELSE "ended"
    /\ UNCHANGED <<fileVars, changed, tailVars, managerVars, running, stopped,
                   current, taken, history, bounds>>

\* get_event times out, sees _stopped and an empty queue and returns None.
EndOfStream ==
    /\ Loop /\ consumer = "get" /\ stopped /\ queue = <<>>
    /\ consumer' = "ended" /\ running' = FALSE
    /\ UNCHANGED <<fileVars, changed, tailVars, managerVars, stopped, current,
                   taken, history, bounds>>

\* The handler returns or raises; the loop goes on while _running.
HandlerDone ==
    /\ Loop /\ consumer = "handle"
    /\ current' = 0
    /\ consumer' = IF running THEN "get" ELSE "ended"
    /\ UNCHANGED <<fileVars, changed, tailVars, managerVars, running, stopped,
                   taken, history, bounds>>

\* The API server ended first: run() cancels the pipeline task where it is.
CancelPipeline ==
    /\ Loop /\ ServerMayEnd /\ consumer # "ended"
    /\ current' = 0
    /\ consumer' = "ended"
    /\ UNCHANGED <<fileVars, changed, tailVars, managerVars, running, stopped,
                   taken, history, bounds>>

\* The process ends, by itself once the pipeline has ended or killed.
Die ==
    /\ Up /\ deaths < MaxDeaths
    /\ deaths' = deaths + 1
    /\ changed' = {}
    /\ saved' = NoOffset /\ watched' = FALSE /\ reading' = NoOffset
    /\ tail' = "off"
    /\ queue' = <<>> /\ dropped' = 0 /\ offered' = 0 /\ taken' = 0
    /\ running' = FALSE /\ stopped' = FALSE
    /\ consumer' = "off" /\ current' = 0
    /\ UNCHANGED <<fileVars, checkpoint, history, rotations>>

LogWriter == AppendLine \/ Remove \/ Create \/ Truncate
Receiver  == Watch \/ Process \/ Read \/ StopTail
Pipeline  == Run \/ GetEvent \/ EndOfStream \/ HandlerDone

Next == LogWriter \/ Start \/ Receiver \/ Stop \/ Pipeline \/ CancelPipeline \/ Die

\* The event loop runs every task that is ready, the handler returns, and
\* watchfiles yields what it was told.
Fairness == WF_vars(Watch) /\ WF_vars(Process) /\ WF_vars(Read) /\ WF_vars(StopTail)
                /\ WF_vars(Pipeline)

Spec == Init /\ [][Next]_vars
FairSpec == Spec /\ Fairness
-----------------------------------------------------------------------------
OffsetType ==
    [offset : Nat, inode : 1..(MaxRotations + 1), gen : Nat] \cup {NoOffset}

TypeOK ==
    /\ file \in [inode : 0..(MaxRotations + 1), lines : Seq(Lines)]
    /\ gen \in 0..MaxTruncations /\ written \in 0..NumLines
    /\ changed \subseteq {"added", "modified", "deleted"}
    /\ {saved, checkpoint, reading} \subseteq OffsetType
    /\ watched \in BOOLEAN /\ tail \in {"off", "begin", "watch", "read"}
    /\ queue \in Seq(Lines) /\ Len(queue) <= Capacity
    /\ dropped \in Nat /\ offered \in Nat /\ taken \in Nat /\ raced \in Nat
    /\ running \in BOOLEAN /\ stopped \in BOOLEAN
    /\ consumer \in {"off", "begin", "get", "handle", "ended"}
    /\ current \in Lines \cup {0}
    /\ reads \in [Lines -> Nat] /\ skipped \subseteq Lines
    /\ rotations \in 0..MaxRotations /\ deaths \in 0..MaxDeaths

\* No line is passed over unread: up to an offset that is of the content now in
\* the file, in memory or in the checkpoint, every line was read, or was there
\* before the file was tailed; whatever rotations came between a change and its
\* stat(), and between the stat() and the read.
NothingPassedOver ==
    \A o \in {saved, checkpoint} :
        o.inode = file.inode /\ o.gen = gen =>
            \A i \in DOMAIN file.lines : i <= o.offset => file.lines[i] \in Seen

\* A line is read a second time only for a cause: the process ended and went
\* back to its last checkpoint, or a rotation fell between stat() and open().
RereadForACause == \A l \in Lines : reads[l] <= 1 + deaths + raced

\* S-082: the drops counted, the events got and those waiting are the events
\* that were put: backpressure loses nothing that it does not count.
DropsAreCounted == Up => offered = taken + Len(queue) + dropped

\* The handler sees the lines of a file in the order they were written, across
\* a rotation too, unless a rotation fell between stat() and open().
InOrder ==
    raced = 0 => LET ahead == <<current>> \o queue
                 IN  \A i, j \in DOMAIN ahead : i < j => ahead[i] < ahead[j]

InFile(l) == l \in Elements(file.lines)

InReach(l) == l \in Elements(SubSeq(file.lines, 1, Min2(ReadMax, Len(file.lines))))

\* A line that one read can reach, of a file whose change was reported, is read,
\* unless it is gone first, the file was truncated or the receiver is stopped.
ReportedIsRead ==
    \A l \in Lines :
        (InReach(l) /\ changed # {} /\ (watched \/ "added" \in changed))
            ~> (l \in Seen \/ ~InFile(l) \/ gen > 0 \/ tail = "off")

\* After a stop the consumer loop ends, even if it was waiting on an empty
\* queue, or if the stop came before the loop began.
StopEndsTheLoop == stopped ~> consumer \in {"ended", "off"}

\* What get_event says: remaining events are drained before it returns None.  When
\* the loop ends after a stop, with all receivers stopped, nothing is in the queue.
DrainsOnStop ==
    [][stopped /\ tail = "off" /\ consumer # "ended" /\ consumer' = "ended"
        => queue = <<>>]_vars

\* The inductive invariant of NothingPassedOver: an inode number is used once,
\* a truncation outdates every offset, and an offset of the present content,
\* the one _process_file is about to read from included, is within it.
OffsetOK(o) ==
    /\ o.gen <= gen
    /\ o.inode <= IF Exists THEN file.inode ELSE rotations
    /\ o.inode = file.inode /\ o.gen = gen =>
          /\ o.offset <= Len(file.lines)
          /\ \A i \in 1..Len(file.lines) : i <= o.offset => file.lines[i] \in Seen

OffsetInv ==
    /\ IF Exists THEN file.inode = rotations + 1 ELSE file.lines = <<>>
    /\ \A o \in {saved, checkpoint, reading} : OffsetOK(o)
    /\ tail = "read" => reading # NoOffset
=============================================================================
