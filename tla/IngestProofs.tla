---------------------------- MODULE IngestProofs ----------------------------
(***************************************************************************)
(* What holds of the ingest path for every queue size, read size and       *)
(* number of lines, rotations, truncations and restarts: its types, the    *)
(* accounting of the backpressure drops, and that no line is passed over.  *)
(***************************************************************************)
EXTENDS Ingest, TLAPS

USE IngestAssumption

\* A prefix of a sequence is one, of the length asked for.
LEMMA PrefixFacts ==
    ASSUME NEW S, NEW s \in Seq(S), NEW n \in 0..Len(s)
    PROVE  /\ SubSeq(s, 1, n) \in Seq(S)
           /\ Len(SubSeq(s, 1, n)) = n
  OBVIOUS

\* A read returns lines of the file, and from an offset inside the file every
\* line up to the offset it moves to.
LEMMA ReadFacts ==
    ASSUME file.lines \in Seq(Lines), NEW o \in Nat
    PROVE  /\ ReadNewLines(o) \in Seq(Lines)
           /\ o <= Len(file.lines) => /\ Len(ReadNewLines(o)) \in Nat
                                      /\ o + Len(ReadNewLines(o)) <= Len(file.lines)
                                      /\ \A i \in 1..Len(file.lines) :
                                            o < i /\ i <= o + Len(ReadNewLines(o))
                                                => file.lines[i] \in Elements(ReadNewLines(o))
<1> DEFINE top == Min2(o + ReadMax, Len(file.lines))
           new == ReadNewLines(o)
<1>0. Len(file.lines) \in Nat /\ ReadMax \in Nat /\ ReadMax > 0
  OBVIOUS
<1>1. top \in Int /\ top <= Len(file.lines) /\ top \in {o + ReadMax, Len(file.lines)}
  BY <1>0 DEF Min2
<1>2. new = SubSeq(file.lines, o + 1, top)
  BY DEF ReadNewLines
<1> HIDE DEF top, new
<1>3. new \in Seq(Lines)
  BY <1>1, <1>2
<1>4. ASSUME o <= Len(file.lines)
      PROVE  /\ Len(new) \in Nat
             /\ o + Len(new) <= Len(file.lines)
             /\ \A i \in 1..Len(file.lines) :
                   o < i /\ i <= o + Len(new) => file.lines[i] \in Elements(new)
  <2>1. o <= top
    BY <1>0, <1>1, <1>4
  <2>2. Len(new) = top - o
    BY <1>1, <1>2, <1>4, <2>1
  <2>3. \A i \in 1..Len(file.lines) :
           o < i /\ i <= o + Len(new) => i - o \in DOMAIN new /\ new[i - o] = file.lines[i]
    BY <1>1, <1>2, <1>4, <2>1, <2>2
  <2> QED
    BY <1>1, <1>4, <2>2, <2>3 DEF Elements
<1> QED
  BY <1>3, <1>4 DEF new

\* put_event keeps the queue within its bound, and the events it adds, drops
\* and was offered add up.
LEMMA EnqueueFacts ==
    ASSUME TypeOK, NEW new \in Seq(Lines), Enqueue(new)
    PROVE  /\ queue' \in Seq(Lines) /\ Len(queue') <= Capacity
           /\ dropped' \in Nat /\ offered' \in Nat
           /\ \A t \in Nat : offered = t + Len(queue) + dropped
                            => offered' = t + Len(queue') + dropped'
<1> DEFINE room == Min2(Capacity - Len(queue), Len(new))
<1>1. /\ queue \in Seq(Lines) /\ Len(queue) \in Nat /\ Len(queue) <= Capacity
      /\ dropped \in Nat /\ offered \in Nat /\ Len(new) \in Nat
      /\ Capacity \in Nat
  BY DEF TypeOK
<1>2. room \in 0..Len(new) /\ room <= Capacity - Len(queue)
  BY <1>1 DEF Min2
<1>3. /\ queue' = queue \o SubSeq(new, 1, room)
      /\ dropped' = dropped + Len(new) - room
      /\ offered' = offered + Len(new)
  BY DEF Enqueue
<1> HIDE DEF room
<1>4. SubSeq(new, 1, room) \in Seq(Lines) /\ Len(SubSeq(new, 1, room)) = room
  BY <1>2, PrefixFacts
<1>5. queue' \in Seq(Lines) /\ Len(queue') = Len(queue) + room
  BY <1>1, <1>3, <1>4
<1>6. Len(queue') <= Capacity /\ dropped' \in Nat /\ offered' \in Nat
  BY <1>1, <1>2, <1>3, <1>5
<1>7. ASSUME NEW t \in Nat, offered = t + Len(queue) + dropped
      PROVE  offered' = t + Len(queue') + dropped'
  <2>1. /\ dropped' = dropped + Len(new) - room /\ offered' = offered + Len(new)
        /\ Len(queue') = Len(queue) + room
    BY <1>3, <1>5
  <2>2. room \in Int
    BY <1>2
  <2> QED
    BY <1>1, <1>7, <2>1, <2>2
<1> QED
  BY <1>5, <1>6, <1>7

\* The types hold before the first start.
LEMMA InitTypeOK == Init => TypeOK
<1> SUFFICES ASSUME Init PROVE TypeOK
  OBVIOUS
<1>1. file \in [inode : 0..(MaxRotations + 1), lines : Seq(Lines)]
  <2>1. file.inode = 1 /\ file.lines = <<>> /\ file = [inode |-> 1, lines |-> <<>>]
    BY DEF Init
  <2>2. <<>> \in Seq(Lines)
    OBVIOUS
  <2> QED
    BY <2>1, <2>2
<1>2. queue \in Seq(Lines) /\ Len(queue) <= Capacity
  BY DEF Init
<1>3. reads \in [Lines -> Nat]
  BY DEF Init
<1>4. {saved, checkpoint, reading} \subseteq OffsetType
  BY DEF Init, OffsetType
<1>5. /\ gen \in 0..MaxTruncations /\ written \in 0..NumLines
      /\ rotations \in 0..MaxRotations /\ deaths \in 0..MaxDeaths
      /\ dropped \in Nat /\ offered \in Nat /\ taken \in Nat /\ raced \in Nat
  BY DEF Init
<1>6. /\ changed \subseteq {"added", "modified", "deleted"}
      /\ watched \in BOOLEAN /\ tail \in {"off", "begin", "watch", "read"}
      /\ running \in BOOLEAN /\ stopped \in BOOLEAN
      /\ consumer \in {"off", "begin", "get", "handle", "ended"}
      /\ current \in Lines \cup {0} /\ skipped \subseteq Lines
  BY DEF Init
<1> QED
  BY <1>1, <1>2, <1>3, <1>4, <1>5, <1>6 DEF TypeOK

\* What ReadFrom makes of a known offset: an offset of the file's inode that is
\* of the same content as the one it was given, or the beginning of the file.
LEMMA ReadFromFacts ==
    ASSUME TypeOK, Exists, NEW s \in OffsetType
    PROVE  /\ ReadFrom(s) \in OffsetType
           /\ ReadFrom(s) # NoOffset
           /\ ReadFrom(s).inode = file.inode
           /\ \/ ReadFrom(s) = s
              \/ ReadFrom(s).offset = 0 /\ ReadFrom(s).gen = gen
<1>1. file.inode \in 1..(MaxRotations + 1) /\ gen \in Nat
  BY DEF TypeOK, Exists
<1>2. CASE CheckRotation(s) = "ok"
  <2>1. s.inode = file.inode
    BY <1>2 DEF CheckRotation
  <2>2. s # NoOffset /\ s \in [offset : Nat, inode : 1..(MaxRotations + 1), gen : Nat]
    BY <1>1, <2>1 DEF OffsetType, NoOffset
  <2>3. [s EXCEPT !.inode = file.inode] = s
    BY <2>1, <2>2
  <2> QED
    BY <1>2, <2>1, <2>2, <2>3 DEF ReadFrom
<1>3. CASE CheckRotation(s) # "ok"
  <2>1. ReadFrom(s) = [offset |-> 0, inode |-> file.inode, gen |-> gen]
    BY <1>3 DEF ReadFrom, FileOffset
  <2> QED
    BY <1>1, <2>1 DEF OffsetType, NoOffset
<1> QED
  BY <1>2, <1>3

\* A path found by _expand_globs gets an offset at the end of what it holds, and
\* a known offset is kept.
LEMMA ExpandGlobsFacts ==
    ASSUME TypeOK, NEW s \in OffsetType
    PROVE  /\ ExpandGlobs(s) \in OffsetType
           /\ \/ ExpandGlobs(s) = s /\ (Exists => s # NoOffset)
              \/ /\ Exists /\ s = NoOffset
                 /\ ExpandGlobs(s) = FileOffset(Len(file.lines), file.inode, gen)
                 /\ ExpandGlobs(s) # NoOffset
<1>1. /\ Len(file.lines) \in Nat /\ gen \in Nat
      /\ Exists => file.inode \in 1..(MaxRotations + 1)
  BY DEF TypeOK, Exists
<1>2. Exists => /\ FileOffset(Len(file.lines), file.inode, gen) \in OffsetType
                /\ FileOffset(Len(file.lines), file.inode, gen) # NoOffset
  BY <1>1 DEF FileOffset, OffsetType, NoOffset
<1> QED
  BY <1>2 DEF ExpandGlobs

\* What get_event takes off the queue, and what it leaves.
LEMMA QueueHead ==
    ASSUME queue \in Seq(Lines), queue # <<>>
    PROVE  /\ Head(queue) \in Lines
           /\ Tail(queue) \in Seq(Lines)
           /\ Len(Tail(queue)) = Len(queue) - 1
  OBVIOUS

\* What a read does: the offset moves past the lines read, each line read is
\* counted, and the queue keeps its bound.
LEMMA ReadStep ==
    ASSUME TypeOK, tail = "read" => reading # NoOffset, Read, Exists
    PROVE  /\ Enqueue(ReadNewLines(reading.offset))
           /\ reading.offset \in Nat /\ reading # NoOffset
           /\ ReadNewLines(reading.offset) \in Seq(Lines)
           /\ saved' = [reading EXCEPT !.offset = @ + Len(ReadNewLines(reading.offset))]
           /\ saved' \in OffsetType
           /\ reads' \in [Lines -> Nat]
           /\ \A l \in Lines : reads'[l] >= reads[l]
           /\ \A l \in Elements(ReadNewLines(reading.offset)) : l \in Seen'
<1> DEFINE new == ReadNewLines(reading.offset)
<1>1. /\ Enqueue(new)
      /\ saved' = [reading EXCEPT !.offset = @ + Len(new)]
      /\ reads' = [l \in Lines |-> IF l \in Elements(new) THEN reads[l] + 1 ELSE reads[l]]
  BY DEF Read
<1>2. reading \in [offset : Nat, inode : 1..(MaxRotations + 1), gen : Nat]
  BY DEF TypeOK, OffsetType, Read
<1>3. file.lines \in Seq(Lines)
  BY DEF TypeOK
<1>4. new \in Seq(Lines)
  BY <1>2, <1>3, ReadFacts
<1>5. Elements(new) \subseteq Lines
  BY <1>4 DEF Elements
<1> HIDE DEF new
<1>6. Len(new) \in Nat
  BY <1>4
<1>7. saved' \in [offset : Nat, inode : 1..(MaxRotations + 1), gen : Nat]
  BY SMTT(20), <1>1, <1>2, <1>6
<1>8. /\ reads' \in [Lines -> Nat]
      /\ \A l \in Lines : reads'[l] >= reads[l]
      /\ \A l \in Elements(new) : reads'[l] > 0
  <2>1. reads \in [Lines -> Nat]
    BY DEF TypeOK
  <2> QED
    BY <1>1, <1>5, <2>1
<1>9. \A l \in Elements(new) : l \in Seen'
  BY <1>5, <1>8 DEF Seen
<1>10. reading.offset \in Nat /\ reading # NoOffset
  BY <1>2 DEF NoOffset
<1>11. saved' \in OffsetType
  BY <1>7 DEF OffsetType
<1> QED
  BY <1>1, <1>4, <1>8, <1>9, <1>10, <1>11 DEF new

\* The parts of a well-typed file.
LEMMA FileFacts ==
    ASSUME TypeOK
    PROVE  /\ file.inode \in 0..(MaxRotations + 1) /\ file.lines \in Seq(Lines)
           /\ \A s \in Seq(Lines) :
                 [file EXCEPT !.lines = s] \in [inode : 0..(MaxRotations + 1), lines : Seq(Lines)]
           /\ \A n \in 0..(MaxRotations + 1) :
                 [inode |-> n, lines |-> <<>>] \in [inode : 0..(MaxRotations + 1), lines : Seq(Lines)]
<1>1. file \in [inode : 0..(MaxRotations + 1), lines : Seq(Lines)]
  BY DEF TypeOK
<1>2. <<>> \in Seq(Lines)
  OBVIOUS
<1> QED
  BY <1>1, <1>2

\* Every step of the log writer, the receiver and the pipeline keeps the types.
LEMMA TypeStep ==
    ASSUME TypeOK, tail = "read" => reading # NoOffset, [Next]_vars
    PROVE  TypeOK'
<1>0. /\ file \in [inode : 0..(MaxRotations + 1), lines : Seq(Lines)]
      /\ gen \in 0..MaxTruncations /\ rotations \in 0..MaxRotations
      /\ written \in 0..NumLines /\ NumLines \in Nat /\ MaxRotations \in Nat
      /\ saved \in OffsetType /\ checkpoint \in OffsetType /\ gen \in Nat
  BY DEF TypeOK
<1>1. CASE AppendLine
  <2>1. written + 1 \in Lines /\ written' \in 0..NumLines
    BY SMTT(20), <1>0, <1>1 DEF AppendLine, Lines
  <2>2. file' \in [inode : 0..(MaxRotations + 1), lines : Seq(Lines)]
    <3>1. \A s \in Seq(Lines) : Append(s, written + 1) \in Seq(Lines)
      BY <2>1
    <3>2. Append(file.lines, written + 1) \in Seq(Lines)
      BY <3>1, FileFacts
    <3> QED
      BY <1>1, <3>2, FileFacts DEF AppendLine
  <2> QED
    BY <1>1, <2>1, <2>2 DEF TypeOK, AppendLine, Notify, tailVars, managerVars, consumerVars, history, bounds
<1>2. CASE Remove
  <2>1. file' \in [inode : 0..(MaxRotations + 1), lines : Seq(Lines)]
    BY <1>2, FileFacts DEF Remove, NoFile
  <2> QED
    BY <1>2, <2>1 DEF TypeOK, Remove, Notify, tailVars, managerVars, consumerVars
<1>3. CASE Create
  <2>1. file' \in [inode : 0..(MaxRotations + 1), lines : Seq(Lines)]
    <3>1. rotations + 1 \in 0..(MaxRotations + 1)
      BY <1>0
    <3> QED
      BY <1>3, <3>1, FileFacts DEF Create
  <2> QED
    BY <1>3, <2>1 DEF TypeOK, Create, Notify, tailVars, managerVars, consumerVars, history, bounds
<1>4. CASE Truncate
  <2>1. file' \in [inode : 0..(MaxRotations + 1), lines : Seq(Lines)]
    <3>1. <<>> \in Seq(Lines)
      OBVIOUS
    <3> QED
      BY <1>4, <3>1, FileFacts DEF Truncate
  <2>2. gen' \in 0..MaxTruncations
    BY <1>0, <1>4 DEF Truncate
  <2> QED
    BY <1>4, <2>1, <2>2 DEF TypeOK, Truncate, Notify, tailVars, managerVars, consumerVars, history, bounds
<1>5. CASE Start
  <2>1. saved' \in OffsetType
    BY <1>0, <1>5, ExpandGlobsFacts DEF Start
  <2>2. \A i \in DOMAIN file.lines : file.lines[i] \in Lines
    BY <1>0
  <2>3. skipped' \subseteq Lines
    BY <1>5, <2>2 DEF Start, TypeOK
  <2> QED
    BY <1>5, <2>1, <2>3 DEF TypeOK, Start, fileVars, managerVars, bounds, Exists
<1>6. CASE Watch
  BY <1>6 DEF TypeOK, Watch, fileVars, managerVars, consumerVars, history, bounds
<1>7. CASE Process
  <2>1. saved' \in OffsetType
    <3>1. ASSUME Exists
          PROVE  [ExpandGlobs(saved) EXCEPT !.offset = 0, !.gen = gen] \in OffsetType
      <4>1. ExpandGlobs(saved) \in [offset : Nat, inode : 1..(MaxRotations + 1), gen : Nat]
        BY <1>0, <3>1, ExpandGlobsFacts DEF OffsetType
      <4> QED
        BY <1>0, <4>1 DEF OffsetType
    <3> QED
      BY <1>0, <1>7, <3>1 DEF Process
  <2>2. reading' \in OffsetType
    <3>1. Exists => ReadFrom(saved') \in OffsetType
      BY <2>1, ReadFromFacts
    <3> QED
      BY <1>7, <3>1 DEF Process, TypeOK
  <2>3. watched' \in BOOLEAN /\ tail' \in {"off", "begin", "watch", "read"}
    BY <1>7 DEF Process, TypeOK
  <2> QED
    BY <1>7, <2>1, <2>2, <2>3 DEF TypeOK, Process, fileVars, managerVars, consumerVars, history, bounds
<1>8. CASE Read
  <2>1. NoOffset \in OffsetType
    BY DEF OffsetType
  <2>2. CASE Exists
    <3>1. /\ saved' \in OffsetType /\ reads' \in [Lines -> Nat]
          /\ Enqueue(ReadNewLines(reading.offset))
          /\ ReadNewLines(reading.offset) \in Seq(Lines)
      BY <1>8, <2>2, ReadStep
    <3>2. /\ queue' \in Seq(Lines) /\ Len(queue') <= Capacity
          /\ dropped' \in Nat /\ offered' \in Nat
      BY <3>1, EnqueueFacts
    <3> QED
      BY <1>8, <2>1, <3>1, <3>2 DEF TypeOK, Read, fileVars, consumerVars, bounds
  <2>3. CASE ~Exists
    BY <1>8, <2>1, <2>3 DEF TypeOK, Read, fileVars, managerVars, consumerVars, bounds
  <2> QED
    BY <2>2, <2>3
<1>9. CASE StopTail
  BY <1>9 DEF TypeOK, StopTail, fileVars, managerVars, consumerVars, history, bounds
<1>10. CASE Stop
  BY <1>10 DEF TypeOK, Stop, fileVars, tailVars, managerVars, consumerVars, history, bounds
<1>11. CASE Run
  BY <1>11 DEF TypeOK, Run, fileVars, tailVars, managerVars, history, bounds
<1>12. CASE GetEvent
  <2>1. /\ queue' \in Seq(Lines) /\ Len(queue') <= Capacity
        /\ current' \in Lines /\ taken' \in Nat
    <3>1. /\ queue \in Seq(Lines) /\ Len(queue) \in Nat /\ Len(queue) <= Capacity
          /\ Capacity \in Nat /\ taken \in Nat
      BY DEF TypeOK
    <3> QED
      BY <1>12, <3>1, QueueHead DEF GetEvent
  <2> QED
    BY <1>12, <2>1 DEF TypeOK, GetEvent, fileVars, tailVars, history, bounds
<1>13. CASE EndOfStream
  BY <1>13 DEF TypeOK, EndOfStream, fileVars, tailVars, managerVars, history, bounds
<1>14. CASE HandlerDone
  BY <1>14 DEF TypeOK, HandlerDone, fileVars, tailVars, managerVars, history, bounds
<1>15. CASE CancelPipeline
  BY <1>15 DEF TypeOK, CancelPipeline, fileVars, tailVars, managerVars, history, bounds
<1>16. CASE Die
  <2>1. NoOffset \in OffsetType /\ <<>> \in Seq(Lines) /\ Len(<<>>) = 0
    BY DEF OffsetType
  <2>2. queue' \in Seq(Lines) /\ Len(queue') <= Capacity /\ deaths' \in 0..MaxDeaths
    BY <1>16, <2>1 DEF TypeOK, Die
  <2>3. /\ {saved, checkpoint, reading}' \subseteq OffsetType
        /\ dropped' \in Nat /\ offered' \in Nat /\ taken' \in Nat /\ current' \in Lines \cup {0}
    BY <1>16, <2>1 DEF TypeOK, Die
  <2> QED
    BY <1>16, <2>2, <2>3 DEF TypeOK, Die, fileVars, history
<1>17. CASE UNCHANGED vars
  BY <1>17 DEF TypeOK, vars, fileVars, tailVars, managerVars, consumerVars, history, bounds
<1> QED
  BY <1>1, <1>2, <1>3, <1>4, <1>5, <1>6, <1>7, <1>8, <1>9, <1>10, <1>11, <1>12,
     <1>13, <1>14, <1>15, <1>16, <1>17 DEF Next, LogWriter, Receiver, Pipeline

\* Backpressure accounting, whether or not the process is up.
Accounts == offered = taken + Len(queue) + dropped

\* No step puts, gets or drops an event that is not counted; a death resets all.
LEMMA AccountsStep ==
    ASSUME TypeOK, tail = "read" => reading # NoOffset, Accounts, [Next]_vars
    PROVE  Accounts'
<1>0. /\ queue \in Seq(Lines) /\ Len(queue) \in Nat
      /\ taken \in Nat /\ dropped \in Nat /\ offered \in Nat
  BY DEF TypeOK
<1>1. CASE Read
  <2>1. CASE Exists
    <3>1. Enqueue(ReadNewLines(reading.offset)) /\ ReadNewLines(reading.offset) \in Seq(Lines)
      BY <1>1, <2>1, ReadStep
    <3>2. offered' = taken + Len(queue') + dropped'
      BY <1>0, <3>1, EnqueueFacts DEF Accounts
    <3> QED
      BY <1>1, <3>2 DEF Read, Accounts, consumerVars
  <2> QED
    BY <1>1, <2>1 DEF Read, Accounts, consumerVars, managerVars
<1>2. CASE GetEvent
  <2>1. Len(queue') = Len(queue) - 1
    BY <1>0, <1>2, QueueHead DEF GetEvent
  <2>2. taken' = taken + 1 /\ dropped' = dropped /\ offered' = offered
    BY <1>2 DEF GetEvent
  <2> QED
    BY <1>0, <2>1, <2>2 DEF Accounts
<1>3. CASE Die
  <2>1. Len(<<>>) = 0
    OBVIOUS
  <2> QED
    BY <1>3, <2>1 DEF Die, Accounts
<1>4. CASE LogWriter \/ Start \/ Watch \/ Process \/ StopTail \/ Stop \/ Run \/ EndOfStream
              \/ HandlerDone \/ CancelPipeline \/ UNCHANGED vars
  <2>1. UNCHANGED <<managerVars, taken>>
    BY <1>4 DEF LogWriter, AppendLine, Remove, Create, Truncate, Start, Watch, Process,
       StopTail, Stop, Run, EndOfStream, HandlerDone, CancelPipeline, vars, consumerVars
  <2> QED
    BY <2>1 DEF Accounts, managerVars
<1> QED
  BY <1>1, <1>2, <1>3, <1>4 DEF Next, Receiver, Pipeline

\* A line that was read, or skipped by start(), stays so.
LEMMA SeenGrows ==
    ASSUME TypeOK, tail = "read" => reading # NoOffset, [Next]_vars
    PROVE  Seen \subseteq Seen'
<1>1. CASE Read
  <2>0. reads \in [Lines -> Nat]
    BY DEF TypeOK
  <2>1. CASE Exists
    <3>1. /\ reads' \in [Lines -> Nat] /\ \A l \in Lines : reads'[l] >= reads[l]
      BY <1>1, <2>1, ReadStep
    <3> QED
      BY <1>1, <2>0, <3>1 DEF Seen, Read
  <2> QED
    BY <1>1, <2>1 DEF Seen, Read
<1>2. CASE Start
  BY <1>2 DEF Start, Seen
<1>3. CASE LogWriter \/ Watch \/ Process \/ StopTail \/ Stop \/ Pipeline \/ CancelPipeline
              \/ Die \/ UNCHANGED vars
  BY <1>3 DEF LogWriter, AppendLine, Remove, Create, Truncate, Watch, Process, StopTail,
     Stop, Pipeline, Run, GetEvent, EndOfStream, HandlerDone, CancelPipeline, Die, vars,
     history, Seen
<1> QED
  BY <1>1, <1>2, <1>3 DEF Next, Receiver

\* A path without an offset has passed over nothing.
LEMMA NoOffsetOK ==
    ASSUME TypeOK, OffsetInv
    PROVE  OffsetOK(NoOffset)
<1>1. gen \in Nat /\ rotations \in Nat /\ file.inode \in Nat
  BY DEF TypeOK
<1>2. Len(<<>>) = 0
  OBVIOUS
<1> QED
  BY <1>1, <1>2 DEF OffsetInv, OffsetOK, NoOffset, Exists

\* An offset that passed over nothing still does while the file stays as it is.
LEMMA OffsetStays ==
    ASSUME UNCHANGED <<file, gen, rotations>>, Seen \subseteq Seen', NEW o, OffsetOK(o)
    PROVE  OffsetOK(o)'
  BY DEF OffsetOK, Exists

\* Whatever the writer of the log does between a stat() and the read that follows,
\* the saved, the checkpointed and the pending offset pass over nothing.
LEMMA OffsetStep ==
    ASSUME TypeOK, OffsetInv, [Next]_vars
    PROVE  OffsetInv'
<1> DEFINE Known == {saved, checkpoint, reading, NoOffset}
<1>1. /\ gen \in Nat /\ rotations \in Nat /\ file.inode \in Nat /\ file.lines \in Seq(Lines)
      /\ Len(file.lines) \in Nat
      /\ saved \in OffsetType /\ checkpoint \in OffsetType /\ reading \in OffsetType
      /\ file \in [inode : 0..(MaxRotations + 1), lines : Seq(Lines)]
  BY DEF TypeOK
<1>2. Seen \subseteq Seen'
  BY SeenGrows DEF OffsetInv
<1>3. \A o \in Known : OffsetOK(o)
  BY NoOffsetOK DEF OffsetInv
<1>4. (IF Exists THEN file.inode = rotations + 1 ELSE file.lines = <<>>)
      /\ (tail = "read" => reading # NoOffset)
  BY DEF OffsetInv
<1>5. CASE AppendLine
  <2>1. /\ Exists /\ Exists' /\ file'.inode = file.inode /\ UNCHANGED <<gen, rotations>>
        /\ file'.lines = Append(file.lines, written + 1)
        /\ UNCHANGED <<saved, checkpoint, reading, tail>>
    BY <1>1, <1>5 DEF AppendLine, Exists, tailVars, bounds
  <2>2. /\ Len(file'.lines) = Len(file.lines) + 1
        /\ \A i \in 1..Len(file.lines) : file'.lines[i] = file.lines[i]
    BY <1>1, <2>1
  <2>3. ASSUME NEW o \in Known PROVE OffsetOK(o)'
    <3>1. o.offset \in Int
      BY <1>1 DEF OffsetType, NoOffset
    <3>2. OffsetOK(o)
      BY <1>3
    <3>3. /\ o.gen <= gen' /\ o.inode <= IF Exists' THEN file'.inode ELSE rotations'
      BY <2>1, <3>2 DEF OffsetOK
    <3>4. ASSUME o.inode = file'.inode, o.gen = gen'
          PROVE  /\ o.offset <= Len(file.lines)
                 /\ \A i \in 1..Len(file.lines) : i <= o.offset => file.lines[i] \in Seen'
      BY <1>2, <2>1, <3>2, <3>4 DEF OffsetOK
    <3>5. ASSUME o.inode = file'.inode, o.gen = gen'
          PROVE  /\ o.offset <= Len(file'.lines)
                 /\ \A i \in 1..Len(file'.lines) : i <= o.offset => file'.lines[i] \in Seen'
      BY SMTT(20), <1>1, <2>2, <3>1, <3>4, <3>5
    <3> QED
      BY <3>3, <3>5 DEF OffsetOK
  <2> QED
    BY <1>4, <2>1, <2>3 DEF OffsetInv
<1>6. CASE Remove \/ Create \/ Truncate
  <2>1. /\ UNCHANGED <<saved, checkpoint, reading, tail>>
        /\ file'.lines = <<>> /\ Len(file'.lines) = 0
    BY <1>1, <1>4, <1>6 DEF Remove, Create, Truncate, NoFile, tailVars
  <2>2. \A o \in OffsetType : o.gen \in Nat /\ o.inode \in Nat
    BY SMTT(20), <1>1 DEF OffsetType, NoOffset
  <2>3. CASE Remove
    <3>1. /\ Exists /\ ~Exists' /\ file'.inode = 0 /\ gen' = gen
          /\ rotations' = rotations + 1
      BY <2>3 DEF Remove, Exists, NoFile
    <3>2. \A o \in {saved, checkpoint, reading} : o.inode <= rotations + 1 /\ o.gen <= gen
      BY <1>3, <1>4, <3>1 DEF OffsetOK
    <3>3. \A o \in {saved, checkpoint, reading} : o.inode = 0 => o = NoOffset
      BY <1>1 DEF OffsetType
    <3>4. ASSUME NEW o \in {saved, checkpoint, reading} PROVE OffsetOK(o)'
      BY <1>1, <2>1, <3>1, <3>2, <3>3 DEF OffsetOK, NoOffset
    <3> QED
      BY <1>4, <2>1, <3>1, <3>4 DEF OffsetInv
  <2>4. CASE Create
    <3>1. /\ ~Exists /\ Exists' /\ file'.inode = rotations + 1
          /\ UNCHANGED <<gen, rotations>>
      BY <1>1, <2>4 DEF Create, Exists, bounds
    <3>2. \A o \in {saved, checkpoint, reading} : o.inode <= rotations /\ o.gen <= gen
      BY <1>3, <3>1 DEF OffsetOK
    <3>3. ASSUME NEW o \in {saved, checkpoint, reading} PROVE OffsetOK(o)'
      BY <1>1, <2>1, <2>2, <3>1, <3>2 DEF OffsetOK
    <3> QED
      BY <1>4, <2>1, <3>1, <3>3 DEF OffsetInv
  <2>5. CASE Truncate
    <3>1. /\ Exists /\ Exists' /\ file'.inode = file.inode
          /\ gen' = gen + 1 /\ rotations' = rotations
      BY <1>1, <2>5 DEF Truncate, Exists, bounds
    <3>2. \A o \in {saved, checkpoint, reading} : o.inode <= file.inode /\ o.gen <= gen
      BY <1>3, <3>1 DEF OffsetOK
    <3>3. ASSUME NEW o \in {saved, checkpoint, reading} PROVE OffsetOK(o)'
      BY SMTT(20), <1>1, <2>1, <2>2, <3>1, <3>2 DEF OffsetOK
    <3> QED
      BY <1>4, <2>1, <3>1, <3>3 DEF OffsetInv
  <2> QED
    BY <1>6, <2>3, <2>4, <2>5
<1>7. CASE Start
  <2>1. /\ UNCHANGED <<file, gen, rotations, checkpoint, reading>>
        /\ saved' = ExpandGlobs(checkpoint) /\ tail' = "begin"
    BY <1>7 DEF Start, fileVars, bounds
  <2>2. \A o \in Known : OffsetOK(o)'
    BY <1>2, <1>3, <2>1, OffsetStays
  <2>3. CASE ExpandGlobs(checkpoint) = checkpoint
    BY <1>4, <2>1, <2>2, <2>3 DEF OffsetInv, Exists
  <2>4. CASE ExpandGlobs(checkpoint) # checkpoint
    <3>1. Exists /\ checkpoint = NoOffset
      BY <2>4 DEF ExpandGlobs
    <3>2. /\ saved'.offset = Len(file.lines) /\ saved'.inode = file.inode /\ saved'.gen = gen
      BY <2>1, <3>1 DEF ExpandGlobs, FileOffset
    <3>3. \A i \in 1..Len(file.lines) : file.lines[i] \in Seen'
      BY <1>1, <1>7, <3>1 DEF Start, Seen
    <3>4. OffsetOK(saved)'
      BY <1>1, <2>1, <3>1, <3>2, <3>3 DEF OffsetOK, Exists
    <3> QED
      BY <1>4, <2>1, <2>2, <3>4 DEF OffsetInv, Exists
  <2> QED
    BY <2>3, <2>4
<1>8. CASE Process
  <2>1. UNCHANGED <<file, gen, rotations, checkpoint>>
    BY <1>8 DEF Process, fileVars, bounds
  <2>2. \A o \in Known : OffsetOK(o)'
    BY <1>2, <1>3, <2>1, OffsetStays
  <2>3. CASE UNCHANGED <<saved, reading, tail>>
    BY <1>4, <2>1, <2>2, <2>3 DEF OffsetInv, Exists
  <2>4. CASE ~ UNCHANGED <<saved, reading, tail>>
    <3>1. /\ Exists /\ tail' = "read" /\ reading' = ReadFrom(saved')
          /\ \/ saved' = saved
             \/ saved' = [ExpandGlobs(saved) EXCEPT !.offset = 0, !.gen = gen]
      BY <1>8, <2>4 DEF Process
    <3>2. saved' \in OffsetType
      BY <1>8, TypeStep DEF Next, Receiver, OffsetInv, TypeOK
    <3>3. OffsetOK(saved)'
      <4>1. CASE saved' = saved
        BY <2>2, <4>1 DEF OffsetOK
      <4>2. CASE saved' = [ExpandGlobs(saved) EXCEPT !.offset = 0, !.gen = gen]
        <5>1. ExpandGlobs(saved) \in [offset : Nat, inode : 1..(MaxRotations + 1), gen : Nat]
          BY <1>1, <3>1, ExpandGlobsFacts DEF OffsetType
        <5>2. saved'.offset = 0 /\ saved'.gen = gen
              /\ saved'.inode = ExpandGlobs(saved).inode
          BY <4>2, <5>1
        <5>3. ExpandGlobs(saved).inode <= file.inode
          BY <1>1, <1>3, <3>1 DEF ExpandGlobs, FileOffset, OffsetOK
        <5> QED
          BY <1>1, <2>1, <3>1, <5>2, <5>3 DEF OffsetOK, Exists
      <4> QED
        BY <3>1, <4>1, <4>2
    <3>4. OffsetOK(reading)' /\ reading' # NoOffset
      <4>1. /\ reading' # NoOffset /\ reading'.inode = file.inode
            /\ \/ reading' = saved'
               \/ reading'.offset = 0 /\ reading'.gen = gen
        BY <3>1, <3>2, ReadFromFacts
      <4>2. CASE reading' = saved'
        BY <3>3, <4>1, <4>2 DEF OffsetOK
      <4>3. CASE reading'.offset = 0 /\ reading'.gen = gen
        BY <1>1, <2>1, <3>1, <4>1, <4>3 DEF OffsetOK, Exists
      <4> QED
        BY <4>1, <4>2, <4>3
    <3> QED
      BY <1>4, <2>1, <2>2, <3>3, <3>4 DEF OffsetInv, Exists
  <2> QED
    BY <2>3, <2>4
<1>9. CASE Read
  <2>1. UNCHANGED <<file, gen, rotations, checkpoint>> /\ tail = "read" /\ tail' = "watch"
        /\ reading' = NoOffset
    BY <1>9 DEF Read, fileVars, bounds
  <2>2. \A o \in Known : OffsetOK(o)'
    BY <1>2, <1>3, <2>1, OffsetStays
  <2>3. CASE Exists
    <3> DEFINE new == ReadNewLines(reading.offset)
    <3>1. /\ reading.offset \in Nat /\ reading # NoOffset
          /\ new \in Seq(Lines)
          /\ saved' = [reading EXCEPT !.offset = @ + Len(new)]
          /\ \A l \in Elements(new) : l \in Seen'
      BY <1>4, <1>9, <2>3, ReadStep
    <3>2. reading \in [offset : Nat, inode : 1..(MaxRotations + 1), gen : Nat]
      BY <1>1, <3>1 DEF OffsetType
    <3>3. reading.offset <= Len(file.lines)
              => /\ reading.offset + Len(new) <= Len(file.lines)
                 /\ \A i \in 1..Len(file.lines) :
                       reading.offset < i /\ i <= reading.offset + Len(new)
                           => file.lines[i] \in Elements(new)
      BY <1>1, <3>1, ReadFacts
    <3> HIDE DEF new
    <3>4. /\ saved'.offset = reading.offset + Len(new)
          /\ saved'.inode = reading.inode /\ saved'.gen = reading.gen
          /\ Len(new) \in Nat
      BY <3>1, <3>2
    <3>5. OffsetOK(reading)
      BY <1>3
    <3>6. OffsetOK(saved)'
      <4>1. /\ saved'.gen <= gen' /\ saved'.inode <= IF Exists' THEN file'.inode ELSE rotations'
        BY <2>1, <2>3, <3>4, <3>5 DEF OffsetOK, Exists
      <4>2. ASSUME saved'.inode = file'.inode, saved'.gen = gen'
            PROVE  /\ saved'.offset <= Len(file'.lines)
                   /\ \A i \in 1..Len(file'.lines) :
                         i <= saved'.offset => file'.lines[i] \in Seen'
        <5>1. /\ reading.offset <= Len(file.lines)
              /\ \A i \in 1..Len(file.lines) : i <= reading.offset => file.lines[i] \in Seen'
          BY <1>2, <2>1, <3>4, <3>5, <4>2 DEF OffsetOK
        <5> QED
          BY SMTT(20), <1>1, <2>1, <3>1, <3>3, <3>4, <5>1
      <4> QED
        BY <4>1, <4>2 DEF OffsetOK
    <3> QED
      BY <1>4, <2>1, <2>2, <3>6 DEF OffsetInv, Exists
  <2>4. CASE ~Exists
    <3>1. saved' = saved
      BY <1>9, <2>4 DEF Read
    <3> QED
      BY <1>4, <2>1, <2>2, <3>1 DEF OffsetInv, Exists
  <2> QED
    BY <2>3, <2>4
<1>10. CASE Watch \/ StopTail \/ Stop \/ Pipeline \/ CancelPipeline \/ Die \/ UNCHANGED vars
  <2>1. /\ UNCHANGED <<file, gen, rotations>>
        /\ saved' \in Known /\ checkpoint' \in Known /\ reading' \in Known
        /\ tail' = "read" => tail = "read" /\ reading' = reading
    BY <1>10 DEF Watch, StopTail, Stop, Pipeline, Run, GetEvent, EndOfStream, HandlerDone,
       CancelPipeline, Die, vars, fileVars, tailVars, bounds, history
  <2>2. \A o \in Known : OffsetOK(o)'
    BY <1>2, <1>3, <2>1, OffsetStays
  <2> QED
    BY <1>4, <2>1, <2>2 DEF OffsetInv, Exists
<1> QED
  BY <1>5, <1>6, <1>7, <1>8, <1>9, <1>10 DEF Next, LogWriter, Receiver

Inv == TypeOK /\ Accounts /\ OffsetInv

\* The inductive invariant holds in every reachable state.
LEMMA Invariance == Spec => []Inv
<1>1. Init => Inv
  <2> SUFFICES ASSUME Init PROVE Inv
    OBVIOUS
  <2>1. TypeOK
    BY InitTypeOK
  <2>2. Len(<<>>) = 0
    OBVIOUS
  <2>3. Accounts
    BY <2>2 DEF Init, Accounts
  <2>4. OffsetInv
    BY <2>2 DEF Init, OffsetInv, OffsetOK, NoOffset, Exists
  <2> QED
    BY <2>1, <2>3, <2>4 DEF Inv
<1>2. Inv /\ [Next]_vars => Inv'
  BY TypeStep, AccountsStep, OffsetStep DEF Inv, OffsetInv
<1> QED
  BY <1>1, <1>2, PTL DEF Spec

\* The types, and with them the bound of the queue: backpressure never lets it
\* grow past queue_maxsize, whatever the size of a read.
THEOREM TypeCorrect == Spec => []TypeOK
  BY Invariance, PTL DEF Inv

\* S-082: the drops that are counted account for every event put in the queue
\* and never got from it.
THEOREM DropsAccountForLosses == Spec => []DropsAreCounted
<1>1. Inv => DropsAreCounted
  BY DEF Inv, Accounts, DropsAreCounted
<1> QED
  BY <1>1, Invariance, PTL

\* Rotations, truncations and restarts, wherever they fall, never make the tail
\* receiver or its checkpoint pass over a line of the file unread.
THEOREM TailPassesOverNothing == Spec => []NothingPassedOver
<1>1. Inv => NothingPassedOver
  <2> SUFFICES ASSUME Inv, NEW o \in {saved, checkpoint}, o.inode = file.inode,
                      o.gen = gen, NEW i \in DOMAIN file.lines, i <= o.offset
               PROVE  file.lines[i] \in Seen
    BY DEF NothingPassedOver
  <2>1. file.lines \in Seq(Lines)
    BY DEF Inv, TypeOK
  <2> QED
    BY <2>1 DEF Inv, OffsetInv, OffsetOK
<1> QED
  BY <1>1, Invariance, PTL
=============================================================================
