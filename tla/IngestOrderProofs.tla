------------------------- MODULE IngestOrderProofs -------------------------
(***************************************************************************)
(* In which order and how often the lines of a log reach the handler, for  *)
(* any number of rotations, truncations and restarts.  Both answers need   *)
(* to know which lines the receiver would read next: all that is in the    *)
(* process is older than these, and they were read no more often than the  *)
(* process ended, or a rotation raced with a read.  Neither the offset nor *)
(* the checkpoint moves back in the content a file has.                    *)
(***************************************************************************)
EXTENDS IngestProofs

USE IngestAssumption

\* Where a read that starts from a known offset would go on, as CheckRotation
\* and ReadFrom decide, and the lines it has before it.
NextFrom(o) ==
    IF o.inode = file.inode /\ o.offset <= Len(file.lines) THEN o.offset ELSE 0

Coming(o) == {file.lines[i] : i \in {j \in 1..Len(file.lines) : j > NextFrom(o)}}

\* The offsets a read may start from.
Pending == {saved} \cup (IF tail = "read" THEN {reading} ELSE {})

\* A file's lines are in the order they were written.  A file found anew is not
\* the one the offset is of, and if the file has changed under a read there was a
\* rotation and none of the new one's lines has been read.
FileInv ==
    /\ \A i, j \in 1..Len(file.lines) : i < j => file.lines[i] < file.lines[j]
    /\ \A i \in 1..Len(file.lines) : file.lines[i] <= written
    /\ \A l \in Lines : reads[l] > 0 => l <= written
    /\ ~Up => tail = "off"
    /\ tail = "read" => watched
    /\ ~watched /\ Exists => saved.inode # file.inode
    /\ tail = "read" /\ reading.inode # file.inode =>
          raced > 0 /\ \A i \in 1..Len(file.lines) : reads[file.lines[i]] = 0

\* The events in the process are in order, and before all that may be read.
OrderInv ==
    /\ ~Up => queue = <<>> /\ current = 0
    /\ raced = 0 =>
         /\ current <= written
         /\ \A i \in 1..Len(queue) : current < queue[i] /\ queue[i] <= written
         /\ \A i, j \in 1..Len(queue) : i < j => queue[i] < queue[j]
         /\ \A o \in Pending : \A l \in Coming(o) :
               current < l /\ \A i \in 1..Len(queue) : queue[i] < l

\* What may be read was read once less than what has been.
RereadInv ==
    /\ \A l \in Lines : reads[l] <= 1 + deaths + raced
    /\ \A o \in Pending : \A l \in Coming(o) : reads[l] <= deaths + raced
    /\ ~Up => \A l \in Lines : reads[l] <= deaths + raced

-----------------------------------------------------------------------------
(* Helpers *)

\* The types the steps below need of numbers.
LEMMA Numbers ==
    ASSUME TypeOK
    PROVE  /\ written \in Nat /\ raced \in Nat /\ deaths \in Nat /\ current \in Nat
           /\ rotations \in Nat /\ file.inode \in Nat /\ gen \in Nat
           /\ file.lines \in Seq(Lines) /\ Len(file.lines) \in Nat
           /\ queue \in Seq(Lines) /\ Len(queue) \in Nat
           /\ reads \in [Lines -> Nat]
           /\ \A l \in Lines : l \in Nat /\ l > 0 /\ reads[l] \in Nat
           /\ \A i \in 1..Len(file.lines) : file.lines[i] \in Lines
           /\ \A i \in 1..Len(queue) : queue[i] \in Lines
<1>1. /\ file.lines \in Seq(Lines) /\ queue \in Seq(Lines) /\ file.inode \in Nat
      /\ reads \in [Lines -> Nat]
  BY DEF TypeOK
<1>2. /\ written \in Nat /\ raced \in Nat /\ deaths \in Nat /\ current \in Nat
      /\ rotations \in Nat /\ gen \in Nat
  BY DEF TypeOK, Lines
<1>3. \A l \in Lines : l \in Nat /\ l > 0
  BY DEF Lines
<1>4. \A l \in Lines : reads[l] \in Nat
  BY <1>1
<1>5. /\ Len(file.lines) \in Nat /\ \A i \in 1..Len(file.lines) : file.lines[i] \in Lines
      /\ Len(queue) \in Nat /\ \A i \in 1..Len(queue) : queue[i] \in Lines
  BY <1>1
<1> QED
  BY <1>1, <1>2, <1>3, <1>4, <1>5

\* Lines to come are lines of the file.
LEMMA ComingInFile ==
    ASSUME TypeOK, NEW o, NEW l \in Coming(o)
    PROVE  l \in Lines /\ \E i \in 1..Len(file.lines) : i > NextFrom(o) /\ l = file.lines[i]
<1>1. PICK i \in 1..Len(file.lines) : i > NextFrom(o) /\ l = file.lines[i]
  BY DEF Coming
<1>2. l \in Lines
  BY <1>1, Numbers
<1> QED
  BY <1>1, <1>2

\* Where nothing happened to the file, the same lines are to come.
LEMMA ComingSame ==
    ASSUME file' = file, NEW o
    PROVE  Coming(o)' = Coming(o)
  BY DEF Coming, NextFrom

\* A file that has just been emptied or made has no lines to come.
LEMMA ComingEmpty ==
    ASSUME file'.lines = <<>>, NEW o
    PROVE  Coming(o)' = {}
<1>1. 1..Len(<<>>) = {}
  OBVIOUS
<1> QED
  BY <1>1 DEF Coming

\* What the writer appends is the only line that is new to come.
LEMMA ComingAppend ==
    ASSUME TypeOK, NEW o, o.offset \in Int, AppendLine
    PROVE  \A l \in Coming(o)' : l \in Coming(o) \/ l = written + 1
<1>1. /\ file' = [file EXCEPT !.lines = Append(@, written + 1)]
      /\ file \in [inode : 0..(MaxRotations + 1), lines : Seq(Lines)]
      /\ written + 1 \in Lines
  <2>1. written < NumLines /\ written \in 0..NumLines
    BY DEF AppendLine, TypeOK
  <2>2. written + 1 \in Lines
    BY <2>1 DEF Lines
  <2> QED
    BY <2>2 DEF AppendLine, TypeOK
<1>2. file'.inode = file.inode /\ file'.lines = Append(file.lines, written + 1)
      /\ file.lines \in Seq(Lines)
  BY <1>1
<1>3. /\ Len(file'.lines) = Len(file.lines) + 1 /\ Len(file.lines) \in Nat
      /\ file'.lines[Len(file.lines) + 1] = written + 1
      /\ \A i \in 1..Len(file.lines) : file'.lines[i] = file.lines[i]
  BY <1>1, <1>2
<1> SUFFICES ASSUME NEW l \in Coming(o)', l # written + 1 PROVE l \in Coming(o)
  OBVIOUS
<1>4. PICK i \in 1..Len(file'.lines) : i > NextFrom(o)' /\ l = file'.lines[i]
  BY DEF Coming
<1>5. i \in 1..Len(file.lines) /\ l = file.lines[i]
  BY <1>3, <1>4
<1>6. i > NextFrom(o)
  <2>1. CASE o.inode = file.inode /\ o.offset <= Len(file.lines)
    <3>1. NextFrom(o)' = o.offset /\ NextFrom(o) = o.offset
      BY <1>2, <1>3, <2>1 DEF NextFrom
    <3> QED
      BY <1>4, <3>1
  <2>2. CASE ~(o.inode = file.inode /\ o.offset <= Len(file.lines))
    <3>1. NextFrom(o) = 0
      BY <2>2 DEF NextFrom
    <3> QED
      BY <1>5, <3>1
  <2> QED
    BY <2>1, <2>2
<1> QED
  BY <1>5, <1>6 DEF Coming

\* The lines a read returns are those after its offset, in the file's order.
LEMMA NewLines ==
    ASSUME TypeOK, NEW o \in Nat
    PROVE  LET new == ReadNewLines(o)
           IN  /\ new \in Seq(Lines) /\ Len(new) \in Nat
               /\ o > Len(file.lines) => Len(new) = 0
               /\ o <= Len(file.lines) => o + Len(new) <= Len(file.lines)
               /\ \A x \in 1..Len(new) : /\ o <= Len(file.lines) /\ o + x \in 1..Len(file.lines)
                                         /\ new[x] = file.lines[o + x]
<1> DEFINE top == Min2(o + ReadMax, Len(file.lines))
           new == ReadNewLines(o)
<1>1. Len(file.lines) \in Nat /\ ReadMax \in Nat /\ ReadMax > 0 /\ file.lines \in Seq(Lines)
  BY Numbers
<1>2. top \in Int /\ top <= Len(file.lines) /\ top \in {o + ReadMax, Len(file.lines)}
  BY <1>1 DEF Min2
<1>3. new = SubSeq(file.lines, o + 1, top)
  BY DEF ReadNewLines
<1>4. new \in Seq(Lines)
  BY <1>1, ReadFacts
<1> HIDE DEF top, new
<1>5. Len(new) \in Nat
  BY <1>4
<1>6. CASE o <= Len(file.lines)
  <2>1. o <= top
    BY <1>1, <1>2, <1>6
  <2>2. Len(new) = top - o
    BY <1>1, <1>2, <1>3, <1>6, <2>1
  <2>3. \A x \in 1..Len(new) : o + x \in 1..Len(file.lines) /\ new[x] = file.lines[o + x]
    BY <1>1, <1>2, <1>3, <1>6, <2>1, <2>2
  <2> QED
    BY <1>1, <1>2, <1>4, <1>5, <1>6, <2>2, <2>3 DEF new
<1>7. CASE ~(o <= Len(file.lines))
  <2>1. top = Len(file.lines) /\ o + 1 > top
    BY <1>1, <1>2, <1>7
  <2>2. Len(new) = 0
    BY <1>1, <1>3, <2>1
  <2>3. \A x \in 1..Len(new) : FALSE
    BY <2>2
  <2> QED
    BY <1>4, <1>5, <1>7, <2>2, <2>3 DEF new
<1> QED
  BY <1>6, <1>7

\* Where a step that is not a read leaves the offsets, no line is to come that was
\* not to come before, or was appended just now.
LEMMA ComingStep ==
    ASSUME TypeOK, TypeOK', OffsetInv, FileInv, [Next]_vars, ~Start, ~Die, tail # "read" \/ ~Read
    PROVE  /\ \A o \in Pending' : \A l \in Coming(o)' :
                 (\E p \in Pending : l \in Coming(p)) \/ (l = written + 1 /\ written' = written + 1)
           /\ reads' = reads /\ deaths' = deaths /\ (Up' <=> Up)
<1>0. saved \in OffsetType /\ reading \in OffsetType /\ saved' \in OffsetType /\ reading' \in OffsetType
  BY DEF TypeOK
<1>a. \A o \in OffsetType : o.offset \in Int
  BY DEF OffsetType, NoOffset
<1>1. CASE AppendLine
  <2>1. Pending' = Pending /\ reads' = reads /\ deaths' = deaths /\ (Up' <=> Up) /\ written' = written + 1
    BY <1>1 DEF AppendLine, Pending, tailVars, consumerVars, history, bounds, Up
  <2>2. \A o \in Pending : o.offset \in Int
    BY <1>0, <1>a DEF Pending
  <2> QED
    BY <1>1, <2>1, <2>2, ComingAppend
<1>2. CASE Remove \/ Create \/ Truncate
  <2>1. file'.lines = <<>>
    <3>1. file \in [inode : 0..(MaxRotations + 1), lines : Seq(Lines)]
      BY DEF TypeOK
    <3> QED
      BY <1>2, <3>1 DEF Remove, Create, Truncate, NoFile
  <2>2. reads' = reads /\ deaths' = deaths /\ (Up' <=> Up)
    BY <1>2 DEF Remove, Create, Truncate, consumerVars, history, bounds, Up
  <2> QED
    BY <2>1, <2>2, ComingEmpty
<1>3. CASE Process
  <2>1. file' = file /\ reads' = reads /\ deaths' = deaths /\ (Up' <=> Up) /\ tail = "watch"
    BY <1>3 DEF Process, fileVars, consumerVars, history, bounds, Up
  <2>2. CASE tail' # "read"
    <3>1. saved' = saved
      BY <1>3, <2>1, <2>2 DEF Process
    <3>2. Pending' = {saved} /\ saved \in Pending
      BY <2>2, <3>1 DEF Pending
    <3> QED
      BY <2>1, <3>2, ComingSame
  <2>3. CASE tail' = "read"
    <3> DEFINE isNew == "added" \in changed /\ ~watched /\ Exists
    <3>1. /\ Exists /\ (watched \/ isNew)
          /\ saved' = IF isNew THEN [ExpandGlobs(saved) EXCEPT !.offset = 0, !.gen = gen] ELSE saved
          /\ reading' = ReadFrom(saved')
      BY <1>3, <2>1, <2>3 DEF Process
    <3>2. NextFrom(saved') = NextFrom(saved)
      <4>1. CASE ~isNew
        BY <3>1, <4>1
      <4>2. CASE isNew
        <5>1. saved.inode # file.inode
          BY <4>2 DEF FileInv
        <5>2. NextFrom(saved) = 0
          BY <5>1 DEF NextFrom
        <5>3. saved'.offset = 0
          <6>1. ExpandGlobs(saved) \in OffsetType
            BY <1>0, ExpandGlobsFacts
          <6>2. saved' = [ExpandGlobs(saved) EXCEPT !.offset = 0, !.gen = gen]
            BY <3>1, <4>2
          <6> QED
            BY <6>1, <6>2 DEF OffsetType, NoOffset
        <5> QED
          BY <5>2, <5>3 DEF NextFrom
      <4> QED
        BY <4>1, <4>2
    <3>3. NextFrom(reading') = NextFrom(saved')
      <4>1. CASE CheckRotation(saved') = "ok"
        <5>1. saved'.inode = file.inode
          BY <4>1 DEF CheckRotation
        <5>2. reading' = saved'
          <6>1. saved' \in [offset : Nat, inode : 1..(MaxRotations + 1), gen : Nat]
            <7>1. NoOffset.inode = 0 /\ saved'.inode # 0
              BY <3>1, <5>1 DEF NoOffset, Exists
            <7>2. saved' # NoOffset
              BY <7>1
            <7> QED
              BY <1>0, <7>2, Zenon DEF OffsetType
          <6>2. [saved' EXCEPT !.inode = file.inode] = saved'
            BY <5>1, <6>1
          <6> QED
            BY <3>1, <4>1, <6>2 DEF ReadFrom
        <5> QED
          BY <5>2
      <4>2. CASE CheckRotation(saved') # "ok"
        <5>1. reading'.offset = 0
          BY <3>1, <4>2 DEF ReadFrom, FileOffset
        <5>2. ~(saved'.inode = file.inode /\ saved'.offset <= Len(file.lines))
          <6>1. saved'.offset \in Int /\ Len(file.lines) \in Nat
            BY <1>0, <1>a, Numbers
          <6> QED
            BY <4>2, <6>1 DEF CheckRotation
        <5> QED
          BY <5>1, <5>2 DEF NextFrom
      <4> QED
        BY <4>1, <4>2
    <3>4. \A o \in Pending' : NextFrom(o) = NextFrom(saved)
      BY <3>2, <3>3 DEF Pending
    <3>5. \A o \in Pending' : Coming(o) = Coming(saved)
      BY <3>4 DEF Coming
    <3>6. saved \in Pending
      BY DEF Pending
    <3> QED
      BY <2>1, <3>5, <3>6, ComingSame
  <2> QED
    BY <2>2, <2>3
<1>4. CASE Watch \/ StopTail \/ Stop \/ Pipeline \/ CancelPipeline \/ UNCHANGED vars
  <2>1. /\ file' = file /\ reads' = reads /\ deaths' = deaths /\ saved' = saved /\ reading' = reading
        /\ tail' = "read" => tail = "read"
    BY <1>4 DEF Watch, StopTail, Stop, Pipeline, Run, GetEvent, EndOfStream, HandlerDone,
       CancelPipeline, vars, fileVars, tailVars, history, bounds
  <2>2. Up' <=> Up
    BY <1>4 DEF Watch, StopTail, Stop, Pipeline, Run, GetEvent, EndOfStream, HandlerDone,
       CancelPipeline, vars, consumerVars, Up, Loop
  <2>3. Pending' \subseteq Pending
    BY <2>1 DEF Pending
  <2> QED
    BY <2>1, <2>2, <2>3, ComingSame
<1>5. CASE Read
  BY <1>5 DEF Read
<1> QED
  BY <1>1, <1>2, <1>3, <1>4, <1>5 DEF Next, LogWriter, Receiver

\* Every step keeps what holds of the file.
LEMMA FileStep ==
    ASSUME TypeOK, TypeOK', OffsetInv, FileInv, [Next]_vars PROVE FileInv'
<1> DEFINE Lost == tail = "read" /\ reading.inode # file.inode
           Sorted(s) == \A i, j \in 1..Len(s) : i < j => s[i] < s[j]
           InTime(s, n) == \A i \in 1..Len(s) : s[i] <= n
<1>0. /\ Sorted(file.lines) /\ InTime(file.lines, written)
      /\ \A l \in Lines : reads[l] > 0 => l <= written
      /\ ~Up => tail = "off"
      /\ tail = "read" => watched
      /\ ~watched /\ Exists => saved.inode # file.inode
      /\ Lost => raced > 0 /\ \A i \in 1..Len(file.lines) : reads[file.lines[i]] = 0
  BY DEF FileInv
<1>t. /\ Len(file.lines) \in Nat /\ written \in Nat /\ raced \in Nat /\ rotations \in Nat
      /\ file.inode \in Nat /\ file.lines \in Seq(Lines)
      /\ \A i \in 1..Len(file.lines) : file.lines[i] \in Lines
      /\ \A l \in Lines : l \in Nat /\ reads[l] \in Nat
  BY Numbers
<1>f. file \in [inode : 0..(MaxRotations + 1), lines : Seq(Lines)]
  BY DEF TypeOK
<1>e. Sorted(<<>>) /\ InTime(<<>>, written) /\ 1..Len(<<>>) = {}
  OBVIOUS
<1>1. CASE AppendLine
  <2>1. /\ Exists /\ written' = written + 1 /\ written + 1 \in Lines
        /\ file' = [file EXCEPT !.lines = Append(@, written + 1)]
        /\ saved' = saved /\ watched' = watched /\ tail' = tail /\ reading' = reading
        /\ reads' = reads /\ raced' = raced /\ (Up' <=> Up)
    <3>1. written < NumLines /\ written \in 0..NumLines
      BY <1>1 DEF AppendLine, TypeOK
    <3>2. written + 1 \in Lines
      BY <3>1 DEF Lines
    <3> QED
      BY <1>1, <3>2 DEF AppendLine, tailVars, history, consumerVars, Up
  <2>2. file'.inode = file.inode /\ file'.lines = Append(file.lines, written + 1)
    BY <1>f, <2>1
  <2>3. /\ Len(file'.lines) = Len(file.lines) + 1
        /\ file'.lines[Len(file.lines) + 1] = written + 1
        /\ \A i \in 1..Len(file.lines) : file'.lines[i] = file.lines[i]
    BY <1>t, <2>1, <2>2
  <2>4. \A i \in 1..Len(file'.lines) : i \in 1..Len(file.lines) \/ i = Len(file.lines) + 1
    BY <1>t, <2>3
  <2>5. InTime(file'.lines, written')
    <3> TAKE i \in 1..Len(file'.lines)
    <3>1. CASE i \in 1..Len(file.lines)
      <4> DEFINE v == file.lines[i]
      <4>1. v \in Nat /\ v <= written
        BY <1>0, <1>t, <3>1
      <4> HIDE DEF v
      <4>2. v <= written + 1
        BY <1>t, <4>1
      <4> QED
        BY <2>1, <2>3, <3>1, <4>2 DEF v
    <3>2. CASE i = Len(file.lines) + 1
      BY <1>t, <2>1, <2>3, <3>2
    <3> QED
      BY <2>4, <3>1, <3>2
  <2>6. Sorted(file'.lines)
    <3> TAKE i \in 1..Len(file'.lines), j \in 1..Len(file'.lines)
    <3> HAVE i < j
    <3>1. i \in 1..Len(file.lines)
      BY <1>t, <2>3
    <3>2. CASE j \in 1..Len(file.lines)
      BY <1>0, <2>3, <3>1, <3>2
    <3>3. CASE j = Len(file.lines) + 1
      <4> DEFINE v == file.lines[i]
      <4>1. v \in Nat /\ v <= written
        BY <1>0, <1>t, <3>1
      <4> HIDE DEF v
      <4>2. v < written + 1
        BY <1>t, <4>1
      <4> QED
        BY <2>3, <3>1, <3>3, <4>2 DEF v
    <3> QED
      BY <2>4, <3>2, <3>3
  <2>7. reads[written + 1] = 0
    <3>1. ~(written + 1 <= written)
      BY <1>t
    <3> QED
      BY <1>0, <1>t, <2>1, <3>1
  <2>8. \A l \in Lines : reads[l] > 0 => l <= written + 1
    BY <1>0, <1>t
  <2>9. Lost => \A i \in 1..Len(file'.lines) : reads[file'.lines[i]] = 0
    BY <1>0, <2>3, <2>4, <2>7
  <2> HIDE DEF Sorted, InTime
  <2>10. Exists' <=> Exists
    BY <2>2 DEF Exists
  <2>11. (~watched /\ Exists => saved.inode # file.inode)' /\ (~Up => tail = "off")'
         /\ (tail = "read" => watched)'
    BY <1>0, <2>1, <2>2, <2>10
  <2>12. (tail = "read" /\ reading.inode # file.inode)' =>
             raced' > 0 /\ \A i \in 1..Len(file'.lines) : reads'[file'.lines[i]] = 0
    BY <1>0, <2>1, <2>2, <2>9
  <2>13. \A l \in Lines : reads'[l] > 0 => l <= written'
    BY <2>1, <2>8
  <2> QED
    BY <2>5, <2>6, <2>11, <2>12, <2>13 DEF FileInv, Sorted, InTime
<1>2. CASE Remove \/ Create \/ Truncate
  <2>1. /\ file'.lines = <<>> /\ written' = written /\ saved' = saved /\ watched' = watched
        /\ tail' = tail /\ reading' = reading /\ reads' = reads /\ (Up' <=> Up)
    BY <1>2, <1>f DEF Remove, Create, Truncate, NoFile, tailVars, history, consumerVars, Up
  <2>2. (~watched /\ Exists => saved.inode # file.inode)'
    <3>1. CASE Remove
      BY <3>1 DEF Remove, NoFile, Exists
    <3>2. CASE Create
      <4>1. saved.inode <= rotations /\ saved.inode \in Nat
        <5>1. saved \in OffsetType /\ OffsetOK(saved)
          BY DEF TypeOK, OffsetInv
        <5>2. saved.inode \in Nat
          BY <5>1 DEF OffsetType, NoOffset
        <5>3. saved.inode <= rotations
          BY <3>2, <5>1 DEF Create, OffsetOK
        <5> QED
          BY <5>2, <5>3
      <4>2. file'.inode = rotations + 1
        BY <3>2 DEF Create
      <4>3. saved.inode # rotations + 1
        BY <1>t, <4>1
      <4> QED
        BY <2>1, <4>2, <4>3
    <3>3. CASE Truncate
      <4>1. file'.inode = file.inode /\ Exists
        BY <1>f, <3>3 DEF Truncate
      <4> QED
        BY <1>0, <2>1, <4>1
    <3> QED
      BY <1>2, <3>1, <3>2, <3>3
  <2>3. (tail = "read" /\ reading.inode # file.inode)' => raced' > 0
    <3>1. CASE Remove
      <4>1. tail = "read" => raced' = raced + 1
        BY <3>1 DEF Remove
      <4> QED
        BY <1>t, <2>1, <4>1
    <3>2. CASE Create
      <4>1. raced' = raced /\ file.inode = 0
        BY <3>2 DEF Create, Exists, history
      <4>2. tail = "read" => reading.inode # 0
        <5>1. tail = "read" => reading \in [offset : Nat, inode : 1..(MaxRotations + 1), gen : Nat]
          BY DEF OffsetInv, TypeOK, OffsetType
        <5> QED
          BY <5>1
      <4> QED
        BY <1>0, <2>1, <4>1, <4>2
    <3>3. CASE Truncate
      <4>1. raced' = raced /\ file'.inode = file.inode
        BY <1>f, <3>3 DEF Truncate, history
      <4> QED
        BY <1>0, <2>1, <4>1
    <3> QED
      BY <1>2, <3>1, <3>2, <3>3
  <2> HIDE DEF Sorted, InTime
  <2> QED
    BY <1>0, <1>e, <2>1, <2>2, <2>3 DEF FileInv, Sorted, InTime
<1>3. CASE Process
  <2>1. /\ file' = file /\ written' = written /\ reads' = reads /\ raced' = raced
        /\ (Up' <=> Up) /\ Up /\ tail = "watch"
    BY <1>3 DEF Process, fileVars, consumerVars, history, Up, Loop
  <2>2. CASE Exists /\ (watched \/ ("added" \in changed /\ ~watched))
    <3>1. watched' = TRUE /\ tail' = "read" /\ reading' = ReadFrom(saved')
      BY <1>3, <2>2 DEF Process
    <3>2. saved' \in OffsetType
      BY DEF TypeOK
    <3>3. reading'.inode = file.inode
      <4>1. ReadFrom(saved').inode = file.inode
        BY <2>2, <3>2, ReadFromFacts, ZenonT(30)
      <4> QED
        BY <3>1, <4>1
    <3> QED
      BY <1>0, <2>1, <3>1, <3>3 DEF FileInv
  <2>3. CASE ~(Exists /\ (watched \/ ("added" \in changed /\ ~watched)))
    <3>1. watched' = FALSE /\ saved' = saved /\ reading' = reading /\ tail' = tail
      BY <1>3, <2>3 DEF Process
    <3>2. Exists => ~watched
      BY <2>3
    <3> QED
      BY <1>0, <2>1, <3>1, <3>2 DEF FileInv, Exists
  <2> QED
    BY <2>2, <2>3
<1>4. CASE Read
  <2>1. /\ file' = file /\ written' = written /\ watched' = watched /\ tail' = "watch"
        /\ tail = "read" /\ raced' = raced /\ (Up' <=> Up)
    BY <1>4 DEF Read, fileVars, consumerVars, Up
  <2>2. \A l \in Lines : reads'[l] > 0 => l <= written
    <3>1. CASE ~Exists
      BY <1>0, <1>4, <3>1 DEF Read
    <3>2. CASE Exists
      <4> DEFINE new == ReadNewLines(reading.offset)
      <4>1. reads' = [l \in Lines |-> IF l \in Elements(new) THEN reads[l] + 1 ELSE reads[l]]
        BY <1>4, <3>2 DEF Read
      <4>2. reading.offset \in Nat
        BY <1>4, <3>2, ReadStep DEF OffsetInv
      <4>3. /\ new \in Seq(Lines)
            /\ \A x \in 1..Len(new) : reading.offset + x \in 1..Len(file.lines)
                                      /\ new[x] = file.lines[reading.offset + x]
        BY <4>2, NewLines
      <4> HIDE DEF new
      <4>4. \A l \in Elements(new) : l <= written
        BY <1>0, <4>3 DEF Elements
      <4> QED
        BY <1>0, <4>1, <4>4
    <3> QED
      BY <3>1, <3>2
  <2> QED
    BY <1>0, <2>1, <2>2 DEF FileInv
<1>5. CASE Start
  <2>1. /\ file' = file /\ written' = written /\ reads' = reads /\ raced' = raced
        /\ watched' = Exists /\ tail' = "begin" /\ consumer' = "begin"
    BY <1>5 DEF Start, fileVars
  <2> QED
    BY <1>0, <2>1 DEF FileInv, Exists, Up
<1>6. CASE Die
  <2>1. /\ file' = file /\ written' = written /\ reads' = reads /\ raced' = raced
        /\ saved' = NoOffset /\ tail' = "off"
    BY <1>6 DEF Die, fileVars, history
  <2> QED
    BY <1>0, <2>1 DEF FileInv, Exists, NoOffset
<1>7. CASE Watch \/ StopTail \/ Stop \/ Pipeline \/ CancelPipeline \/ UNCHANGED vars
  <2>1. /\ file' = file /\ written' = written /\ reads' = reads /\ raced' = raced
        /\ saved' = saved /\ reading' = reading /\ watched' = watched
        /\ tail' = "read" => tail = "read"
    BY <1>7 DEF Watch, StopTail, Stop, Pipeline, Run, GetEvent, EndOfStream, HandlerDone,
       CancelPipeline, vars, fileVars, tailVars, history
  <2>2. (Up' <=> Up) /\ (~Up => tail' = "off")
    BY <1>0, <1>7 DEF Watch, StopTail, Stop, Pipeline, Run, GetEvent, EndOfStream, HandlerDone,
       CancelPipeline, vars, consumerVars, tailVars, Up, Loop
  <2> QED
    BY <1>0, <2>1, <2>2 DEF FileInv, Exists
<1> QED
  BY <1>1, <1>2, <1>3, <1>4, <1>5, <1>6, <1>7 DEF Next, LogWriter, Receiver
-----------------------------------------------------------------------------
(* Order *)

\* Races are only ever counted.
LEMMA RacedGrows ==
    ASSUME TypeOK, [Next]_vars
    PROVE  raced' \in Nat /\ (raced' = 0 => raced = 0) /\ (raced > 0 => raced' > 0) /\ raced' >= raced
<1>1. raced' = raced \/ raced' = raced + 1
  BY DEF Next, LogWriter, AppendLine, Remove, Create, Truncate, Start, Receiver, Watch, Process,
         Read, StopTail, Stop, Pipeline, Run, GetEvent, EndOfStream, HandlerDone, CancelPipeline,
         Die, vars, history
<1>2. raced \in Nat
  BY Numbers
<1> QED
  BY <1>1, <1>2

\* Order is kept where the queue stays and at most the event in hand goes.
LEMMA OrderKept ==
    ASSUME TypeOK, TypeOK', OrderInv, raced' = 0 => raced = 0, ~Up' => ~Up,
           written' \in {written, written + 1}, queue' = queue, current' \in {current, 0},
           \A o \in Pending' : \A l \in Coming(o)' :
               (\E p \in Pending : l \in Coming(p)) \/ (l = written + 1 /\ written' = written + 1)
    PROVE  OrderInv'
<1>1. /\ written \in Nat /\ current \in Nat /\ current' \in Nat
      /\ \A i \in 1..Len(queue) : queue[i] \in Nat
      /\ \A o : \A l \in Coming(o)' : l \in Nat /\ l > 0
  <2>1. /\ written \in Nat /\ current \in Nat /\ \A i \in 1..Len(queue) : queue[i] \in Lines
        /\ \A l \in Lines : l \in Nat /\ l > 0
    BY Numbers
  <2>2. current' \in Nat
    BY <2>1
  <2>3. \A i \in 1..Len(file'.lines) : file'.lines[i] \in Lines
    <3>1. file' \in [inode : 0..(MaxRotations + 1), lines : Seq(Lines)]
      BY DEF TypeOK
    <3>2. file'.lines \in Seq(Lines)
      BY <3>1
    <3> QED
      BY <3>2
  <2>4. \A o : \A l \in Coming(o)' : l \in Lines
    BY <2>3 DEF Coming
  <2> QED
    BY <2>1, <2>2, <2>4
<1>2. ~Up' => queue' = <<>> /\ current' = 0
  BY DEF OrderInv
<1> SUFFICES ASSUME raced' = 0
             PROVE  /\ current' <= written'
                    /\ \A i \in 1..Len(queue) : current' < queue[i] /\ queue[i] <= written'
                    /\ \A i, j \in 1..Len(queue) : i < j => queue[i] < queue[j]
                    /\ \A o \in Pending' : \A l \in Coming(o)' :
                          current' < l /\ \A i \in 1..Len(queue) : queue[i] < l
  BY <1>2 DEF OrderInv
<1>3. /\ current <= written
      /\ \A i \in 1..Len(queue) : current < queue[i] /\ queue[i] <= written
      /\ \A i, j \in 1..Len(queue) : i < j => queue[i] < queue[j]
      /\ \A o \in Pending : \A l \in Coming(o) : current < l /\ \A i \in 1..Len(queue) : queue[i] < l
  BY DEF OrderInv
<1>4. current' <= written' /\ current' <= current
  BY <1>1, <1>3
<1>5. \A i \in 1..Len(queue) : current' < queue[i] /\ queue[i] <= written' /\ queue[i] < written + 1
  <2> TAKE i \in 1..Len(queue)
  <2> DEFINE q == queue[i]
  <2>1. q \in Nat /\ current < q /\ q <= written
    BY <1>1, <1>3
  <2> HIDE DEF q
  <2>2. current' < q /\ q <= written' /\ q < written + 1
    BY <1>1, <1>4, <2>1
  <2> QED
    BY <2>2 DEF q
<1>6. \A o \in Pending' : \A l \in Coming(o)' : current' < l /\ \A i \in 1..Len(queue) : queue[i] < l
  <2> TAKE o \in Pending'
  <2> TAKE l \in Coming(o)'
  <2>1. l \in Nat
    BY <1>1
  <2>2. CASE \E p \in Pending : l \in Coming(p)
    <3>1. current < l /\ \A i \in 1..Len(queue) : queue[i] < l
      BY <1>3, <2>2
    <3>2. current' < l
      BY <1>1, <1>4, <2>1, <3>1
    <3> QED
      BY <3>1, <3>2
  <2>3. CASE l = written + 1
    <3>1. current' < l
      BY <1>1, <1>3, <1>4, <2>3
    <3> QED
      BY <1>5, <2>3, <3>1
  <2> QED
    BY <2>2, <2>3
<1> QED
  BY <1>3, <1>4, <1>5, <1>6

\* Where the elements of two sequences are that are joined.
LEMMA ConcatFacts ==
    ASSUME NEW S, NEW s \in Seq(S), NEW t \in Seq(S)
    PROVE  /\ Len(s \o t) = Len(s) + Len(t)
           /\ \A i \in 1..Len(s) : (s \o t)[i] = s[i]
           /\ \A i \in (Len(s) + 1)..(Len(s) + Len(t)) : (s \o t)[i] = t[i - Len(s)]
  OBVIOUS

\* What put_event leaves in the queue: what was there, then the first of the new.
LEMMA QueueAfter ==
    ASSUME TypeOK, NEW new \in Seq(Lines), Enqueue(new)
    PROVE  /\ Len(queue') \in Nat
           /\ \A i \in 1..Len(queue') :
                 \/ i \in 1..Len(queue) /\ queue'[i] = queue[i]
                 \/ /\ i > Len(queue) /\ i - Len(queue) \in 1..Len(new)
                    /\ queue'[i] = new[i - Len(queue)]
<1> DEFINE room == Min2(Capacity - Len(queue), Len(new))
<1>1. /\ queue \in Seq(Lines) /\ Len(queue) \in Nat /\ Len(queue) <= Capacity
      /\ Len(new) \in Nat /\ Capacity \in Nat
  BY DEF TypeOK
<1>2. room \in 0..Len(new)
  BY <1>1 DEF Min2
<1>3. queue' = queue \o SubSeq(new, 1, room)
  BY DEF Enqueue
<1> HIDE DEF room
<1>4. /\ SubSeq(new, 1, room) \in Seq(Lines) /\ Len(SubSeq(new, 1, room)) = room
      /\ \A x \in 1..room : SubSeq(new, 1, room)[x] = new[x]
  BY <1>1, <1>2
<1> DEFINE some == SubSeq(new, 1, room)
<1> HIDE DEF some
<1>5. some \in Seq(Lines) /\ Len(some) = room /\ queue' = queue \o some
  BY <1>3, <1>4 DEF some
<1>6. /\ Len(queue') = Len(queue) + room
      /\ \A i \in 1..Len(queue) : queue'[i] = queue[i]
      /\ \A i \in (Len(queue) + 1)..(Len(queue) + room) : queue'[i] = some[i - Len(queue)]
  BY <1>1, <1>5, ConcatFacts
<1>7. \A i \in 1..Len(queue') :
         i \in 1..Len(queue) \/ (i \in (Len(queue) + 1)..(Len(queue) + room) /\ i - Len(queue) \in 1..room)
  BY <1>1, <1>2, <1>6
<1>8. \A x \in 1..room : some[x] = new[x] /\ x \in 1..Len(new)
  BY <1>1, <1>2, <1>4 DEF some
<1>9. \A i \in (Len(queue) + 1)..(Len(queue) + room) : i > Len(queue)
  BY <1>1, <1>2
<1>10. Len(queue') \in Nat
  BY <1>1, <1>2, <1>6
<1> QED
  BY <1>6, <1>7, <1>8, <1>9, <1>10

\* A read of the file its stat() saw: what it returns was to come, in order, and
\* what is still to come after it is newer.
LEMMA ReadComing ==
    ASSUME TypeOK, TypeOK', OffsetInv, FileInv, Read, Exists, reading.inode = file.inode
    PROVE  LET new == ReadNewLines(reading.offset)
           IN  /\ new \in Seq(Lines) /\ Len(new) \in Nat
               /\ \A x \in 1..Len(new) : new[x] \in Coming(reading)
               /\ \A x, y \in 1..Len(new) : x < y => new[x] < new[y]
               /\ \A l \in Coming(saved') : l \in Coming(reading) /\ \A x \in 1..Len(new) : new[x] < l
<1> DEFINE o == reading.offset
           new == ReadNewLines(o)
<1>1. /\ o \in Nat /\ reading # NoOffset
      /\ saved' = [reading EXCEPT !.offset = @ + Len(new)]
  BY ReadStep DEF OffsetInv
<1>2. reading \in [offset : Nat, inode : 1..(MaxRotations + 1), gen : Nat]
  BY <1>1, Zenon DEF TypeOK, OffsetType
<1>3. /\ new \in Seq(Lines) /\ Len(new) \in Nat
      /\ o > Len(file.lines) => Len(new) = 0
      /\ o <= Len(file.lines) => o + Len(new) <= Len(file.lines)
      /\ \A x \in 1..Len(new) : /\ o <= Len(file.lines) /\ o + x \in 1..Len(file.lines)
                                /\ new[x] = file.lines[o + x]
  BY <1>1, NewLines
<1>4. Len(file.lines) \in Nat /\ \A i \in 1..Len(file.lines) : file.lines[i] \in Nat
  BY Numbers
<1>5. \A i, j \in 1..Len(file.lines) : i < j => file.lines[i] < file.lines[j]
  BY DEF FileInv
<1> HIDE DEF new
<1>6. saved'.inode = file.inode /\ saved'.offset = o + Len(new)
  BY <1>1, <1>2
<1> HIDE DEF o
<1>7. CASE o <= Len(file.lines)
  <2>1. NextFrom(reading) = o /\ NextFrom(saved') = o + Len(new)
    BY <1>3, <1>6, <1>7 DEF NextFrom, o
  <2>2. \A x \in 1..Len(new) : new[x] \in Coming(reading)
    <3> TAKE x \in 1..Len(new)
    <3>1. o + x \in 1..Len(file.lines) /\ o + x > o
      BY <1>1, <1>3
    <3> QED
      BY <1>3, <2>1, <3>1 DEF Coming
  <2>3. \A x, y \in 1..Len(new) : x < y => new[x] < new[y]
    <3> TAKE x \in 1..Len(new), y \in 1..Len(new)
    <3> HAVE x < y
    <3>1. o + x < o + y
      BY <1>1, <1>3
    <3> QED
      BY <1>3, <1>5, <3>1
  <2>4. \A l \in Coming(saved') : l \in Coming(reading) /\ \A x \in 1..Len(new) : new[x] < l
    <3> TAKE l \in Coming(saved')
    <3>1. PICK i \in 1..Len(file.lines) : i > o + Len(new) /\ l = file.lines[i]
      BY <2>1 DEF Coming
    <3>2. i > o
      BY <1>1, <1>3, <3>1
    <3>3. l \in Coming(reading)
      BY <2>1, <3>1, <3>2 DEF Coming
    <3>4. \A x \in 1..Len(new) : o + x < i
      BY <1>1, <1>3, <3>1
    <3>5. \A x \in 1..Len(new) : new[x] < l
      BY <1>3, <1>5, <3>1, <3>4
    <3> QED
      BY <3>3, <3>5
  <2> QED
    BY <1>3, <2>2, <2>3, <2>4 DEF o, new
<1>8. CASE ~(o <= Len(file.lines))
  <2>1. Len(new) = 0 /\ 1..Len(new) = {}
    BY <1>1, <1>3, <1>4, <1>8
  <2>2. NextFrom(reading) = 0
    BY <1>8 DEF NextFrom, o
  <2>3. \A l \in Coming(saved') : l \in Coming(reading)
    <3> TAKE l \in Coming(saved')
    <3>1. PICK i \in 1..Len(file.lines) : l = file.lines[i]
      BY DEF Coming
    <3>2. i > 0
      BY <1>4
    <3> QED
      BY <2>2, <3>1, <3>2 DEF Coming
  <2> QED
    BY <1>3, <2>1, <2>3 DEF o, new
<1> QED
  BY <1>7, <1>8

\* Every step keeps the order.
LEMMA OrderStep ==
    ASSUME TypeOK, TypeOK', OffsetInv, FileInv, OrderInv, [Next]_vars PROVE OrderInv'
<1>1. raced' = 0 => raced = 0
  BY RacedGrows
<1>n. /\ written \in Nat /\ current \in Nat /\ queue \in Seq(Lines) /\ Len(queue) \in Nat
      /\ \A i \in 1..Len(queue) : queue[i] \in Nat
      /\ \A l \in Lines : l \in Nat /\ l > 0
  BY Numbers
<1>o. raced = 0 =>
         /\ current <= written
         /\ \A i \in 1..Len(queue) : current < queue[i] /\ queue[i] <= written
         /\ \A i, j \in 1..Len(queue) : i < j => queue[i] < queue[j]
         /\ \A o \in Pending : \A l \in Coming(o) : current < l /\ \A i \in 1..Len(queue) : queue[i] < l
  BY DEF OrderInv
<1>2. CASE Start \/ Die
  <2>1. queue' = <<>> /\ current' = 0 /\ written' = written
    BY <1>2 DEF Start, Die, OrderInv, managerVars, fileVars
  <2>2. 1..Len(queue') = {} /\ 0 <= written
    BY <1>n, <2>1
  <2>3. \A o : \A l \in Coming(o)' : 0 < l
    <3>1. file' = file
      BY <1>2 DEF Start, Die, fileVars
    <3>2. \A o : \A l \in Coming(o) : l \in Lines
      BY ComingInFile
    <3> QED
      BY <1>n, <3>1, <3>2, ComingSame
  <2> QED
    BY <2>1, <2>2, <2>3 DEF OrderInv
<1>3. CASE Read /\ ~(Exists /\ reading.inode = file.inode)
  <2>1. CASE Exists
    <3>1. raced > 0 /\ raced' = raced /\ (Up' <=> Up) /\ Up
      BY <1>3, <2>1 DEF Read, FileInv, Up, consumerVars
    <3>2. raced' # 0
      BY <3>1
    <3> QED
      BY <3>1, <3>2 DEF OrderInv
  <2>2. CASE ~Exists
    <3>1. /\ queue' = queue /\ current' = current /\ written' = written /\ (Up' <=> Up)
          /\ file' = file /\ saved' = saved /\ tail' = "watch"
      BY <1>3, <2>2 DEF Read, managerVars, consumerVars, fileVars, Up
    <3>2. Pending' = {saved} /\ saved \in Pending
      BY <3>1 DEF Pending
    <3>3. \A o \in Pending' : \A l \in Coming(o)' : \E q \in Pending : l \in Coming(q)
      BY <3>1, <3>2, ComingSame
    <3> QED
      BY <1>1, <3>1, <3>3, OrderKept
  <2> QED
    BY <2>1, <2>2
<1>4. CASE Read /\ Exists /\ reading.inode = file.inode
  <2> DEFINE new == ReadNewLines(reading.offset)
  <2>1. /\ new \in Seq(Lines) /\ Len(new) \in Nat
        /\ \A x \in 1..Len(new) : new[x] \in Coming(reading)
        /\ \A x, y \in 1..Len(new) : x < y => new[x] < new[y]
        /\ \A l \in Coming(saved') : l \in Coming(reading) /\ \A x \in 1..Len(new) : new[x] < l
    BY <1>4, ReadComing
  <2>2. /\ Enqueue(new) /\ file' = file /\ written' = written /\ current' = current /\ raced' = raced
        /\ (Up' <=> Up) /\ tail = "read" /\ tail' = "watch"
    BY <1>4 DEF Read, fileVars, consumerVars, Up
  <2> HIDE DEF new
  <2>3. /\ Len(queue') \in Nat
        /\ \A i \in 1..Len(queue') :
              \/ i \in 1..Len(queue) /\ queue'[i] = queue[i]
              \/ i > Len(queue) /\ i - Len(queue) \in 1..Len(new) /\ queue'[i] = new[i - Len(queue)]
    BY <2>1, <2>2, QueueAfter
  <2>4. Up
    BY <2>2 DEF FileInv
  <2> SUFFICES ASSUME raced = 0
               PROVE  /\ current <= written
                      /\ \A i \in 1..Len(queue') : current < queue'[i] /\ queue'[i] <= written
                      /\ \A i, j \in 1..Len(queue') : i < j => queue'[i] < queue'[j]
                      /\ \A o \in Pending' : \A l \in Coming(o)' :
                            current < l /\ \A i \in 1..Len(queue') : queue'[i] < l
    BY <2>2, <2>4 DEF OrderInv
  <2>5. Pending' = {saved'} /\ reading \in Pending
    BY <2>2 DEF Pending
  <2>6. \A l \in Coming(reading) : current < l /\ l <= written /\ \A i \in 1..Len(queue) : queue[i] < l
    <3> TAKE l \in Coming(reading)
    <3>1. PICK i \in 1..Len(file.lines) : l = file.lines[i]
      BY ComingInFile
    <3>2. l <= written
      BY <3>1 DEF FileInv
    <3> QED
      BY <1>o, <2>5, <3>2
  <2>7. \A i \in 1..Len(queue') : current < queue'[i] /\ queue'[i] <= written
    <3> TAKE i \in 1..Len(queue')
    <3>1. CASE i \in 1..Len(queue) /\ queue'[i] = queue[i]
      BY <1>o, <3>1
    <3>2. CASE i - Len(queue) \in 1..Len(new) /\ queue'[i] = new[i - Len(queue)]
      BY <2>1, <2>6, <3>2
    <3> QED
      BY <2>3, <3>1, <3>2
  <2>8. \A i, j \in 1..Len(queue') : i < j => queue'[i] < queue'[j]
    <3> TAKE i \in 1..Len(queue'), j \in 1..Len(queue')
    <3> HAVE i < j
    <3> DEFINE x == i - Len(queue)
               y == j - Len(queue)
    <3>1. i \in Nat /\ j \in Nat
      BY <2>3
    <3>2. CASE j \in 1..Len(queue) /\ queue'[j] = queue[j]
      <4>1. i \in 1..Len(queue) /\ ~(i > Len(queue))
        BY <1>n, <3>1, <3>2
      <4>2. queue'[i] = queue[i]
        BY <2>3, <4>1
      <4> QED
        BY <1>o, <3>2, <4>1, <4>2
    <3>3. CASE j > Len(queue) /\ y \in 1..Len(new) /\ queue'[j] = new[y]
      <4>1. new[y] \in Coming(reading)
        BY <2>1, <3>3
      <4>2. CASE i \in 1..Len(queue) /\ queue'[i] = queue[i]
        BY <2>6, <3>3, <4>1, <4>2
      <4>3. CASE i > Len(queue) /\ x \in 1..Len(new) /\ queue'[i] = new[x]
        <5>1. x < y
          BY <1>n, <3>1
        <5> HIDE DEF x, y
        <5> QED
          BY <2>1, <3>3, <4>3, <5>1
      <4> QED
        BY <2>3, <4>2, <4>3
    <3> QED
      BY <2>3, <3>2, <3>3
  <2>9. \A l \in Coming(saved') : current < l /\ \A i \in 1..Len(queue') : queue'[i] < l
    <3> TAKE l \in Coming(saved')
    <3>1. l \in Coming(reading) /\ \A x \in 1..Len(new) : new[x] < l
      BY <2>1
    <3>2. current < l /\ \A i \in 1..Len(queue) : queue[i] < l
      BY <2>6, <3>1
    <3>3. \A i \in 1..Len(queue') : queue'[i] < l
      BY <2>3, <3>1, <3>2
    <3> QED
      BY <3>2, <3>3
  <2>10. \A o \in Pending' : \A l \in Coming(o)' : current < l /\ \A i \in 1..Len(queue') : queue'[i] < l
    BY <2>2, <2>5, <2>9, ComingSame
  <2> QED
    BY <1>o, <2>7, <2>8, <2>10
<1>5. CASE GetEvent
  <2>1. /\ current' = Head(queue) /\ queue' = Tail(queue) /\ queue # <<>> /\ file' = file
        /\ written' = written /\ saved' = saved /\ tail' = tail /\ reading' = reading
        /\ raced' = raced /\ (Up' <=> Up) /\ Up
    BY <1>5 DEF GetEvent, fileVars, tailVars, history, Up, Loop
  <2>2. /\ Len(queue) > 0 /\ current' = queue[1] /\ Len(queue') = Len(queue) - 1
        /\ \A i \in 1..Len(queue') : queue'[i] = queue[i + 1] /\ i + 1 \in 1..Len(queue)
        /\ 1 \in 1..Len(queue)
    BY <1>n, <2>1
  <2>3. Pending' = Pending
    BY <2>1 DEF Pending
  <2>4. \A o \in Pending' : \A l \in Coming(o)' : l \in Coming(o)
    BY <2>1, ComingSame
  <2> SUFFICES ASSUME raced = 0
               PROVE  /\ current' <= written
                      /\ \A i \in 1..Len(queue') : current' < queue'[i] /\ queue'[i] <= written
                      /\ \A i, j \in 1..Len(queue') : i < j => queue'[i] < queue'[j]
                      /\ \A o \in Pending' : \A l \in Coming(o)' :
                            current' < l /\ \A i \in 1..Len(queue') : queue'[i] < l
    BY <2>1 DEF OrderInv
  <2>5. current' <= written /\ \A o \in Pending' : \A l \in Coming(o)' :
                                  current' < l /\ \A i \in 1..Len(queue') : queue'[i] < l
    BY <1>o, <2>2, <2>3, <2>4
  <2>6. \A i \in 1..Len(queue') : current' < queue'[i] /\ queue'[i] <= written
    <3> TAKE i \in 1..Len(queue')
    <3>1. 1 < i + 1
      BY <1>n, <2>2
    <3> QED
      BY <1>o, <2>2, <3>1
  <2>7. \A i, j \in 1..Len(queue') : i < j => queue'[i] < queue'[j]
    <3> TAKE i \in 1..Len(queue'), j \in 1..Len(queue')
    <3> HAVE i < j
    <3>1. i + 1 < j + 1
      BY <1>n, <2>2
    <3> QED
      BY <1>o, <2>2, <3>1
  <2> QED
    BY <2>5, <2>6, <2>7
<1>6. CASE ~Start /\ ~Die /\ ~Read /\ ~GetEvent
  <2>1. queue' = queue /\ current' \in {current, 0} /\ written' \in {written, written + 1}
    BY <1>6 DEF Next, LogWriter, AppendLine, Remove, Create, Truncate, Receiver, Watch, Process,
       StopTail, Stop, Pipeline, Run, EndOfStream, HandlerDone, CancelPipeline, vars, managerVars,
       consumerVars, fileVars
  <2>2. /\ \A o \in Pending' : \A l \in Coming(o)' :
              (\E p \in Pending : l \in Coming(p)) \/ (l = written + 1 /\ written' = written + 1)
        /\ (Up' <=> Up)
    BY <1>6, ComingStep
  <2> QED
    BY <1>1, <2>1, <2>2, OrderKept
<1> QED
  BY <1>2, <1>3, <1>4, <1>5, <1>6
-----------------------------------------------------------------------------
(* Rereads *)

\* Every step keeps the count of the causes above that of the rereads.
LEMMA RereadStep ==
    ASSUME TypeOK, TypeOK', OffsetInv, FileInv, RereadInv, [Next]_vars PROVE RereadInv'
<1>n. /\ raced \in Nat /\ deaths \in Nat /\ reads \in [Lines -> Nat] /\ written \in Nat
      /\ raced' \in Nat /\ deaths' \in Nat
      /\ \A l \in Lines : l \in Nat /\ reads[l] \in Nat
  <2>1. deaths' \in Nat
    BY DEF TypeOK
  <2>2. raced' \in Nat
    BY RacedGrows
  <2> QED
    BY <2>1, <2>2, Numbers
<1>i. /\ \A l \in Lines : reads[l] <= 1 + deaths + raced
      /\ \A o \in Pending : \A l \in Coming(o) : reads[l] <= deaths + raced
      /\ ~Up => \A l \in Lines : reads[l] <= deaths + raced
  BY DEF RereadInv
<1>c. \A o : \A l \in Coming(o)' : l \in Lines
  <2>1. file' \in [inode : 0..(MaxRotations + 1), lines : Seq(Lines)]
    BY DEF TypeOK
  <2>2. file'.lines \in Seq(Lines)
    BY <2>1
  <2>3. \A i \in 1..Len(file'.lines) : file'.lines[i] \in Lines
    BY <2>2
  <2> QED
    BY <2>3 DEF Coming
<1>1. CASE Start \/ Die
  <2>1. /\ reads' = reads /\ raced' = raced
        /\ deaths' = IF Up THEN deaths + 1 ELSE deaths
        /\ Start => Up'
    BY <1>1 DEF Start, Die, history, bounds, Up
  <2>2. \A l \in Lines : reads[l] <= deaths' + raced' /\ reads[l] <= 1 + deaths' + raced'
    <3> TAKE l \in Lines
    <3> DEFINE n == reads[l]
    <3>1. n \in Nat /\ n <= 1 + deaths + raced /\ (~Up => n <= deaths + raced)
      BY <1>i, <1>n
    <3> HIDE DEF n
    <3>2. n <= deaths' + raced' /\ n <= 1 + deaths' + raced'
      BY <1>n, <2>1, <3>1
    <3> QED
      BY <3>2 DEF n
  <2> QED
    BY <1>c, <2>1, <2>2 DEF RereadInv
<1>2. CASE Read /\ ~Exists
  <2>1. /\ reads' = reads /\ raced' = raced /\ deaths' = deaths /\ (Up' <=> Up)
        /\ file' = file /\ saved' = saved /\ tail' = "watch"
    BY <1>2 DEF Read, consumerVars, fileVars, bounds, Up
  <2>2. Pending' = {saved} /\ saved \in Pending
    BY <2>1 DEF Pending
  <2>3. \A o \in Pending' : \A l \in Coming(o)' : \E q \in Pending : l \in Coming(q)
    BY <2>1, <2>2, ComingSame
  <2> QED
    BY <1>i, <2>1, <2>3 DEF RereadInv
<1>3. CASE Read /\ Exists
  <2> DEFINE new == ReadNewLines(reading.offset)
  <2>1. /\ reads' = [l \in Lines |-> IF l \in Elements(new) THEN reads[l] + 1 ELSE reads[l]]
        /\ file' = file /\ raced' = raced /\ deaths' = deaths /\ (Up' <=> Up)
        /\ tail = "read" /\ tail' = "watch"
    BY <1>3 DEF Read, fileVars, consumerVars, bounds, Up
  <2>2. reading.offset \in Nat
    BY <1>3, ReadStep DEF OffsetInv
  <2>3. /\ new \in Seq(Lines) /\ Len(new) \in Nat
        /\ \A x \in 1..Len(new) : \E i \in 1..Len(file.lines) : new[x] = file.lines[i]
    BY <2>2, NewLines
  <2>4. Pending' = {saved'} /\ reading \in Pending /\ Up
    BY <2>1 DEF Pending, FileInv
  <2>5. \A o \in Pending' : Coming(o)' = Coming(saved')
    BY <2>1, <2>4, ComingSame
  <2> HIDE DEF new
  <2>6. \A l \in Elements(new) : \E x \in 1..Len(new) : l = new[x]
    BY <2>3 DEF Elements
  <2>7. /\ \A l \in Elements(new) : reads[l] <= deaths + raced
        /\ \A l \in Coming(saved') : reads'[l] <= deaths + raced
    <3>1. CASE reading.inode = file.inode
      <4>1. /\ \A x \in 1..Len(new) : new[x] \in Coming(reading)
            /\ \A l \in Coming(saved') : l \in Coming(reading) /\ \A x \in 1..Len(new) : new[x] < l
        BY <1>3, <3>1, ReadComing DEF new
      <4>2. \A l \in Elements(new) : reads[l] <= deaths + raced
        BY <1>i, <2>4, <2>6, <4>1
      <4>3. \A l \in Coming(saved') : reads'[l] <= deaths + raced
        <5> TAKE l \in Coming(saved')
        <5>1. l \in Lines /\ l \in Nat
          BY <1>n, ComingInFile
        <5>2. ~(l < l)
          BY <5>1
        <5>3. l \notin Elements(new)
          BY <2>6, <4>1, <5>2
        <5>4. reads'[l] = reads[l]
          BY <2>1, <5>1, <5>3
        <5>5. reads[l] <= deaths + raced
          BY <1>i, <2>4, <4>1
        <5> QED
          BY <5>4, <5>5
      <4> QED
        BY <4>2, <4>3
    <3>2. CASE reading.inode # file.inode
      <4>1. raced > 0 /\ \A i \in 1..Len(file.lines) : reads[file.lines[i]] = 0
        BY <2>1, <3>2 DEF FileInv
      <4>2. 0 <= deaths + raced /\ 1 <= deaths + raced
        BY <1>n, <4>1
      <4>3. \A l \in Elements(new) : reads[l] = 0
        BY <2>3, <2>6, <4>1
      <4>4. \A l \in Coming(saved') : reads'[l] <= deaths + raced
        <5> TAKE l \in Coming(saved')
        <5>1. l \in Lines /\ reads[l] = 0
          BY <4>1, ComingInFile
        <5>2. reads'[l] = 1 \/ reads'[l] = 0
          BY <2>1, <5>1
        <5> QED
          BY <4>2, <5>2
      <4> QED
        BY <4>2, <4>3, <4>4
    <3> QED
      BY <3>1, <3>2
  <2>8. \A l \in Lines : reads'[l] <= 1 + deaths + raced
    <3> TAKE l \in Lines
    <3> DEFINE n == reads[l]
    <3>1. n \in Nat /\ n <= 1 + deaths + raced /\ (l \in Elements(new) => n <= deaths + raced)
      BY <1>i, <1>n, <2>7
    <3>2. reads'[l] = IF l \in Elements(new) THEN n + 1 ELSE n
      BY <2>1
    <3> HIDE DEF n
    <3>3. CASE l \in Elements(new)
      <4>1. n + 1 <= 1 + deaths + raced
        BY <1>n, <3>1, <3>3
      <4> QED
        BY <3>2, <3>3, <4>1
    <3>4. CASE l \notin Elements(new)
      BY <3>1, <3>2, <3>4
    <3> QED
      BY <3>3, <3>4
  <2> QED
    BY <2>1, <2>4, <2>5, <2>7, <2>8 DEF RereadInv
<1>4. CASE ~Start /\ ~Die /\ ~Read
  <2>1. /\ \A o \in Pending' : \A l \in Coming(o)' :
              (\E p \in Pending : l \in Coming(p)) \/ (l = written + 1 /\ written' = written + 1)
        /\ reads' = reads /\ deaths' = deaths /\ (Up' <=> Up)
    BY <1>4, ComingStep
  <2>2. raced' >= raced
    BY RacedGrows
  <2>3. \A l \in Lines : (reads[l] <= deaths + raced => reads[l] <= deaths + raced')
                         /\ reads[l] <= 1 + deaths + raced'
    <3> TAKE l \in Lines
    <3> DEFINE n == reads[l]
    <3>1. n \in Nat /\ n <= 1 + deaths + raced
      BY <1>i, <1>n
    <3> DEFINE q == raced
               r == raced'
               d == deaths
    <3>2. q \in Nat /\ r \in Nat /\ d \in Nat /\ r >= q /\ n <= 1 + d + q
      BY <1>n, <2>2, <3>1
    <3> HIDE DEF n, q, r, d
    <3>3. (n <= d + q => n <= d + r) /\ n <= 1 + d + r
      BY <3>1, <3>2
    <3> QED
      BY <3>3 DEF n, q, r, d
  <2>4. \A o \in Pending' : \A l \in Coming(o)' : reads[l] <= deaths + raced'
    <3> TAKE o \in Pending'
    <3> TAKE l \in Coming(o)'
    <3>1. l \in Lines
      BY <1>c
    <3>2. CASE \E p \in Pending : l \in Coming(p)
      BY <1>i, <2>3, <3>1, <3>2
    <3>3. CASE l = written + 1
      <4>1. ~(l <= written)
        BY <1>n, <3>3
      <4>2. ~(reads[l] > 0)
        BY <3>1, <4>1 DEF FileInv
      <4> DEFINE n == reads[l]
      <4>3. n \in Nat /\ ~(n > 0)
        BY <1>n, <3>1, <4>2
      <4>4. n = 0 /\ 0 <= deaths + raced'
        <5> DEFINE r == raced'
                   d == deaths
        <5>1. d \in Nat /\ r \in Nat
          BY <1>n
        <5> HIDE DEF n, r, d
        <5>2. 0 <= d + r
          BY <5>1
        <5>3. n = 0
          BY <4>3
        <5> QED
          BY <5>2, <5>3 DEF r, d
      <4> QED
        BY <4>4 DEF n
    <3> QED
      BY <2>1, <3>2, <3>3
  <2> QED
    BY <1>i, <2>1, <2>3, <2>4 DEF RereadInv
<1> QED
  BY <1>1, <1>2, <1>3, <1>4
-----------------------------------------------------------------------------
(* The theorems *)

LEMMA InitOrder == Init => FileInv /\ OrderInv /\ RereadInv
<1> SUFFICES ASSUME Init PROVE FileInv /\ OrderInv /\ RereadInv
  OBVIOUS
<1> USE DEF Init
<1>1. /\ file.lines = <<>> /\ 1..Len(<<>>) = {} /\ queue = <<>> /\ current = 0 /\ written = 0
      /\ file.inode = 1 /\ saved.inode = 0 /\ tail = "off" /\ raced = 0 /\ deaths = 0
      /\ \A l \in Lines : reads[l] = 0
  BY DEF NoOffset
<1>2. \A o : Coming(o) = {}
  BY <1>1 DEF Coming
<1>3. 0 <= 0 /\ 0 <= 1 + 0 + 0 /\ 0 <= 0 + 0 /\ ~(0 > 0)
  OBVIOUS
<1>4. FileInv
  BY <1>1, <1>3 DEF FileInv
<1>5. OrderInv
  BY <1>1, <1>2, <1>3 DEF OrderInv
<1>6. RereadInv
  BY <1>1, <1>2, <1>3 DEF RereadInv
<1> QED
  BY <1>4, <1>5, <1>6

\* The invariants about the lines to come hold at every time.
LEMMA ComingInvariance == Spec => [](Inv /\ FileInv /\ OrderInv /\ RereadInv)
<1>1. Inv /\ Inv' /\ FileInv /\ OrderInv /\ RereadInv /\ [Next]_vars
          => FileInv' /\ OrderInv' /\ RereadInv'
  <2> SUFFICES ASSUME Inv, Inv', FileInv, OrderInv, RereadInv, [Next]_vars
               PROVE  FileInv' /\ OrderInv' /\ RereadInv'
    OBVIOUS
  <2>1. TypeOK /\ TypeOK' /\ OffsetInv
    BY DEF Inv
  <2> QED
    BY <2>1, FileStep, OrderStep, RereadStep
<1> QED
  BY <1>1, InitOrder, Invariance, PTL DEF Spec

\* The handler sees the lines in the order they were written, across rotations,
\* truncations and drops, unless a rotation fell between a stat() and its open().
THEOREM HandledInOrder == Spec => []InOrder
<1>1. Inv /\ OrderInv => InOrder
  <2> SUFFICES ASSUME Inv, OrderInv, raced = 0,
                      NEW i \in DOMAIN (<<current>> \o queue),
                      NEW j \in DOMAIN (<<current>> \o queue), i < j
               PROVE  (<<current>> \o queue)[i] < (<<current>> \o queue)[j]
    BY DEF InOrder
  <2>1. queue \in Seq(Nat) /\ current \in Nat /\ Len(queue) \in Nat
    <3>1. TypeOK
      BY DEF Inv
    <3>2. queue \in Seq(Lines) /\ current \in Nat /\ \A l \in Lines : l \in Nat
      BY <3>1, Numbers
    <3> QED
      BY <3>2
  <2> DEFINE ahead == <<current>> \o queue
  <2>2. /\ Len(ahead) = 1 + Len(queue) /\ ahead[1] = current /\ ahead \in Seq(Nat)
        /\ \A x \in 2..(1 + Len(queue)) : ahead[x] = queue[x - 1]
    <3>1. <<current>> \in Seq(Nat) /\ Len(<<current>>) = 1 /\ <<current>>[1] = current
      BY <2>1
    <3>2. 1 \in 1..1 /\ 1 + 1 = 2
      OBVIOUS
    <3> DEFINE one == <<current>>
    <3> HIDE DEF one
    <3>3. one \in Seq(Nat) /\ Len(one) = 1 /\ one[1] = current
      BY <3>1 DEF one
    <3>4. one \o queue \in Seq(Nat)
      BY <2>1, <3>3
    <3>5. /\ Len(one \o queue) = Len(one) + Len(queue)
          /\ \A x \in 1..Len(one) : (one \o queue)[x] = one[x]
          /\ \A x \in (Len(one) + 1)..(Len(one) + Len(queue)) : (one \o queue)[x] = queue[x - Len(one)]
      BY <2>1, <3>3, ConcatFacts
    <3> QED
      BY <3>2, <3>3, <3>4, <3>5 DEF one
  <2>3. i \in 1..(1 + Len(queue)) /\ j \in 1..(1 + Len(queue))
    BY <2>2
  <2> HIDE DEF ahead
  <2>4. /\ j \in 2..(1 + Len(queue)) /\ j - 1 \in 1..Len(queue)
        /\ i = 1 \/ (i \in 2..(1 + Len(queue)) /\ i - 1 \in 1..Len(queue) /\ i - 1 < j - 1)
    BY <2>1, <2>3, SMTT(30)
  <2>5. /\ \A x \in 1..Len(queue) : current < queue[x]
        /\ \A x, y \in 1..Len(queue) : x < y => queue[x] < queue[y]
    BY DEF OrderInv
  <2>6. ahead[i] < ahead[j]
    BY <2>2, <2>4, <2>5
  <2> QED
    BY <2>6 DEF ahead
<1> QED
  BY <1>1, ComingInvariance, PTL

\* A line is read again only as often as the process ended, and went back to a
\* checkpoint, or a rotation fell between a stat() and its open().
THEOREM RereadsHaveCauses == Spec => []RereadForACause
<1>1. RereadInv => RereadForACause
  BY DEF RereadInv, RereadForACause
<1> QED
  BY <1>1, ComingInvariance, PTL

-----------------------------------------------------------------------------
(* The offset and the checkpoint *)

\* An offset of the content the file has now.
Current(o) == Exists /\ o.inode = file.inode /\ o.gen = gen

\* A read of the present content starts where the saved offset is, which is no
\* less than that of the checkpoint.
AdvanceInv ==
    /\ ~Up => saved = NoOffset
    /\ tail = "read" /\ Current(saved) => reading = saved
    /\ tail # "off" /\ Current(checkpoint) =>
          Current(saved) /\ checkpoint.offset <= saved.offset

\* A step leaves an offset of the present content where it is, or moves it on.
Advance ==
    /\ Current(saved) /\ saved'.inode = saved.inode /\ saved'.gen = saved.gen
          => saved.offset <= saved'.offset
    /\ Current(checkpoint) /\ checkpoint'.inode = checkpoint.inode
          /\ checkpoint'.gen = checkpoint.gen => checkpoint.offset <= checkpoint'.offset

\* Neither the offset of a file nor its checkpoint moves back in the content the
\* file has.
OffsetsAdvance == [][Advance]_vars

\* What is known of a new content is of another one.
LEMMA NotYetCurrent ==
    ASSUME TypeOK, OffsetInv, Create \/ Truncate, NEW o \in {saved, checkpoint, reading}
    PROVE  ~(file'.inode = o.inode /\ gen' = o.gen)
<1>1. OffsetOK(o) /\ gen \in Nat /\ rotations \in Nat /\ o.inode \in Nat /\ o.gen \in Nat
  <2>1. o \in OffsetType
    BY DEF TypeOK
  <2>2. o.inode \in Nat /\ o.gen \in Nat
    BY <2>1, IngestAssumption DEF OffsetType, NoOffset
  <2> QED BY <2>2, Numbers DEF OffsetInv
<1>2. CASE Create
  <2>1. file'.inode = rotations + 1 /\ o.inode <= rotations
    BY <1>1, <1>2 DEF Create, OffsetOK
  <2> QED BY <1>1, <2>1
<1>3. CASE Truncate
  <2>1. gen' = gen + 1 /\ o.gen <= gen
    BY <1>1, <1>3 DEF Truncate, OffsetOK
  <2> QED BY <1>1, <2>1
<1> QED BY <1>2, <1>3

\* Every step keeps what is said of the offsets, and moves none back.
LEMMA AdvanceStep ==
    ASSUME Inv, FileInv, AdvanceInv, [Next]_vars
    PROVE  AdvanceInv' /\ Advance
<1>0. /\ TypeOK /\ OffsetInv /\ gen \in Nat /\ file.inode \in Nat
      /\ Exists <=> file.inode # 0
  BY Numbers DEF Inv, Exists
<1>1. \A o \in {saved, checkpoint, reading} : Current(o) => o.offset \in Nat /\ o.offset <= o.offset
  <2> SUFFICES ASSUME NEW o \in {saved, checkpoint, reading}, Current(o)
               PROVE  o.offset \in Nat
    OBVIOUS
  <2>1. o \in OffsetType /\ o.inode # 0
    BY <1>0 DEF TypeOK, Current
  <2> QED BY <2>1 DEF OffsetType, NoOffset
\* A step that leaves the offsets and the tail alone, and gives the path no content
\* that an offset is of.
<1>2. ASSUME UNCHANGED <<saved, checkpoint, reading, tail>>, Up' <=> Up,
             \A o \in {saved, checkpoint, reading} : Current(o)' => Current(o)
                 /\ (Current(saved) => Current(saved)')
      PROVE  AdvanceInv' /\ Advance
  <2>1. Advance
    BY <1>1, <1>2 DEF Advance
  <2>2. AdvanceInv'
    BY <1>2 DEF AdvanceInv
  <2> QED BY <2>1, <2>2
<1>3. CASE AppendLine
  <2>1. /\ file'.inode = file.inode /\ gen' = gen /\ UNCHANGED tailVars /\ consumer' = consumer
    BY <1>0, <1>3 DEF AppendLine, TypeOK, consumerVars
  <2>2. \A o \in {saved, checkpoint, reading} : Current(o)' <=> Current(o)
    BY <2>1 DEF Current, Exists, tailVars
  <2> QED BY <1>2, <2>1, <2>2 DEF tailVars, Up
<1>4. CASE Remove
  <2>1. file'.inode = 0 /\ UNCHANGED tailVars /\ consumer' = consumer
    BY <1>4 DEF Remove, consumerVars, NoFile
  <2>2. ~Current(saved)' /\ ~Current(checkpoint)'
    BY <2>1 DEF Current, Exists
  <2>3. AdvanceInv'
    BY <2>1, <2>2 DEF AdvanceInv, tailVars, Up
  <2>4. Advance
    BY <1>1, <2>1 DEF Advance, tailVars
  <2> QED BY <2>3, <2>4
<1>5. CASE Create \/ Truncate
  <2>1. UNCHANGED tailVars /\ consumer' = consumer
    BY <1>5 DEF Create, Truncate, consumerVars
  <2>2. ~Current(saved)' /\ ~Current(checkpoint)'
    BY <1>0, <1>5, <2>1, NotYetCurrent DEF Current, tailVars
  <2>3. AdvanceInv'
    BY <2>1, <2>2 DEF AdvanceInv, tailVars, Up
  <2>4. Advance
    BY <1>1, <2>1 DEF Advance, tailVars
  <2> QED BY <2>3, <2>4
<1>6. CASE Start
  <2>1. /\ UNCHANGED <<file, gen, checkpoint>> /\ saved' = ExpandGlobs(checkpoint)
        /\ tail' = "begin" /\ saved = NoOffset /\ consumer' # "off"
    BY <1>6 DEF Start, fileVars, AdvanceInv, Up
  <2>2. ~Current(saved)
    BY <1>0, <2>1 DEF Current, NoOffset
  <2>3. Current(checkpoint) => saved' = checkpoint
    BY <1>0, <2>1 DEF Current, ExpandGlobs, NoOffset
  <2>4. Current(checkpoint)' <=> Current(checkpoint)
    BY <2>1 DEF Current, Exists
  <2>5. Current(checkpoint) => Current(saved)'
    BY <2>1, <2>3 DEF Current, Exists
  <2>6. Current(checkpoint) => checkpoint.offset <= saved'.offset
    BY <1>1, <2>3
  <2> QED BY <1>1, <2>1, <2>2, <2>4, <2>5, <2>6 DEF AdvanceInv, Advance, Up
<1>7. CASE Process
  <2>1. /\ UNCHANGED <<file, gen, checkpoint>> /\ consumer' = consumer /\ tail = "watch"
        /\ Up /\ tail' \in {"watch", "read"}
    BY <1>7 DEF Process, Loop, fileVars, consumerVars
  <2>2. CASE UNCHANGED <<saved, reading, tail>>
    BY <1>2, <2>1, <2>2 DEF Current, Exists, Up
  <2>3. CASE ~ UNCHANGED <<saved, reading, tail>>
    <3>1. /\ Exists /\ tail' = "read" /\ reading' = ReadFrom(saved')
          /\ \/ saved' = saved
             \/ ~watched /\ saved' = [ExpandGlobs(saved) EXCEPT !.offset = 0, !.gen = gen]
      BY <1>7, <2>3 DEF Process
    <3>2. ~watched => ~Current(saved)
      BY <3>1 DEF FileInv, Current
    <3>3. Current(saved) => saved' = saved
      BY <3>1, <3>2
    <3>4. ASSUME Current(saved)' PROVE reading' = saved'
      <4>1. saved' \in OffsetType /\ OffsetOK(saved)'
        BY <1>0, OffsetStep, TypeStep DEF TypeOK, OffsetInv
      <4>2. saved'.inode = file.inode /\ saved'.offset <= Len(file.lines)
        BY <2>1, <3>4, <4>1 DEF Current, OffsetOK
      <4>3. CheckRotation(saved') = "ok"
        <5>1. saved'.offset \in Int /\ Len(file.lines) \in Nat
          BY <1>0, <4>1, Numbers DEF OffsetType, NoOffset
        <5>2. ~(saved'.offset > Len(file.lines))
          BY <4>2, <5>1
        <5> QED BY <4>2, <5>2 DEF CheckRotation
      <4>4. reading' = [saved' EXCEPT !.inode = file.inode]
        BY <3>1, <4>3 DEF ReadFrom
      <4>5. saved' \in [offset : Nat, inode : 1..(MaxRotations + 1), gen : Nat]
        BY <1>0, <3>1, <4>1, <4>2 DEF OffsetType, NoOffset
      <4> QED BY <4>2, <4>4, <4>5
    <3>5. Current(checkpoint)' <=> Current(checkpoint)
      BY <2>1 DEF Current, Exists
    <3>6. Current(checkpoint) => Current(saved) /\ checkpoint.offset <= saved.offset
      BY <2>1 DEF AdvanceInv
    <3>7. Current(saved) => Current(saved)'
      BY <2>1, <3>3 DEF Current, Exists
    <3>8. AdvanceInv'
      BY <2>1, <3>1, <3>3, <3>4, <3>5, <3>6, <3>7 DEF AdvanceInv, Up
    <3>9. Advance
      BY <1>1, <2>1, <3>3 DEF Advance
    <3> QED BY <3>8, <3>9
  <2> QED BY <2>2, <2>3
<1>8. CASE Read
  <2>1. /\ UNCHANGED <<file, gen, checkpoint>> /\ consumer' = consumer /\ tail = "read"
        /\ tail' = "watch"
    BY <1>8 DEF Read, fileVars, consumerVars
  <2>2. CASE ~Exists
    <3>1. saved' = saved /\ ~Current(checkpoint)' /\ ~Current(saved) /\ ~Current(checkpoint)
      BY <1>8, <2>1, <2>2 DEF Read, Current, Exists
    <3> QED BY <2>1, <3>1 DEF AdvanceInv, Advance, Up
  <2>3. CASE Exists
    <3> DEFINE n == Len(ReadNewLines(reading.offset))
    <3>1. saved' = [reading EXCEPT !.offset = @ + n] /\ n \in Nat /\ reading # NoOffset
      <4>1. ReadNewLines(reading.offset) \in Seq(Lines)
        BY <1>0, <1>8, <2>3, ReadStep DEF OffsetInv
      <4> QED BY <1>0, <1>8, <2>3, <4>1, ReadStep DEF OffsetInv
    <3> HIDE DEF n
    <3>2. reading \in [offset : Nat, inode : 1..(MaxRotations + 1), gen : Nat]
      BY <1>0, <3>1 DEF TypeOK, OffsetType
    <3>3. saved'.offset = reading.offset + n /\ saved'.inode = reading.inode
          /\ saved'.gen = reading.gen
      BY <3>1, <3>2
    <3>4. Current(saved) => reading = saved
      BY <2>1 DEF AdvanceInv
    <3>5. Current(saved) => Current(saved)' /\ saved.offset <= saved'.offset
      BY <2>1, <3>1, <3>2, <3>3, <3>4 DEF Current, Exists
    <3>6. Current(checkpoint) => Current(saved) /\ checkpoint.offset <= saved.offset
      BY <2>1 DEF AdvanceInv
    <3>7. Current(checkpoint)' <=> Current(checkpoint)
      BY <2>1 DEF Current, Exists
    <3>8. Current(checkpoint) => Current(saved)' /\ checkpoint.offset <= saved'.offset
      <4> SUFFICES ASSUME Current(checkpoint)
                   PROVE  Current(saved)' /\ checkpoint.offset <= saved'.offset
        OBVIOUS
      <4>1. checkpoint.offset \in Nat /\ saved.offset \in Nat /\ saved'.offset \in Nat
        BY <1>1, <3>1, <3>2, <3>3, <3>6
      <4> QED BY <3>5, <3>6, <4>1
    <3>9. Up
      BY <2>1 DEF FileInv
    <3> QED BY <1>1, <2>1, <3>5, <3>7, <3>8, <3>9 DEF AdvanceInv, Advance, Up
  <2> QED BY <2>2, <2>3
<1>9. CASE StopTail
  <2>1. /\ UNCHANGED <<file, gen, saved>> /\ consumer' = consumer /\ tail # "off" /\ tail' = "off"
        /\ checkpoint' \in {saved, checkpoint}
    BY <1>9 DEF StopTail, fileVars, consumerVars
  <2>2. AdvanceInv'
    BY <2>1 DEF AdvanceInv, Up
  <2>3. Advance
    BY <1>1, <2>1 DEF Advance, AdvanceInv
  <2> QED BY <2>2, <2>3
<1>10. CASE Die
  <2>1. /\ checkpoint' = checkpoint /\ saved' = NoOffset /\ tail' = "off"
    BY <1>10 DEF Die
  <2>2. Current(saved) => saved'.inode # saved.inode
    BY <1>0, <2>1 DEF Current, NoOffset
  <2> QED BY <1>1, <2>1, <2>2 DEF AdvanceInv, Advance
<1>11. CASE Watch \/ Stop \/ Pipeline \/ CancelPipeline
  <2>1. /\ UNCHANGED <<file, gen, saved, checkpoint, reading>>
        /\ Up /\ Up' /\ (tail' = tail \/ (tail = "begin" /\ tail' = "watch"))
    BY <1>11 DEF Watch, Stop, Pipeline, Run, GetEvent, EndOfStream, HandlerDone, CancelPipeline,
       Loop, Up, fileVars, tailVars, consumerVars
  <2>2. \A o \in {saved, checkpoint, reading} : Current(o)' <=> Current(o)
    BY <2>1 DEF Current, Exists
  <2>3. AdvanceInv'
    BY <2>1, <2>2 DEF AdvanceInv
  <2>4. Advance
    BY <1>1, <2>1 DEF Advance
  <2> QED BY <2>3, <2>4
<1>12. CASE UNCHANGED vars
  BY <1>2, <1>12 DEF vars, fileVars, tailVars, consumerVars, Current, Exists, Up
<1> QED
  BY <1>3, <1>4, <1>5, <1>6, <1>7, <1>8, <1>9, <1>10, <1>11, <1>12 DEF Next, LogWriter, Receiver

\* Restarts included, neither the offset nor the checkpoint moves back in the
\* content the file has.
THEOREM OffsetsNeverMoveBack == Spec => OffsetsAdvance
<1>1. Init => AdvanceInv
  BY DEF Init, AdvanceInv, Current, Up, NoOffset, Exists
<1>2. Inv /\ FileInv /\ AdvanceInv /\ [Next]_vars => AdvanceInv' /\ [Advance]_vars
  BY AdvanceStep
<1>3. Spec => []AdvanceInv
  BY <1>1, <1>2, ComingInvariance, PTL DEF Spec
<1> QED
  BY <1>2, <1>3, ComingInvariance, PTL DEF Spec, OffsetsAdvance
=============================================================================
