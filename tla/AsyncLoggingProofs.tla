-------------------------- MODULE AsyncLoggingProofs --------------------------
(***************************************************************************)
(* The four buffers of AsyncLogging go round: nothing follows a pointer    *)
(* that has been moved from, and the thread gets back what it gives.  No   *)
(* line is lost on the way: files and buffers, joined, are the lines in    *)
(* their order.                                                            *)
(***************************************************************************)
EXTENDS AsyncLogging, SequenceLemmas

Buffer == Seq(Nat)

\* How many of its two buffers the thread has given away.
Missing == (IF swapCurrent = Null THEN 1 ELSE 0) + (IF swapNext = Null THEN 1 ELSE 0)

Shapes == /\ lines \in Nat /\ index \in Nat
          /\ current \in Buffer
          /\ \A p \in {next, swapCurrent, swapNext} : p \in Buffer \cup {Null}
          /\ buffers \in Seq(Buffer) /\ toWrite \in Seq(Buffer)
          /\ pc \in {"test", "lock", "wait", "write", "done"}

\* The thread gives its buffers away only with as many to write, and holds none
\* of the callers' buffers when it comes for more.
ThreadReady == /\ pc # "write" => swapCurrent # Null /\ swapNext # Null /\ toWrite = <<>>
               /\ pc = "write" => Missing <= Len(toWrite)

NextIsTaken == next = Null <=> buffers # <<>>

Inv == Shapes /\ ThreadReady /\ NextIsTaken

\* A new buffer is a buffer, and no buffer is Null.
LEMMA NewBuffer == New \in Buffer /\ Null \notin Buffer
<1>1. <<>> \in Seq(Nat)
  OBVIOUS
<1> QED BY <1>1, AsyncLoggingAssumption DEF New, Buffer

\* The initial state: all four buffers are where they belong.
LEMMA InvInit == Init => Inv
<1> SUFFICES ASSUME Init PROVE Inv
  OBVIOUS
<1>1. Shapes
  BY NewBuffer DEF Init, Shapes
<1>2. ThreadReady /\ NextIsTaken
  BY NewBuffer DEF Init, ThreadReady, NextIsTaken
<1> QED BY <1>1, <1>2 DEF Inv

\* append by any thread: if current is full, next takes its place, or a new one.
LEMMA InvAppendLine == Inv /\ AppendLine => Inv'
<1> SUFFICES ASSUME Inv, AppendLine PROVE Inv'
  OBVIOUS
<1>1. UNCHANGED <<swapCurrent, swapNext, toWrite, index, pc>> /\ lines' = lines + 1 /\ lines' \in Nat
  BY DEF AppendLine, local, Inv, Shapes
<1>2. ThreadReady'
  BY <1>1 DEF Inv, ThreadReady, Missing
<1>3. \A b \in Buffer : Append(b, lines') \in Buffer
  BY <1>1 DEF Buffer
<1>4. CASE Len(current) < BufSize
  <2>1. current' = Append(current, lines') /\ UNCHANGED <<next, buffers>>
    BY <1>4 DEF AppendLine
  <2> QED BY <1>1, <1>2, <1>3, <2>1 DEF Inv, Shapes, NextIsTaken
<1>5. CASE ~(Len(current) < BufSize)
  <2> DEFINE b == IF next # Null THEN next ELSE New
  <2>1. /\ buffers' = Append(buffers, current) /\ next' = Null
        /\ current' = Append(b, lines')
    BY <1>5 DEF AppendLine
  <2>2. b \in Buffer
    BY NewBuffer DEF Inv, Shapes
  <2>3. current' \in Buffer
    BY <1>3, <2>1, <2>2
  <2>4. buffers' \in Seq(Buffer) /\ buffers' # <<>>
    BY <2>1 DEF Inv, Shapes
  <2> QED BY <1>1, <1>2, <2>1, <2>3, <2>4 DEF Inv, Shapes, NextIsTaken
<1> QED BY <1>4, <1>5

\* The thread takes full buffers and gives the callers its second one, which
\* they lack: there would be no full buffer otherwise.
LEMMA InvTake == Inv /\ Take => Inv'
<1> SUFFICES ASSUME Inv, Take PROVE Inv'
  OBVIOUS
<1>1. /\ toWrite' = buffers /\ buffers' = <<>> /\ next' = swapNext /\ swapNext' = Null
      /\ pc' = "write" /\ UNCHANGED <<current, lines, index, swapCurrent>>
      /\ swapCurrent # Null /\ swapNext # Null
  BY DEF Take, Inv, ThreadReady
<1>2. Shapes' /\ NextIsTaken'
  BY <1>1 DEF Inv, Shapes, NextIsTaken
<1>3. Len(toWrite') >= 1
  BY <1>1 DEF Take, Inv, Shapes
<1>4. ThreadReady'
  BY <1>1, <1>3 DEF ThreadReady, Missing
<1> QED BY <1>2, <1>4 DEF Inv

\* It wakes with what there is, full buffers or not, and takes current as well:
\* two of its buffers go only if there was a full one.
LEMMA InvWake == Inv /\ Wake => Inv'
<1> SUFFICES ASSUME Inv, Wake PROVE Inv'
  OBVIOUS
<1>1. /\ toWrite' = Append(buffers, current) /\ buffers' = <<>>
      /\ current' = swapCurrent /\ swapCurrent' = Null
      /\ pc' = "write" /\ UNCHANGED <<lines, index>>
      /\ swapCurrent # Null /\ swapNext # Null
  BY DEF Wake, Inv, ThreadReady
<1>2. toWrite' \in Seq(Buffer) /\ Len(toWrite') = Len(buffers) + 1 /\ Len(buffers) \in Nat
  BY <1>1 DEF Inv, Shapes
<1>3. CASE next = Null
  <2>1. next' = swapNext /\ swapNext' = Null
    BY <1>3 DEF Wake
  <2>2. Len(buffers) >= 1
    BY <1>3 DEF Inv, Shapes, NextIsTaken
  <2>3. Shapes' /\ NextIsTaken'
    BY <1>1, <1>2, <2>1 DEF Inv, Shapes, NextIsTaken
  <2>4. ThreadReady'
    BY <1>1, <1>2, <2>1, <2>2 DEF ThreadReady, Missing
  <2> QED BY <2>3, <2>4 DEF Inv
<1>4. CASE next # Null
  <2>1. next' = next /\ swapNext' = swapNext
    BY <1>4 DEF Wake
  <2>2. Shapes' /\ NextIsTaken'
    BY <1>1, <1>2, <1>4, <2>1 DEF Inv, Shapes, NextIsTaken
  <2>3. ThreadReady'
    BY <1>1, <1>2, <2>1 DEF ThreadReady, Missing
  <2> QED BY <2>2, <2>3 DEF Inv
<1> QED BY <1>3, <1>4

\* It gets its buffers back: resize(2) leaves as many as it lacks.
LEMMA InvRecover == Inv /\ Recover => Inv'
<1> SUFFICES ASSUME Inv, Recover PROVE Inv'
  OBVIOUS
<1> DEFINE n == IF Len(toWrite) > 2 THEN 2 ELSE Len(toWrite)
           kept == SubSeq(toWrite, 1, n)
<1>1. Len(toWrite) \in Nat /\ n \in Nat /\ n <= Len(toWrite) /\ toWrite \in Seq(Buffer)
  BY DEF Inv, Shapes
<1>2. Len(kept) = n
  BY <1>1
<1>3. Missing <= n
  BY <1>1 DEF Recover, Inv, ThreadReady, Missing
<1>4. /\ swapCurrent' = New /\ swapNext' = New /\ pc' = "test" /\ toWrite' = <<>>
      /\ index' = 0 /\ UNCHANGED <<current, next, buffers, lines>>
  BY <1>2, <1>3 DEF Recover, shared, Missing
<1>5. Shapes' /\ NextIsTaken'
  BY <1>4, NewBuffer DEF Inv, Shapes, NextIsTaken
<1>6. ThreadReady'
  BY <1>4, NewBuffer DEF ThreadReady
<1> QED BY <1>5, <1>6 DEF Inv

\* Every step keeps the invariant.
LEMMA InvNext == Inv /\ [Next]_vars => Inv'
<1> SUFFICES ASSUME Inv, [Next]_vars PROVE Inv'
  OBVIOUS
<1>1. CASE AppendLine
  BY <1>1, InvAppendLine
<1>2. CASE Stop
  BY <1>2 DEF Stop, local, Inv, Shapes, ThreadReady, NextIsTaken, Missing
<1>3. CASE Test
  BY <1>3 DEF Test, shared, local, Inv, Shapes, ThreadReady, NextIsTaken, Missing
<1>4. CASE Take
  BY <1>4, InvTake
<1>5. CASE Wait
  BY <1>5 DEF Wait, shared, local, Inv, Shapes, ThreadReady, NextIsTaken, Missing
<1>6. CASE Wake
  BY <1>6, InvWake
<1>7. CASE WriteBuffer
  BY <1>7 DEF WriteBuffer, shared, Inv, Shapes, ThreadReady, NextIsTaken, Missing
<1>8. CASE Recover
  BY <1>8, InvRecover
<1>9. CASE Clock
  BY <1>9 DEF Clock, shared, local, Inv, Shapes, ThreadReady, NextIsTaken, Missing
<1>10. CASE UNCHANGED vars
  BY <1>10 DEF vars, shared, local, Inv, Shapes, ThreadReady, NextIsTaken, Missing
<1> QED BY <1>1, <1>2, <1>3, <1>4, <1>5, <1>6, <1>7, <1>8, <1>9, <1>10 DEF Next, Thread

\* AsyncLogging.cc 19-61, 80-97: for any number of lines, any size of the buffers
\* and every interleaving of append, stop and the thread, no pointer that has
\* been moved from is followed and both assertions hold.
THEOREM BuffersAlwaysGoRound == Spec => []BuffersGoRound
<1>1. Inv => BuffersGoRound
  BY NewBuffer DEF Inv, Shapes, NextIsTaken, BuffersGoRound
<1> QED BY InvInit, InvNext, <1>1, PTL DEF Spec

-----------------------------------------------------------------------------
(* The files.  A write that is late counts, so that the open file has taken  *)
(* no more late writes than are counted; and the period that was looked at   *)
(* last is no later than the open file's, so that looking rolls a late file. *)

Closed == 1 .. Len(files) - 1

FilesRoll == /\ now \in Nat /\ lastRoll \in Nat /\ periodStart \in Nat
             /\ count \in 0 .. CheckEveryN - 1
             /\ files \in Seq(File) /\ files # <<>>
             /\ files[Open].opened = lastRoll /\ lastRoll <= now
             /\ periodStart <= PeriodOf(lastRoll)
             /\ \A f \in Closed : files[f].late <= CheckEveryN
             /\ files[Open].late <= count
             /\ files[Open].late > 0 => PeriodOf(lastRoll) < ThisPeriod

LEMMA PeriodsGrow ==
  ASSUME NEW s \in Nat, NEW t \in Nat, s <= t
  PROVE  PeriodOf(s) \in Nat /\ PeriodOf(t) \in Nat /\ PeriodOf(s) <= PeriodOf(t)
<1> Period \in Nat /\ Period > 0
  BY LogFileAssumption
<1> DEFINE p == s \div Period
           q == t \div Period
<1>1. p \in Nat /\ q \in Nat
  OBVIOUS
<1>2. Period * p <= s /\ s < Period * (p + 1) /\ Period * q <= t /\ t < Period * (q + 1)
  OBVIOUS
<1>3. p <= q
  BY <1>1, <1>2
<1> HIDE DEF p, q
<1>4. p * Period <= q * Period /\ p * Period \in Nat /\ q * Period \in Nat
  BY <1>1, <1>3
<1> QED BY <1>4 DEF PeriodOf, p, q

\* What a write leaves in the files before any of them is rolled.
LEMMA WrittenFiles ==
  ASSUME FilesRoll, NEW buffer \in Buffer
  PROVE  /\ Written(buffer) \in Seq(File) /\ Len(Written(buffer)) = Open
         /\ Open \in Nat /\ Open >= 1
         /\ \A f \in Closed : Written(buffer)[f] = files[f]
         /\ Written(buffer)[Open].opened = lastRoll
         /\ Written(buffer)[Open].late \in Nat
         /\ Written(buffer)[Open].late =
               files[Open].late + (IF PeriodOf(lastRoll) # ThisPeriod THEN 1 ELSE 0)
<1> DEFINE late == PeriodOf(files[Open].opened) # ThisPeriod
           all  == files[Open].lines \o buffer
           n    == files[Open].late + (IF late THEN 1 ELSE 0)
           file == [files[Open] EXCEPT !.lines = all, !.late = n]
<1>1. Open \in Nat /\ Open >= 1 /\ Open \in 1 .. Len(files) /\ files[Open] \in File
  BY DEF FilesRoll, Open
<1>2. all \in Seq(Nat) /\ n \in Nat
  BY <1>1 DEF File, Buffer
<1>3. Written(buffer) = [files EXCEPT ![Open] = file]
  BY DEF Written
<1> HIDE DEF all, n
<1>4. file \in File /\ file.opened = files[Open].opened /\ file.late = n
  BY <1>1, <1>2 DEF File
<1> HIDE DEF file
<1>5. /\ Written(buffer) \in Seq(File) /\ Len(Written(buffer)) = Open
      /\ Written(buffer)[Open] = file
      /\ \A f \in Closed : Written(buffer)[f] = files[f]
  BY <1>1, <1>3, <1>4 DEF FilesRoll, Open, Closed
<1> QED BY <1>1, <1>2, <1>4, <1>5 DEF FilesRoll, n

\* LogFile::append, whether it rolls the file or not.
LEMMA LogAppendRolls ==
  ASSUME FilesRoll, NEW buffer \in Buffer, LogAppend(buffer)
  PROVE  FilesRoll'
<1> DEFINE w == Written(buffer)
           tooLong == Len(w[Open].lines) > RollSize
           look == count + 1 >= CheckEveryN
           rolls == tooLong \/ (look /\ ThisPeriod # periodStart)
           late == PeriodOf(lastRoll) # ThisPeriod
<1> CheckEveryN \in Nat /\ CheckEveryN > 0
  BY LogFileAssumption
<1>1. /\ w \in Seq(File) /\ Len(w) = Open /\ Open \in Nat /\ Open >= 1
      /\ \A f \in Closed : w[f] = files[f]
      /\ w[Open].opened = lastRoll /\ w[Open].late \in Nat
      /\ w[Open].late = files[Open].late + (IF late THEN 1 ELSE 0)
  BY WrittenFiles
<1>2. /\ count' = IF tooLong THEN count ELSE IF look THEN 0 ELSE count + 1
      /\ periodStart' = IF ~tooLong /\ look THEN ThisPeriod ELSE periodStart
      /\ now' = now
  BY DEF LogAppend
<1>3. IF rolls /\ now > lastRoll THEN lastRoll' = now /\ files' = Append(w, NewFile)
      ELSE files' = w /\ lastRoll' = lastRoll
  BY DEF LogAppend, RollFile
<1> HIDE DEF w
<1>4. /\ PeriodOf(lastRoll) \in Nat /\ ThisPeriod \in Nat /\ PeriodOf(lastRoll) <= ThisPeriod
      /\ ThisPeriod' = ThisPeriod
  BY <1>2, PeriodsGrow DEF FilesRoll, ThisPeriod, PeriodOf
<1>5. files[Open].late \in Nat /\ count \in Nat /\ files[Open].late <= count /\ count < CheckEveryN
  <2>1. files[Open] \in File
    BY <1>1 DEF FilesRoll, Open
  <2> QED BY <2>1 DEF FilesRoll, File
<1>6. late => now > lastRoll
  BY DEF FilesRoll, ThisPeriod
<1>7. look /\ late => ThisPeriod # periodStart
  BY <1>4 DEF FilesRoll
<1>8. w[Open].late <= CheckEveryN
  BY <1>1, <1>5
<1>9. count' \in 0 .. CheckEveryN - 1 /\ now' \in Nat /\ periodStart' \in Nat
  <2>1. count \in 0 .. CheckEveryN - 1 /\ now \in Nat /\ periodStart \in Nat
    BY DEF FilesRoll
  <2>2. ~look => count + 1 \in 0 .. CheckEveryN - 1
    BY <2>1
  <2> HIDE DEF tooLong, look
  <2> QED BY <1>2, <1>4, <2>1, <2>2
<1>10. CASE rolls /\ now > lastRoll
  <2>1. lastRoll' = now /\ files' = Append(w, NewFile)
    BY <1>3, <1>10
  <2>2. NewFile \in File /\ NewFile.opened = now /\ NewFile.late = 0
    BY DEF NewFile, File, FilesRoll
  <2>3. /\ files' \in Seq(File) /\ files' # <<>> /\ Open' = Open + 1
        /\ files'[Open'] = NewFile
        /\ \A f \in Closed' : files'[f] = w[f] /\ f \in 1 .. Open
    BY <1>1, <2>1, <2>2 DEF Open, Closed
  <2>4. periodStart' <= PeriodOf(lastRoll')
    BY <1>2, <1>4, <2>1 DEF FilesRoll, ThisPeriod
  <2>5. \A f \in Closed' : files'[f].late <= CheckEveryN
    <3> SUFFICES ASSUME NEW f \in Closed' PROVE w[f].late <= CheckEveryN
      BY <2>3
    <3>1. f = Open \/ f \in Closed
      BY <1>1, <2>3 DEF Closed, Open
    <3>2. \A c \in Closed : files[c].late <= CheckEveryN
      BY DEF FilesRoll
    <3> QED BY <1>1, <1>8, <3>1, <3>2
  <2>6. lastRoll' \in Nat /\ lastRoll' <= now'
    BY <1>2, <2>1 DEF FilesRoll
  <2>7. files'[Open'].opened = lastRoll' /\ files'[Open'].late = 0
    BY <2>1, <2>2, <2>3
  <2>8. files'[Open'].late <= count' /\ ~(files'[Open'].late > 0)
    BY <1>9, <2>7
  <2> QED BY <1>9, <2>3, <2>4, <2>5, <2>6, <2>7, <2>8 DEF FilesRoll
<1>11. CASE ~(rolls /\ now > lastRoll)
  <2>1. files' = w /\ lastRoll' = lastRoll
    BY <1>3, <1>11
  <2>2. files' \in Seq(File) /\ files' # <<>> /\ Open' = Open /\ Closed' = Closed
    BY <1>1, <2>1 DEF Open, Closed
  <2>3. late => ~tooLong /\ ~look
    BY <1>6, <1>7, <1>11
  <2>4. ~late => files[Open].late = 0
    BY <1>4, <1>5 DEF FilesRoll
  <2>5. w[Open].late <= count' /\ (w[Open].late > 0 => PeriodOf(lastRoll) < ThisPeriod)
    BY <1>1, <1>2, <1>4, <1>5, <1>9, <2>3, <2>4, SMTT(30)
  <2>6. periodStart' <= PeriodOf(lastRoll)
    BY <1>2, <1>4, <2>3 DEF FilesRoll
  <2>7. /\ PeriodOf(lastRoll') = PeriodOf(lastRoll) /\ files'[Open'] = w[Open]
        /\ \A f \in Closed' : files'[f] = files[f] /\ files[f].late <= CheckEveryN
    BY <1>1, <2>1, <2>2 DEF FilesRoll
  <2> QED BY <1>1, <1>2, <1>4, <1>9, <2>1, <2>2, <2>5, <2>6, <2>7 DEF FilesRoll
<1> QED BY <1>10, <1>11

LEMMA FilesInit == Init => FilesRoll
<1> SUFFICES ASSUME Init PROVE FilesRoll
  OBVIOUS
<1>1. now = 1 /\ lastRoll = now /\ count = 0 /\ periodStart = ThisPeriod /\ files = <<NewFile>>
  BY DEF Init, LogFileInit
<1>2. NewFile \in File /\ NewFile.opened = now /\ NewFile.late = 0
  BY <1>1 DEF NewFile, File
<1>3. files \in Seq(File) /\ files # <<>> /\ Open = 1 /\ files[Open] = NewFile /\ Closed = {}
  BY <1>1, <1>2 DEF Open, Closed
<1>4. ThisPeriod = PeriodOf(lastRoll) /\ ThisPeriod \in Nat
  BY <1>1, PeriodsGrow DEF ThisPeriod
<1> QED BY <1>1, <1>2, <1>3, <1>4, LogFileAssumption DEF FilesRoll

\* Time goes on; no other step but a write touches the files.
LEMMA FilesClock == FilesRoll /\ Tick => FilesRoll'
<1> SUFFICES ASSUME FilesRoll, Tick PROVE FilesRoll'
  OBVIOUS
<1>1. now' = now + 1 /\ UNCHANGED <<files, lastRoll, count, periodStart>>
  BY DEF Tick, logFile
<1>2. ThisPeriod \in Nat /\ ThisPeriod' \in Nat /\ ThisPeriod <= ThisPeriod' /\ PeriodOf(lastRoll) \in Nat
  <2>1. now \in Nat /\ now + 1 \in Nat /\ now <= now + 1 /\ lastRoll \in Nat
    BY DEF FilesRoll
  <2>2. ThisPeriod' = PeriodOf(now + 1)
    BY <1>1 DEF ThisPeriod, PeriodOf
  <2> QED BY <2>1, <2>2, PeriodsGrow DEF ThisPeriod
<1>3. Open' = Open /\ Closed' = Closed /\ PeriodOf(lastRoll)' = PeriodOf(lastRoll)
  BY <1>1 DEF Open, Closed, PeriodOf
<1> QED BY <1>1, <1>2, <1>3 DEF FilesRoll

LEMMA FilesNext == Inv /\ FilesRoll /\ [Next]_vars => FilesRoll'
<1> SUFFICES ASSUME Inv, FilesRoll, [Next]_vars PROVE FilesRoll'
  OBVIOUS
<1>1. CASE WriteBuffer
  <2>1. toWrite[index + 1] \in Buffer
    BY <1>1 DEF WriteBuffer, Inv, Shapes
  <2> QED BY <1>1, <2>1, LogAppendRolls DEF WriteBuffer
<1>2. CASE Clock
  BY <1>2, FilesClock DEF Clock
<1>3. CASE UNCHANGED <<now, logFile>>
  BY <1>3 DEF logFile, FilesRoll, Open, Closed, ThisPeriod, PeriodOf
<1>4. ~WriteBuffer /\ ~Clock => UNCHANGED <<now, logFile>>
  BY DEF Next, Thread, AppendLine, Stop, Test, Take, Wait, Wake, Recover, vars
<1> QED BY <1>1, <1>2, <1>3, <1>4

\* LogFile.cc 72-122: for any sizes, any period and any pace of the writes, each
\* file takes no more than checkEveryN_ writes after its period.
THEOREM PeriodsAlwaysApart == Spec => []PeriodsApart
<1>1. FilesRoll => PeriodsApart
  <2> SUFFICES ASSUME FilesRoll, NEW f \in DOMAIN files PROVE files[f].late <= CheckEveryN
    BY DEF PeriodsApart
  <2>1. f \in Closed \/ f = Open
    BY DEF FilesRoll, Closed, Open
  <2>2. files[Open].late <= CheckEveryN
    <3>1. files[Open] \in File
      BY DEF FilesRoll, Open
    <3>2. files[Open].late \in Nat /\ files[Open].late <= count
      BY <3>1 DEF FilesRoll, File
    <3>3. count \in 0 .. CheckEveryN - 1 /\ CheckEveryN \in Nat
      BY LogFileAssumption DEF FilesRoll
    <3> QED BY <3>2, <3>3
  <2> QED BY <2>1, <2>2 DEF FilesRoll
<1> QED BY InvInit, InvNext, FilesInit, FilesNext, <1>1, PTL DEF Spec

-----------------------------------------------------------------------------
(* The lines.  What is on file, in the thread's hands and waiting are three  *)
(* parts of one sequence: the thread moves the border between two of them,   *)
(* and a swap makes waiting lines the thread's only while it has none.       *)

\* The lines 1 to n, in order.
Upto(n) == [l \in 1 .. n |-> l]

FileLines == [f \in DOMAIN files |-> files[f].lines]
Unwritten == SubSeq(toWrite, index + 1, Len(toWrite))
Waiting == Append(buffers, current)

\* The buffers that are passed round are empty.
Blank == \A p \in {next, swapCurrent, swapNext} : p \in {New, Null}

Cursor == /\ index \in 0 .. Len(toWrite)
          /\ pc # "write" => index = 0

Lossless == Blank /\ Cursor /\ NothingLost

LEMMA OneMore ==
  ASSUME NEW n \in Nat
  PROVE  Upto(n) \in Seq(Nat) /\ Len(Upto(n)) = n /\ Upto(n + 1) = Upto(n) \o <<n + 1>>
BY DEF Upto

\* The three parts are sequences of lines.
LEMMA Parts ==
  ASSUME Inv, FilesRoll
  PROVE  /\ FileLines \in Seq(Buffer) /\ OnFile \in Buffer /\ OnFile = FlattenSeq(FileLines)
         /\ Unwritten \in Seq(Buffer) /\ FlattenSeq(Unwritten) \in Buffer
         /\ Waiting \in Seq(Buffer) /\ FlattenSeq(Waiting) \in Buffer
<1>1. FileLines \in Seq(Buffer)
  <2>1. files \in Seq(File) /\ \A f \in DOMAIN files : files[f].lines \in Buffer
    <3>1. files \in Seq(File)
      BY DEF FilesRoll
    <3>2. \A f \in DOMAIN files : files[f] \in File
      BY <3>1
    <3> QED BY <3>1, <3>2 DEF File, Buffer
  <2>2. Len(files) \in Nat /\ DOMAIN files = 1 .. Len(files)
    BY <2>1
  <2>3. FileLines = [f \in 1 .. Len(files) |-> files[f].lines]
    BY <2>2 DEF FileLines
  <2> QED BY <2>1, <2>2, <2>3, IsASeq
<1>2. Unwritten \in Seq(Buffer) /\ Waiting \in Seq(Buffer)
  BY DEF Inv, Shapes, Unwritten, Waiting
<1>3. OnFile = FlattenSeq(FileLines)
  BY DEF OnFile, FileLines
<1> QED BY <1>1, <1>2, <1>3, FlattenType DEF Buffer

\* The same with the names that are used here.
LEMMA NothingLostParts ==
  NothingLost <=> OnFile \o FlattenSeq(Unwritten) \o FlattenSeq(Waiting) = Upto(lines)
BY DEF NothingLost, Unwritten, Waiting, Upto

\* A line goes to the end of what is waiting, in current or in the buffer that
\* takes its place, which is empty.
LEMMA AppendWaits ==
  ASSUME Inv, Blank, AppendLine
  PROVE  FlattenSeq(Waiting') = FlattenSeq(Waiting) \o <<lines'>>
<1>1. /\ lines' \in Nat /\ <<lines'>> \in Seq(Nat)
      /\ buffers \in Seq(Seq(Nat)) /\ current \in Seq(Nat)
  BY DEF AppendLine, Inv, Shapes, Buffer
<1>2. CASE Len(current) < BufSize
  <2>1. Waiting' = Append(buffers, current \o <<lines'>>)
    <3>1. current' = Append(current, lines') /\ buffers' = buffers
      BY <1>2 DEF AppendLine
    <3>2. current' = current \o <<lines'>>
      BY <1>1, <3>1
    <3> QED BY <3>1, <3>2 DEF Waiting
  <2>2. FlattenSeq(Append(buffers, current \o <<lines'>>)) = FlattenSeq(Append(buffers, current)) \o <<lines'>>
    <3> DEFINE x == <<lines'>>
    <3>1. x \in Seq(Nat)
      BY <1>1
    <3> HIDE DEF x
    <3>2. FlattenSeq(Append(buffers, current \o x)) = FlattenSeq(Append(buffers, current)) \o x
      BY <1>1, <3>1, FlattenLonger
    <3> QED BY <3>2 DEF x
  <2> QED BY <2>1, <2>2, Zenon DEF Waiting
<1>3. CASE ~(Len(current) < BufSize)
  <2>1. buffers' = Append(buffers, current) /\ current' = <<lines'>>
    BY <1>3 DEF AppendLine, Blank, New
  <2>2. Waiting' = Append(Waiting, <<lines'>>) /\ Waiting \in Seq(Seq(Nat))
    BY <1>1, <2>1 DEF Waiting
  <2> QED BY <1>1, <2>2, FlattenAppend
<1> QED BY <1>2, <1>3

LEMMA LosslessAppendLine == Inv /\ FilesRoll /\ Lossless /\ AppendLine => Lossless'
<1> SUFFICES ASSUME Inv, FilesRoll, Lossless, AppendLine PROVE Lossless'
  OBVIOUS
<1>1. /\ UNCHANGED <<files, swapCurrent, swapNext, toWrite, index, pc>>
      /\ lines' = lines + 1 /\ lines \in Nat
  BY DEF AppendLine, local, logFile, Inv, Shapes
<1>2. Blank' /\ Cursor'
  BY <1>1 DEF AppendLine, Lossless, Blank, Cursor
<1>3. OnFile' = OnFile /\ Unwritten' = Unwritten
  BY <1>1 DEF OnFile, Unwritten
<1> DEFINE a == OnFile
           b == FlattenSeq(Unwritten)
           c == FlattenSeq(Waiting)
<1>4. a \in Seq(Nat) /\ b \in Seq(Nat) /\ c \in Seq(Nat) /\ a \o b \o c = Upto(lines)
  BY Parts, NothingLostParts DEF Lossless, Buffer
<1>5. OnFile' \o FlattenSeq(Unwritten') \o FlattenSeq(Waiting') = (a \o b) \o (c \o <<lines + 1>>)
  BY <1>1, <1>3, AppendWaits DEF Lossless
<1> HIDE DEF a, b, c
<1>6. (a \o b) \o (c \o <<lines + 1>>) = Upto(lines + 1)
  <2>1. a \o b \in Seq(Nat) /\ <<lines + 1>> \in Seq(Nat)
    BY <1>1, <1>4
  <2>2. ((a \o b) \o c) \o <<lines + 1>> = (a \o b) \o (c \o <<lines + 1>>)
    BY <1>4, <2>1
  <2> QED BY <1>1, <1>4, <2>2, OneMore
<1>7. NothingLost'
  BY <1>1, <1>5, <1>6 DEF NothingLost, Unwritten, Waiting, Upto
<1> QED BY <1>2, <1>7 DEF Lossless

\* Before it takes buffers the thread has none, and it takes those that wait
\* first.
LEMMA LosslessTake == Inv /\ FilesRoll /\ Lossless /\ (Take \/ Wake) => Lossless'
<1> SUFFICES ASSUME Inv, FilesRoll, Lossless, Take \/ Wake PROVE Lossless'
  OBVIOUS
<1>1. /\ toWrite = <<>> /\ index = 0 /\ UNCHANGED <<files, lines, index>> /\ buffers' = <<>>
      /\ swapCurrent = New /\ swapNext = New /\ pc' = "write"
      /\ buffers \in Seq(Seq(Nat)) /\ current \in Seq(Nat)
  BY DEF Take, Wake, logFile, Inv, Shapes, ThreadReady, Lossless, Cursor, Blank, Buffer
<1>2. Blank'
  BY <1>1 DEF Take, Wake, Lossless, Blank
<1>3. toWrite' \in Seq(Seq(Nat)) /\ Unwritten' = toWrite' /\ Cursor'
  <2>1. toWrite' \in Seq(Seq(Nat))
    <3>1. CASE Take
      BY <1>1, <3>1 DEF Take
    <3>2. CASE Wake
      BY <1>1, <3>2, Appended DEF Wake
    <3> QED BY <3>1, <3>2
  <2> DEFINE T == Seq(Nat)
  <2> HIDE DEF T
  <2>2. toWrite' \in Seq(T) /\ index' = 0
    BY <1>1, <2>1 DEF T
  <2>3. Len(toWrite') \in Nat /\ SubSeq(toWrite', 0 + 1, Len(toWrite')) = toWrite'
    BY <2>2
  <2> QED BY <1>1, <2>1, <2>2, <2>3 DEF Unwritten, Cursor
<1>4. FlattenSeq(Unwritten) = <<>>
  <2>1. Unwritten = <<>>
    BY <1>1 DEF Unwritten
  <2> QED BY <2>1, FlattenEmpty, Zenon
<1>5. /\ FlattenSeq(Waiting) = FlattenSeq(buffers) \o current
      /\ FlattenSeq(buffers) \in Seq(Nat)
  BY <1>1, FlattenAppend, FlattenType DEF Waiting
<1>6. FlattenSeq(Unwritten') \o FlattenSeq(Waiting') = FlattenSeq(Waiting)
  <2>1. CASE Take
    <3>1. toWrite' = buffers /\ Waiting' = <<current>>
      BY <1>1, <2>1 DEF Take, Waiting
    <3>2. FlattenSeq(Waiting') = current
      BY <1>1, <3>1, FlattenOne
    <3> QED BY <1>3, <1>5, <3>1, <3>2
  <2>2. CASE Wake
    <3>1. toWrite' = Waiting /\ Waiting' = <<New>>
      BY <1>1, <2>2 DEF Wake, Waiting
    <3>2. FlattenSeq(Waiting') = <<>>
      <4>1. <<>> \in Seq(Nat)
        OBVIOUS
      <4> QED BY <3>1, <4>1, FlattenOne DEF New
    <3>3. FlattenSeq(Waiting) \in Seq(Nat)
      BY <1>1, <1>5
    <3>4. FlattenSeq(Unwritten') = FlattenSeq(Waiting)
      BY <1>3, <3>1, Zenon
    <3> QED BY <3>2, <3>3, <3>4
  <2> QED BY <2>1, <2>2
<1>7. NothingLost'
  <2> DEFINE a == OnFile
             b == FlattenSeq(Unwritten')
             c == FlattenSeq(Waiting')
  <2>1. a \in Seq(Nat) /\ b \in Seq(Nat) /\ c \in Seq(Nat) /\ OnFile' = a
    <3>1. Waiting' \in Seq(Seq(Nat))
      BY <1>1, InvTake, InvWake DEF Inv, Shapes, Waiting, Buffer
    <3>2. a \in Seq(Nat)
      BY Parts DEF Buffer
    <3>3. OnFile' = a
      BY <1>1 DEF OnFile
    <3> QED BY <1>3, <3>1, <3>2, <3>3, FlattenType
  <2>2. (a \o FlattenSeq(Unwritten)) \o FlattenSeq(Waiting) = Upto(lines)
    BY NothingLostParts DEF Lossless
  <2>3. a \o (b \o c) = Upto(lines)
    <3>1. a \o FlattenSeq(Unwritten) = a
      <4> HIDE DEF a
      <4> QED BY <1>4, <2>1
    <3> QED BY <1>6, <2>2, <3>1
  <2>4. OnFile' \o FlattenSeq(Unwritten') \o FlattenSeq(Waiting') = (a \o b) \o c
    BY <2>1
  <2> HIDE DEF a, b, c
  <2>5. (a \o b) \o c = a \o (b \o c)
    <3>1. a \in Seq(Nat) /\ b \in Seq(Nat) /\ c \in Seq(Nat)
      BY <2>1
    <3> QED BY <3>1
  <2> QED BY <1>1, <2>3, <2>4, <2>5 DEF NothingLost, Unwritten, Waiting, Upto
<1> QED BY <1>2, <1>3, <1>7 DEF Lossless

\* A write takes the first of the thread's lines to the end of the open file; a
\* file that is opened after it is empty.
LEMMA WriteIsLast ==
  ASSUME FilesRoll, NEW buffer \in Buffer, LogAppend(buffer)
  PROVE  FlattenSeq(FileLines') = FlattenSeq(FileLines) \o buffer
<1> DEFINE w == Written(buffer)
           n == Len(files) - 1
           v == [f \in 1 .. n |-> files[f].lines]
           b == files[Open].lines
           l == [f \in 1 .. Len(w) |-> w[f].lines]
<1>1. /\ w \in Seq(File) /\ Len(w) = Open /\ Open = n + 1 /\ n \in Nat /\ files \in Seq(File)
      /\ \A f \in 1 .. n : w[f] = files[f]
  BY WrittenFiles DEF FilesRoll, Open, Closed
<1>2. \A f \in 1 .. n + 1 : files[f] \in File /\ files[f].lines \in Buffer
  <2>1. \A f \in 1 .. n + 1 : files[f] \in File
    BY <1>1 DEF Open
  <2> QED BY <2>1 DEF File, Buffer
<1>3. w[n + 1].lines = b \o buffer
  <2>1. Open \in DOMAIN files /\ files[Open] \in File
    BY <1>1, <1>2 DEF Open
  <2> QED BY <1>1, <2>1 DEF Written, File
<1> HIDE DEF w
<1>4. v \in Seq(Buffer) /\ Len(v) = n /\ b \in Buffer /\ b \o buffer \in Buffer
  <2>1. v \in Seq(Buffer) /\ Len(v) = n
    BY <1>1, <1>2, IsASeq
  <2>2. b \in Buffer
    BY <1>1, <1>2
  <2>3. b \o buffer \in Buffer
    <3> HIDE DEF b
    <3> QED BY <2>2 DEF Buffer
  <2> QED BY <2>1, <2>2, <2>3
<1>5. FileLines = Append(v, b)
  <2>1. FileLines = [f \in 1 .. n + 1 |-> files[f].lines]
    BY <1>1 DEF FileLines, Open
  <2>2. Append(v, b) = [f \in 1 .. n + 1 |-> IF f = n + 1 THEN b ELSE v[f]]
    BY <1>1, <1>4
  <2> QED BY <1>1, <2>1, <2>2
<1>6. l = Append(v, b \o buffer)
  <2>1. Append(v, b \o buffer) = [f \in 1 .. n + 1 |-> IF f = n + 1 THEN b \o buffer ELSE v[f]]
    BY <1>1, <1>4
  <2>2. l = [f \in 1 .. n + 1 |-> w[f].lines]
    BY <1>1
  <2>3. \A f \in 1 .. n + 1 : f # n + 1 => w[f].lines = v[f]
    BY <1>1
  <2> HIDE DEF l, v, b
  <2> QED BY <1>3, <2>1, <2>2, <2>3 DEF b
<1>7. FlattenSeq(l) = FlattenSeq(FileLines) \o buffer
  <2> HIDE DEF v, b
  <2>1. FlattenSeq(Append(v, b \o buffer)) = FlattenSeq(Append(v, b)) \o buffer
    BY <1>4, FlattenLonger DEF Buffer
  <2> QED BY <1>5, <1>6, <2>1, Zenon
<1>8. files' = w \/ files' = Append(w, NewFile)
  BY DEF LogAppend, RollFile, w
<1>9. CASE files' = w
  <2>1. FileLines' = l
    BY <1>1, <1>9 DEF FileLines
  <2> QED BY <1>7, <2>1, Zenon
<1>10. CASE files' = Append(w, NewFile)
  <2>1. FileLines' = Append(l, <<>>)
    <3>1. Len(w) \in Nat /\ DOMAIN w = 1 .. Len(w) /\ NewFile.lines = <<>>
      BY <1>1 DEF NewFile
    <3>2. Append(w, NewFile) = [f \in 1 .. Len(w) + 1 |-> IF f = Len(w) + 1 THEN NewFile ELSE w[f]]
      <4>1. NewFile \in File
        BY DEF NewFile, File, FilesRoll
      <4> QED BY <1>1, <4>1, Appended
    <3>3. Append(l, <<>>) = [f \in 1 .. Len(w) + 1 |-> IF f = Len(w) + 1 THEN <<>> ELSE l[f]]
      BY <3>1
    <3> QED BY <1>10, <3>1, <3>2, <3>3 DEF FileLines
  <2>2. l \in Seq(Seq(Nat)) /\ <<>> \in Seq(Nat) /\ FlattenSeq(l) \in Seq(Nat)
    <3>1. l \in Seq(Seq(Nat))
      <4>1. Append(v, b \o buffer) \in Seq(Buffer)
        BY <1>4, Appended
      <4> QED BY <1>6, <4>1 DEF Buffer
    <3> HIDE DEF l
    <3> QED BY <3>1, FlattenType
  <2> HIDE DEF l
  <2>3. FlattenSeq(Append(l, <<>>)) = FlattenSeq(l) \o <<>>
    BY <2>2, FlattenAppend
  <2>4. FlattenSeq(l) \o <<>> = FlattenSeq(l)
    BY <2>2
  <2> QED BY <1>7, <2>1, <2>3, <2>4, Zenon
<1> QED BY <1>8, <1>9, <1>10

LEMMA LosslessWrite == Inv /\ FilesRoll /\ Lossless /\ WriteBuffer => Lossless'
<1> SUFFICES ASSUME Inv, FilesRoll, Lossless, WriteBuffer PROVE Lossless'
  OBVIOUS
<1> DEFINE x == toWrite[index + 1]
           a == FlattenSeq(FileLines)
           b == FlattenSeq(Unwritten')
           c == FlattenSeq(Waiting)
<1>1. /\ UNCHANGED <<current, next, buffers, lines, swapCurrent, swapNext, toWrite, pc>>
      /\ index' = index + 1 /\ index < Len(toWrite) /\ index \in Nat
      /\ pc = "write" /\ toWrite \in Seq(Buffer) /\ LogAppend(x)
  BY DEF WriteBuffer, shared, Inv, Shapes
<1>2. x \in Buffer /\ Blank' /\ Cursor' /\ Waiting' = Waiting
  BY <1>1 DEF Lossless, Blank, Cursor, Waiting
<1>3. Unwritten = <<x>> \o Unwritten' /\ Unwritten' \in Seq(Buffer)
  <2>1. index + 1 \in 1 .. Len(toWrite) /\ Len(toWrite) \in index + 1 .. Len(toWrite)
    BY <1>1
  <2>2. SubSeq(toWrite, index + 1, Len(toWrite)) = <<x>> \o SubSeq(toWrite, (index + 1) + 1, Len(toWrite))
    BY <1>1, <2>1, SubSeqRecursiveFirst
  <2>3. SubSeq(toWrite, (index + 1) + 1, Len(toWrite)) \in Seq(Buffer)
    BY <1>1
  <2> QED BY <1>1, <2>2, <2>3 DEF Unwritten
<1>4. FlattenSeq(Unwritten) = x \o b
  <2>1. <<x>> \in Seq(Seq(Nat)) /\ Unwritten' \in Seq(Seq(Nat)) /\ x \in Seq(Nat)
    BY <1>2, <1>3 DEF Buffer
  <2> HIDE DEF x
  <2>2. FlattenSeq(<<x>> \o Unwritten') = FlattenSeq(<<x>>) \o b /\ FlattenSeq(<<x>>) = x
    BY <2>1, FlattenConcat, FlattenOne
  <2> QED BY <1>3, <2>2
<1>5. OnFile' = a \o x
  <2>1. FlattenSeq(FileLines') = a \o x
    BY <1>1, <1>2, WriteIsLast
  <2> QED BY <2>1 DEF OnFile, FileLines
<1>6. /\ a \in Seq(Nat) /\ b \in Seq(Nat) /\ c \in Seq(Nat) /\ x \in Seq(Nat)
      /\ OnFile = a
  BY <1>2, <1>3, Parts, FlattenType DEF Buffer
<1>7. a \o (x \o b) \o c = Upto(lines)
  BY <1>4, <1>6, NothingLostParts DEF Lossless
<1> HIDE DEF a, b, c, x
<1>8. (a \o x) \o b = a \o (x \o b)
  BY <1>6
<1>9. OnFile' \o b \o c = Upto(lines)
  BY <1>5, <1>7, <1>8
<1>10. NothingLost'
  BY <1>1, <1>2, <1>9 DEF NothingLost, Unwritten, Waiting, Upto, b, c
<1> QED BY <1>2, <1>10 DEF Lossless

\* The thread drops only what it has written.
LEMMA LosslessRecover == Inv /\ FilesRoll /\ Lossless /\ Recover => Lossless'
<1> SUFFICES ASSUME Inv, FilesRoll, Lossless, Recover PROVE Lossless'
  OBVIOUS
<1>1. /\ UNCHANGED <<current, next, buffers, lines, files>> /\ toWrite' = <<>> /\ index' = 0
      /\ index = Len(toWrite) /\ toWrite \in Seq(Buffer)
      /\ pc' \in {"test", "aborted"} /\ swapCurrent' \in {New, swapCurrent} /\ swapNext' \in {New, swapNext}
  BY DEF Recover, shared, logFile, Inv, Shapes
<1>2. Blank' /\ Cursor' /\ Unwritten' = <<>> /\ Unwritten = <<>>
  BY <1>1 DEF Lossless, Blank, Cursor, Unwritten
<1>3. NothingLost'
  BY <1>1, <1>2 DEF Lossless, NothingLost, OnFile, Unwritten
<1> QED BY <1>2, <1>3 DEF Lossless

LEMMA LosslessNext == Inv /\ FilesRoll /\ Lossless /\ [Next]_vars => Lossless'
<1> SUFFICES ASSUME Inv, FilesRoll, Lossless, [Next]_vars PROVE Lossless'
  OBVIOUS
<1>1. CASE AppendLine
  BY <1>1, LosslessAppendLine
<1>2. CASE Take \/ Wake
  BY <1>2, LosslessTake
<1>3. CASE WriteBuffer
  BY <1>3, LosslessWrite
<1>4. CASE Recover
  BY <1>4, LosslessRecover
<1>5. CASE Stop \/ Test \/ Wait \/ Clock \/ UNCHANGED vars
  <2>1. UNCHANGED <<current, next, buffers, lines, swapCurrent, swapNext, toWrite, index, files>>
    BY <1>5 DEF Stop, Test, Wait, Clock, Tick, shared, local, logFile, vars
  <2>2. pc' # "write" => pc # "write"
    BY <1>5 DEF Stop, Test, Wait, Clock, vars
  <2> QED BY <2>1, <2>2 DEF Lossless, Blank, Cursor, NothingLost, OnFile
<1> QED BY <1>1, <1>2, <1>3, <1>4, <1>5 DEF Next, Thread

LEMMA LosslessInit == Init => Lossless
<1> SUFFICES ASSUME Init PROVE Lossless
  OBVIOUS
<1>1. /\ current = <<>> /\ buffers = <<>> /\ toWrite = <<>> /\ index = 0 /\ lines = 0
      /\ next = New /\ swapCurrent = New /\ swapNext = New
      /\ Len(files) = 1 /\ files[1].lines = <<>> /\ files = <<files[1]>>
  BY DEF Init, LogFileInit, New, NewFile
<1>2. Blank /\ Cursor /\ Unwritten = <<>> /\ Waiting = <<(<<>>)>> /\ FileLines = <<(<<>>)>>
  BY <1>1 DEF Blank, Cursor, Unwritten, Waiting, FileLines
<1>3. FlattenSeq(<<(<<>>)>>) = <<>>
  <2>1. <<>> \in Seq(Nat)
    OBVIOUS
  <2> QED BY <2>1, FlattenOne
<1>4. OnFile = <<>> /\ FlattenSeq(Unwritten) = <<>> /\ FlattenSeq(Waiting) = <<>>
  BY <1>2, <1>3, FlattenEmpty, Zenon DEF OnFile, FileLines
<1>5. Upto(lines) = <<>>
  BY <1>1 DEF Upto
<1> QED BY <1>2, <1>4, <1>5, NothingLostParts DEF Lossless

\* AsyncLogging.cc 22-97: for any sizes, any number of lines and every
\* interleaving of the callers, the thread and the clock, each line is in the
\* files or still to be written, once, and in the order of append.
THEOREM NothingEverLost == Spec => []NothingLost
<1>1. Lossless => NothingLost
  BY DEF Lossless
<1> QED BY InvInit, InvNext, FilesInit, FilesNext, LosslessInit, LosslessNext, <1>1, PTL DEF Spec

-----------------------------------------------------------------------------
(* Types.  What is on disk is a part of what was appended because nothing is *)
(* written twice.                                                            *)

Typed == /\ now \in 1 .. MaxSecond /\ lastRoll \in 1 .. MaxSecond
         /\ lines \in 0 .. MaxLines /\ flushed \in 0 .. lines /\ running \in BOOLEAN
         /\ current \in Seq(Line) /\ buffers \in Seq(Seq(Line)) /\ toWrite \in Seq(Seq(Line))

LEMMA TypedInit == Init => Typed
BY AsyncLoggingAssumption, LogFileAssumption DEF Init, LogFileInit, New, Typed

LEMMA OnFileAppended ==
  ASSUME Inv, FilesRoll, Lossless
  PROVE  Len(OnFile) \in 0 .. lines
<1> DEFINE a == OnFile
           b == FlattenSeq(Unwritten)
           c == FlattenSeq(Waiting)
<1>1. a \in Seq(Nat) /\ b \in Seq(Nat) /\ c \in Seq(Nat) /\ lines \in Nat
  BY Parts DEF Buffer, Inv, Shapes
<1>2. (a \o b) \o c = Upto(lines)
  BY NothingLostParts DEF Lossless
<1> HIDE DEF a, b, c
<1>3. Len((a \o b) \o c) = Len(a) + Len(b) + Len(c) /\ Len(a) \in Nat /\ Len(b) \in Nat /\ Len(c) \in Nat
  BY <1>1
<1>4. Len(Upto(lines)) = lines
  BY <1>1, OneMore
<1> QED BY <1>1, <1>2, <1>3, <1>4 DEF a

LEMMA TypedNext == Inv /\ FilesRoll /\ Lossless /\ Typed /\ [Next]_vars => Typed'
<1> SUFFICES ASSUME Inv, FilesRoll, Lossless, Typed, [Next]_vars PROVE Typed'
  OBVIOUS
<1> USE AsyncLoggingAssumption, LogFileAssumption
<1> DEFINE Lines == Seq(Line)
<1>1. Len(OnFile) \in 0 .. lines
  BY OnFileAppended
<1>2. <<>> \in Lines /\ (\A p \in {next, swapCurrent, swapNext} : p # Null => p = <<>>)
  BY DEF Lossless, Blank, New
<1>3. CASE AppendLine
  <2>1. /\ lines' \in 0 .. MaxLines /\ lines' \in Line /\ lines' = lines + 1
        /\ UNCHANGED <<now, lastRoll, flushed, running, toWrite>>
    BY <1>3 DEF AppendLine, Typed, Line, local, logFile
  <2>2. current' \in Lines /\ buffers' \in Seq(Lines)
    <3>1. CASE Len(current) < BufSize
      <4>1. current' = Append(current, lines') /\ buffers' = buffers /\ current \in Seq(Line)
        BY <1>3, <3>1 DEF AppendLine, Typed
      <4>2. current' \in Seq(Line)
        BY <2>1, <4>1, Appended
      <4> QED BY <4>1, <4>2 DEF Typed
    <3>2. CASE ~(Len(current) < BufSize)
      <4>1. buffers' = Append(buffers, current) /\ current' = Append(<<>>, lines')
        BY <1>2, <1>3, <3>2 DEF AppendLine, New
      <4>2. buffers \in Seq(Lines) /\ current \in Lines
        BY DEF Typed
      <4> QED BY <2>1, <4>1, <4>2, Appended
    <3> QED BY <3>1, <3>2
  <2>3. flushed' \in 0 .. lines'
    BY <2>1 DEF Typed
  <2> QED BY <2>1, <2>2, <2>3 DEF Typed
<1>4. CASE Take \/ Wake
  <2>1. UNCHANGED <<now, lastRoll, flushed, running, lines>> /\ buffers' = <<>>
    BY <1>4 DEF Take, Wake, logFile, Inv, ThreadReady
  <2>2. current \in Lines /\ buffers \in Seq(Lines)
    BY DEF Typed
  <2>3. Append(buffers, current) \in Seq(Lines)
    BY <2>2, Appended
  <2>4. current' \in Lines
    BY <1>2, <1>4, <2>2 DEF Take, Wake, Inv, ThreadReady
  <2>5. toWrite' \in Seq(Lines)
    BY <1>4, <2>2, <2>3 DEF Take, Wake
  <2> QED BY <2>1, <2>4, <2>5 DEF Typed
<1>5. CASE WriteBuffer
  <2>1. UNCHANGED <<now, flushed, running, lines, current, buffers, toWrite>>
    BY <1>5 DEF WriteBuffer, LogAppend, shared
  <2>2. lastRoll' \in {lastRoll, now}
    BY <1>5 DEF WriteBuffer, LogAppend, RollFile
  <2> QED BY <2>1, <2>2 DEF Typed
<1>6. CASE Recover
  <2>1. UNCHANGED <<now, lastRoll, running, lines, current, buffers>> /\ toWrite' = <<>>
    BY <1>6 DEF Recover, shared, logFile
  <2>2. flushed' \in {flushed, Len(OnFile)}
    BY <1>6 DEF Recover
  <2> QED BY <1>1, <2>1, <2>2 DEF Typed
<1>7. CASE Test
  <2>1. UNCHANGED <<now, lastRoll, running, lines, current, buffers, toWrite>> /\ flushed' \in {flushed, Len(OnFile)}
    BY <1>7 DEF Test, shared, local, logFile
  <2> QED BY <1>1, <2>1 DEF Typed
<1>8. CASE Stop
  BY <1>8 DEF Stop, local, logFile, Typed
<1>9. CASE Wait \/ UNCHANGED vars
  BY <1>9 DEF Wait, shared, local, logFile, vars, Typed
<1>10. CASE Clock
  <2>1. UNCHANGED <<lastRoll, running, lines, flushed, current, buffers, toWrite>> /\ now' = now + 1 /\ now < MaxSecond
    BY <1>10 DEF Clock, Tick, shared, local, logFile
  <2> QED BY <2>1 DEF Typed
<1> QED BY <1>3, <1>4, <1>5, <1>6, <1>7, <1>8, <1>9, <1>10 DEF Next, Thread

\* AsyncLogging.cc, LogFile.cc: the types of the state, the cursor in the
\* buffers that are written, and that no more is on disk than was appended.
THEOREM AsyncLoggingTyped == Spec => []TypeOK
<1>1. Inv /\ FilesRoll /\ Lossless /\ Typed => TypeOK
  <2> SUFFICES ASSUME Inv, FilesRoll, Lossless, Typed PROVE TypeOK
    OBVIOUS
  <2>1. LogFileTypeOK
    BY DEF FilesRoll, Typed, LogFileTypeOK
  <2>2. ASSUME NEW p \in {current, next, swapCurrent, swapNext} PROVE p = Null \/ p \in Seq(Line)
    <3>1. <<>> \in Seq(Line) /\ current \in Seq(Line)
      BY DEF Typed
    <3>2. p = current \/ p \in {<<>>, Null}
      BY DEF Lossless, Blank, New
    <3> QED BY <3>1, <3>2
  <2>3. index \in 0 .. Len(toWrite) /\ pc \in {"test", "lock", "wait", "write", "done", "aborted"}
    BY DEF Lossless, Cursor, Inv, Shapes
  <2> QED BY <2>1, <2>2, <2>3 DEF Typed, TypeOK
<1> QED BY InvInit, InvNext, FilesInit, FilesNext, LosslessInit, LosslessNext, TypedInit, TypedNext, <1>1, PTL DEF Spec
=============================================================================
