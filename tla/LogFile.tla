------------------------------- MODULE LogFile -------------------------------
(***************************************************************************)
(* LogFile and AppendFile: what the logging thread writes to.  A file that *)
(* has grown beyond rollSize_ is closed and a new one opened, and so is    *)
(* one that is older than the period, which is looked at only once in      *)
(* checkEveryN_ writes.  Files are named by the second they are opened in, *)
(* so none is opened twice in a second.                                    *)
(*                                                                         *)
(* The size of a line is one; a line is its place in the order of append.  *)
(***************************************************************************)
EXTENDS Integers, Sequences

CONSTANTS RollSize,     \* rollSize_, in lines
          CheckEveryN,  \* checkEveryN_
          Period,       \* period_, in seconds
          MaxSecond     \* bound: the last second of the clock

ASSUME LogFileAssumption == /\ RollSize \in Nat
                            /\ CheckEveryN \in Nat \ {0}
                            /\ Period \in Nat \ {0}
                            /\ MaxSecond \in Nat \ {0}

VARIABLES now,          \* the clock
          files,        \* the files, the open one last
          lastRoll,     \* lastRoll_
          count,        \* count_
          periodStart   \* periodStartingPoint_

logFile == <<files, lastRoll, count, periodStart>>

\* The second a period begins with.
PeriodOf(second) == (second \div Period) * Period
ThisPeriod == PeriodOf(now)

\* `late`: how many writes it has taken in a later period than it was opened in.
File == [opened : Nat, lines : Seq(Nat), late : Nat]
NewFile == [opened |-> now, lines |-> <<>>, late |-> 0]

LogFileTypeOK == /\ now \in 1 .. MaxSecond
                 /\ files \in Seq(File)
                 /\ lastRoll \in 1 .. MaxSecond
                 /\ count \in 0 .. CheckEveryN - 1
                 /\ periodStart \in Nat

LogFileInit == /\ now = 1
               /\ files = <<NewFile>>
               /\ lastRoll = now
               /\ count = 0
               /\ periodStart = ThisPeriod

Tick == now < MaxSecond /\ now' = now + 1 /\ UNCHANGED logFile

Open == Len(files)

\* AppendFile::append writes all of it.
Written(buffer) ==
    LET late == PeriodOf(files[Open].opened) # ThisPeriod
    IN [files EXCEPT ![Open] = [files[Open] EXCEPT !.lines = @ \o buffer,
                                                   !.late = @ + (IF late THEN 1 ELSE 0)]]

RollFile(written) ==
    IF now > lastRoll
      THEN lastRoll' = now /\ files' = Append(written, NewFile)
      ELSE files' = written /\ UNCHANGED lastRoll

\* A plausible bug: one write more before the period is looked at.
LogAppendLooksLate(buffer) ==
    LET written == Written(buffer)
        tooLong == Len(written[Open].lines) > RollSize
        look    == count >= CheckEveryN
    IN /\ IF tooLong THEN UNCHANGED <<count, periodStart>>
          ELSE /\ count' = IF look THEN 0 ELSE count + 1
               /\ periodStart' = IF look THEN ThisPeriod ELSE periodStart
       /\ IF tooLong \/ (look /\ ThisPeriod # periodStart)
            THEN RollFile(written)
            ELSE files' = written /\ UNCHANGED lastRoll
       /\ UNCHANGED now

\* LogFile::append.
LogAppend(buffer) ==
    LET written == Written(buffer)
        tooLong == Len(written[Open].lines) > RollSize
        look    == count + 1 >= CheckEveryN
    IN /\ IF tooLong THEN UNCHANGED <<count, periodStart>>
          ELSE /\ count' = IF look THEN 0 ELSE count + 1
               /\ periodStart' = IF look THEN ThisPeriod ELSE periodStart
       /\ IF tooLong \/ (look /\ ThisPeriod # periodStart)
            THEN RollFile(written)
            ELSE files' = written /\ UNCHANGED lastRoll
       /\ UNCHANGED now

=============================================================================
