----------------------------- MODULE AsyncLogging -----------------------------
(***************************************************************************)
(* AsyncLogging: any thread appends its lines to currentBuffer_ under the  *)
(* mutex, and one thread of its own takes the buffers and writes them to   *)
(* the LogFile.  Four buffers go round.  Two are the callers', current and *)
(* next; two are the thread's, to put in their place when it takes them,   *)
(* and it gets them back from those it has written.                        *)
(*                                                                         *)
(* A buffer is the sequence of its lines, and a pointer is the buffer that *)
(* only it owns, or Null when it has been moved from.                      *)
(***************************************************************************)
EXTENDS LogFile, SequencesExt

CONSTANTS MaxLines,  \* bound: lines that are appended
          BufSize,   \* lines that fit into a buffer
          Null       \* a pointer that has been moved from

ASSUME AsyncLoggingAssumption == /\ MaxLines \in Nat
                                 /\ BufSize \in Nat \ {0}
                                 /\ Null \notin Seq(Nat)

VARIABLES current,      \* currentBuffer_
          next,         \* nextBuffer_
          buffers,      \* buffers_
          lines,        \* how many lines have been appended
          running,      \* running_
          swapCurrent,  \* swap_currentBuffer
          swapNext,     \* swap_nextBuffer
          toWrite,      \* buffersToWrite
          index,        \* how many of them have been written
          flushed,      \* how many lines output.flush() has put on disk
          pc            \* where the thread is

shared == <<current, next, buffers, lines, running>>
local == <<swapCurrent, swapNext, toWrite, index>>
vars == <<shared, local, flushed, pc, now, logFile>>

New == <<>>
Line == 1 .. MaxLines

TypeOK == /\ LogFileTypeOK
          /\ \A pointer \in {current, next, swapCurrent, swapNext} :
                pointer = Null \/ pointer \in Seq(Line)
          /\ buffers \in Seq(Seq(Line)) /\ toWrite \in Seq(Seq(Line))
          /\ lines \in 0 .. MaxLines /\ flushed \in 0 .. lines
          /\ index \in 0 .. Len(toWrite)
          /\ running \in BOOLEAN
          /\ pc \in {"test", "lock", "wait", "write", "done", "aborted"}

Init == /\ LogFileInit
        /\ current = New /\ next = New /\ buffers = <<>>
        /\ swapCurrent = New /\ swapNext = New /\ toWrite = <<>> /\ index = 0
        /\ lines = 0 /\ flushed = 0
        /\ running = TRUE
        /\ pc = "test"

\* The lines in all the files, in their order.
OnFile == FlattenSeq([f \in DOMAIN files |-> files[f].lines])

-----------------------------------------------------------------------------
(* Plausible bugs, each of which breaks a property at the end.  Next uses    *)
(* none of them.                                                             *)

\* It waits for a full buffer, not for a while.
WakeIfFull == /\ pc = "wait" /\ buffers # <<>>
              /\ toWrite' = Append(buffers, current)
              /\ buffers' = toWrite
              /\ current' = swapCurrent
              /\ swapCurrent' = Null
              /\ IF next = Null
                   THEN next' = swapNext /\ swapNext' = Null
                   ELSE UNCHANGED <<next, swapNext>>
              /\ pc' = "write"
              /\ UNCHANGED <<lines, running, index, flushed, now, logFile>>

\* It gives the callers its second buffer though they still have one.
WakeGivesBoth == /\ pc = "wait"
                 /\ toWrite' = Append(buffers, current)
                 /\ buffers' = toWrite
                 /\ current' = swapCurrent
                 /\ swapCurrent' = Null
                 /\ next' = swapNext /\ swapNext' = Null
                 /\ pc' = "write"
                 /\ UNCHANGED <<lines, running, index, flushed, now, logFile>>

\* buffersToWrite is not cleared.
RecoverKeeps == /\ pc = "write" /\ index = Len(toWrite)
                /\ swapCurrent' = New /\ swapNext' = New
                /\ flushed' = Len(OnFile)
                /\ pc' = "test"
                /\ index' = 0
                /\ UNCHANGED <<shared, toWrite, now, logFile>>

\* The buffer that has been written is not reset.
RecoverNoReset == /\ pc = "write" /\ index = Len(toWrite)
                  /\ swapCurrent' = IF swapCurrent = Null THEN toWrite[1] ELSE swapCurrent
                  /\ swapNext' = New
                  /\ flushed' = Len(OnFile)
                  /\ pc' = "test"
                  /\ toWrite' = <<>>
                  /\ index' = 0
                  /\ UNCHANGED <<shared, now, logFile>>

-----------------------------------------------------------------------------
(* The callers.                                                            *)

\* append, under the mutex.  It notifies when it has pushed a buffer.
AppendLine == /\ lines < MaxLines
              /\ lines' = lines + 1
              /\ IF Len(current) < BufSize
                   THEN /\ current' = Append(current, lines')
                        /\ UNCHANGED <<next, buffers>>
                   ELSE /\ buffers' = Append(buffers, current)
                        /\ current' = Append(IF next # Null THEN next ELSE New, lines')
                        /\ next' = Null
              /\ UNCHANGED <<running, local, flushed, pc, now, logFile>>

\* stop, from the destructor or before a FATAL line aborts, without the mutex.
Stop == /\ running
        /\ running' = FALSE
        /\ UNCHANGED <<current, next, buffers, lines, local, flushed, pc, now, logFile>>

-----------------------------------------------------------------------------
(* The logging thread.                                                     *)

Test == /\ pc = "test"
        /\ pc' = IF running THEN "lock" ELSE "done"
        /\ flushed' = IF running THEN flushed ELSE Len(OnFile)
        /\ UNCHANGED <<shared, local, now, logFile>>

\* With full buffers it takes these, and lets the callers keep current.
Take == /\ pc = "lock" /\ buffers # <<>>
        /\ toWrite' = buffers
        /\ buffers' = toWrite
        /\ next' = swapNext
        /\ swapNext' = Null
        /\ pc' = "write"
        /\ UNCHANGED <<current, lines, running, swapCurrent, index, flushed, now, logFile>>

Wait == /\ pc = "lock" /\ buffers = <<>>
        /\ pc' = "wait"
        /\ UNCHANGED <<shared, local, flushed, now, logFile>>

\* wait_for returns: notified, after flushInterval_ seconds, or for no reason.
Wake == /\ pc = "wait"
        /\ toWrite' = Append(buffers, current)
        /\ buffers' = toWrite
        /\ current' = swapCurrent
        /\ swapCurrent' = Null
        /\ IF next = Null
             THEN next' = swapNext /\ swapNext' = Null
             ELSE UNCHANGED <<next, swapNext>>
        /\ pc' = "write"
        /\ UNCHANGED <<lines, running, index, flushed, now, logFile>>

WriteBuffer == /\ pc = "write" /\ index < Len(toWrite)
               /\ LogAppend(toWrite[index + 1])
               /\ index' = index + 1
               /\ UNCHANGED <<shared, swapCurrent, swapNext, toWrite, flushed, pc>>

\* All are written: the two that are missing come from the first two of them,
\* the last one first, and an assertion fails if there are too few.
Recover == LET kept == SubSeq(toWrite, 1, IF Len(toWrite) > 2 THEN 2 ELSE Len(toWrite))
               missing == (IF swapCurrent = Null THEN 1 ELSE 0) + (IF swapNext = Null THEN 1 ELSE 0)
           IN /\ pc = "write" /\ index = Len(toWrite)
              /\ IF Len(kept) >= missing
                   THEN /\ swapCurrent' = New /\ swapNext' = New
                        /\ flushed' = Len(OnFile)
                        /\ pc' = "test"
                   ELSE pc' = "aborted" /\ UNCHANGED <<swapCurrent, swapNext, flushed>>
              /\ toWrite' = <<>>
              /\ index' = 0
              /\ UNCHANGED <<shared, now, logFile>>

-----------------------------------------------------------------------------
Thread == Test \/ Take \/ Wait \/ Wake \/ WriteBuffer \/ Recover

Clock == Tick /\ UNCHANGED <<shared, local, flushed, pc>>

Next == AppendLine \/ Stop \/ Thread \/ Clock

Spec == Init /\ [][Next]_vars /\ WF_vars(Thread)

-----------------------------------------------------------------------------
\* AsyncLogging.cc 19-61, 80-97: no pointer that append or the thread follows
\* has been moved from, and neither assertion on buffersToWrite fails: there is
\* a full buffer whenever the callers have taken their second one, so that the
\* thread always gets back as many buffers as it gives.
BuffersGoRound == /\ current # Null
                  /\ pc # "aborted"
                  /\ next = Null <=> buffers # <<>>

\* AsyncLogging.cc 22-42, 83-94: each line that was appended is in the files,
\* in the thread's hands, or waiting, once, and all are in the order of append,
\* over buffers and files alike.
NothingLost ==
    OnFile \o FlattenSeq(SubSeq(toWrite, index + 1, Len(toWrite))) \o FlattenSeq(Append(buffers, current))
        = [l \in 1 .. lines |-> l]

\* LogFile.cc 72-97: over all its rolls, too long or too old, a file takes no
\* more than checkEveryN_ writes after the period it was opened in.
PeriodsApart == \A f \in DOMAIN files : files[f].late <= CheckEveryN

\* AsyncLogging.cc 25, 60, AsyncLogging.h 56-60: each line is on disk in the end,
\* full buffer or not, unless the logging is stopped.
EveryLineWritten == \A l \in Line : (lines >= l) ~> (flushed >= l \/ ~running)

\* AsyncLogging.h 56-60: stop does not take the mutex and its notification can
\* come before the wait it is for; the join still returns.
StopReturns == ~running ~> pc = "done"

=============================================================================
