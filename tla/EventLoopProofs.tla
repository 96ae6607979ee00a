--------------------------- MODULE EventLoopProofs ---------------------------
(***************************************************************************)
(* Theorems about EventLoop for every set of callers and functors: its     *)
(* types, the wakeup that is never lost, and that it implements the FIFO   *)
(* queue of FunctorQueue.                                                  *)
(***************************************************************************)
EXTENDS EventLoop, SequenceTheorems, TLAPS

-----------------------------------------------------------------------------
(* Sequences: the batch in hand, followed by the queue of the next turn.   *)

\* The oldest element of a batch followed by a queue is the batch's oldest.
LEMMA HeadTailConcat ==
  ASSUME NEW S, NEW s \in Seq(S), NEW t \in Seq(S), s # <<>>
  PROVE  /\ s \o t # <<>>
         /\ Head(s \o t) = Head(s)
         /\ Tail(s \o t) = Tail(s) \o t
  <1>1. /\ Len(s) \in Nat \ {0} /\ Len(t) \in Nat
        /\ s \o t \in Seq(S) /\ Len(s \o t) = Len(s) + Len(t)
        /\ Len(s \o t) # 0
    BY EmptySeq, LenProperties, ConcatProperties
  <1>2. s \o t # <<>>
    BY <1>1, EmptySeq
  <1>3. Head(s \o t) = Head(s)
    BY <1>1, <1>2, HeadTailProperties, ConcatProperties
  <1>4. /\ Tail(s) \in Seq(S) /\ Len(Tail(s)) = Len(s) - 1
        /\ Tail(s \o t) \in Seq(S) /\ Len(Tail(s \o t)) = Len(s) + Len(t) - 1
        /\ Tail(s) \o t \in Seq(S) /\ Len(Tail(s) \o t) = Len(s) - 1 + Len(t)
    BY <1>1, <1>2, HeadTailProperties, ConcatProperties
  <1>5. ASSUME NEW i \in 1 .. Len(s) + Len(t) - 1
        PROVE  Tail(s \o t)[i] = (Tail(s) \o t)[i]
    <2>1. Tail(s \o t)[i] = (s \o t)[i + 1]
      BY <1>1, <1>2, <1>4, HeadTailProperties
    <2>2. CASE i <= Len(s) - 1
      BY <1>1, <1>4, <2>1, <2>2, HeadTailProperties, ConcatProperties
    <2>3. CASE i > Len(s) - 1
      BY <1>1, <1>4, <2>1, <2>3, HeadTailProperties, ConcatProperties
    <2> QED
      BY <1>1, <2>2, <2>3
  <1>6. Tail(s \o t) = Tail(s) \o t
    BY <1>1, <1>4, <1>5, SeqEqual
  <1> QED
    BY <1>2, <1>3, <1>6

\* A push onto the queue is a push behind the batch.
LEMMA AppendConcat ==
  ASSUME NEW S, NEW s \in Seq(S), NEW t \in Seq(S), NEW x \in S
  PROVE  s \o Append(t, x) = Append(s \o t, x)
  <1>1. <<x>> \in Seq(S)
    BY SMT
  <1>2. Append(t, x) = t \o <<x>> /\ Append(s \o t, x) = (s \o t) \o <<x>>
    BY ConcatProperties, AppendIsConcat
  <1> QED
    BY <1>1, <1>2, ConcatAssociative

\* What a sequence holds after a push.
LEMMA RangeAppend ==
  ASSUME NEW S, NEW s \in Seq(S), NEW x \in S
  PROVE  Range(Append(s, x)) = Range(s) \cup {x}
  <1>1. /\ Append(s, x) = s \o <<x>> /\ <<x>> \in Seq(S)
    BY AppendIsConcat, SMT
  <1>2. Range(<<x>>) = {x}
    BY DEF Range
  <1>3. Range(s \o <<x>>) = Range(s) \cup Range(<<x>>)
    BY <1>1, RangeConcatenation, SMTT(30)
  <1> QED
    BY <1>1, <1>2, <1>3

-----------------------------------------------------------------------------
\* Every variable keeps its type, EventLoop.h.
THEOREM TypeCorrect == Spec => []TypeOK
  <1>1. Init => TypeOK
    <2> SUFFICES ASSUME Init
                 PROVE  TypeOK
      OBVIOUS
    <2> USE DEF Init
    <2>1. /\ pendingFunctors \in Seq(Functors)
          /\ tmp_list \in Seq(Functors)
          /\ executed \in Seq(Functors)
      BY EmptySeq
    <2>2. wakefd \in BOOLEAN /\ wakeEdge \in BOOLEAN /\ quit \in BOOLEAN
      OBVIOUS
    <2>3. caller \in [Callers -> 0..2]
      OBVIOUS
    <2> QED
      BY <2>1, <2>2, <2>3 DEF TypeOK
  <1>2. TypeOK /\ [Next]_vars => TypeOK'
    <2> SUFFICES ASSUME TypeOK, [Next]_vars
                 PROVE  TypeOK'
      OBVIOUS
    <2> USE DEF TypeOK, Channels
    <2>1. CASE LoopStep
      <3>1. CASE Test BY <3>1 DEF Test
      <3>2. CASE PollWake BY <3>2 DEF PollWake
      <3>3. CASE HandleWake BY <3>3 DEF HandleWake
      <3>4. CASE HandleIo BY <3>4 DEF HandleIo
      <3>5. CASE Swap BY <3>5 DEF Swap
      <3>6. CASE RunFunctor
        <4>1. Head(tmp_list) \in Functors /\ Tail(tmp_list) \in Seq(Functors)
          BY <3>6, HeadTailProperties DEF RunFunctor
        <4> QED
          BY <3>6, <4>1, AppendProperties DEF RunFunctor
      <3>7. CASE EndBatch BY <3>7 DEF EndBatch
      <3>8. CASE Return BY <3>8 DEF Return
      <3> QED
        BY <2>1, <3>1, <3>2, <3>3, <3>4, <3>5, <3>6, <3>7, <3>8 DEF LoopStep
    <2>2. CASE PollIo
      BY <2>2 DEF PollIo
    <2>3. ASSUME NEW f \in Functors, LocalQueue(f)
          PROVE  TypeOK'
      BY <2>3 DEF LocalQueue, Wake
    <2>4. ASSUME NEW f \in Functors, LocalCall(f)
          PROVE  TypeOK'
      BY <2>4 DEF LocalCall
    <2>5. ASSUME NEW f \in Functors, LocalQuit(f)
          PROVE  TypeOK'
      BY <2>5 DEF LocalQuit, Wake
    <2>6. ASSUME NEW t \in Callers, NEW f \in Functors, CallerPush(t, f)
          PROVE  TypeOK'
      BY <2>6 DEF CallerPush
    <2>7. ASSUME NEW t \in Callers, CallerWake(t)
          PROVE  TypeOK'
      BY <2>7 DEF CallerWake, Wake
    <2>8. CASE UNCHANGED vars
      BY <2>8 DEF vars
    <2> QED
      BY <2>1, <2>2, <2>3, <2>4, <2>5, <2>6, <2>7, <2>8 DEF Next, UserStep, CallerStep
  <1> QED
    BY <1>1, <1>2, PTL DEF Spec

-----------------------------------------------------------------------------
\* A queued functor and a loop about to block: an edge is pending or a thread
\* still owes its write.  EventLoop.cc 67-104.
THEOREM WakeupNotLost == Spec => []NoLostWakeup
  <1>1. Init => NoLostWakeup
    BY DEF Init, NoLostWakeup
  <1>2. TypeOK /\ NoLostWakeup /\ [Next]_vars => NoLostWakeup'
    <2> SUFFICES ASSUME TypeOK, NoLostWakeup, [Next]_vars
                 PROVE  NoLostWakeup'
      OBVIOUS
    <2> USE DEF NoLostWakeup, TypeOK
    <2>1. CASE LoopStep
      BY <2>1 DEF LoopStep, Test, PollWake, HandleWake, HandleIo, Swap, RunFunctor, EndBatch,
                  Return, InUserCode
    <2>2. CASE PollIo
      BY <2>2 DEF PollIo
    <2>3. ASSUME NEW f \in Functors, LocalQueue(f) \/ LocalCall(f) \/ LocalQuit(f)
          PROVE  NoLostWakeup'
      BY <2>3 DEF LocalQueue, LocalCall, LocalQuit, Wake
    <2>4. ASSUME NEW t \in Callers, NEW f \in Functors, CallerPush(t, f)
          PROVE  NoLostWakeup'
      <3>1. caller'[t] > 0
        BY <2>4 DEF CallerPush
      <3> QED
        BY <3>1
    <2>5. ASSUME NEW t \in Callers, CallerWake(t)
          PROVE  NoLostWakeup'
      BY <2>5 DEF CallerWake, Wake
    <2>6. CASE UNCHANGED vars
      BY <2>6 DEF vars
    <2> QED
      BY <2>1, <2>2, <2>3, <2>4, <2>5, <2>6 DEF Next, UserStep, CallerStep
  <1> QED
    BY <1>1, <1>2, TypeCorrect, PTL DEF Spec

\* The read of the eventfd after a poll never finds zero.  EventLoop.cc 49-54.
THEOREM WakeReadSucceeds == Spec => []WakeReadFindsCount
  <1>1. Init => WakeReadFindsCount
    BY DEF Init, WakeReadFindsCount
  <1>2. WakeReadFindsCount /\ [Next]_vars => WakeReadFindsCount'
    BY DEF WakeReadFindsCount, Next, LoopStep, Test, PollWake, HandleWake, HandleIo, Swap,
           RunFunctor, EndBatch, Return, PollIo, UserStep, LocalQueue, LocalCall, LocalQuit,
           CallerStep, CallerPush, CallerWake, Wake, vars
  <1> QED
    BY <1>1, <1>2, PTL DEF Spec

-----------------------------------------------------------------------------
(* The refinement.  The batch is empty except while it runs, so that the   *)
(* swap leaves batch followed by queue as it was; and quit_ is only set by *)
(* the functor of a quit() that has run.                                   *)

BatchInHand == pc \notin {"run", "functor"} => tmp_list = <<>>

QuitHasRun == quit => QuitFunctors \cap Range(executed) # {}

RefinementInv == TypeOK /\ BatchInHand /\ QuitHasRun

\* The invariant the refinement rests on.
LEMMA RefinementInvariant == Spec => []RefinementInv
  <1>1. Init => BatchInHand /\ QuitHasRun
    BY DEF Init, BatchInHand, QuitHasRun
  <1>2. BatchInHand /\ [Next]_vars => BatchInHand'
    BY DEF BatchInHand, Next, LoopStep, Test, PollWake, HandleWake, HandleIo, Swap,
           RunFunctor, EndBatch, Return, InUserCode, PollIo, UserStep, LocalQueue, LocalCall,
           LocalQuit, CallerStep, CallerPush, CallerWake, Wake, vars
  <1>3. TypeOK /\ QuitHasRun /\ [Next]_vars => QuitHasRun'
    <2> SUFFICES ASSUME TypeOK, QuitHasRun, [Next]_vars
                 PROVE  QuitHasRun'
      OBVIOUS
    <2>1. CASE UNCHANGED <<quit, executed>>
      BY <2>1 DEF QuitHasRun
    <2>2. CASE RunFunctor
      <3>1. Head(tmp_list) \in Functors
        BY <2>2, HeadTailProperties DEF RunFunctor, TypeOK
      <3>2. Range(executed') = Range(executed) \cup {Head(tmp_list)}
        BY <2>2, <3>1, RangeAppend DEF RunFunctor, TypeOK
      <3> QED
        BY <2>2, <3>2 DEF RunFunctor, QuitHasRun
    <2>3. ASSUME NEW f \in Functors, LocalCall(f) \/ LocalQuit(f)
          PROVE  QuitHasRun'
      <3>1. Range(executed') = Range(executed) \cup {f}
        <4>1. executed \in Seq(Functors) /\ executed' = Append(executed, f)
          BY <2>3 DEF LocalCall, LocalQuit, TypeOK
        <4> QED
          BY <4>1, RangeAppend
      <3> QED
        BY <2>3, <3>1 DEF LocalCall, LocalQuit, QuitHasRun
    <2> QED
      BY <2>1, <2>2, <2>3
      DEF Next, LoopStep, Test, PollWake, HandleWake, HandleIo, Swap, EndBatch, Return,
          PollIo, UserStep, LocalQueue, CallerStep, CallerPush, CallerWake, vars
  <1> QED
    BY <1>1, <1>2, <1>3, TypeCorrect, PTL DEF Spec, RefinementInv

\* A functor that is new to the loop is new to the abstract queue.
LEMMA FreshIsFresh ==
  ASSUME TypeOK
  PROVE  Fresh = FQ!Fresh
  <1>1. Range(tmp_list \o pendingFunctors) = Range(tmp_list) \cup Range(pendingFunctors)
    BY RangeConcatenation DEF TypeOK
  <1>2. \A g : FQ!Range(g) = Range(g)
    BY DEF Range, FQ!Range
  <1> QED
    BY <1>1, <1>2 DEF Fresh, FQ!Fresh

\* Each step of the loop, of user code or of another thread is a step of the
\* FIFO queue or leaves it unchanged.  EventLoop.cc 21-31, 61-104.
THEOREM LoopImplementsFunctorQueue == Spec => ImplementsFunctorQueue
  <1>1. Init => FQ!Init
    BY DEF Init, FQ!Init
  <1>2. RefinementInv /\ [Next]_vars => [FQ!Next]_FQ!vars
    <2> SUFFICES ASSUME RefinementInv, [Next]_vars
                 PROVE  [FQ!Next]_FQ!vars
      OBVIOUS
    <2> USE DEF RefinementInv, TypeOK
    <2>1. CASE Test
      <3>1. CASE quit
        <4>1. FQ!Range(executed) = Range(executed)
          BY DEF Range, FQ!Range
        <4>2. FQ!Stop
          BY <2>1, <3>1, <4>1 DEF Test, FQ!Stop, QuitHasRun
        <4> QED
          BY <4>2 DEF FQ!Next
      <3>2. CASE ~quit
        BY <2>1, <3>2 DEF Test, FQ!vars
      <3> QED
        BY <3>1, <3>2
    <2>2. CASE PollWake \/ HandleWake \/ HandleIo \/ EndBatch \/ Return \/ PollIo
      BY <2>2 DEF PollWake, HandleWake, HandleIo, EndBatch, Return, InUserCode, PollIo, FQ!vars
    <2>3. CASE Swap
      <3>1. tmp_list = <<>>
        BY <2>3 DEF Swap, BatchInHand
      <3>2. (tmp_list \o pendingFunctors)' = tmp_list \o pendingFunctors
        BY <2>3, <3>1, ConcatEmptySeq DEF Swap
      <3> QED
        BY <2>3, <3>2 DEF Swap, FQ!vars
    <2>4. CASE RunFunctor
      <3>1. tmp_list # <<>> /\ tmp_list \in Seq(Functors) /\ pendingFunctors \in Seq(Functors)
        BY <2>4 DEF RunFunctor
      <3>2. FQ!RunOldest
        BY <2>4, <3>1, HeadTailConcat DEF RunFunctor, FQ!RunOldest
      <3> QED
        BY <3>2 DEF FQ!Next
    <2>5. ASSUME NEW f \in Functors,
                 LocalQueue(f) \/ \E t \in Callers : CallerPush(t, f)
          PROVE  FQ!Next
      <3>1. f \in FQ!Fresh
        BY <2>5, FreshIsFresh DEF LocalQueue, CallerPush
      <3>2. (tmp_list \o pendingFunctors)' = Append(tmp_list \o pendingFunctors, f)
        BY <2>5, AppendConcat DEF LocalQueue, CallerPush
      <3>3. FQ!Submit(f)
        BY <2>5, <3>1, <3>2 DEF LocalQueue, CallerPush, FQ!Submit
      <3> QED
        BY <3>3 DEF FQ!Next
    <2>6. ASSUME NEW f \in Functors, LocalCall(f) \/ LocalQuit(f)
          PROVE  FQ!Next
      <3>1. f \in FQ!Fresh
        BY <2>6, FreshIsFresh DEF LocalCall, LocalQuit
      <3>2. FQ!RunNow(f)
        BY <2>6, <3>1 DEF LocalCall, LocalQuit, InUserCode, FQ!RunNow
      <3> QED
        BY <3>2 DEF FQ!Next
    <2>7. ASSUME NEW t \in Callers, CallerWake(t)
          PROVE  UNCHANGED FQ!vars
      BY <2>7 DEF CallerWake, FQ!vars
    <2>8. CASE UNCHANGED vars
      BY <2>8 DEF vars, FQ!vars
    <2> QED
      BY <2>1, <2>2, <2>3, <2>4, <2>5, <2>6, <2>7, <2>8
      DEF Next, LoopStep, UserStep, CallerStep
  <1> QED
    BY <1>1, <1>2, RefinementInvariant, PTL DEF Spec, ImplementsFunctorQueue, FQ!Spec

=============================================================================
