--------------------------- MODULE TimerQueueProofs ---------------------------
(***************************************************************************)
(* Proofs about TimerQueue, for any timers, delays and clock: the types,   *)
(* SetsInSync, ArmedForEarliest and GoneForGood.  Together with some facts *)
(* about what is where they are inductive: a timer is in the sets, in the  *)
(* running batch or still in the queue of functors, never in two of them,  *)
(* and the functor that adds it precedes all others about it.              *)
(***************************************************************************)
EXTENDS TimerQueue, FiniteSetTheorems, SequenceTheorems, TLAPS

DoingInBatch == /\ doing <=> pc # "idle"
                /\ pc = "idle" => batch = <<>>

HandedOver == /\ active_timers \cup Range(batch) \cup cancelled \cup finished \subseteq added
              /\ \A i \in 1 .. Len(queue) : queue[i].timer \in added

BatchIsOut == Range(batch) \cap active_timers = {}

\* An add that waits in the queue is the first anybody hears of its timer.
AddsAreNew ==
    /\ \A i \in 1 .. Len(queue) : queue[i].op = "add" =>
          queue[i].timer \notin active_timers \cup Range(batch) \cup cancelled \cup finished
    /\ \A i, j \in 1 .. Len(queue) : i < j /\ queue[j].op = "add" =>
          queue[i].timer # queue[j].timer

Places == DoingInBatch /\ HandedOver /\ BatchIsOut /\ AddsAreNew

Safe == SetsInSync /\ ArmedForEarliest /\ GoneForGood

IInv == TypeOK /\ Places /\ Safe

USE TimerQueueAssumption DEF Never, Invalid

-----------------------------------------------------------------------------
LEMMA InitIInv == Init => IInv
<1> SUFFICES ASSUME Init PROVE IInv
  OBVIOUS
<1>1. TypeOK
  <2>1. batch \in Seq(Timers) /\ queue \in Seq(Functor) /\ next \in 1 .. Len(batch) + 1
    BY DEF Init
  <2>2. QED
    BY <2>1 DEF Init, TypeOK
<1>2. Places
  BY DEF Init, Places, DoingInBatch, HandedOver, BatchIsOut, AddsAreNew, Range
<1>3. Safe
  BY DEF Init, Safe, SetsInSync, ArmedForEarliest, GoneForGood
<1>4. QED
  BY <1>1, <1>2, <1>3 DEF IInv

\* Taking an entry off the queue of functors.
LEMMA PopKeepsPlaces ==
  ASSUME TypeOK, HandedOver, AddsAreNew, queue # <<>>, queue' = Tail(queue)
  PROVE  /\ queue' \in Seq(Functor)
         /\ Head(queue) \in Functor /\ Head(queue).timer \in added
         /\ \A i \in 1 .. Len(queue') : /\ i + 1 \in 1 .. Len(queue)
                                        /\ queue'[i] = queue[i + 1]
         /\ \A i \in 1 .. Len(queue') : queue'[i].op = "add" => queue'[i].timer # Head(queue).timer
<1>1. Len(queue) \in Nat /\ Len(queue) > 0 /\ queue \in Seq(Functor)
  BY DEF TypeOK
<1>2. /\ queue' \in Seq(Functor)
      /\ \A i \in 1 .. Len(queue') : i + 1 \in 1 .. Len(queue) /\ queue'[i] = queue[i + 1]
  BY <1>1
<1>3. Head(queue) = queue[1] /\ 1 \in 1 .. Len(queue)
  BY <1>1
<1>4. \A i \in 1 .. Len(queue') : 1 < i + 1
  BY <1>1
<1>5. \A i \in 1 .. Len(queue') : queue'[i].op = "add" => queue'[i].timer # queue[1].timer
  <2> TAKE i \in 1 .. Len(queue')
  <2>1. i + 1 \in 1 .. Len(queue) /\ queue'[i] = queue[i + 1] /\ 1 < i + 1
    BY <1>2, <1>4
  <2>2. queue[i + 1].op = "add" => queue[1].timer # queue[i + 1].timer
    BY <1>3, <2>1 DEF AddsAreNew
  <2>3. QED
    BY <2>1, <2>2
<1>6. queue[1] \in Functor
  BY <1>1, <1>3
<1>7. Head(queue) \in Functor /\ Head(queue).timer \in added
  <2>1. queue[1].timer \in added
    BY <1>3 DEF HandedOver
  <2>2. QED
    BY <1>3, <1>6, <2>1
<1>8. \A i \in 1 .. Len(queue') : queue'[i].op = "add" => queue'[i].timer # Head(queue).timer
  BY <1>3, <1>5
<1>9. QED
  BY <1>2, <1>7, <1>8

\* Putting one on it.
LEMMA PushKeepsPlaces ==
  ASSUME TypeOK, HandedOver, AddsAreNew, NEW t \in Timers, NEW op \in {"add", "cancel"},
         queue' = Append(queue, [op |-> op, timer |-> t]),
         op = "add" => t \notin added,
         added' = added \cup {t},
         UNCHANGED <<active_timers, batch, cancelled, finished>>
  PROVE  queue' \in Seq(Functor) /\ HandedOver' /\ AddsAreNew'
<1>1. /\ queue' \in Seq(Functor) /\ Len(queue) \in Nat /\ Len(queue') = Len(queue) + 1
      /\ \A i \in 1 .. Len(queue) : queue'[i] = queue[i]
      /\ queue'[Len(queue) + 1] = [op |-> op, timer |-> t]
  <2>1. [op |-> op, timer |-> t] \in Functor
    BY DEF Functor
  <2>2. QED
    BY <2>1 DEF TypeOK
<1>2. \A i \in 1 .. Len(queue') : i \in 1 .. Len(queue) \/ i = Len(queue) + 1
  BY <1>1
<1>3. HandedOver'
  BY <1>1, <1>2 DEF HandedOver, Range
<1>4. ASSUME NEW i \in 1 .. Len(queue'), queue'[i].op = "add"
      PROVE  queue'[i].timer \notin (active_timers \cup Range(batch) \cup cancelled \cup finished)'
  BY <1>1, <1>2, <1>4 DEF AddsAreNew, HandedOver, Range
<1>5. ASSUME NEW i \in 1 .. Len(queue'), NEW j \in 1 .. Len(queue'), i < j, queue'[j].op = "add"
      PROVE  queue'[i].timer # queue'[j].timer
  <2>1. i \in 1 .. Len(queue)
    BY <1>1, <1>2, <1>5
  <2>2. CASE j \in 1 .. Len(queue)
    BY <1>1, <1>5, <2>1, <2>2 DEF AddsAreNew
  <2>3. CASE j = Len(queue) + 1
    BY <1>1, <1>5, <2>1, <2>3 DEF HandedOver
  <2>4. QED
    BY <1>2, <2>2, <2>3
<1>6. QED
  BY <1>1, <1>3, <1>4, <1>5 DEF AddsAreNew

\* insert, for a timer that is nowhere yet.
LEMMA InsertKeepsSync ==
  ASSUME TypeOK, SetsInSync, ArmedForEarliest, NEW t \in Timers, NEW when \in Nat,
         t \notin active_timers, Insert(t, when),
         expiration' = [expiration EXCEPT ![t] = when],
         UNCHANGED <<now, pc>>
  PROVE  /\ timers' \in SUBSET [when : Nat, timer : Timers]
         /\ active_timers' \in SUBSET Timers
         /\ timerfd' \in Nat \cup {Never}
         /\ SetsInSync' /\ ArmedForEarliest'
<1> DEFINE entry == [when |-> when, timer |-> t]
<1>1. /\ timers' = timers \cup {entry}
      /\ active_timers' = active_timers \cup {t}
      /\ entry.when = when /\ entry.timer = t
      /\ entry \in [when : Nat, timer : Timers]
  BY DEF Insert
<1>2. timers' \in SUBSET [when : Nat, timer : Timers] /\ active_timers' \in SUBSET Timers
  BY <1>1 DEF TypeOK
<1> HIDE DEF entry
<1>3. timerfd' \in Nat \cup {Never}
  BY DEF Insert, Arm, TypeOK
<1>4. SetsInSync'
  <2>1. \A e \in timers : e.timer \in active_timers /\ e.timer # t /\ e.timer \in Timers
    BY DEF SetsInSync, TypeOK
  <2>2. active_timers' = {e.timer : e \in timers'}
    BY <1>1 DEF SetsInSync
  <2>3. \A e \in timers' : e.when = expiration'[e.timer]
    BY <1>1, <2>1 DEF SetsInSync, TypeOK
  <2>4. QED
    BY <2>2, <2>3 DEF SetsInSync
<1>5. ArmedForEarliest'
  <2> SUFFICES ASSUME pc = "idle"
               PROVE  timerfd' # Never /\ \A e \in timers' : timerfd' <= e.when \/ timerfd' <= now + 1
    BY DEF ArmedForEarliest
  <2>1. \A e \in timers : e.when \in Nat
    BY DEF TypeOK
  <2>2. CASE \A e \in timers : when < e.when
    <3>1. timerfd' = IF when - now < 1 THEN now + 1 ELSE when
      BY <2>2 DEF Insert, Arm
    <3>2. QED
      BY <1>1, <2>1, <2>2, <3>1 DEF TypeOK
  <2>3. CASE \E e \in timers : ~(when < e.when)
    <3>1. timerfd' = timerfd
      BY <2>3 DEF Insert
    <3>2. PICK e \in timers : e.when <= when
      BY <2>1, <2>3
    <3>3. timerfd # Never /\ \A f \in timers : timerfd <= f.when \/ timerfd <= now + 1
      BY <3>2 DEF ArmedForEarliest
    <3>4. timerfd <= when \/ timerfd <= now + 1
      BY <2>1, <3>2, <3>3 DEF TypeOK
    <3>5. QED
      BY <1>1, <3>1, <3>3, <3>4
  <2>4. QED
    BY <2>2, <2>3
<1>6. QED
  BY <1>2, <1>3, <1>4, <1>5

\* cancelTimer's functor, also for a timer that waits to be inserted.
LEMMA CancelKeepsSafe ==
  ASSUME TypeOK, DoingInBatch, BatchIsOut, SetsInSync, ArmedForEarliest, GoneForGood,
         NEW t \in Timers, Cancel(t),
         UNCHANGED <<now, expiration, timerfd, doing, batch, next, batchTime, pc, finished>>
  PROVE  /\ timers' \in SUBSET timers
         /\ active_timers' = active_timers \ {t}
         /\ cancelingTimers' \in SUBSET Timers
         /\ cancelled' \subseteq cancelled \cup {t}
         /\ Queued(t) => cancelled' = cancelled
         /\ SetsInSync' /\ ArmedForEarliest' /\ GoneForGood'
<1>1. /\ timers' \in SUBSET timers
      /\ active_timers' = active_timers \ {t}
      /\ cancelingTimers' \in SUBSET Timers
      /\ cancelingTimers \subseteq cancelingTimers'
      /\ cancelled' \subseteq cancelled \cup {t}
      /\ Queued(t) => cancelled' = cancelled
  BY DEF Cancel, TypeOK
<1>2. SetsInSync'
  <2>1. CASE t \in active_timers
    <3>1. timers' = timers \ {[when |-> expiration[t], timer |-> t]}
      BY <2>1 DEF Cancel
    <3>2. \A e \in timers : e.timer = t <=> e = [when |-> expiration[t], timer |-> t]
      BY DEF SetsInSync, TypeOK
    <3>3. QED
      BY <1>1, <3>1, <3>2 DEF SetsInSync
  <2>2. CASE t \notin active_timers
    BY <1>1, <2>2 DEF Cancel, SetsInSync
  <2>3. QED
    BY <2>1, <2>2
<1>3. ArmedForEarliest'
  BY <1>1 DEF ArmedForEarliest
<1>4. GoneForGood'
  <2>1. Repeating' \subseteq Repeating
    BY <1>1 DEF Repeating
  <2>2. ASSUME pc # "idle" PROVE t \notin Repeating'
    <3>1. CASE t \in active_timers
      BY <2>1, <3>1 DEF BatchIsOut, Repeating
    <3>2. CASE t \notin active_timers
      <4>1. cancelingTimers' = cancelingTimers \cup {t}
        BY <2>2, <3>2 DEF Cancel, DoingInBatch
      <4>2. QED
        BY <4>1 DEF Repeating
    <3>3. QED
      BY <3>1, <3>2
  <2>3. QED
    BY <1>1, <2>1, <2>2 DEF GoneForGood
<1>5. QED
  BY <1>1, <1>2, <1>3, <1>4

-----------------------------------------------------------------------------
(* The steps.                                                              *)

LEMMA TickKeepsIInv == IInv /\ Tick => IInv'
<1> SUFFICES ASSUME IInv, Tick PROVE IInv'
  OBVIOUS
<1>1. now' = now + 1 /\ UNCHANGED <<sets, timerfd, running, queue, added, cancelled, finished>>
  BY DEF Tick
<1>2. TypeOK'
  BY <1>1 DEF IInv, TypeOK, sets, running
<1>3. Places'
  BY <1>1 DEF IInv, Places, DoingInBatch, HandedOver, BatchIsOut, AddsAreNew, sets, running
<1>4. ArmedForEarliest'
  BY <1>1 DEF IInv, Safe, ArmedForEarliest, TypeOK, sets, running
<1>5. SetsInSync' /\ GoneForGood'
  BY <1>1 DEF IInv, Safe, SetsInSync, GoneForGood, Repeating, sets, running
<1>6. QED
  BY <1>2, <1>3, <1>4, <1>5 DEF IInv, Safe

LEMMA AddLocalKeepsIInv ==
  ASSUME IInv, NEW t \in Timers, NEW d \in Delays, AddLocal(t, d)
  PROVE  IInv'
<1>1. /\ t \notin added /\ added' = added \cup {t}
      /\ expiration' = [expiration EXCEPT ![t] = now + d]
      /\ Insert(t, now + d)
      /\ UNCHANGED <<now, running, queue, cancelled, finished>>
      /\ active_timers' = active_timers \cup {t}
  BY DEF AddLocal, Insert
<1>2. t \notin active_timers \cup Range(batch) \cup cancelled \cup finished /\ now + d \in Nat
  BY <1>1 DEF IInv, Places, HandedOver, TypeOK
<1>3. /\ timers' \in SUBSET [when : Nat, timer : Timers]
      /\ active_timers' \in SUBSET Timers
      /\ timerfd' \in Nat \cup {Never}
      /\ SetsInSync' /\ ArmedForEarliest'
  BY <1>1, <1>2, InsertKeepsSync DEF IInv, Safe, running
<1>4. TypeOK'
  BY <1>1, <1>2, <1>3 DEF IInv, TypeOK, running
<1>5. Places'
  BY <1>1, <1>2 DEF IInv, Places, DoingInBatch, HandedOver, BatchIsOut, AddsAreNew, running
<1>6. GoneForGood'
  BY <1>1, <1>2 DEF IInv, Safe, GoneForGood, Repeating, running
<1>7. QED
  BY <1>3, <1>4, <1>5, <1>6 DEF IInv, Safe

LEMMA AddRemoteKeepsIInv ==
  ASSUME IInv, NEW t \in Timers, NEW d \in Delays, AddRemote(t, d)
  PROVE  IInv'
<1>1. /\ t \notin added /\ added' = added \cup {t}
      /\ expiration' = [expiration EXCEPT ![t] = now + d]
      /\ queue' = Append(queue, [op |-> "add", timer |-> t])
      /\ UNCHANGED <<now, timers, active_timers, timerfd, running, cancelled, finished>>
  BY DEF AddRemote
<1>2. t \notin active_timers /\ now + d \in Nat
  BY <1>1 DEF IInv, Places, HandedOver, TypeOK
<1>3. queue' \in Seq(Functor) /\ HandedOver' /\ AddsAreNew'
  BY <1>1, PushKeepsPlaces DEF IInv, Places, running
<1>4. TypeOK'
  BY <1>1, <1>2, <1>3 DEF IInv, TypeOK, running
<1>5. Places'
  BY <1>1, <1>3 DEF IInv, Places, DoingInBatch, BatchIsOut, running
<1>6. SetsInSync'
  <2>1. \A e \in timers : e.timer \in active_timers /\ e.timer \in Timers
    BY DEF IInv, Safe, SetsInSync, TypeOK
  <2>2. QED
    BY <1>1, <1>2, <2>1 DEF IInv, TypeOK, Safe, SetsInSync
<1>7. ArmedForEarliest' /\ GoneForGood'
  BY <1>1 DEF IInv, Safe, ArmedForEarliest, GoneForGood, Repeating, running
<1>8. QED
  BY <1>4, <1>5, <1>6, <1>7 DEF IInv, Safe

LEMMA CancelLocalKeepsIInv ==
  ASSUME IInv, NEW t \in Timers, CancelLocal(t)
  PROVE  IInv'
<1>1. /\ t \in added /\ Cancel(t)
      /\ UNCHANGED <<now, expiration, timerfd, doing, batch, next, batchTime, pc, queue, added, finished>>
  BY DEF CancelLocal
<1>2. /\ timers' \in SUBSET timers
      /\ active_timers' = active_timers \ {t}
      /\ cancelingTimers' \in SUBSET Timers
      /\ cancelled' \subseteq cancelled \cup {t}
      /\ Queued(t) => cancelled' = cancelled
      /\ SetsInSync' /\ ArmedForEarliest' /\ GoneForGood'
  BY <1>1, CancelKeepsSafe DEF IInv, Places, Safe
<1>3. TypeOK'
  BY <1>1, <1>2 DEF IInv, TypeOK
<1>4. ~Queued(t) => \A i \in 1 .. Len(queue) : queue[i].op = "add" => queue[i].timer # t
  <2>1. ~Queued(t) => \A i \in 1 .. Len(queue) : queue[i] \in Functor /\ queue[i] # [op |-> "add", timer |-> t]
    BY DEF Queued, Range, IInv, TypeOK
  <2>2. ASSUME NEW f \in Functor, f.op = "add", f.timer = t PROVE f = [op |-> "add", timer |-> t]
    BY <2>2 DEF Functor
  <2>3. QED
    BY <2>1, <2>2
<1>5. AddsAreNew'
  BY <1>1, <1>2, <1>4 DEF IInv, Places, AddsAreNew
<1>6. DoingInBatch' /\ HandedOver' /\ BatchIsOut'
  BY <1>1, <1>2 DEF IInv, Places, DoingInBatch, HandedOver, BatchIsOut
<1>7. QED
  BY <1>2, <1>3, <1>5, <1>6 DEF IInv, Places, Safe

LEMMA CancelRemoteKeepsIInv ==
  ASSUME IInv, NEW t \in Timers, CancelRemote(t)
  PROVE  IInv'
<1>1. /\ t \in added
      /\ queue' = Append(queue, [op |-> "cancel", timer |-> t])
      /\ UNCHANGED <<now, sets, timerfd, running, added, cancelled, finished>>
      /\ added' = added \cup {t}
  BY DEF CancelRemote
<1>2. queue' \in Seq(Functor) /\ HandedOver' /\ AddsAreNew'
  BY <1>1, PushKeepsPlaces DEF IInv, Places, sets, running
<1>3. TypeOK'
  BY <1>1, <1>2 DEF IInv, TypeOK, sets, running
<1>4. Places'
  BY <1>1, <1>2 DEF IInv, Places, DoingInBatch, BatchIsOut, sets, running
<1>5. Safe'
  BY <1>1 DEF IInv, Safe, SetsInSync, ArmedForEarliest, GoneForGood, Repeating, sets, running
<1>6. QED
  BY <1>3, <1>4, <1>5 DEF IInv

LEMMA RunAddKeepsIInv == IInv /\ RunAdd => IInv'
<1> SUFFICES ASSUME IInv, RunAdd PROVE IInv'
  OBVIOUS
<1> DEFINE t == Head(queue).timer
<1>1. /\ pc = "idle" /\ queue # <<>> /\ Head(queue).op = "add"
      /\ Insert(t, expiration[t])
      /\ queue' = Tail(queue)
      /\ UNCHANGED <<now, expiration, running, added, cancelled, finished>>
      /\ active_timers' = active_timers \cup {t}
  BY DEF RunAdd, Insert
<1>2. /\ queue' \in Seq(Functor)
      /\ Head(queue) \in Functor /\ t \in added
      /\ \A i \in 1 .. Len(queue') : /\ i + 1 \in 1 .. Len(queue)
                                     /\ queue'[i] = queue[i + 1]
      /\ \A i \in 1 .. Len(queue') : queue'[i].op = "add" => queue'[i].timer # t
  BY <1>1, PopKeepsPlaces DEF IInv, Places
<1>3. t \in Timers /\ expiration[t] \in Nat
  BY <1>2 DEF Functor, IInv, TypeOK
<1>4. t \notin active_timers \cup Range(batch) \cup cancelled \cup finished
  <2>1. Head(queue) = queue[1] /\ 1 \in 1 .. Len(queue)
    BY <1>1 DEF IInv, TypeOK
  <2>2. QED
    BY <1>1, <2>1 DEF IInv, Places, AddsAreNew
<1> HIDE DEF t
<1>5. expiration' = [expiration EXCEPT ![t] = expiration[t]]
  BY <1>1, <1>3 DEF IInv, TypeOK
<1>6. /\ timers' \in SUBSET [when : Nat, timer : Timers]
      /\ active_timers' \in SUBSET Timers
      /\ timerfd' \in Nat \cup {Never}
      /\ SetsInSync' /\ ArmedForEarliest'
  BY <1>1, <1>3, <1>4, <1>5, InsertKeepsSync DEF IInv, Safe, running
<1>7. TypeOK'
  BY <1>1, <1>2, <1>6 DEF IInv, TypeOK, running
<1>8. DoingInBatch' /\ HandedOver' /\ BatchIsOut'
  BY <1>1, <1>2, <1>4 DEF IInv, Places, DoingInBatch, HandedOver, BatchIsOut, running
<1>9. AddsAreNew'
  <2>1. Len(queue) \in Nat /\ Len(queue') \in Nat
    BY <1>2 DEF IInv, TypeOK
  <2>2. ASSUME NEW i \in 1 .. Len(queue'), queue'[i].op = "add"
        PROVE  queue'[i].timer \notin (active_timers \cup Range(batch) \cup cancelled \cup finished)'
    BY <1>1, <1>2, <2>2 DEF IInv, Places, AddsAreNew, running
  <2>3. ASSUME NEW i \in 1 .. Len(queue'), NEW j \in 1 .. Len(queue'), i < j, queue'[j].op = "add"
        PROVE  queue'[i].timer # queue'[j].timer
    <3>1. i + 1 < j + 1
      BY <2>1, <2>3
    <3>2. QED
      BY <1>2, <2>3, <3>1 DEF IInv, Places, AddsAreNew
  <2>4. QED
    BY <2>2, <2>3 DEF AddsAreNew
<1>10. GoneForGood'
  BY <1>1, <1>4 DEF IInv, Safe, GoneForGood, running
<1>11. QED
  BY <1>6, <1>7, <1>8, <1>9, <1>10 DEF IInv, Places, Safe

LEMMA RunCancelKeepsIInv == IInv /\ RunCancel => IInv'
<1> SUFFICES ASSUME IInv, RunCancel PROVE IInv'
  OBVIOUS
<1> DEFINE t == Head(queue).timer
<1>1. /\ queue # <<>> /\ Cancel(t)
      /\ queue' = Tail(queue)
      /\ UNCHANGED <<now, expiration, timerfd, doing, batch, next, batchTime, pc, added, finished>>
  BY DEF RunCancel
<1>2. /\ queue' \in Seq(Functor)
      /\ Head(queue) \in Functor /\ t \in added
      /\ \A i \in 1 .. Len(queue') : /\ i + 1 \in 1 .. Len(queue)
                                     /\ queue'[i] = queue[i + 1]
      /\ \A i \in 1 .. Len(queue') : queue'[i].op = "add" => queue'[i].timer # t
  BY <1>1, PopKeepsPlaces DEF IInv, Places
<1>3. t \in Timers
  BY <1>2 DEF Functor
<1> HIDE DEF t
<1>4. /\ timers' \in SUBSET timers
      /\ active_timers' = active_timers \ {t}
      /\ cancelingTimers' \in SUBSET Timers
      /\ cancelled' \subseteq cancelled \cup {t}
      /\ Queued(t) => cancelled' = cancelled
      /\ SetsInSync' /\ ArmedForEarliest' /\ GoneForGood'
  BY <1>1, <1>3, CancelKeepsSafe DEF IInv, Places, Safe
<1>5. TypeOK'
  BY <1>1, <1>2, <1>3, <1>4 DEF IInv, TypeOK
<1>6. DoingInBatch' /\ HandedOver' /\ BatchIsOut'
  BY <1>1, <1>2, <1>4 DEF IInv, Places, DoingInBatch, HandedOver, BatchIsOut
<1>7. AddsAreNew'
  <2>1. Len(queue) \in Nat /\ Len(queue') \in Nat
    BY <1>2 DEF IInv, TypeOK
  <2>2. ASSUME NEW i \in 1 .. Len(queue'), queue'[i].op = "add"
        PROVE  queue'[i].timer \notin (active_timers \cup Range(batch) \cup cancelled \cup finished)'
    BY <1>1, <1>2, <1>4, <2>2 DEF IInv, Places, AddsAreNew
  <2>3. ASSUME NEW i \in 1 .. Len(queue'), NEW j \in 1 .. Len(queue'), i < j, queue'[j].op = "add"
        PROVE  queue'[i].timer # queue'[j].timer
    <3>1. i + 1 < j + 1
      BY <2>1, <2>3
    <3>2. QED
      BY <1>2, <2>3, <3>1 DEF IInv, Places, AddsAreNew
  <2>4. QED
    BY <2>2, <2>3 DEF AddsAreNew
<1>8. QED
  BY <1>4, <1>5, <1>6, <1>7 DEF IInv, Places, Safe

LEMMA TimerEventKeepsIInv == IInv /\ TimerEvent => IInv'
<1> SUFFICES ASSUME IInv, TimerEvent PROVE IInv'
  OBVIOUS
<1> DEFINE gone == {e.timer : e \in Expired}
<1>1. /\ pc = "idle" /\ timerfd' = Never /\ next' = 1 /\ batchTime' = now
      /\ timers' = timers \ Expired
      /\ active_timers' = active_timers \ gone
      /\ doing' = TRUE /\ cancelingTimers' = {} /\ pc' = "batch"
      /\ UNCHANGED <<now, expiration, queue, added, cancelled, finished>>
  BY DEF TimerEvent
<1>2. Expired \subseteq timers /\ gone \subseteq active_timers
  BY DEF Expired, IInv, Safe, SetsInSync
<1>3. batch' \in Seq(Timers) /\ Range(batch') = gone
  <2>1. PICK expired \in Entries(Expired) :
           Range(expired) = Expired /\ batch' = [i \in DOMAIN expired |-> expired[i].timer]
    BY DEF TimerEvent
  <2>2. Cardinality(Timers) \in Nat
    BY FS_CardinalityType
  <2>3. PICK n \in Nat : expired \in [1 .. n -> Expired]
    BY <2>1, <2>2 DEF Entries
  <2>4. \A i \in 1 .. n : expired[i].timer \in Timers
    BY <2>3 DEF Expired, IInv, TypeOK
  <2>5. batch' = [i \in 1 .. n |-> expired[i].timer]
    BY <2>1, <2>3
  <2>6. batch' \in Seq(Timers)
    BY <2>4, <2>5
  <2>7. Range(batch') = {expired[i].timer : i \in 1 .. n}
    BY <2>5 DEF Range
  <2>8. Expired = {expired[i] : i \in 1 .. n}
    BY <2>1, <2>3 DEF Range
  <2>9. QED
    BY <2>6, <2>7, <2>8
<1>4. next' \in 1 .. Len(batch') + 1
  BY <1>1, <1>3
<1>5. TypeOK'
  BY <1>1, <1>3, <1>4 DEF IInv, TypeOK
<1>6. DoingInBatch' /\ HandedOver' /\ BatchIsOut'
  BY <1>1, <1>2, <1>3 DEF IInv, Places, DoingInBatch, HandedOver, BatchIsOut
<1>7. AddsAreNew'
  BY <1>1, <1>2, <1>3 DEF IInv, Places, AddsAreNew
<1>8. SetsInSync'
  <2>1. \A e, f \in timers : e.timer = f.timer => e = f
    BY DEF IInv, TypeOK, Safe, SetsInSync
  <2>2. \A e \in timers : e.timer \in gone => e \in Expired
    BY <1>2, <2>1
  <2>3. QED
    BY <1>1, <2>2 DEF IInv, Safe, SetsInSync
<1>9. ArmedForEarliest'
  BY <1>1 DEF ArmedForEarliest
<1>10. GoneForGood'
  <2>1. Repeating' \subseteq gone
    BY <1>3 DEF Repeating
  <2>2. QED
    BY <1>1, <1>2, <2>1 DEF IInv, Safe, GoneForGood
<1>11. QED
  BY <1>5, <1>6, <1>7, <1>8, <1>9, <1>10 DEF IInv, Places, Safe

LEMMA RunTimerKeepsIInv == IInv /\ (RunTimer \/ Return) => IInv'
<1> SUFFICES ASSUME IInv, RunTimer \/ Return PROVE IInv'
  OBVIOUS
<1>1. CASE RunTimer
  <2> DEFINE t == batch[next]
  <2>1. /\ pc = "batch" /\ next <= Len(batch) /\ pc' = "callback" /\ next' = next + 1
        /\ finished' = finished \cup {u \in {t} : Interval[u] = 0}
        /\ UNCHANGED <<now, sets, timerfd, cancelingTimers, doing, batch, batchTime, queue, added, cancelled>>
    BY <1>1 DEF RunTimer
  <2>2. t \in Timers /\ t \in Range(batch) /\ next' \in 1 .. Len(batch') + 1
    BY <2>1 DEF IInv, TypeOK, Range
  <2> HIDE DEF t
  <2>3. TypeOK'
    BY <2>1, <2>2 DEF IInv, TypeOK, sets
  <2>4. Places'
    BY <2>1, <2>2 DEF IInv, Places, DoingInBatch, HandedOver, BatchIsOut, AddsAreNew, sets
  <2>5. SetsInSync' /\ ArmedForEarliest'
    BY <2>1 DEF IInv, Safe, SetsInSync, ArmedForEarliest, sets
  <2>6. GoneForGood'
    BY <2>1, <2>2 DEF IInv, Places, BatchIsOut, Safe, GoneForGood, Repeating, sets
  <2>7. QED
    BY <2>3, <2>4, <2>5, <2>6 DEF IInv, Safe
<1>2. CASE Return
  <2>1. /\ pc = "callback" /\ pc' = "batch"
        /\ UNCHANGED <<now, sets, timerfd, cancelingTimers, doing, batch, next, batchTime, queue,
                       added, cancelled, finished>>
    BY <1>2 DEF Return
  <2>2. TypeOK'
    BY <2>1 DEF IInv, TypeOK, sets
  <2>3. Places'
    BY <2>1 DEF IInv, Places, DoingInBatch, HandedOver, BatchIsOut, AddsAreNew, sets
  <2>4. Safe'
    BY <2>1 DEF IInv, Safe, SetsInSync, ArmedForEarliest, GoneForGood, Repeating, sets
  <2>5. QED
    BY <2>2, <2>3, <2>4 DEF IInv
<1>3. QED
  BY <1>1, <1>2

LEMMA ResetKeepsIInv == IInv /\ Reset => IInv'
<1> SUFFICES ASSUME IInv, Reset PROVE IInv'
  OBVIOUS
<1>1. /\ pc = "batch" /\ doing' = FALSE /\ batch' = <<>> /\ next' = 1 /\ pc' = "idle"
      /\ expiration' = [t \in Timers |-> IF t \in Repeating THEN batchTime + Interval[t]
                                                            ELSE expiration[t]]
      /\ timers' = timers \cup Back
      /\ active_timers' = active_timers \cup Repeating
      /\ UNCHANGED <<now, cancelingTimers, batchTime, queue, added, cancelled, finished>>
  BY DEF Reset, ResetTo
<1>2. /\ timers \cup Back = {} => timerfd' = timerfd
      /\ timers \cup Back # {} =>
            \E first \in timers \cup Back : /\ \A e \in timers \cup Back : first.when <= e.when
                                            /\ timerfd' = Arm(first.when)
  BY DEF Reset, ResetTo
<1>3. Repeating \subseteq Range(batch) /\ Repeating \subseteq Timers
  BY DEF Repeating, Range, IInv, TypeOK
<1>4. /\ \A t \in Repeating : batchTime + Interval[t] \in Nat
      /\ Back \subseteq [when : Nat, timer : Timers]
  BY <1>3 DEF Back, IInv, TypeOK
<1>5. timers' \subseteq [when : Nat, timer : Timers]
  BY <1>1, <1>4 DEF IInv, TypeOK
<1>6. timerfd' \in Nat \cup {Never} /\ (timers' # {} => timerfd' # Never)
  <2>1. ASSUME timers' # {} PROVE timerfd' \in Nat
    <3>1. PICK first \in timers' : timerfd' = Arm(first.when)
      BY <1>1, <1>2, <2>1
    <3>2. first.when \in Nat
      BY <1>5
    <3>3. QED
      BY <3>1, <3>2 DEF Arm, IInv, TypeOK
  <2>2. QED
    BY <1>1, <1>2, <2>1 DEF IInv, TypeOK
<1>7. TypeOK'
  <2>1. expiration' \in [Timers -> Nat]
    BY <1>1, <1>4 DEF IInv, TypeOK
  <2>2. batch' \in Seq(Timers) /\ next' \in 1 .. Len(batch') + 1
    BY <1>1
  <2>3. QED
    BY <1>1, <1>3, <1>5, <1>6, <2>1, <2>2 DEF IInv, TypeOK
<1>8. Range(batch') = {} /\ Range(batch) \subseteq Timers
  BY <1>1 DEF Range, IInv, TypeOK
<1>9. Range(batch) \cap active_timers = {}
  BY <1>1 DEF IInv, Places, BatchIsOut
<1>10. DoingInBatch' /\ HandedOver' /\ BatchIsOut'
  <2>1. DoingInBatch'
    BY <1>1 DEF DoingInBatch
  <2>2. HandedOver'
    BY <1>1, <1>3, <1>8 DEF IInv, Places, HandedOver
  <2>3. BatchIsOut'
    BY <1>1, <1>8 DEF BatchIsOut
  <2>4. QED
    BY <2>1, <2>2, <2>3
<1>11. AddsAreNew'
  BY <1>1, <1>3, <1>8 DEF IInv, Places, AddsAreNew
<1>12. SetsInSync'
  <2>1. \A e \in timers : e.timer \in Timers /\ e.timer \notin Repeating /\ e.when = expiration[e.timer]
    <3>1. \A e \in timers : e.timer \in active_timers /\ e.when = expiration[e.timer]
      BY DEF IInv, Safe, SetsInSync
    <3>2. active_timers \subseteq Timers
      BY DEF IInv, TypeOK
    <3>3. QED
      BY <3>1, <3>2, <1>3, <1>9
  <2>2. \A e \in timers : e.when = expiration'[e.timer]
    BY <1>1, <2>1
  <2>3. \A e \in Back : e.when = expiration'[e.timer] /\ e.timer \in Repeating
    BY <1>1, <1>3 DEF Back
  <2>4. \A t \in Repeating : \E e \in Back : e.timer = t
    <3> TAKE t \in Repeating
    <3>1. [when |-> batchTime + Interval[t], timer |-> t] \in Back
      BY DEF Back
    <3>2. QED
      BY <3>1
  <2>5. active_timers' = {e.timer : e \in timers'}
    BY <1>1, <2>3, <2>4 DEF IInv, Safe, SetsInSync
  <2>6. QED
    BY <1>1, <2>2, <2>3, <2>5 DEF SetsInSync
<1>13. ArmedForEarliest'
  <2> SUFFICES ASSUME timers' # {}
               PROVE  timerfd' # Never /\ \A e \in timers' : timerfd' <= e.when \/ timerfd' <= now + 1
    BY <1>1 DEF ArmedForEarliest
  <2>1. PICK first \in timers' : /\ \A e \in timers' : first.when <= e.when
                                 /\ timerfd' = Arm(first.when)
    BY <1>1, <1>2
  <2>2. timerfd' = first.when \/ timerfd' = now + 1
    BY <2>1 DEF Arm
  <2>3. QED
    BY <1>5, <1>6, <2>1, <2>2 DEF IInv, TypeOK
<1>14. GoneForGood'
  BY <1>1 DEF IInv, Safe, GoneForGood
<1>15. QED
  BY <1>7, <1>10, <1>11, <1>12, <1>13, <1>14 DEF IInv, Places, Safe

-----------------------------------------------------------------------------
LEMMA NextKeepsIInv == IInv /\ [Next]_vars => IInv'
<1> SUFFICES ASSUME IInv, [Next]_vars PROVE IInv'
  OBVIOUS
<1>1. CASE Tick
  BY <1>1, TickKeepsIInv
<1>2. CASE LoopStep
  BY <1>2, TimerEventKeepsIInv, RunTimerKeepsIInv, ResetKeepsIInv, RunAddKeepsIInv, RunCancelKeepsIInv
  DEF LoopStep
<1>3. CASE UserStep
  BY <1>3, AddLocalKeepsIInv, AddRemoteKeepsIInv, CancelLocalKeepsIInv, CancelRemoteKeepsIInv
  DEF UserStep
<1>4. CASE UNCHANGED vars
  <2>1. TypeOK'
    BY <1>4 DEF IInv, TypeOK, vars, sets, running
  <2>2. Places'
    BY <1>4 DEF IInv, Places, DoingInBatch, HandedOver, BatchIsOut, AddsAreNew, vars, sets, running
  <2>3. Safe'
    BY <1>4 DEF IInv, Safe, SetsInSync, ArmedForEarliest, GoneForGood, Repeating, vars, sets, running
  <2>4. QED
    BY <2>1, <2>2, <2>3 DEF IInv
<1>5. QED
  BY <1>1, <1>2, <1>3, <1>4 DEF Next

LEMMA Invariance == Spec => []IInv
<1>1. QED
  BY InitIInv, NextKeepsIInv, PTL DEF Spec

\* TypeOK: among others, every entry of the queue is a Timer with its expiration.
THEOREM TypeCorrect == Spec => []TypeOK
<1>1. IInv => TypeOK
  BY DEF IInv
<1>2. QED
  BY <1>1, Invariance, PTL

\* TimerQueue.cc 13-62, 139-153: the two sets agree for any timers, also while
\* callbacks of a batch add and cancel timers of the same batch.
THEOREM SetsAgree == Spec => []SetsInSync
<1>1. IInv => SetsInSync
  BY DEF IInv, Safe
<1>2. QED
  BY <1>1, Invariance, PTL

\* TimerQueue.cc 54-80: the loop never blocks with a timerfd that is not armed
\* for its earliest timer.
THEOREM TimerfdIsArmed == Spec => []ArmedForEarliest
<1>1. IInv => ArmedForEarliest
  BY DEF IInv, Safe
<1>2. QED
  BY <1>1, Invariance, PTL

\* TimerQueue.cc 42-53, 139-153: no timer comes back after it was cancelled, once
\* it had been inserted, or has run its one time; from whatever thread, callback
\* or batch it was cancelled.
THEOREM NoTimerComesBack == Spec => []GoneForGood
<1>1. IInv => GoneForGood
  BY DEF IInv, Safe
<1>2. QED
  BY <1>1, Invariance, PTL

=============================================================================
