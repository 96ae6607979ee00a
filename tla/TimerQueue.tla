------------------------------ MODULE TimerQueue ------------------------------
(***************************************************************************)
(* TimerQueue: the timers of one EventLoop, kept in two sets, timers_      *)
(* ordered by expiration and active_timers_ by identity, and one timerfd   *)
(* that has to be armed for the earliest of them.  Timers are added and    *)
(* cancelled on the loop's thread, inside a timer's callback or outside,   *)
(* or by other threads through functors, which run as FunctorQueue says.   *)
(*                                                                         *)
(* While a batch of expired timers runs, its timers are in neither set:    *)
(* cancelTimer cannot find them and leaves a note in cancelingTimers_, and *)
(* they go back, if they repeat and are not in the note, when the batch is *)
(* done.                                                                   *)
(*                                                                         *)
(* One unit of time is the 100 microseconds below which resetTimerfd never *)
(* goes.                                                                   *)
(***************************************************************************)
EXTENDS Integers, Sequences, FiniteSets, Functions

CONSTANTS Timers,      \* the Timer objects: Nat, standing for their addresses
          Interval,    \* Interval[t]: interval_, 0 for a timer that runs once
          Delays,      \* bound: how far ahead (or 0) a timer is added
          MaxTime,     \* bound: when the clock stops, unless a timer is due
          MaxQueue     \* bound: functors queued by other threads at a time

ASSUME TimerQueueAssumption ==
         /\ Timers \subseteq Nat /\ IsFiniteSet(Timers)
         /\ Interval \in [Timers -> Nat]
         /\ Delays \subseteq Nat
         /\ MaxTime \in Nat \ {0} /\ MaxQueue \in Nat

VARIABLES now,                \* the clock
          timers,             \* timers_: [when, timer]
          active_timers,      \* active_timers_
          cancelingTimers,    \* cancelingTimers_
          doing,              \* is_doing_timer_callback_
          expiration,         \* expiration_ of each timer
          timerfd,            \* when the timerfd expires; Never: not armed, or read
          batch,              \* expired: the timers of the batch, in order
          next,               \* the next of them to run
          batchTime,          \* now, as the callback of the timerfd read it
          pc,                 \* where the loop's thread is
          queue,              \* functors queued by other threads
          added,              \* timers handed to addTimer
          cancelled,          \* history: timers cancelled since they were inserted
          finished            \* history: timers that run once and have begun

sets == <<timers, active_timers, expiration>>
running == <<cancelingTimers, doing, batch, next, batchTime, pc>>
vars == <<now, sets, timerfd, running, queue, added, cancelled, finished>>

Never == -1

\* The clock of a Timer that has not been made yet.
Invalid == 0

Functor == [op : {"add", "cancel"}, timer : Timers]

TypeOK == /\ now \in Nat
          /\ timers \subseteq [when : Nat, timer : Timers]
          /\ active_timers \subseteq Timers
          /\ cancelingTimers \subseteq Timers
          /\ doing \in BOOLEAN
          /\ expiration \in [Timers -> Nat]
          /\ timerfd \in Nat \cup {Never}
          /\ batch \in Seq(Timers)
          /\ next \in 1 .. Len(batch) + 1
          /\ batchTime \in Nat
          /\ pc \in {"idle", "batch", "callback"}
          /\ queue \in Seq(Functor)
          /\ added \subseteq Timers
          /\ cancelled \subseteq Timers
          /\ finished \subseteq Timers

Init == /\ now = 1
        /\ timers = {}
        /\ active_timers = {}
        /\ cancelingTimers = {}
        /\ doing = FALSE
        /\ expiration = [t \in Timers |-> Invalid]
        /\ timerfd = Never
        /\ batch = <<>>
        /\ next = 1
        /\ batchTime = 0
        /\ pc = "idle"
        /\ queue = <<>>
        /\ added = {}
        /\ cancelled = {}
        /\ finished = {}

-----------------------------------------------------------------------------
(* The operations on the two sets and on the timerfd.                      *)

Earlier(e, f) == e.when < f.when \/ (e.when = f.when /\ e.timer < f.timer)

Ascending(s) == \A i, j \in DOMAIN s : i < j => Earlier(s[i], s[j])

\* Sequences of entries, none longer than there are timers.
Entries(set) == UNION {[1 .. n -> set] : n \in 0 .. Cardinality(Timers)}

\* mutant: no minimum; a timerfd set to nothing is disarmed.
ArmNoMinimum(when) == IF when - now < 1 THEN Never ELSE when

\* timerfd_settime, never less than one unit ahead.
Arm(when) == IF when - now < 1 THEN now + 1 ELSE when

\* addTimer's functor: insert, and resetTimerfd if the timer is now the earliest.
Insert(t, when) ==
    /\ timers' = timers \cup {[when |-> when, timer |-> t]}
    /\ active_timers' = active_timers \cup {t}
    /\ timerfd' = IF \A e \in timers : when < e.when THEN Arm(when) ELSE timerfd

\* The Timer is there, and the functor that inserts it has yet to run.
Queued(t) == [op |-> "add", timer |-> t] \in Range(queue)

\* mutant: no note for the batch that runs.
CancelNoNote(t) ==
    /\ timers' = IF t \in active_timers
                   THEN timers \ {[when |-> expiration[t], timer |-> t]} ELSE timers
    /\ active_timers' = active_timers \ {t}
    /\ cancelled' = IF Queued(t) THEN cancelled ELSE cancelled \cup {t}
    /\ UNCHANGED cancelingTimers

\* cancelTimer's functor: out of both sets, or a note for the running batch, or
\* (a timer that is gone or not yet inserted, outside any batch) only an error in
\* the log.
Cancel(t) ==
    /\ timers' = IF t \in active_timers
                   THEN timers \ {[when |-> expiration[t], timer |-> t]} ELSE timers
    /\ active_timers' = active_timers \ {t}
    /\ cancelingTimers' = IF t \notin active_timers /\ doing
                            THEN cancelingTimers \cup {t} ELSE cancelingTimers
    /\ cancelled' = IF Queued(t) THEN cancelled ELSE cancelled \cup {t}

-----------------------------------------------------------------------------
(* The clock.                                                              *)

\* Beyond MaxTime it goes on only as far as the timerfd, and only while a timer
\* that expired within the bound has yet to run.
Tick == /\ \/ now < MaxTime
           \/ timerfd = now + 1 /\ \E e \in timers : e.when <= MaxTime
        /\ now' = now + 1
        /\ UNCHANGED <<sets, timerfd, running, queue, added, cancelled, finished>>

-----------------------------------------------------------------------------
(* Callers of addTimer and cancelTimer.                                    *)

\* Other channels' callbacks and functors run when the timerfd's does not.
InUserCode == pc \in {"idle", "callback"}

AddLocal(t, d) == /\ InUserCode /\ t \notin added /\ now < MaxTime
                  /\ added' = added \cup {t}
                  /\ expiration' = [expiration EXCEPT ![t] = now + d]
                  /\ Insert(t, now + d)
                  /\ UNCHANGED <<now, running, queue, cancelled, finished>>

\* A Timer is made at once and inserted when the functor runs.
AddRemote(t, d) == /\ t \notin added /\ now < MaxTime /\ Len(queue) < MaxQueue
                   /\ added' = added \cup {t}
                   /\ expiration' = [expiration EXCEPT ![t] = now + d]
                   /\ queue' = Append(queue, [op |-> "add", timer |-> t])
                   /\ UNCHANGED <<now, timers, active_timers, timerfd, running, cancelled, finished>>

\* On the loop's thread, at once.  The timer may be another thread's, handed over
\* before the functor that inserts it has run.
CancelLocal(t) == /\ InUserCode /\ t \in added
                  /\ Cancel(t)
                  /\ UNCHANGED <<now, expiration, timerfd, doing, batch, next, batchTime, pc,
                                 queue, added, finished>>

CancelRemote(t) == /\ t \in added /\ Len(queue) < MaxQueue
                   /\ queue' = Append(queue, [op |-> "cancel", timer |-> t])
                   /\ UNCHANGED <<now, sets, timerfd, running, added, cancelled, finished>>

\* doPendingFunctors, when no channel's callback runs.
RunAdd == /\ pc = "idle" /\ queue # <<>> /\ Head(queue).op = "add"
          /\ Insert(Head(queue).timer, expiration[Head(queue).timer])
          /\ queue' = Tail(queue)
          /\ UNCHANGED <<now, expiration, running, added, cancelled, finished>>

RunCancel == /\ pc = "idle" /\ queue # <<>> /\ Head(queue).op = "cancel"
             /\ Cancel(Head(queue).timer)
             /\ queue' = Tail(queue)
             /\ UNCHANGED <<now, expiration, timerfd, doing, batch, next, batchTime, pc, added, finished>>

-----------------------------------------------------------------------------
(* The read callback of the timerfd.                                       *)

Expired == {e \in timers : e.when <= now}

\* read, getExpired, and the note of the last batch is torn up.
TimerEvent == /\ pc = "idle"
              /\ timerfd # Never /\ timerfd <= now
              /\ timerfd' = Never
              /\ \E expired \in Entries(Expired) :
                    /\ Range(expired) = Expired /\ Ascending(expired)
                    /\ batch' = [i \in DOMAIN expired |-> expired[i].timer]
              /\ next' = 1
              /\ batchTime' = now
              /\ timers' = timers \ Expired
              /\ active_timers' = active_timers \ {e.timer : e \in Expired}
              /\ doing' = TRUE
              /\ cancelingTimers' = {}
              /\ pc' = "batch"
              /\ UNCHANGED <<now, expiration, queue, added, cancelled, finished>>

\* mutant: the callback's change of the queue moves the batch's iterator on.
RunTimerSkips == /\ pc = "batch" /\ next <= Len(batch)
                 /\ pc' = "callback"
                 /\ next' = next + 2
                 /\ finished' = finished \cup {t \in {batch[next]} : Interval[t] = 0}
                 /\ UNCHANGED <<now, sets, timerfd, cancelingTimers, doing, batch, batchTime, queue,
                                added, cancelled>>

\* entry.second->run(), also when a timer before it in the batch cancelled it.
RunTimer == /\ pc = "batch" /\ next <= Len(batch)
            /\ pc' = "callback"
            /\ next' = next + 1
            /\ finished' = finished \cup {t \in {batch[next]} : Interval[t] = 0}
            /\ UNCHANGED <<now, sets, timerfd, cancelingTimers, doing, batch, batchTime, queue,
                           added, cancelled>>

Return == /\ pc = "callback"
          /\ pc' = "batch"
          /\ UNCHANGED <<now, sets, timerfd, cancelingTimers, doing, batch, next, batchTime, queue,
                         added, cancelled, finished>>

\* The timers of the batch that go back.
Repeating == {t \in Range(batch) : Interval[t] > 0 /\ t \notin cancelingTimers}

Back == {[when |-> batchTime + Interval[t], timer |-> t] : t \in Repeating}

\* reset with the entries that go back, and those the timerfd is armed for.
ResetTo(back, armFor) ==
    /\ pc = "batch" /\ next > Len(batch)
    /\ doing' = FALSE
    /\ expiration' = [t \in Timers |-> IF t \in Repeating THEN batchTime + Interval[t]
                                                          ELSE expiration[t]]
    /\ timers' = timers \cup back
    /\ active_timers' = active_timers \cup Repeating
    /\ IF armFor = {}
         THEN UNCHANGED timerfd
         ELSE \E first \in armFor : /\ \A e \in armFor : first.when <= e.when
                                  /\ timerfd' = Arm(first.when)
    /\ batch' = <<>>
    /\ next' = 1
    /\ pc' = "idle"
    /\ UNCHANGED <<now, cancelingTimers, batchTime, queue, added, cancelled, finished>>

\* mutant: the timers go back before restart() has moved their expiration_.
ResetInsertsFirst ==
    LET back == {[when |-> expiration[t], timer |-> t] : t \in Repeating}
    IN ResetTo(back, timers \cup back)

\* mutant: the timerfd is armed only for the timers that went back.
ResetArmsForRepeating == ResetTo(Back, Back)

\* reset: the next expiration counts from the start of the batch; the timerfd
\* is armed for the earliest timer, if there is one.
Reset == ResetTo(Back, timers \cup Back)

-----------------------------------------------------------------------------
LoopStep == TimerEvent \/ RunTimer \/ Return \/ Reset \/ RunAdd \/ RunCancel

UserStep == \E t \in Timers :
               \/ \E d \in Delays : AddLocal(t, d) \/ AddRemote(t, d)
               \/ CancelLocal(t) \/ CancelRemote(t)

Next == Tick \/ LoopStep \/ UserStep

Spec == Init /\ [][Next]_vars

\* Time passes, the loop's thread is scheduled, and it polls between any two
\* batches of functors.
Fairness == WF_vars(Tick) /\ WF_vars(LoopStep) /\ WF_vars(TimerEvent)

FairSpec == Spec /\ Fairness

-----------------------------------------------------------------------------
\* TimerQueue.cc 13-62, 139-153: the two sets hold the same timers, each once
\* and under its own expiration_; else cancelTimer's erase by expiration would
\* miss and the timer would fire with nothing left to cancel it by.
SetsInSync ==
    /\ active_timers = {e.timer : e \in timers}
    /\ \A e \in timers : e.when = expiration[e.timer]

\* TimerQueue.cc 54-80, 131-134: whenever the loop may block, the timerfd is
\* armed, for no later than the earliest timer or the next unit.
ArmedForEarliest ==
    pc = "idle" /\ timers # {} =>
       timerfd # Never /\ \A e \in timers : timerfd <= e.when \/ timerfd <= now + 1

\* TimerQueue.cc 42-53, 139-153: a timer that was cancelled when it had been
\* inserted, and one that runs once and has begun, is in no set and never goes
\* back, also if it was cancelled by its own callback or by another one of its
\* batch.  (One that is cancelled on the loop's thread while another thread's
\* addTimer still waits in the queue is not found, and is inserted after that.)
GoneForGood ==
    \A t \in cancelled \cup finished :
        t \notin active_timers /\ (pc # "idle" => t \notin Repeating)

\* TimerQueue.cc 91-113: a timer in the queue expires, or is cancelled.
EveryTimerExpires ==
    \A t \in Timers :
       (t \in active_timers /\ expiration[t] <= MaxTime) ~> t \in (Range(batch) \cup cancelled)

=============================================================================
