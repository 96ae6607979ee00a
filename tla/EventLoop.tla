------------------------------ MODULE EventLoop ------------------------------
(***************************************************************************)
(* EventLoop: one thread that polls an epoll instance, dispatches the      *)
(* ready channels and then runs the functors other threads have queued.    *)
(* A queued functor is announced by a write to an eventfd (wakefd_) that   *)
(* the loop has registered edge-triggered.  The hazard is the wakeup: the  *)
(* lock covers only the queue, so the write to the eventfd, the edge it    *)
(* leaves in epoll, the read that resets it and the swap of the queue      *)
(* interleave freely with other threads.                                   *)
(***************************************************************************)
EXTENDS Naturals, Sequences, Functions

CONSTANTS Callers,        \* threads other than the loop's own that call into it
          Functors,       \* the std::function objects ever handed over (a bound)
          QuitFunctors    \* those that quit() makes: they set quit_

ASSUME EventLoopAssumption == QuitFunctors \subseteq Functors

VARIABLES pendingFunctors,  \* pendingFunctors_, under pendingFunctorsMutex_
          tmp_list,         \* what doPendingFunctors swapped out and has not run
          wakefd,           \* the eventfd's counter is not zero
          wakeEdge,         \* wakeChannel_ is on epoll's ready list (EPOLLET)
          quit,             \* quit_
          pc,               \* where the loop's thread is
          ready,            \* channels Poll() returned, not yet handled
          caller,           \* caller[t]: writes to wakefd_ that thread t still owes
          executed          \* history: functors run, in order

vars == <<pendingFunctors, tmp_list, wakefd, wakeEdge, quit, pc, ready, caller, executed>>

\* "wake" is wakeChannel_; "io" stands for every other channel of the loop.
Channels == {"wake", "io"}

TypeOK == /\ pendingFunctors \in Seq(Functors)
          /\ tmp_list \in Seq(Functors)
          /\ executed \in Seq(Functors)
          /\ wakefd \in BOOLEAN
          /\ wakeEdge \in BOOLEAN
          /\ quit \in BOOLEAN
          /\ pc \in {"test", "poll", "handle", "io", "run", "functor", "exited"}
          /\ ready \subseteq Channels
          /\ caller \in [Callers -> 0..2]

Init == /\ pendingFunctors = <<>>
        /\ tmp_list = <<>>
        /\ wakefd = FALSE
        /\ wakeEdge = FALSE
        /\ quit = FALSE
        /\ pc = "test"
        /\ ready = {}
        /\ caller = [t \in Callers |-> 0]
        /\ executed = <<>>

\* Each functor object is built for one call and moved into the queue.
Fresh == Functors \ (Range(executed) \cup Range(tmp_list) \cup Range(pendingFunctors))

\* ::write to the eventfd: the counter is not zero, and epoll sees an edge
\* whatever the counter was before.
Wake == wakefd' = TRUE /\ wakeEdge' = TRUE

-----------------------------------------------------------------------------
(* Plausible bugs, each of which breaks a property at the end.  Next uses    *)
(* none of them.                                                             *)

\* Poll() looks beyond the nfds entries epoll_wait filled in.
PollIoStaleEvents == /\ pc = "poll"
                     /\ \E stale \in SUBSET {"wake"} : ready' = {"io"} \cup stale
                     /\ pc' = "handle"
                     /\ UNCHANGED <<pendingFunctors, tmp_list, wakefd, wakeEdge, quit, caller, executed>>

\* The batch runs from a copy; pendingFunctors_ is not emptied.
SwapCopies == /\ pc = "handle"
              /\ ready = {}
              /\ tmp_list' = pendingFunctors
              /\ pc' = "run"
              /\ UNCHANGED <<pendingFunctors, wakefd, wakeEdge, quit, ready, caller, executed>>

\* The loop polls again after a batch without looking at quit_.
EndBatchNoTest == /\ pc = "run"
                  /\ tmp_list = <<>>
                  /\ pc' = "poll"
                  /\ UNCHANGED <<pendingFunctors, tmp_list, wakefd, wakeEdge, quit, ready, caller, executed>>

\* No wake(): the loop's own thread is awake anyway.
LocalQueueNoWake(f) == /\ pc \in {"io", "functor"}
                       /\ f \in Fresh \ QuitFunctors
                       /\ pendingFunctors' = Append(pendingFunctors, f)
                       /\ UNCHANGED <<tmp_list, wakefd, wakeEdge, quit, pc, ready, caller, executed>>

\* No wake() unless the loop is seen in epoll_wait.
CallerPushIfAsleep(t, f) == /\ caller[t] = 0
                            /\ f \in Fresh
                            /\ pendingFunctors' = Append(pendingFunctors, f)
                            /\ caller' = [caller EXCEPT ![t] = IF pc = "poll" THEN 1 ELSE 0]
                            /\ UNCHANGED <<tmp_list, wakefd, wakeEdge, quit, pc, ready, executed>>

\* A thread pushes again before it has written for its last push.
CallerPushUnfinished(t, f) ==
    /\ f \in Fresh
    /\ pendingFunctors' = Append(pendingFunctors, f)
    /\ caller' = [caller EXCEPT ![t] = @ + (IF f \in QuitFunctors THEN 2 ELSE 1)]
    /\ UNCHANGED <<tmp_list, wakefd, wakeEdge, quit, pc, ready, executed>>

-----------------------------------------------------------------------------
(* The loop's thread.                                                      *)

\* while (!quit_)
Test == /\ pc = "test"
        /\ pc' = IF quit THEN "exited" ELSE "poll"
        /\ UNCHANGED <<pendingFunctors, tmp_list, wakefd, wakeEdge, quit, ready, caller, executed>>

\* epoll_wait returns wakeChannel_, perhaps with others.  Edge-triggered: it
\* leaves the ready list, and comes back only with the next write.
PollWake == /\ pc = "poll"
            /\ wakefd /\ wakeEdge
            /\ wakeEdge' = FALSE
            /\ \E other \in SUBSET {"io"} : ready' = {"wake"} \cup other
            /\ pc' = "handle"
            /\ UNCHANGED <<pendingFunctors, tmp_list, wakefd, quit, caller, executed>>

\* epoll_wait returns without wakeChannel_: it was not ready, or MAX_EVENTS
\* others came before it and it stays on the ready list.
PollIo == /\ pc = "poll"
          /\ ready' = {"io"}
          /\ pc' = "handle"
          /\ UNCHANGED <<pendingFunctors, tmp_list, wakefd, wakeEdge, quit, caller, executed>>

\* wakeChannel_'s read callback: ::read resets the counter.
HandleWake == /\ pc = "handle"
              /\ "wake" \in ready
              /\ ready' = ready \ {"wake"}
              /\ wakefd' = FALSE
              /\ UNCHANGED <<pendingFunctors, tmp_list, wakeEdge, quit, pc, caller, executed>>

\* handleEvent of another channel enters its callback.
HandleIo == /\ pc = "handle"
            /\ "io" \in ready
            /\ ready' = ready \ {"io"}
            /\ pc' = "io"
            /\ UNCHANGED <<pendingFunctors, tmp_list, wakefd, wakeEdge, quit, caller, executed>>

\* doPendingFunctors, under the lock: tmp_list.swap(pendingFunctors_).
Swap == /\ pc = "handle"
        /\ ready = {}
        /\ tmp_list' = pendingFunctors
        /\ pendingFunctors' = <<>>
        /\ pc' = "run"
        /\ UNCHANGED <<wakefd, wakeEdge, quit, ready, caller, executed>>

\* for (auto& cb : tmp_list) cb(): the functor of quit() sets quit_ and
\* returns, any other is user code.
RunFunctor == /\ pc = "run"
              /\ tmp_list # <<>>
              /\ executed' = Append(executed, Head(tmp_list))
              /\ tmp_list' = Tail(tmp_list)
              /\ IF Head(tmp_list) \in QuitFunctors
                   THEN quit' = TRUE /\ pc' = "run"
                   ELSE pc' = "functor" /\ UNCHANGED quit
              /\ UNCHANGED <<pendingFunctors, wakefd, wakeEdge, ready, caller>>

EndBatch == /\ pc = "run"
            /\ tmp_list = <<>>
            /\ pc' = "test"
            /\ UNCHANGED <<pendingFunctors, tmp_list, wakefd, wakeEdge, quit, ready, caller, executed>>

-----------------------------------------------------------------------------
(* User code on the loop's thread, in a channel's callback or a functor.   *)

InUserCode == pc \in {"io", "functor"}

\* queueFunctor on the loop's own thread: queued for the next turn of the
\* loop.  Lock, push and write are one step: no other thread tells them apart,
\* because only this thread polls and swaps.
LocalQueue(f) == /\ InUserCode
                 /\ f \in Fresh \ QuitFunctors
                 /\ pendingFunctors' = Append(pendingFunctors, f)
                 /\ Wake
                 /\ UNCHANGED <<tmp_list, quit, pc, ready, caller, executed>>

\* callOrQueue on the loop's own thread: cb() inline, ahead of the queue.
LocalCall(f) == /\ InUserCode
                /\ f \in Fresh \ QuitFunctors
                /\ executed' = Append(executed, f)
                /\ UNCHANGED <<pendingFunctors, tmp_list, wakefd, wakeEdge, quit, pc, ready, caller>>

\* quit() on the loop's own thread: quit_ = true inline, then wake().
LocalQuit(f) == /\ InUserCode
                /\ f \in Fresh \cap QuitFunctors
                /\ executed' = Append(executed, f)
                /\ quit' = TRUE
                /\ Wake
                /\ UNCHANGED <<pendingFunctors, tmp_list, pc, ready, caller>>

\* The callback returns: to the ready channels, or to the batch.
Return == /\ InUserCode
          /\ pc' = IF pc = "io" THEN "handle" ELSE "run"
          /\ UNCHANGED <<pendingFunctors, tmp_list, wakefd, wakeEdge, quit, ready, caller, executed>>

-----------------------------------------------------------------------------
(* The other threads.                                                      *)

\* callOrQueue or queueFunctor: push under the lock; wake() is yet to come.
\* quit() calls wake() a second time.
CallerPush(t, f) == /\ caller[t] = 0
                    /\ f \in Fresh
                    /\ pendingFunctors' = Append(pendingFunctors, f)
                    /\ caller' = [caller EXCEPT ![t] = IF f \in QuitFunctors THEN 2 ELSE 1]
                    /\ UNCHANGED <<tmp_list, wakefd, wakeEdge, quit, pc, ready, executed>>

CallerWake(t) == /\ caller[t] > 0
                 /\ caller' = [caller EXCEPT ![t] = @ - 1]
                 /\ Wake
                 /\ UNCHANGED <<pendingFunctors, tmp_list, quit, pc, ready, executed>>

-----------------------------------------------------------------------------
\* What the loop's thread does once it can; user code calls nothing it need
\* not call, and no event of another channel need ever come.
LoopStep == \/ Test \/ PollWake \/ HandleWake \/ HandleIo \/ Swap
            \/ RunFunctor \/ EndBatch \/ Return

UserStep == \E f \in Functors : LocalQueue(f) \/ LocalCall(f) \/ LocalQuit(f)

CallerStep(t) == CallerWake(t) \/ \E f \in Functors : CallerPush(t, f)

Next == \/ LoopStep \/ PollIo \/ UserStep
        \/ \E t \in Callers : CallerStep(t)

Spec == Init /\ [][Next]_vars

\* The scheduler runs every thread that can run; callbacks return.
Fairness == WF_vars(LoopStep) /\ \A t \in Callers : WF_vars(CallerWake(t))

FairSpec == Spec /\ Fairness

-----------------------------------------------------------------------------
\* EventLoop.cc 67-104: a functor left in the queue when the loop is about to
\* block in epoll_wait, or has yet to get there, has an edge of the eventfd
\* waiting for the loop, or a thread that still owes the write.  Without it the
\* loop sleeps in epoll_wait(-1) over a queued functor.
NoLostWakeup ==
    pendingFunctors # <<>> /\ pc \in {"run", "functor", "test", "poll"}
      => (wakefd /\ wakeEdge) \/ \E t \in Callers : caller[t] > 0

\* EventLoop.cc 49-54: the read of the eventfd that a ready wakeChannel_ leads
\* to never finds the counter at zero (it would be logged as an error), however
\* the writes of other threads fall between the poll and the read.
WakeReadFindsCount == "wake" \in ready => wakefd

\* EventLoop.cc 21-31, 82-104: seen from outside, the batch being run and the
\* queue of the next one are a single FIFO queue: every functor runs once, in
\* the order of the pushes, none after loop() has returned, and loop() returns
\* only after a quit().
FQ == INSTANCE FunctorQueue WITH queue   <- tmp_list \o pendingFunctors,
                                 stopped <- (pc = "exited")
ImplementsFunctorQueue == FQ!Spec

\* EventLoop.cc 82-104: a functor in the queue runs without any further event,
\* unless the loop stops first.
EveryFunctorRuns ==
    \A f \in Functors :
      f \in Range(pendingFunctors) ~> (f \in Range(executed) \/ pc = "exited")

\* EventLoop.cc 61-65: after a quit() from any thread, the loop returns, also
\* when it was blocked in epoll_wait and no other event ever comes.
QuitStopsLoop ==
    (\E f \in QuitFunctors : f \in Range(pendingFunctors) \cup Range(executed)) ~> (pc = "exited")

=============================================================================
