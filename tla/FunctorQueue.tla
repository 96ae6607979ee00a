---------------------------- MODULE FunctorQueue ----------------------------
(***************************************************************************)
(* What an EventLoop promises to the code that hands functors to it: they  *)
(* run on the loop's thread, one at a time, in the order in which they     *)
(* were queued, each of them once, and none after the loop has stopped.    *)
(* The loop stops only after the functor of a quit() has run.  A functor   *)
(* handed over on the loop's own thread by callOrQueue runs at once and    *)
(* overtakes everything in the queue.                                      *)
(***************************************************************************)
EXTENDS Naturals, Sequences, Functions

CONSTANTS Functors,       \* the std::function objects ever handed over
          QuitFunctors    \* those that quit() makes: they set quit_

VARIABLES queue,      \* handed over and not yet run, oldest first
          executed,   \* run so far, in the order they ran
          stopped     \* loop() has returned

vars == <<queue, executed, stopped>>

Init == /\ queue = <<>>
        /\ executed = <<>>
        /\ stopped = FALSE

\* A functor object is handed over at most once.
Fresh == Functors \ (Range(queue) \cup Range(executed))

\* Accepted even when the loop has stopped; then it never runs.
Submit(f) == /\ f \in Fresh
             /\ queue' = Append(queue, f)
             /\ UNCHANGED <<executed, stopped>>

RunNow(f) == /\ ~stopped
             /\ f \in Fresh
             /\ executed' = Append(executed, f)
             /\ UNCHANGED <<queue, stopped>>

RunOldest == /\ ~stopped
             /\ queue # <<>>
             /\ executed' = Append(executed, Head(queue))
             /\ queue' = Tail(queue)
             /\ UNCHANGED stopped

Stop == /\ ~stopped
        /\ QuitFunctors \cap Range(executed) # {}
        /\ stopped' = TRUE
        /\ UNCHANGED <<queue, executed>>

Next == \/ \E f \in Functors : Submit(f) \/ RunNow(f)
        \/ RunOldest
        \/ Stop

Spec == Init /\ [][Next]_vars

=============================================================================
