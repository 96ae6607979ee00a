----------------------------- MODULE MCEventLoop -----------------------------
(* Two foreign threads, three functors and a quit(): enough for a push to    *)
(* fall into every window between the poll, the read, the swap and the next  *)
(* poll while another push is under way.                                     *)
EXTENDS EventLoop

CONSTANTS t1, t2, f1, f2, f3, q1

MCCallers == {t1, t2}
MCFunctors == {f1, f2, f3, q1}
MCQuitFunctors == {q1}

=============================================================================
