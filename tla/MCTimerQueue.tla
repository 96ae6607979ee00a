---------------------------- MODULE MCTimerQueue ----------------------------
(* A repeating timer and two that run once, added up to one unit ahead, so  *)
(* that they expire in one batch, in different ones, or are added and       *)
(* cancelled while a batch runs.                                            *)
EXTENDS TimerQueue

MCInterval == <<2, 0, 0>>

=============================================================================
