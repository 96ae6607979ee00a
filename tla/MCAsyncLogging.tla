---------------------------- MODULE MCAsyncLogging ----------------------------
(* Five lines over buffers of two: enough for a third buffer to be          *)
(* allocated while the thread is writing.                                    *)
EXTENDS AsyncLogging
=============================================================================
