---------------------------- MODULE ThreadQueueMC ----------------------------
(***************************************************************************)
(* ThreadQueue on three threads and three items: enough for two takers, or *)
(* a taker and a producer, to wait while a third thread signals.           *)
(***************************************************************************)
EXTENDS ThreadQueue

AroundTheHead == {-2, 0, 1}

=============================================================================
