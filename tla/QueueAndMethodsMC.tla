-------------------------- MODULE QueueAndMethodsMC --------------------------
(***************************************************************************)
(* Thread::Queue and the method caches, in one run for being the smallest   *)
(* two.  They share no state, and a behaviour is one of either, the other   *)
(* staying as it started.                                                   *)
(***************************************************************************)
EXTENDS ThreadQueueMC, MethodCacheMC

VARIABLE part              \* the part that runs

BothInit == /\ part \in {"queue", "methods"} /\ Init /\ MethodInit
            /\ part = "methods" => queue = <<>> /\ limit = 0

BothNext == /\ UNCHANGED part
            /\ \/ part = "queue" /\ UNCHANGED MethodVars /\ Next
               \/ part = "methods" /\ UNCHANGED vars /\ MethodNext

BothSpec == BothInit /\ [][BothNext]_<<part, vars, MethodVars>> /\ Fairness
=============================================================================
