----------------------------- MODULE LifetimesMC -----------------------------
(***************************************************************************)
(* What is counted and freed, in one run: the ithread structures of threads *)
(* and their interpreters, and the SVs of an interpreter.  The two share no *)
(* state, and a behaviour is one of either, the other staying as it started. *)
(***************************************************************************)
EXTENDS IThreads, SvHeap, TLC

CONSTANTS s1, s2, s3,      \* the SVs
          P1, P2           \* the packages with a DESTROY

VARIABLE part              \* the part that runs

\* An object that changes its class, and two plain scalars.
Blessings == [s \in Svs |-> CASE s = s1 -> {P1, P2} [] OTHER -> {}]

\* The plain scalars may change places.
Symmetry == Permutations({s2, s3})

LifetimesInit == part \in {"threads", "svs"} /\ Init /\ SvInit

LifetimesNext == /\ UNCHANGED part
                 /\ \/ part = "threads" /\ UNCHANGED SvVars /\ Next
                    \/ part = "svs" /\ UNCHANGED vars /\ SvNext

LifetimesSpec == LifetimesInit /\ [][LifetimesNext]_<<part, vars, SvVars>>
=============================================================================
