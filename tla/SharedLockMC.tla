---------------------------- MODULE SharedLockMC ----------------------------
(***************************************************************************)
(* SharedLock on three threads and two locks, x locked up to twice by a    *)
(* thread and waited on, y locked once and used with the condition x.      *)
(***************************************************************************)
EXTENDS SharedLock

CONSTANTS x, y

TwiceX == [v \in Vars |-> IF v = x THEN 2 ELSE 1]
OnceEach == [v \in Vars |-> 1]

=============================================================================
