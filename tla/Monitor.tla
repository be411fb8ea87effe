------------------------------ MODULE Monitor ------------------------------
(***************************************************************************)
(* What threads::shared promises of lock(), cond_wait() and the end of a   *)
(* lock's scope (dist/threads-shared/lib/threads/shared.pm, lock and       *)
(* cond_wait), with nothing of how shared.xs does it: no mutex, no         *)
(* condition variable, no queue of blocked threads.                        *)
(*                                                                         *)
(* A shared variable is held by at most one thread, which may lock it      *)
(* again in nested scopes; waiting gives the variable up whole, however    *)
(* often it was locked, and a waiting thread goes on only when it holds    *)
(* the variable again at the depth it gave up.                             *)
(***************************************************************************)
EXTENDS Naturals

CONSTANTS Threads,   \* the perl interpreters, one per ithread
          Vars,      \* the shared variables in use as locks
          NoThread,  \* the holder of a variable nobody has locked
          NoVar      \* what a thread outside cond_wait waits for

VARIABLES holder,    \* holder[v]: the thread that holds v, or NoThread
          depth,     \* depth[t][v]: the scopes of t that locked v and are open
          waiting    \* waiting[t]: the variable t gave up to wait, or NoVar

mvars == <<holder, depth, waiting>>

Init == /\ holder = [v \in Vars |-> NoThread]
        /\ depth = [t \in Threads |-> [v \in Vars |-> 0]]
        /\ waiting = [t \in Threads |-> NoVar]

\* lock($v): first lock, or one more level of a lock already held.
Acquire(t, v) == /\ waiting[t] = NoVar
                 /\ holder[v] \in {NoThread, t}
                 /\ holder' = [holder EXCEPT ![v] = t]
                 /\ depth' = [depth EXCEPT ![t][v] = @ + 1]
                 /\ UNCHANGED waiting

\* The end of a scope that locked v: the last one lets v go.
Leave(t, v) == /\ waiting[t] = NoVar
               /\ holder[v] = t
               /\ depth' = [depth EXCEPT ![t][v] = @ - 1]
               /\ holder' = IF depth[t][v] = 1
                            THEN [holder EXCEPT ![v] = NoThread] ELSE holder
               /\ UNCHANGED waiting

\* cond_wait: gives v up at every depth at once, and keeps the depth in mind.
Wait(t, v) == /\ waiting[t] = NoVar
              /\ holder[v] = t
              /\ holder' = [holder EXCEPT ![v] = NoThread]
              /\ waiting' = [waiting EXCEPT ![t] = v]
              /\ UNCHANGED depth

\* The return from cond_wait: only with v held again.
Resume(t, v) == /\ waiting[t] = v
                /\ holder[v] = NoThread
                /\ holder' = [holder EXCEPT ![v] = t]
                /\ waiting' = [waiting EXCEPT ![t] = NoVar]
                /\ UNCHANGED depth

Next == \E t \in Threads, v \in Vars :
            Acquire(t, v) \/ Leave(t, v) \/ Wait(t, v) \/ Resume(t, v)

Spec == Init /\ [][Next]_mvars

=============================================================================
