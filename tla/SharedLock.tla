----------------------------- MODULE SharedLock -----------------------------
(***************************************************************************)
(* User-level locks and condition variables of threads::shared,            *)
(* dist/threads-shared/shared.xs: recursive_lock_t, user_lock, lock(),     *)
(* cond_wait(), cond_timedwait(), cond_signal() and cond_broadcast().      *)
(*                                                                         *)
(* Every shared variable v has a user_lock: a pthread mutex ul->lock.mutex *)
(* that guards the fields owner and locks, a condition variable            *)
(* ul->lock.cond for those who want the lock, and a second one             *)
(* ul->user_cond for cond_wait.  A region between MUTEX_LOCK and           *)
(* MUTEX_UNLOCK or COND_WAIT is one step.  COND_WAIT is two: the one that  *)
(* blocks, and, once the thread is woken, the one that has the mutex back. *)
(* Pthreads lets either condition variable wake a thread for no reason.    *)
(***************************************************************************)
EXTENDS Naturals, FiniteSets

CONSTANTS Threads,    \* the perl interpreters, one per ithread
          Vars,       \* the shared variables used as locks
          Conds,      \* those used as conditions, the locks themselves or others
          NoThread,   \* a null owner
          NoVar,      \* a thread that blocks on no variable
          MaxDepth,   \* bound: MaxDepth[v] nested scopes of a thread lock v
          AbsTimes    \* the kinds of time given to cond_timedwait

ASSUME LockAssumption == /\ NoThread \notin Threads
                         /\ NoVar \notin Vars \cup Conds
                         /\ MaxDepth \in [Vars -> Nat \ {0}]
                         /\ AbsTimes \subseteq {"valid", "invalid"}

VARIABLES
  owner,     \* owner[v]: ul->lock.owner
  locks,     \* locks[v]: ul->lock.locks
  abandoned, \* abandoned[v]: the thread that left ul->lock.mutex locked
  held,      \* held[t][v]: recursive_lock_release calls on t's savestack
  pc,        \* where t is: running, or in which COND_WAIT
  lockvar,   \* lockvar[t]: the variable whose mutex t gave to COND_WAIT
  condvar,   \* condvar[t]: the variable whose user_cond t waits for
  saved,     \* saved[t]: cond_wait's local copy of ul->lock.locks
  timed,     \* timed[t]: the wait has a time limit
  woken      \* woken[t]: t's COND_WAIT is satisfied, t has yet to run

vars == <<owner, locks, abandoned, held, pc, lockvar, condvar, saved, timed, woken>>

\* "acquire" and "relock" block on lock.cond, "cond" on user_cond.
Places == {"running", "acquire", "cond", "relock"}

Blocked(place, t, v) == pc[t] = place /\ lockvar[t] = v

\* The threads a COND_SIGNAL of v's lock.cond may wake.
LockSleepers(v) == {t \in Threads : /\ Blocked("acquire", t, v) \/ Blocked("relock", t, v)
                                    /\ ~woken[t]}
\* The threads a COND_SIGNAL of c's user_cond may wake.
CondSleepers(c) == {t \in Threads : pc[t] = "cond" /\ condvar[t] = c /\ ~woken[t]}

Wake(w, some) == [t \in Threads |-> w[t] \/ t \in some]

\* COND_SIGNAL: wakes one sleeper, and is discarded when there is none.
SignalOne(w, sleepers) == IF sleepers = {} THEN woken' = w
                          ELSE \E s \in sleepers : woken' = Wake(w, {s})

\* MUTEX_LOCK of ul->lock.mutex goes through only if nobody left it locked.
MutexFree(v) == abandoned[v] = NoThread

Init == /\ owner = [v \in Vars |-> NoThread]
        /\ locks = [v \in Vars |-> 0]
        /\ abandoned = [v \in Vars |-> NoThread]
        /\ held = [t \in Threads |-> [v \in Vars |-> 0]]
        /\ pc = [t \in Threads |-> "running"]
        /\ lockvar = [t \in Threads |-> NoVar]
        /\ condvar = [t \in Threads |-> NoVar]
        /\ saved = [t \in Threads |-> 0]
        /\ timed = [t \in Threads |-> FALSE]
        /\ woken = [t \in Threads |-> FALSE]

-----------------------------------------------------------------------------
(* lock() and the end of its scope *)

\* recursive_lock_acquire by a thread that has the lock: one more level.
LockAgain(t, v) == /\ pc[t] = "running" /\ MutexFree(v)
                   /\ owner[v] = t
                   /\ held[t][v] < MaxDepth[v]
                   /\ locks' = [locks EXCEPT ![v] = @ + 1]
                   /\ held' = [held EXCEPT ![t][v] = @ + 1]
                   /\ UNCHANGED <<owner, abandoned, pc, lockvar, condvar, saved, timed, woken>>

\* What a thread does that finds the lock free in recursive_lock_acquire.
TakeFirst(t, v) == /\ owner[v] = NoThread
                   /\ owner' = [owner EXCEPT ![v] = t]
                   /\ locks' = [locks EXCEPT ![v] = 1]
                   /\ held' = [held EXCEPT ![t][v] = @ + 1]

\* recursive_lock_acquire of a free lock.
LockFree(t, v) == /\ pc[t] = "running" /\ MutexFree(v)
                  /\ TakeFirst(t, v)
                  /\ UNCHANGED <<abandoned, pc, lockvar, condvar, saved, timed, woken>>

\* recursive_lock_acquire of another thread's lock: into COND_WAIT.
LockBlocks(t, v) == /\ pc[t] = "running" /\ MutexFree(v)
                    /\ owner[v] \notin {NoThread, t}
                    /\ pc' = [pc EXCEPT ![t] = "acquire"]
                    /\ lockvar' = [lockvar EXCEPT ![t] = v]
                    /\ woken' = [woken EXCEPT ![t] = FALSE]
                    /\ UNCHANGED <<owner, locks, abandoned, held, condvar, saved, timed>>

LockWakesUnchecked(t) ==   \* mutant: if for while
    /\ pc[t] = "acquire" /\ woken[t] /\ MutexFree(lockvar[t])
    /\ woken' = [woken EXCEPT ![t] = FALSE]
    /\ owner' = [owner EXCEPT ![lockvar[t]] = t]
    /\ locks' = [locks EXCEPT ![lockvar[t]] = 1]
    /\ held' = [held EXCEPT ![t][lockvar[t]] = @ + 1]
    /\ pc' = [pc EXCEPT ![t] = "running"]
    /\ lockvar' = [lockvar EXCEPT ![t] = NoVar]
    /\ UNCHANGED <<abandoned, condvar, saved, timed>>

\* Back from that COND_WAIT: the loop looks at the owner again.
LockWakes(t) ==
    LET v == lockvar[t] IN
    /\ pc[t] = "acquire" /\ woken[t] /\ MutexFree(v)
    /\ woken' = [woken EXCEPT ![t] = FALSE]
    /\ \/ /\ TakeFirst(t, v)
          /\ pc' = [pc EXCEPT ![t] = "running"]
          /\ lockvar' = [lockvar EXCEPT ![t] = NoVar]
       \/ /\ owner[v] # NoThread
          /\ UNCHANGED <<owner, locks, held, pc, lockvar>>
    /\ UNCHANGED <<abandoned, condvar, saved, timed>>

ReleaseAll(t, v) ==   \* mutant: an inner scope's end opens the lock
    /\ pc[t] = "running" /\ MutexFree(v)
    /\ held[t][v] > 0
    /\ held' = [held EXCEPT ![t][v] = @ - 1]
    /\ locks' = [locks EXCEPT ![v] = 0]
    /\ owner' = [owner EXCEPT ![v] = NoThread]
    /\ SignalOne(woken, LockSleepers(v))
    /\ UNCHANGED <<abandoned, pc, lockvar, condvar, saved, timed>>

ReleaseSilently(t, v) ==   \* mutant: no COND_SIGNAL
    /\ pc[t] = "running" /\ MutexFree(v)
    /\ held[t][v] > 0
    /\ held' = [held EXCEPT ![t][v] = @ - 1]
    /\ locks' = [locks EXCEPT ![v] = @ - 1]
    /\ owner' = IF locks[v] = 1 THEN [owner EXCEPT ![v] = NoThread] ELSE owner
    /\ UNCHANGED <<abandoned, pc, lockvar, condvar, saved, timed, woken>>

\* recursive_lock_release, run by the savestack as a scope that locked v ends.
Release(t, v) == /\ pc[t] = "running" /\ MutexFree(v)
                 /\ held[t][v] > 0
                 /\ held' = [held EXCEPT ![t][v] = @ - 1]
                 /\ \/ /\ owner[v] = t /\ locks[v] = 1
                       /\ locks' = [locks EXCEPT ![v] = 0]
                       /\ owner' = [owner EXCEPT ![v] = NoThread]
                       /\ SignalOne(woken, LockSleepers(v))
                    \/ /\ owner[v] = t /\ locks[v] # 1
                       /\ locks' = [locks EXCEPT ![v] = @ - 1]
                       /\ UNCHANGED <<owner, woken>>
                    \/ /\ owner[v] # t
                       /\ UNCHANGED <<owner, locks, woken>>
                 /\ UNCHANGED <<abandoned, pc, lockvar, condvar, saved, timed>>

-----------------------------------------------------------------------------
(* cond_wait(c, v) and cond_timedwait(c, time, v): c = v in the short form *)

\* The lock is let go whole and lock.cond is signalled, under the mutex.
GiveUpSilently(t, v) == /\ pc[t] = "running" /\ MutexFree(v)   \* mutant: no COND_SIGNAL
                        /\ owner[v] = t
                        /\ owner' = [owner EXCEPT ![v] = NoThread]
                        /\ locks' = [locks EXCEPT ![v] = 0]
                        /\ UNCHANGED <<held, woken>>

GiveUp(t, v) == /\ pc[t] = "running" /\ MutexFree(v)
                /\ owner[v] = t       \* else it croaks: You need a lock ...
                /\ owner' = [owner EXCEPT ![v] = NoThread]
                /\ locks' = [locks EXCEPT ![v] = 0]
                /\ SignalOne(woken, LockSleepers(v))
                /\ UNCHANGED held

CondWaitSavesOne(t, c, v, limit) ==   \* mutant: the depth is forgotten
    /\ GiveUp(t, v)
    /\ limit => "valid" \in AbsTimes
    /\ saved' = [saved EXCEPT ![t] = 1]
    /\ pc' = [pc EXCEPT ![t] = "cond"]
    /\ lockvar' = [lockvar EXCEPT ![t] = v]
    /\ condvar' = [condvar EXCEPT ![t] = c]
    /\ timed' = [timed EXCEPT ![t] = limit]
    /\ UNCHANGED abandoned

CondWait(t, c, v, limit) == /\ GiveUp(t, v)
                            /\ limit => "valid" \in AbsTimes
                            /\ saved' = [saved EXCEPT ![t] = locks[v]]
                            /\ pc' = [pc EXCEPT ![t] = "cond"]
                            /\ lockvar' = [lockvar EXCEPT ![t] = v]
                            /\ condvar' = [condvar EXCEPT ![t] = c]
                            /\ timed' = [timed EXCEPT ![t] = limit]
                            /\ UNCHANGED abandoned

\* pthread_cond_timedwait refuses a time with a negative fraction (EINVAL):
\* the croak leaves with the mutex locked and the lock already given up.
CondTimedwaitPanics(t, v) == /\ "invalid" \in AbsTimes
                             /\ GiveUp(t, v)
                             /\ abandoned' = [abandoned EXCEPT ![v] = t]
                             /\ UNCHANGED <<pc, lockvar, condvar, saved, timed>>

RelockLosesDepth(t, v) ==   \* mutant: ul->lock.locks is not restored
    /\ owner[v] = NoThread
    /\ owner' = [owner EXCEPT ![v] = t]
    /\ woken' = [woken EXCEPT ![t] = FALSE]
    /\ condvar' = [condvar EXCEPT ![t] = NoVar]
    /\ timed' = [timed EXCEPT ![t] = FALSE]
    /\ saved' = [saved EXCEPT ![t] = 0]
    /\ pc' = [pc EXCEPT ![t] = "running"]
    /\ lockvar' = [lockvar EXCEPT ![t] = NoVar]
    /\ UNCHANGED <<abandoned, held, locks>>

\* The while loop of cond_wait: the lock is free, or wait for it on lock.cond.
Relock(t, v) ==
    /\ woken' = [woken EXCEPT ![t] = FALSE]
    /\ condvar' = [condvar EXCEPT ![t] = NoVar]
    /\ timed' = [timed EXCEPT ![t] = FALSE]
    /\ \/ /\ owner[v] = NoThread
          /\ owner' = [owner EXCEPT ![v] = t]
          /\ locks' = [locks EXCEPT ![v] = saved[t]]
          /\ saved' = [saved EXCEPT ![t] = 0]
          /\ pc' = [pc EXCEPT ![t] = "running"]
          /\ lockvar' = [lockvar EXCEPT ![t] = NoVar]
       \/ /\ owner[v] # NoThread
          /\ pc' = [pc EXCEPT ![t] = "relock"]
          /\ UNCHANGED <<owner, locks, saved, lockvar>>
    /\ UNCHANGED <<abandoned, held>>

\* Back from COND_WAIT on user_cond, signalled or not.
CondWakes(t) == /\ pc[t] = "cond" /\ woken[t] /\ MutexFree(lockvar[t])
                /\ Relock(t, lockvar[t])

\* cond_timedwait's time is over before a signal came.
CondTimesOut(t) == /\ pc[t] = "cond" /\ timed[t] /\ ~woken[t] /\ MutexFree(lockvar[t])
                   /\ Relock(t, lockvar[t])

\* Back from COND_WAIT on lock.cond in that loop.
RelockWakes(t) == /\ pc[t] = "relock" /\ woken[t] /\ MutexFree(lockvar[t])
                  /\ Relock(t, lockvar[t])

\* cond_signal and cond_broadcast take no mutex and need no lock (they warn).
CondSignal(t, c) == /\ pc[t] = "running"
                    /\ SignalOne(woken, CondSleepers(c))
                    /\ UNCHANGED <<owner, locks, abandoned, held, pc, lockvar, condvar, saved, timed>>

CondBroadcast(t, c) == /\ pc[t] = "running"
                       /\ woken' = Wake(woken, CondSleepers(c))
                       /\ UNCHANGED <<owner, locks, abandoned, held, pc, lockvar, condvar, saved, timed>>

\* Pthreads may end any COND_WAIT without a signal.
SpuriousWakeup(t) == /\ pc[t] # "running" /\ ~woken[t]
                     /\ woken' = [woken EXCEPT ![t] = TRUE]
                     /\ UNCHANGED <<owner, locks, abandoned, held, pc, lockvar, condvar, saved, timed>>

-----------------------------------------------------------------------------
Step(t) == \/ LockWakes(t) \/ CondWakes(t) \/ CondTimesOut(t) \/ RelockWakes(t)
           \/ SpuriousWakeup(t)
           \/ \E v \in Vars : \/ LockAgain(t, v) \/ LockFree(t, v) \/ LockBlocks(t, v)
                              \/ Release(t, v) \/ CondTimedwaitPanics(t, v)
           \/ \E c \in Conds : \/ CondSignal(t, c) \/ CondBroadcast(t, c)
                              \/ \E v \in Vars, limit \in BOOLEAN : CondWait(t, c, v, limit)

Next == \E t \in Threads : Step(t)

Spec == Init /\ [][Next]_vars

\* The scheduler runs a thread that can run, and scopes end.
Fairness == \A t \in Threads : /\ WF_vars(LockWakes(t)) /\ WF_vars(CondWakes(t))
                               /\ WF_vars(CondTimesOut(t)) /\ WF_vars(RelockWakes(t))
                               /\ \A v \in Vars : WF_vars(Release(t, v))

FairSpec == Spec /\ Fairness

-----------------------------------------------------------------------------
(* Properties *)

TypeOK == /\ owner \in [Vars -> Threads \cup {NoThread}]
          /\ locks \in [Vars -> Nat]
          /\ abandoned \in [Vars -> Threads \cup {NoThread}]
          /\ held \in [Threads -> [Vars -> Nat]]
          /\ pc \in [Threads -> Places]
          /\ lockvar \in [Threads -> Vars \cup {NoVar}]
          /\ condvar \in [Threads -> Conds \cup {NoVar}]
          /\ saved \in [Threads -> Nat]
          /\ timed \in [Threads -> BOOLEAN]
          /\ woken \in [Threads -> BOOLEAN]

Waiting(t, v) == Blocked("cond", t, v) \/ Blocked("relock", t, v)

\* t runs code of a scope that locked v, and has not given v up to wait.
Inside(t, v) == held[t][v] > 0 /\ ~Waiting(t, v)

\* Two threads never both run inside scopes that locked the same variable,
\* through recursion, cond_wait's hand-over, and the panic of
\* cond_timedwait, which leaves its caller inside with the owner cleared.
MutualExclusion == \A v \in Vars : \A t, u \in Threads :
                       Inside(t, v) /\ Inside(u, v) => t = u

\* The counters agree with the scopes: what recursive_lock_release counts
\* down is the number of releases still to come, and cond_wait brings back
\* the depth it gave up.  Otherwise the lock opens early or never.
DepthKept == \A t \in Threads, v \in Vars :
                 /\ Inside(t, v) /\ MutexFree(v) => owner[v] = t /\ locks[v] = held[t][v]
                 /\ Waiting(t, v) => saved[t] = held[t][v] /\ saved[t] > 0

\* No lost wake-up on lock.cond, which lockers and returning waiters share:
\* while the lock is free and somebody blocks on it, one of them is awake.
NoSleeperForgotten ==
    \A v \in Vars :
        LET blocked == {t \in Threads : Blocked("acquire", t, v) \/ Blocked("relock", t, v)}
        IN owner[v] = NoThread /\ blocked # {} => \E t \in blocked : woken[t]

\* What makes MutualExclusion and DepthKept inductive: owner, abandoned and
\* waiting partition the threads with scopes open on v, and agree with locks.
OwnerCoherent == \A v \in Vars : owner[v] # NoThread =>
                     /\ MutexFree(v)
                     /\ locks[v] = held[owner[v]][v] /\ locks[v] > 0
                     /\ ~Waiting(owner[v], v)
AbandonedCoherent == \A v \in Vars : ~MutexFree(v) =>
                         /\ held[abandoned[v]][v] > 0
                         /\ ~Waiting(abandoned[v], v)
WaiterCoherent == \A t \in Threads, v \in Vars :
                      Waiting(t, v) => saved[t] = held[t][v] /\ saved[t] > 0
HeldCoherent == \A t \in Threads, v \in Vars :
                    held[t][v] > 0 => owner[v] = t \/ abandoned[v] = t \/ Waiting(t, v)
BlockedCoherent == \A t \in Threads : pc[t] # "running" => lockvar[t] \in Vars

LockInvariant == /\ TypeOK
                 /\ OwnerCoherent /\ AbandonedCoherent /\ WaiterCoherent
                 /\ HeldCoherent /\ BlockedCoherent

\* A free lock that somebody blocks on is taken in the end.
LockHandedOver ==
    \A v \in Vars :
        (/\ owner[v] = NoThread /\ MutexFree(v)
         /\ \E t \in Threads : Blocked("acquire", t, v) \/ Blocked("relock", t, v))
        ~> (owner[v] # NoThread \/ ~MutexFree(v))

\* A thread that runs inside a lock's scope, nested no further, comes to the
\* end of the scope (shared.pm: locked "until the lock goes out of scope").
ScopesEnd == \A t \in Threads, v \in Vars :
                 []<>(held[t][v] = 0 \/ pc[t] # "running")

\* shared.xs implements the promise of Monitor: a variable's holder is its
\* owner, or the thread that shuts everybody out by keeping the mutex.
M == INSTANCE Monitor WITH
         holder  <- [v \in Vars |-> IF MutexFree(v) THEN owner[v] ELSE abandoned[v]],
         depth   <- held,
         waiting <- [t \in Threads |-> IF pc[t] \in {"cond", "relock"}
                                        THEN lockvar[t] ELSE NoVar]
MonitorSpec == M!Spec

=============================================================================
