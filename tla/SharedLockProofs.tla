-------------------------- MODULE SharedLockProofs --------------------------
(***************************************************************************)
(* For any threads, variables and depth: SharedLock keeps its types, its   *)
(* locks exclude each other, its counters follow the open scopes, and no   *)
(* sleeper on lock.cond is forgotten.  LockInvariant is inductive; the     *)
(* other invariants follow from it, or are inductive beside it; and        *)
(* SharedLock implements Monitor.  The last part is Thread::Semaphore.     *)
(***************************************************************************)
EXTENDS Semaphore, TLAPS

\* A signal leaves woken a function from the threads to the Booleans, and
\* wakes only sleepers: what every COND_SIGNAL of the model relies on.
LEMMA SignalOneType ==
    ASSUME NEW S \in SUBSET Threads, TypeOK, SignalOne(woken, S)
    PROVE  woken' \in [Threads -> BOOLEAN]
BY DEF SignalOne, Wake, TypeOK

\* The initial state, in which no variable is locked, satisfies the invariant.
LEMMA InitInvariant == Init => LockInvariant
<1> SUFFICES ASSUME Init PROVE LockInvariant
    OBVIOUS
<1> USE LockAssumption DEF Init
<1>1. TypeOK
    BY DEF TypeOK, Places
<1>2. \A t \in Threads, v \in Vars : ~Waiting(t, v)
    BY DEF Waiting, Blocked
<1>3. OwnerCoherent /\ AbandonedCoherent
    BY DEF OwnerCoherent, AbandonedCoherent, MutexFree
<1>4. WaiterCoherent /\ HeldCoherent /\ BlockedCoherent
    BY <1>2 DEF WaiterCoherent, HeldCoherent, BlockedCoherent
<1> QED
    BY <1>1, <1>3, <1>4 DEF LockInvariant

\* Every step keeps the types (the proof relies on BlockedCoherent for the
\* variable a blocked thread takes, and on OwnerCoherent for the countdown).
LEMMA TypeStep == LockInvariant /\ [Next]_vars => TypeOK'
<1> SUFFICES ASSUME LockInvariant, [Next]_vars PROVE TypeOK'
    OBVIOUS
<1> USE LockAssumption DEF TypeOK, Places
<1>0. TypeOK /\ BlockedCoherent /\ OwnerCoherent
    BY DEF LockInvariant
<1>1. ASSUME NEW t \in Threads, NEW v \in Vars, LockAgain(t, v) PROVE TypeOK'
    BY <1>0, <1>1 DEF LockAgain
<1>2. ASSUME NEW t \in Threads, NEW v \in Vars, LockFree(t, v) PROVE TypeOK'
    BY <1>0, <1>2 DEF LockFree, TakeFirst
<1>3. ASSUME NEW t \in Threads, NEW v \in Vars, LockBlocks(t, v) PROVE TypeOK'
    BY <1>0, <1>3 DEF LockBlocks
<1>4. ASSUME NEW t \in Threads, LockWakes(t) PROVE TypeOK'
  <2>1. lockvar[t] \in Vars
      BY <1>0, <1>4 DEF LockWakes, BlockedCoherent
  <2>2. ASSUME NEW v \in Vars, TakeFirst(t, v)
        PROVE  /\ owner' \in [Vars -> Threads \cup {NoThread}]
               /\ locks' \in [Vars -> Nat]
               /\ held' \in [Threads -> [Vars -> Nat]]
      BY <1>0, <2>2 DEF TakeFirst
  <2>3. CASE TakeFirst(t, lockvar[t])
    <3>1. /\ owner' \in [Vars -> Threads \cup {NoThread}]
          /\ locks' \in [Vars -> Nat]
          /\ held' \in [Threads -> [Vars -> Nat]]
        BY <2>1, <2>2, <2>3
    <3> QED
        BY <1>0, <1>4, <3>1 DEF LockWakes
  <2>4. CASE UNCHANGED <<owner, locks, held, pc, lockvar>>
      BY <1>0, <1>4, <2>4 DEF LockWakes
  <2> QED
      BY <1>4, <2>3, <2>4 DEF LockWakes
<1>5. ASSUME NEW t \in Threads, NEW v \in Vars, Release(t, v) PROVE TypeOK'
  <2>1. woken' \in [Threads -> BOOLEAN]
      BY <1>0, <1>5, SignalOneType DEF Release, LockSleepers
  <2>2. held' \in [Threads -> [Vars -> Nat]]
      BY <1>0, <1>5 DEF Release
  <2>3. locks' \in [Vars -> Nat]
      BY <1>0, <1>5 DEF Release, OwnerCoherent
  <2> QED
      BY <1>0, <1>5, <2>1, <2>2, <2>3 DEF Release
<1>6. ASSUME NEW t \in Threads, NEW v \in Vars, GiveUp(t, v)
      PROVE  /\ owner' \in [Vars -> Threads \cup {NoThread}]
             /\ locks' \in [Vars -> Nat]
             /\ woken' \in [Threads -> BOOLEAN]
             /\ held' \in [Threads -> [Vars -> Nat]]
    BY <1>0, <1>6, SignalOneType DEF GiveUp, LockSleepers
<1>7. ASSUME NEW t \in Threads, NEW c \in Conds, NEW v \in Vars, NEW limit \in BOOLEAN,
             CondWait(t, c, v, limit)
      PROVE  TypeOK'
    BY <1>0, <1>6, <1>7 DEF CondWait
<1>8. ASSUME NEW t \in Threads, NEW v \in Vars, CondTimedwaitPanics(t, v) PROVE TypeOK'
    BY <1>0, <1>6, <1>8 DEF CondTimedwaitPanics
<1>9. ASSUME NEW t \in Threads, pc[t] # "running", Relock(t, lockvar[t]) PROVE TypeOK'
  <2>1. lockvar[t] \in Vars
      BY <1>0, <1>9 DEF BlockedCoherent
  <2>2. ASSUME NEW v \in Vars, Relock(t, v) PROVE TypeOK'
    <3>1. /\ woken' \in [Threads -> BOOLEAN] /\ timed' \in [Threads -> BOOLEAN]
          /\ condvar' \in [Threads -> Conds \cup {NoVar}]
        BY <1>0, <2>2 DEF Relock
    <3>2. /\ owner' \in [Vars -> Threads \cup {NoThread}]
          /\ locks' \in [Vars -> Nat] /\ saved' \in [Threads -> Nat]
      <4>1. saved[t] \in Nat
          BY <1>0
      <4>2. CASE /\ owner' = [owner EXCEPT ![v] = t]
                 /\ locks' = [locks EXCEPT ![v] = saved[t]]
                 /\ saved' = [saved EXCEPT ![t] = 0]
          BY <1>0, <4>1, <4>2
      <4>3. CASE UNCHANGED <<owner, locks, saved>>
          BY <1>0, <4>3
      <4> QED
          BY <2>2, <4>2, <4>3 DEF Relock
    <3>3. /\ pc' \in [Threads -> Places]
          /\ lockvar' \in [Threads -> Vars \cup {NoVar}]
        BY <1>0, <2>2 DEF Relock
    <3> QED
        BY <1>0, <2>2, <3>1, <3>2, <3>3 DEF Relock
  <2> QED
      BY <1>9, <2>1, <2>2
<1>10. ASSUME NEW t \in Threads, CondWakes(t) \/ CondTimesOut(t) \/ RelockWakes(t)
       PROVE  TypeOK'
    BY <1>9, <1>10 DEF CondWakes, CondTimesOut, RelockWakes
<1>11. ASSUME NEW t \in Threads, NEW c \in Conds, CondSignal(t, c) PROVE TypeOK'
    BY <1>0, <1>11, SignalOneType DEF CondSignal, CondSleepers
<1>12. ASSUME NEW t \in Threads, NEW c \in Conds, CondBroadcast(t, c) PROVE TypeOK'
    BY <1>0, <1>12 DEF CondBroadcast, CondSleepers, Wake
<1>13. ASSUME NEW t \in Threads, SpuriousWakeup(t) PROVE TypeOK'
    BY <1>0, <1>13 DEF SpuriousWakeup
<1>14. CASE UNCHANGED vars
    BY <1>0, <1>14 DEF vars
<1> HIDE DEF TypeOK, Places
<1> QED
    BY <1>1, <1>2, <1>3, <1>4, <1>5, <1>7, <1>8, <1>10, <1>11, <1>12, <1>13, <1>14
       DEF Next, Step

\* LockInvariant without the types.
Coherent == /\ OwnerCoherent /\ AbandonedCoherent /\ WaiterCoherent
            /\ HeldCoherent /\ BlockedCoherent

\* Every step keeps the agreement of owner, abandoned and the waiters with
\* the open scopes.
LEMMA CoherentStep == LockInvariant /\ [Next]_vars => Coherent'
<1> SUFFICES ASSUME LockInvariant, [Next]_vars PROVE Coherent'
    OBVIOUS
<1> USE LockAssumption DEF TypeOK, Places, Waiting, Blocked, MutexFree
<1>0. /\ TypeOK /\ OwnerCoherent /\ AbandonedCoherent /\ WaiterCoherent
      /\ HeldCoherent /\ BlockedCoherent
    BY DEF LockInvariant
<1>1. ASSUME NEW t \in Threads, NEW v \in Vars, LockAgain(t, v)
      PROVE  Coherent'
  <2>1. OwnerCoherent'
      BY <1>0, <1>1 DEF LockAgain, OwnerCoherent
  <2>2. AbandonedCoherent'
      BY <1>0, <1>1 DEF LockAgain, AbandonedCoherent, OwnerCoherent
  <2>3. WaiterCoherent'
      BY <1>0, <1>1 DEF LockAgain, WaiterCoherent, OwnerCoherent
  <2>4. HeldCoherent'
      BY <1>0, <1>1 DEF LockAgain, HeldCoherent, OwnerCoherent, AbandonedCoherent
  <2>5. BlockedCoherent'
      BY <1>0, <1>1 DEF LockAgain, BlockedCoherent
  <2> QED
      BY <2>1, <2>2, <2>3, <2>4, <2>5 DEF Coherent
<1>2. ASSUME NEW t \in Threads, NEW v \in Vars, LockFree(t, v)
      PROVE  Coherent'
  <2>1. OwnerCoherent'
      BY <1>0, <1>2 DEF LockFree, TakeFirst, OwnerCoherent, HeldCoherent
  <2>2. AbandonedCoherent'
      BY <1>0, <1>2 DEF LockFree, TakeFirst, AbandonedCoherent, OwnerCoherent
  <2>3. WaiterCoherent'
      BY <1>0, <1>2 DEF LockFree, TakeFirst, WaiterCoherent, OwnerCoherent
  <2>4. HeldCoherent'
      BY <1>0, <1>2 DEF LockFree, TakeFirst, HeldCoherent, OwnerCoherent, AbandonedCoherent
  <2>5. BlockedCoherent'
      BY <1>0, <1>2 DEF LockFree, TakeFirst, BlockedCoherent
  <2> QED
      BY <2>1, <2>2, <2>3, <2>4, <2>5 DEF Coherent
<1>3. ASSUME NEW t \in Threads, NEW v \in Vars, LockBlocks(t, v)
      PROVE  Coherent'
  <2>1. OwnerCoherent'
      BY <1>0, <1>3 DEF LockBlocks, OwnerCoherent
  <2>2. AbandonedCoherent'
      BY <1>0, <1>3 DEF LockBlocks, AbandonedCoherent, OwnerCoherent
  <2>3. WaiterCoherent'
      BY <1>0, <1>3 DEF LockBlocks, WaiterCoherent, OwnerCoherent
  <2>4. HeldCoherent'
      BY <1>0, <1>3 DEF LockBlocks, HeldCoherent, OwnerCoherent, AbandonedCoherent
  <2>5. BlockedCoherent'
      BY <1>0, <1>3 DEF LockBlocks, BlockedCoherent
  <2> QED
      BY <2>1, <2>2, <2>3, <2>4, <2>5 DEF Coherent
<1>4. ASSUME NEW t \in Threads, NEW v \in Vars, pc[t] = "acquire", lockvar[t] = v,
             LockWakes(t)
      PROVE  Coherent'
  <2>1. OwnerCoherent'
      BY <1>0, <1>4 DEF LockWakes, TakeFirst, OwnerCoherent, HeldCoherent
  <2>2. AbandonedCoherent'
      BY <1>0, <1>4 DEF LockWakes, TakeFirst, AbandonedCoherent, OwnerCoherent
  <2>3. WaiterCoherent'
      BY <1>0, <1>4 DEF LockWakes, TakeFirst, WaiterCoherent, OwnerCoherent
  <2>4. HeldCoherent'
      BY <1>0, <1>4 DEF LockWakes, TakeFirst, HeldCoherent, OwnerCoherent, AbandonedCoherent
  <2>5. BlockedCoherent'
      BY <1>0, <1>4 DEF LockWakes, TakeFirst, BlockedCoherent
  <2> QED
      BY <2>1, <2>2, <2>3, <2>4, <2>5 DEF Coherent
<1>5. ASSUME NEW t \in Threads, NEW v \in Vars, Release(t, v)
      PROVE  Coherent'
  <2>1. OwnerCoherent'
      BY <1>0, <1>5 DEF Release, OwnerCoherent
  <2>2. AbandonedCoherent'
      BY <1>0, <1>5 DEF Release, AbandonedCoherent, OwnerCoherent
  <2>3. WaiterCoherent'
      BY <1>0, <1>5 DEF Release, WaiterCoherent, OwnerCoherent
  <2>4. HeldCoherent'
      BY <1>0, <1>5 DEF Release, HeldCoherent, OwnerCoherent, AbandonedCoherent
  <2>5. BlockedCoherent'
      BY <1>0, <1>5 DEF Release, BlockedCoherent
  <2> QED
      BY <2>1, <2>2, <2>3, <2>4, <2>5 DEF Coherent
<1>6. ASSUME NEW t \in Threads, NEW v \in Vars, NEW c \in Conds, NEW limit \in BOOLEAN,
             CondWait(t, c, v, limit)
      PROVE  Coherent'
  <2>1. OwnerCoherent'
      BY <1>0, <1>6 DEF CondWait, GiveUp, OwnerCoherent
  <2>2. AbandonedCoherent'
      BY <1>0, <1>6 DEF CondWait, GiveUp, AbandonedCoherent, OwnerCoherent
  <2>3. WaiterCoherent'
      BY <1>0, <1>6 DEF CondWait, GiveUp, WaiterCoherent, OwnerCoherent
  <2>4. HeldCoherent'
      BY <1>0, <1>6 DEF CondWait, GiveUp, HeldCoherent, OwnerCoherent, AbandonedCoherent
  <2>5. BlockedCoherent'
      BY <1>0, <1>6 DEF CondWait, GiveUp, BlockedCoherent
  <2> QED
      BY <2>1, <2>2, <2>3, <2>4, <2>5 DEF Coherent
<1>7. ASSUME NEW t \in Threads, NEW v \in Vars, CondTimedwaitPanics(t, v)
      PROVE  Coherent'
  <2>1. OwnerCoherent'
      BY <1>0, <1>7 DEF CondTimedwaitPanics, GiveUp, OwnerCoherent
  <2>2. AbandonedCoherent'
      BY <1>0, <1>7 DEF CondTimedwaitPanics, GiveUp, AbandonedCoherent, OwnerCoherent
  <2>3. WaiterCoherent'
      BY <1>0, <1>7 DEF CondTimedwaitPanics, GiveUp, WaiterCoherent, OwnerCoherent
  <2>4. HeldCoherent'
      BY <1>0, <1>7 DEF CondTimedwaitPanics, GiveUp, HeldCoherent, OwnerCoherent, AbandonedCoherent
  <2>5. BlockedCoherent'
      BY <1>0, <1>7 DEF CondTimedwaitPanics, GiveUp, BlockedCoherent
  <2> QED
      BY <2>1, <2>2, <2>3, <2>4, <2>5 DEF Coherent
<1>8. ASSUME NEW t \in Threads, NEW v \in Vars, pc[t] \in {"cond", "relock"},
             lockvar[t] = v, MutexFree(v), Relock(t, v)
      PROVE  Coherent'
  <2>1. CASE owner[v] = NoThread
    <3>0. /\ owner' = [owner EXCEPT ![v] = t]
          /\ locks' = [locks EXCEPT ![v] = saved[t]]
          /\ saved' = [saved EXCEPT ![t] = 0]
          /\ pc' = [pc EXCEPT ![t] = "running"]
          /\ lockvar' = [lockvar EXCEPT ![t] = NoVar]
          /\ abandoned' = abandoned /\ held' = held
        BY <1>8, <2>1 DEF Relock
    <3>1. saved[t] = held[t][v] /\ saved[t] > 0
        BY <1>0, <1>8 DEF WaiterCoherent
    <3>2. OwnerCoherent'
        BY <1>0, <1>8, <3>0, <3>1 DEF OwnerCoherent
    <3>3. AbandonedCoherent'
        BY <1>0, <1>8, <3>0 DEF AbandonedCoherent
    <3>4. WaiterCoherent'
        BY <1>0, <1>8, <3>0 DEF WaiterCoherent
    <3>5. HeldCoherent'
        BY <1>0, <1>8, <3>0, <2>1 DEF HeldCoherent
    <3>6. BlockedCoherent'
        BY <1>0, <1>8, <3>0 DEF BlockedCoherent
    <3> QED
        BY <3>2, <3>3, <3>4, <3>5, <3>6 DEF Coherent
  <2>2. CASE owner[v] # NoThread
    <3>0. /\ pc' = [pc EXCEPT ![t] = "relock"]
          /\ UNCHANGED <<owner, locks, saved, lockvar, abandoned, held>>
        BY <1>8, <2>2 DEF Relock
    <3>2. OwnerCoherent'
        BY <1>0, <1>8, <3>0 DEF OwnerCoherent
    <3>3. AbandonedCoherent'
        BY <1>0, <1>8, <3>0 DEF AbandonedCoherent
    <3>4. WaiterCoherent'
        BY <1>0, <1>8, <3>0 DEF WaiterCoherent
    <3>5. HeldCoherent'
        BY <1>0, <1>8, <3>0 DEF HeldCoherent
    <3>6. BlockedCoherent'
        BY <1>0, <1>8, <3>0 DEF BlockedCoherent
    <3> QED
        BY <3>2, <3>3, <3>4, <3>5, <3>6 DEF Coherent
  <2> QED
      BY <2>1, <2>2
<1>9. ASSUME UNCHANGED <<owner, locks, abandoned, held, pc, lockvar, saved>>
      PROVE  Coherent'
    BY <1>0, <1>9 DEF Coherent, OwnerCoherent, AbandonedCoherent, WaiterCoherent,
                      HeldCoherent, BlockedCoherent
<1>10. ASSUME NEW t \in Threads, Step(t) PROVE Coherent'
  <2>1. pc[t] # "running" => lockvar[t] \in Vars
      BY <1>0 DEF BlockedCoherent
  <2>2. LockWakes(t) => Coherent'
      BY <1>4, <2>1 DEF LockWakes
  <2>3. CondWakes(t) \/ CondTimesOut(t) \/ RelockWakes(t) => Coherent'
      BY <1>8, <2>1 DEF CondWakes, CondTimesOut, RelockWakes
  <2>4. SpuriousWakeup(t) => Coherent'
      BY <1>9 DEF SpuriousWakeup
  <2>5. ASSUME NEW c \in Conds, CondSignal(t, c) \/ CondBroadcast(t, c)
        PROVE  Coherent'
      BY <1>9, <2>5 DEF CondSignal, CondBroadcast
  <2> HIDE DEF TypeOK, Places, Waiting, Blocked, MutexFree
  <2> QED
      BY <1>1, <1>2, <1>3, <1>5, <1>6, <1>7, <1>10, <2>2, <2>3, <2>4, <2>5 DEF Step
<1>11. CASE UNCHANGED vars
    BY <1>9, <1>11 DEF vars
<1> QED
    BY <1>10, <1>11 DEF Next

\* LockInvariant is an invariant of every behaviour.
THEOREM Invariant == Spec => []LockInvariant
<1>1. LockInvariant /\ [Next]_vars => LockInvariant'
    BY TypeStep, CoherentStep DEF LockInvariant, Coherent
<1> QED
    BY InitInvariant, <1>1, PTL DEF Spec

\* Each variable of shared.xs' locks keeps its type, locks and depths never
\* negative, whatever threads and variables there are.
THEOREM TypeCorrect == Spec => []TypeOK
<1>1. LockInvariant => TypeOK
    BY DEF LockInvariant
<1> QED
    BY Invariant, <1>1, PTL

\* No two threads run inside scopes that locked the same shared variable.
THEOREM Exclusive == Spec => []MutualExclusion
<1>1. LockInvariant => MutualExclusion
  <2> SUFFICES ASSUME LockInvariant, NEW v \in Vars, NEW t \in Threads, NEW u \in Threads,
                      Inside(t, v), Inside(u, v)
               PROVE  t = u
      BY DEF MutualExclusion
  <2>1. owner[v] = t \/ abandoned[v] = t
      BY DEF LockInvariant, HeldCoherent, Inside
  <2>2. owner[v] = u \/ abandoned[v] = u
      BY DEF LockInvariant, HeldCoherent, Inside
  <2>3. owner[v] # NoThread => abandoned[v] = NoThread
      BY DEF LockInvariant, OwnerCoherent, MutexFree
  <2> QED
      BY <2>1, <2>2, <2>3, LockAssumption
<1> QED
    BY Invariant, <1>1, PTL

\* recursive_lock_t counts exactly the open scopes, through cond_wait.
THEOREM DepthIsKept == Spec => []DepthKept
<1>1. LockInvariant => DepthKept
    BY LockAssumption DEF LockInvariant, DepthKept, Inside, HeldCoherent,
                          OwnerCoherent, WaiterCoherent, MutexFree, TypeOK
<1> QED
    BY Invariant, <1>1, PTL

-----------------------------------------------------------------------------
(* NoSleeperForgotten: proved beside LockInvariant *)

\* The threads that block on v's lock.cond, awake or not.
LockBlocked(v) == {t \in Threads : Blocked("acquire", t, v) \/ Blocked("relock", t, v)}

\* COND_SIGNAL leaves nobody forgotten: if anybody blocks, someone is awake.
LEMMA SignalWakes ==
    ASSUME NEW v \in Vars, TypeOK, SignalOne(woken, LockSleepers(v)), LockBlocked(v) # {}
    PROVE  \E t \in LockBlocked(v) : woken'[t]
<1>1. CASE LockSleepers(v) = {}
  <2>1. \A t \in LockBlocked(v) : woken[t]
      BY <1>1 DEF LockSleepers, LockBlocked
  <2> QED
      BY <1>1, <2>1 DEF SignalOne
<1>2. CASE LockSleepers(v) # {}
  <2>1. PICK s \in LockSleepers(v) : woken' = Wake(woken, {s})
      BY <1>2 DEF SignalOne
  <2>2. s \in LockBlocked(v)
      BY <2>1 DEF LockSleepers, LockBlocked
  <2> QED
      BY <2>1, <2>2 DEF Wake, LockBlocked
<1> QED
    BY <1>1, <1>2

\* COND_SIGNAL puts nobody to sleep.
LEMMA SignalKeeps ==
    ASSUME NEW S \in SUBSET Threads, TypeOK, SignalOne(woken, S), NEW t \in Threads, woken[t]
    PROVE  woken'[t]
BY DEF SignalOne, Wake, TypeOK

\* Every step keeps somebody awake on each free lock with blocked threads.
LEMMA NoSleeperStep ==
    LockInvariant /\ NoSleeperForgotten /\ [Next]_vars => NoSleeperForgotten'
<1> SUFFICES ASSUME LockInvariant, NoSleeperForgotten, [Next]_vars
             PROVE  NoSleeperForgotten'
    OBVIOUS
<1> USE LockAssumption DEF Blocked
<1>0. TypeOK /\ TypeOK' /\ BlockedCoherent
    BY TypeStep DEF LockInvariant
<1>1. ASSUME NEW t \in Threads, NEW v \in Vars, owner'[v] # NoThread,
             \A u \in Vars \ {v} : owner'[u] = owner[u],
             \A s \in Threads \ {t} : /\ pc'[s] = pc[s] /\ lockvar'[s] = lockvar[s]
                                      /\ woken'[s] = woken[s],
             pc[t] \in {"acquire", "relock"} => lockvar[t] = v,
             pc'[t] \in {"acquire", "relock"} => lockvar'[t] = v
      PROVE  NoSleeperForgotten'
  <2> SUFFICES ASSUME NEW u \in Vars, NEW b \in Threads, owner'[u] = NoThread,
                      (Blocked("acquire", b, u) \/ Blocked("relock", b, u))'
               PROVE  \E s \in Threads : /\ (Blocked("acquire", s, u) \/ Blocked("relock", s, u))'
                                         /\ woken'[s]
      BY DEF NoSleeperForgotten
  <2>1. u # v /\ b # t /\ owner[u] = NoThread
      BY <1>1
  <2>2. Blocked("acquire", b, u) \/ Blocked("relock", b, u)
      BY <1>1, <2>1
  <2>3. PICK s \in Threads : /\ Blocked("acquire", s, u) \/ Blocked("relock", s, u)
                             /\ woken[s]
      BY <2>1, <2>2 DEF NoSleeperForgotten
  <2> QED
      BY <1>1, <2>1, <2>3
<1>2. ASSUME NEW t \in Threads, NEW v \in Vars,
             LockAgain(t, v) \/ LockFree(t, v) \/ LockBlocks(t, v)
      PROVE  NoSleeperForgotten'
  <2>1. owner'[v] # NoThread /\ \A u \in Vars \ {v} : owner'[u] = owner[u]
      BY <1>0, <1>2 DEF LockAgain, LockFree, LockBlocks, TakeFirst, TypeOK
  <2>2. /\ pc[t] \notin {"acquire", "relock"}
        /\ pc'[t] \in {"acquire", "relock"} => lockvar'[t] = v
      BY <1>0, <1>2 DEF LockAgain, LockFree, LockBlocks, TypeOK
  <2>3. \A s \in Threads \ {t} : /\ pc'[s] = pc[s] /\ lockvar'[s] = lockvar[s]
                                 /\ woken'[s] = woken[s]
      BY <1>0, <1>2 DEF LockAgain, LockFree, LockBlocks, TypeOK
  <2> QED
      BY <1>1, <2>1, <2>2, <2>3
<1>3. ASSUME NEW t \in Threads, NEW v \in Vars, pc[t] = "acquire", lockvar[t] = v,
             LockWakes(t)
      PROVE  NoSleeperForgotten'
  <2>1. owner'[v] # NoThread /\ \A u \in Vars \ {v} : owner'[u] = owner[u]
      BY <1>0, <1>3 DEF LockWakes, TakeFirst, TypeOK
  <2>2. pc'[t] \in {"acquire", "relock"} => lockvar'[t] = v
      BY <1>0, <1>3 DEF LockWakes, TypeOK
  <2>3. \A s \in Threads \ {t} : /\ pc'[s] = pc[s] /\ lockvar'[s] = lockvar[s]
                                 /\ woken'[s] = woken[s]
      BY <1>0, <1>3 DEF LockWakes, TypeOK
  <2> QED
      BY <1>1, <1>3, <2>1, <2>2, <2>3
<1>4. ASSUME NEW t \in Threads, NEW v \in Vars, pc[t] \in {"cond", "relock"},
             lockvar[t] = v, Relock(t, v)
      PROVE  NoSleeperForgotten'
  <2>1. owner'[v] # NoThread /\ \A u \in Vars \ {v} : owner'[u] = owner[u]
      BY <1>0, <1>4 DEF Relock, TypeOK
  <2>2. pc'[t] \in {"acquire", "relock"} => lockvar'[t] = v
      BY <1>0, <1>4 DEF Relock, TypeOK
  <2>3. \A s \in Threads \ {t} : /\ pc'[s] = pc[s] /\ lockvar'[s] = lockvar[s]
                                 /\ woken'[s] = woken[s]
      BY <1>0, <1>4 DEF Relock, TypeOK
  <2> QED
      BY <1>1, <1>4, <2>1, <2>2, <2>3
<1>5. ASSUME NEW v \in Vars, SignalOne(woken, LockSleepers(v)),
             \A u \in Vars \ {v} : owner'[u] = owner[u],
             \A t \in Threads : /\ pc[t] = "acquire" <=> pc'[t] = "acquire"
                                /\ pc[t] = "relock" <=> pc'[t] = "relock"
                                /\ pc[t] # "running" => lockvar'[t] = lockvar[t]
      PROVE  NoSleeperForgotten'
  <2> SUFFICES ASSUME NEW u \in Vars, NEW b \in Threads, owner'[u] = NoThread,
                      (Blocked("acquire", b, u) \/ Blocked("relock", b, u))'
               PROVE  \E t \in Threads : /\ (Blocked("acquire", t, u) \/ Blocked("relock", t, u))'
                                         /\ woken'[t]
      BY DEF NoSleeperForgotten
  <2>1. \A t \in Threads : (Blocked("acquire", t, u) \/ Blocked("relock", t, u))'
                              <=> Blocked("acquire", t, u) \/ Blocked("relock", t, u)
      BY <1>5
  <2>2. CASE u = v
      BY <1>0, <1>5, <2>1, <2>2, SignalWakes DEF LockBlocked
  <2>3. CASE u # v
    <3>1. PICK t \in Threads : /\ Blocked("acquire", t, u) \/ Blocked("relock", t, u)
                               /\ woken[t]
        BY <1>5, <2>1, <2>3 DEF NoSleeperForgotten
    <3>2. woken'[t]
        BY <1>0, <1>5, <3>1, SignalKeeps DEF LockSleepers
    <3> QED
        BY <2>1, <3>1, <3>2
  <2> QED
      BY <2>2, <2>3
<1>6. ASSUME NEW t \in Threads, NEW v \in Vars, Release(t, v)
      PROVE  NoSleeperForgotten'
  <2>1. CASE owner[v] = t /\ locks[v] = 1
      BY <1>0, <1>5, <1>6, <2>1 DEF Release, TypeOK
  <2>2. CASE ~(owner[v] = t /\ locks[v] = 1)
      BY <1>0, <1>6, <2>2 DEF Release, NoSleeperForgotten, TypeOK
  <2> QED
      BY <2>1, <2>2
<1>7. ASSUME NEW t \in Threads, NEW v \in Vars, NEW c \in Conds, NEW limit \in BOOLEAN,
             CondWait(t, c, v, limit)
      PROVE  NoSleeperForgotten'
    BY <1>0, <1>5, <1>7 DEF CondWait, GiveUp, TypeOK
<1>8. ASSUME NEW t \in Threads, NEW v \in Vars, CondTimedwaitPanics(t, v)
      PROVE  NoSleeperForgotten'
    BY <1>0, <1>5, <1>8 DEF CondTimedwaitPanics, GiveUp, TypeOK
<1>9. ASSUME UNCHANGED <<owner, pc, lockvar>>,
             \A t \in Threads : woken[t] => woken'[t]
      PROVE  NoSleeperForgotten'
    BY <1>0, <1>9 DEF NoSleeperForgotten
<1>10. ASSUME NEW t \in Threads, Step(t) PROVE NoSleeperForgotten'
  <2>1. pc[t] # "running" => lockvar[t] \in Vars
      BY <1>0 DEF BlockedCoherent
  <2>2. LockWakes(t) => NoSleeperForgotten'
      BY <1>3, <2>1 DEF LockWakes
  <2>3. CondWakes(t) \/ CondTimesOut(t) \/ RelockWakes(t) => NoSleeperForgotten'
      BY <1>4, <2>1 DEF CondWakes, CondTimesOut, RelockWakes
  <2>4. SpuriousWakeup(t) => NoSleeperForgotten'
      BY <1>0, <1>9 DEF SpuriousWakeup, TypeOK
  <2>5. ASSUME NEW c \in Conds, CondSignal(t, c) PROVE NoSleeperForgotten'
      BY <1>0, <1>9, <2>5, SignalKeeps DEF CondSignal, CondSleepers
  <2>6. ASSUME NEW c \in Conds, CondBroadcast(t, c) PROVE NoSleeperForgotten'
      BY <1>0, <1>9, <2>6 DEF CondBroadcast, Wake, TypeOK
  <2> HIDE DEF Blocked
  <2> QED
      BY <1>2, <1>6, <1>7, <1>8, <1>10, <2>2, <2>3, <2>4, <2>5, <2>6 DEF Step
<1>11. CASE UNCHANGED vars
    BY <1>9, <1>11 DEF vars
<1> QED
    BY <1>10, <1>11 DEF Next

\* COND_SIGNAL of lock.cond is never lost: a free lock with blocked threads
\* has one of them awake, however lockers and returning waiters interleave.
THEOREM NobodyForgotten == Spec => []NoSleeperForgotten
<1>1. Init => NoSleeperForgotten
    BY DEF Init, NoSleeperForgotten, Blocked
<1> QED
    BY Invariant, <1>1, NoSleeperStep, PTL DEF Spec

-----------------------------------------------------------------------------
(* The refinement: shared.xs keeps the promise of Monitor.  Every behaviour  *)
(* of SharedLock is one of Monitor's, under the mapping that SharedLock's    *)
(* INSTANCE M gives.                                                        *)

\* The mapping's names for a variable's holder and for what a thread waits for.
HolderOf(v) == IF MutexFree(v) THEN owner[v] ELSE abandoned[v]
WaitingFor(t) == IF pc[t] \in {"cond", "relock"} THEN lockvar[t] ELSE NoVar
Holders == [v \in Vars |-> HolderOf(v)]
WaitsFor == [t \in Threads |-> WaitingFor(t)]

\* With no variable locked and nobody waiting, both begin alike.
LEMMA InitRefines == Init => M!Init
BY LockAssumption DEF Init, M!Init, MutexFree

\* A step that leaves every holder, depth and waiter alone is a stutter.
LEMMA Stutters ==
    ASSUME Holders' = Holders, held' = held, WaitsFor' = WaitsFor
    PROVE  [M!Next]_(M!mvars)
BY DEF Holders, WaitsFor, HolderOf, WaitingFor, M!mvars

\* The first lock of a free variable, and each further one by its owner.
LEMMA AcquireRefines ==
    ASSUME NEW t \in Threads, NEW v \in Vars,
           WaitsFor[t] = NoVar, Holders[v] \in {NoThread, t},
           Holders' = [Holders EXCEPT ![v] = t],
           held' = [held EXCEPT ![t][v] = @ + 1],
           WaitsFor' = WaitsFor
    PROVE  M!Next
<1>1. M!Acquire(t, v)
    BY DEF M!Acquire, Holders, WaitsFor, HolderOf, WaitingFor
<1> QED
    BY <1>1 DEF M!Next

\* recursive_lock_acquire takes a lock, or goes to sleep and changes nothing
\* that Monitor sees.
LEMMA LockRefines ==
    ASSUME LockInvariant, NEW t \in Threads, NEW v \in Vars,
           \/ LockAgain(t, v) \/ LockFree(t, v) \/ LockBlocks(t, v)
           \/ LockWakes(t) /\ lockvar[t] = v
    PROVE  [M!Next]_(M!mvars)
<1> USE LockAssumption DEF MutexFree, Holders, WaitsFor, HolderOf, WaitingFor
<1>0. TypeOK
    BY DEF LockInvariant
<1>1. CASE LockAgain(t, v)
  <2>1. /\ WaitsFor[t] = NoVar /\ Holders[v] = t
        /\ Holders' = [Holders EXCEPT ![v] = t]
        /\ held' = [held EXCEPT ![t][v] = @ + 1] /\ WaitsFor' = WaitsFor
      BY <1>0, <1>1 DEF LockAgain, TypeOK
  <2> QED
      BY <2>1, AcquireRefines
<1>2. CASE LockFree(t, v)
  <2>1. /\ WaitsFor[t] = NoVar /\ Holders[v] = NoThread
        /\ Holders' = [Holders EXCEPT ![v] = t]
        /\ held' = [held EXCEPT ![t][v] = @ + 1] /\ WaitsFor' = WaitsFor
      BY <1>0, <1>2 DEF LockFree, TakeFirst, TypeOK
  <2> QED
      BY <2>1, AcquireRefines
<1>3. CASE LockBlocks(t, v)
  <2>1. Holders' = Holders /\ held' = held /\ WaitsFor' = WaitsFor
      BY <1>0, <1>3 DEF LockBlocks, TypeOK
  <2> QED
      BY <2>1, Stutters
<1>4. CASE LockWakes(t) /\ lockvar[t] = v /\ owner[v] = NoThread
  <2>1. /\ pc[t] = "acquire" /\ abandoned[v] = NoThread /\ abandoned' = abandoned
        /\ owner' = [owner EXCEPT ![v] = t]
        /\ held' = [held EXCEPT ![t][v] = @ + 1]
        /\ pc' = [pc EXCEPT ![t] = "running"] /\ lockvar' = [lockvar EXCEPT ![t] = NoVar]
      BY <1>4 DEF LockWakes, TakeFirst
  <2>2. WaitsFor[t] = NoVar /\ WaitsFor' = WaitsFor
      BY <1>0, <2>1 DEF TypeOK
  <2>3. Holders[v] = NoThread /\ Holders' = [Holders EXCEPT ![v] = t]
      BY <1>0, <1>4, <2>1 DEF TypeOK
  <2> QED
      BY <2>1, <2>2, <2>3, AcquireRefines
<1>5. CASE LockWakes(t) /\ lockvar[t] = v /\ owner[v] # NoThread
  <2>1. Holders' = Holders /\ held' = held /\ WaitsFor' = WaitsFor
      BY <1>0, <1>5 DEF LockWakes, TakeFirst, TypeOK
  <2> QED
      BY <2>1, Stutters
<1> QED
    BY <1>1, <1>2, <1>3, <1>4, <1>5

\* recursive_lock_release ends a scope: the counter is 1 exactly when the
\* scope is the last one, and a release by a thread that is not the owner
\* does not happen while the mutex is free.
LEMMA ReleaseRefines ==
    ASSUME LockInvariant, NEW t \in Threads, NEW v \in Vars, Release(t, v)
    PROVE  M!Next
<1> USE LockAssumption DEF MutexFree
<1>1. TypeOK /\ OwnerCoherent /\ HeldCoherent
    BY DEF LockInvariant
<1>2. owner[v] = t /\ locks[v] = held[t][v]
  <2>1. ~Waiting(t, v) /\ abandoned[v] # t /\ held[t][v] > 0
      BY <1>1 DEF Release, Waiting, Blocked
  <2>2. owner[v] = t
      BY <1>1, <2>1 DEF HeldCoherent
  <2> QED
      BY <1>1, <2>2 DEF OwnerCoherent
<1>3. held' = [held EXCEPT ![t][v] = @ - 1] /\ WaitsFor' = WaitsFor /\ WaitsFor[t] = NoVar
    BY <1>1 DEF Release, WaitsFor, WaitingFor, TypeOK
<1>4. Holders[v] = t
    BY <1>2 DEF Release, Holders, HolderOf
<1>5. Holders' = IF held[t][v] = 1 THEN [Holders EXCEPT ![v] = NoThread] ELSE Holders
  <2>1. CASE locks[v] = 1
      BY <1>1, <1>2, <2>1 DEF Release, Holders, HolderOf, TypeOK
  <2>2. CASE locks[v] # 1
      BY <1>1, <1>2, <2>2 DEF Release, Holders, HolderOf, TypeOK
  <2> QED
      BY <1>2, <2>1, <2>2
<1>6. M!Leave(t, v)
    BY <1>3, <1>4, <1>5 DEF M!Leave, Holders, WaitsFor, HolderOf, WaitingFor
<1> QED
    BY <1>6 DEF M!Next

\* cond_wait gives the variable up, at every depth.
LEMMA WaitRefines ==
    ASSUME LockInvariant, NEW t \in Threads, NEW v \in Vars, NEW c \in Conds, NEW limit \in BOOLEAN,
           CondWait(t, c, v, limit)
    PROVE  M!Next
<1> USE LockAssumption DEF MutexFree
<1>1. TypeOK
    BY DEF LockInvariant
<1>2. /\ WaitsFor[t] = NoVar /\ WaitsFor' = [WaitsFor EXCEPT ![t] = v] /\ held' = held
    BY <1>1 DEF CondWait, GiveUp, WaitsFor, WaitingFor, TypeOK
<1>3. /\ Holders[v] = t /\ Holders' = [Holders EXCEPT ![v] = NoThread]
    BY <1>1 DEF CondWait, GiveUp, Holders, HolderOf, TypeOK
<1>4. M!Wait(t, v)
    BY <1>2, <1>3 DEF M!Wait, Holders, WaitsFor, HolderOf, WaitingFor
<1> QED
    BY <1>4 DEF M!Next

\* The panic of cond_timedwait gives the owner up and keeps the mutex, which
\* shuts everybody out as before: Monitor sees nothing.
LEMMA PanicRefines ==
    ASSUME LockInvariant, NEW t \in Threads, NEW v \in Vars, CondTimedwaitPanics(t, v)
    PROVE  [M!Next]_(M!mvars)
<1>1. Holders' = Holders /\ held' = held /\ WaitsFor' = WaitsFor
    BY LockAssumption DEF LockInvariant, TypeOK, CondTimedwaitPanics, GiveUp, MutexFree,
                          Holders, WaitsFor, HolderOf, WaitingFor
<1> QED
    BY <1>1, Stutters

\* The loop of cond_wait after user_cond: the variable is taken back, or the
\* thread goes on waiting for it on lock.cond.
LEMMA RelockRefines ==
    ASSUME LockInvariant, NEW t \in Threads, NEW v \in Vars,
           pc[t] \in {"cond", "relock"}, lockvar[t] = v, MutexFree(v), Relock(t, v)
    PROVE  [M!Next]_(M!mvars)
<1> USE LockAssumption DEF MutexFree, Holders, WaitsFor, HolderOf, WaitingFor
<1>0. TypeOK
    BY DEF LockInvariant
<1>1. CASE owner[v] = NoThread
  <2>0. /\ abandoned' = abandoned /\ held' = held
        /\ owner' = [owner EXCEPT ![v] = t]
        /\ pc' = [pc EXCEPT ![t] = "running"] /\ lockvar' = [lockvar EXCEPT ![t] = NoVar]
      BY <1>1 DEF Relock
  <2>1. /\ WaitsFor[t] = v /\ WaitsFor' = [WaitsFor EXCEPT ![t] = NoVar] /\ held' = held
      BY <1>0, <2>0 DEF TypeOK
  <2>2. /\ Holders[v] = NoThread /\ Holders' = [Holders EXCEPT ![v] = t]
      BY <1>0, <1>1, <2>0 DEF TypeOK
  <2>3. M!Resume(t, v)
      BY <2>1, <2>2 DEF M!Resume
  <2> QED
      BY <2>3 DEF M!Next
<1>2. CASE owner[v] # NoThread
  <2>1. Holders' = Holders /\ held' = held /\ WaitsFor' = WaitsFor
      BY <1>0, <1>2 DEF Relock, TypeOK
  <2> QED
      BY <2>1, Stutters
<1> QED
    BY <1>1, <1>2

\* Every step of SharedLock is one of Monitor's, or invisible to it.
LEMMA StepRefines == LockInvariant /\ [Next]_vars => [M!Next]_(M!mvars)
<1> SUFFICES ASSUME LockInvariant, [Next]_vars PROVE [M!Next]_(M!mvars)
    OBVIOUS
<1>1. ASSUME UNCHANGED <<owner, abandoned, held, pc, lockvar>> PROVE [M!Next]_(M!mvars)
    BY <1>1, Stutters DEF Holders, WaitsFor, HolderOf, WaitingFor, MutexFree
<1>2. ASSUME NEW t \in Threads, Step(t) PROVE [M!Next]_(M!mvars)
  <2>1. pc[t] # "running" => lockvar[t] \in Vars
      BY DEF LockInvariant, BlockedCoherent
  <2>2. LockWakes(t) => [M!Next]_(M!mvars)
      BY <2>1, LockRefines DEF LockWakes
  <2>3. CondWakes(t) \/ CondTimesOut(t) \/ RelockWakes(t) => [M!Next]_(M!mvars)
      BY <2>1, RelockRefines DEF CondWakes, CondTimesOut, RelockWakes
  <2>4. SpuriousWakeup(t) => [M!Next]_(M!mvars)
      BY <1>1 DEF SpuriousWakeup
  <2>5. ASSUME NEW c \in Conds, CondSignal(t, c) \/ CondBroadcast(t, c)
        PROVE  [M!Next]_(M!mvars)
      BY <1>1, <2>5 DEF CondSignal, CondBroadcast
  <2>6. ASSUME NEW c \in Conds, NEW v \in Vars, NEW limit \in BOOLEAN, CondWait(t, c, v, limit)
        PROVE  [M!Next]_(M!mvars)
      BY <2>6, WaitRefines
  <2> QED
      BY <1>2, <2>2, <2>3, <2>4, <2>5, <2>6, LockRefines, ReleaseRefines, PanicRefines DEF Step
<1>3. CASE UNCHANGED vars
    BY <1>1, <1>3 DEF vars
<1> QED
    BY <1>2, <1>3 DEF Next

\* The locks of shared.xs are monitors: held by one thread at a time, at the
\* depth of its scopes, given up whole by cond_wait and taken back whole.
THEOREM Implements == Spec => MonitorSpec
BY InitRefines, StepRefines, Invariant, PTL DEF Spec, MonitorSpec, M!Spec

-----------------------------------------------------------------------------
(* Thread::Semaphore, for any threads and requests: it loses no token and   *)
(* forgets no sleeper.  Each step of a method is a step of SharedLock, or    *)
(* leaves it alone, so LockInvariant holds of the variable; that, ScopeOpen, *)
(* Settled and Sleeping are inductive together.                             *)

\* What a step of t leaves as it is for the other threads: their place in the
\* code, their scopes, and that they have been woken.
OthersStay(t) == \A u \in Threads \ {t} :
                     /\ pc'[u] = pc[u] /\ lockvar'[u] = lockvar[u]
                     /\ condvar'[u] = condvar[u] /\ held'[u] = held[u]
                     /\ woken[u] => woken'[u]

\* The same of the semaphore's own state.
OthersKeep(t) == \A u \in Threads \ {t} :
                     at'[u] = at[u] /\ request'[u] = request[u] /\ read'[u] = read[u]

\* A signal unwakes nobody.
LEMMA SignalOneWakes ==
    ASSUME TypeOK, NEW S, S \subseteq Threads, SignalOne(woken, S)
    PROVE  \A u \in Threads : woken[u] => woken'[u]
BY DEF SignalOne, Wake, TypeOK

\* What each step of the lock does, as far as the methods depend on it.
\* The lock is free: lock() opens the scope.
LEMMA LocksFree ==
    ASSUME TypeOK, NEW t \in Threads, LockFree(t, Sem)
    PROVE  OthersStay(t) /\ abandoned' = abandoned /\ pc'[t] = "running" /\ held'[t][Sem] > 0
BY SemAssumption DEF LockFree, TakeFirst, TypeOK, OthersStay

\* The lock is another's: lock() blocks.
LEMMA LocksBlocked ==
    ASSUME TypeOK, NEW t \in Threads, LockBlocks(t, Sem)
    PROVE  OthersStay(t) /\ abandoned' = abandoned /\ pc'[t] = "acquire" /\ lockvar'[t] = Sem
BY SemAssumption DEF LockBlocks, TypeOK, OthersStay

\* The sleeper in lock() has the lock, or sleeps on.
LEMMA LockWoken ==
    ASSUME TypeOK, NEW t \in Threads, LockWakes(t), lockvar[t] = Sem
    PROVE  /\ OthersStay(t) /\ abandoned' = abandoned
           /\ \/ pc'[t] = "running" /\ held'[t][Sem] > 0
              \/ pc'[t] = "acquire" /\ lockvar'[t] = Sem
BY SemAssumption DEF LockWakes, TakeFirst, TypeOK, OthersStay

\* After cond_wait's sleep the scope is still open, and the lock there or awaited.
LEMMA Relocked ==
    ASSUME TypeOK, NEW t \in Threads, Relock(t, lockvar[t])
    PROVE  /\ OthersStay(t) /\ abandoned' = abandoned
           /\ pc'[t] \in {"running", "relock"} /\ held' = held
BY DEF Relock, TypeOK, OthersStay

\* A wake-up without a signal moves nobody.
LEMMA SpuriouslyWoken ==
    ASSUME TypeOK, NEW t \in Threads, SpuriousWakeup(t)
    PROVE  /\ OthersStay(t) /\ abandoned' = abandoned /\ woken'[t]
           /\ UNCHANGED <<pc, lockvar, condvar, held>>
BY DEF SpuriousWakeup, TypeOK, OthersStay

\* cond_wait sleeps on the semaphore, its scope open.
LEMMA CondWaited ==
    ASSUME TypeOK, NEW t \in Threads, NEW limit \in BOOLEAN, CondWait(t, Sem, Sem, limit)
    PROVE  /\ OthersStay(t) /\ abandoned' = abandoned
           /\ pc'[t] = "cond" /\ condvar'[t] = Sem /\ held' = held
<1>1. SignalOne(woken, LockSleepers(Sem))
    BY DEF CondWait, GiveUp
<1>2. \A u \in Threads : woken[u] => woken'[u]
    BY <1>1, SignalOneWakes DEF LockSleepers
<1> QED
    BY <1>2 DEF CondWait, GiveUp, TypeOK, OthersStay

\* cond_broadcast leaves every sleeper woken.
LEMMA Broadcasted ==
    ASSUME TypeOK, NEW t \in Threads, CondBroadcast(t, Sem)
    PROVE  /\ OthersStay(t) /\ abandoned' = abandoned
           /\ \A u \in Threads : pc[u] = "cond" /\ condvar[u] = Sem => woken'[u]
           /\ UNCHANGED <<pc, lockvar, condvar, held>>
BY DEF CondBroadcast, CondSleepers, Wake, TypeOK, OthersStay

\* The end of a scope moves nobody, and leaves awake who is.
LEMMA Released ==
    ASSUME TypeOK, NEW t \in Threads, Release(t, Sem)
    PROVE  OthersStay(t) /\ abandoned' = abandoned /\ pc' = pc /\ pc[t] = "running"
<1>1. \A u \in Threads : woken[u] => woken'[u]
  <2>1. CASE SignalOne(woken, LockSleepers(Sem))
      BY <2>1, SignalOneWakes DEF LockSleepers
  <2>2. CASE woken' = woken
      BY <2>2
  <2> QED
      BY <2>1, <2>2 DEF Release
<1> QED
    BY <1>1, SemAssumption DEF Release, TypeOK, OthersStay

-----------------------------------------------------------------------------
\* Every step of a method is one of its lock, or none.
LEMMA StepOfLock == ASSUME NEW t \in Threads, SemStep(t) PROVE [Next]_vars
<1> USE SemAssumption
<1>1. CASE \E r \in Calls[t] : Enters(t, r)
    BY <1>1 DEF Enters, Next, Step
<1>2. CASE Test(t) \/ Fetch(t) \/ Store(t)
    BY <1>2 DEF Test, Fetch, Store
<1>3. CASE Waits(t)
  <2> DEFINE limit == request[t].call = "down_timed"
  <2>1. limit \in BOOLEAN /\ CondWait(t, Sem, Sem, limit)
      BY <1>3 DEF Waits
  <2> QED
      BY <2>1 DEF Next, Step
<1>4. CASE Wakes(t) \/ TimesOut(t)
    BY <1>4 DEF Wakes, TimesOut, Next, Step
<1>5. CASE Broadcasts(t)
    BY <1>5 DEF Broadcasts, Next, Step
<1>6. CASE Leaves(t)
    BY <1>6 DEF Leaves, Next, Step
<1> QED
    BY <1>1, <1>2, <1>3, <1>4, <1>5, <1>6 DEF SemStep

\* The same of the whole program's.
LEMMA StepOfLocks == ASSUME [SemNext]_SemVars PROVE [Next]_vars
BY StepOfLock DEF SemNext, SemVars, vars

\* Two threads that run inside the methods of one semaphore are one thread.
LEMMA OneInside ==
    ASSUME LockInvariant, ScopeOpen, NEW t \in Threads, NEW u \in Threads,
           InMethod(t), InMethod(u), pc[t] = "running", pc[u] = "running"
    PROVE  t = u
<1>1. held[t][Sem] > 0 /\ held[u][Sem] > 0
    BY DEF ScopeOpen
<1>2. ~Waiting(t, Sem) /\ ~Waiting(u, Sem)
    BY DEF Waiting, Blocked
<1>3. /\ owner[Sem] = t \/ abandoned[Sem] = t
      /\ owner[Sem] = u \/ abandoned[Sem] = u
    BY <1>1, <1>2, SemAssumption DEF LockInvariant, HeldCoherent
<1> QED
    BY <1>3, SemAssumption, LockAssumption DEF LockInvariant, OwnerCoherent, MutexFree

-----------------------------------------------------------------------------
SemInv == LockInvariant /\ SemInvariant

\* A thread's step leaves the other threads where they are.
LEMMA StepStays ==
    ASSUME SemInv, NEW t \in Threads, SemStep(t)
    PROVE  OthersStay(t) /\ OthersKeep(t) /\ abandoned' = abandoned
<1>0. TypeOK /\ SemTypeOK /\ ScopeOpen
    BY DEF SemInv, LockInvariant, SemInvariant
<1>1. OthersKeep(t)
    BY <1>0 DEF SemStep, Enters, Test, Waits, Wakes, TimesOut, Fetch, Store, Broadcasts, Leaves,
                Goto, SemState, SemTypeOK, OthersKeep
<1>2. UNCHANGED vars => OthersStay(t) /\ abandoned' = abandoned
    BY DEF vars, OthersStay
<1>3. CASE \E r \in Calls[t] : Enters(t, r)
    BY <1>1, <1>0, <1>3, LocksFree, LocksBlocked DEF Enters
<1>4. CASE Test(t) \/ Fetch(t) \/ Store(t)
    BY <1>1, <1>2, <1>4 DEF Test, Fetch, Store, vars
<1>5. CASE Waits(t)
    BY <1>1, <1>0, <1>5, CondWaited DEF Waits
<1>6. CASE Wakes(t) \/ TimesOut(t)
  <2>1. LockWakes(t) => lockvar[t] = Sem
      BY <1>0 DEF LockWakes, ScopeOpen
  <2> QED
      BY <1>1, <2>1, <1>0, <1>6, LockWoken, Relocked, SpuriouslyWoken
      DEF Wakes, TimesOut, CondWakes, CondTimesOut, RelockWakes
<1>7. CASE Broadcasts(t)
    BY <1>1, <1>0, <1>2, <1>7, Broadcasted DEF Broadcasts
<1>8. CASE Leaves(t)
    BY <1>1, <1>0, <1>8, Released DEF Leaves
<1> QED
    BY <1>1, <1>3, <1>4, <1>5, <1>6, <1>7, <1>8 DEF SemStep

\* A request in progress has a positive number.
LEMMA RequestNumber ==
    ASSUME SemTypeOK, NEW t \in Threads, request[t] # NoRequest
    PROVE  request[t] \in Requests /\ request[t].n \in Nat \ {0}
BY DEF SemTypeOK, Requests

\* Every step keeps the types.
LEMMA SemTypeStep ==
    ASSUME SemInv, NEW t \in Threads, SemStep(t)
    PROVE  SemTypeOK'
<1>0. SemTypeOK /\ ScopeOpen
    BY DEF SemInv, SemInvariant
<1>1. CASE \E r \in Calls[t] : Enters(t, r)
  <2>1. Calls[t] \subseteq Requests
      BY SemAssumption
  <2> QED
      BY <1>0, <1>1, <2>1 DEF Enters, Goto, SemTypeOK, Phases
<1>2. CASE Test(t)
    BY <1>0, <1>2 DEF Test, Goto, SemTypeOK, Phases
<1>3. CASE Waits(t) \/ Wakes(t) \/ TimesOut(t) \/ Broadcasts(t) \/ Leaves(t)
    BY <1>0, <1>3 DEF Waits, Wakes, TimesOut, Broadcasts, Leaves, Goto, SemState, SemTypeOK, Phases
<1>4. CASE Fetch(t)
    BY <1>0, <1>4 DEF Fetch, Goto, SemTypeOK, Phases
<1>5. CASE Store(t)
  <2>1. request[t].n \in Nat
      BY <1>0, <1>5, RequestNumber DEF Store, At, ScopeOpen, InMethod
  <2>2. Changed(read[t], request[t]) \in Int
      BY <1>0, <2>1 DEF Changed, SemTypeOK
  <2> QED
      BY <1>0, <1>5, <2>2 DEF Store, Goto, SemTypeOK, Phases
<1> QED
    BY <1>1, <1>2, <1>3, <1>4, <1>5 DEF SemStep

\* Every step keeps the scopes: a method is inside its scope or before it.
LEMMA ScopeStep ==
    ASSUME SemInv, NEW t \in Threads, SemStep(t)
    PROVE  ScopeOpen'
<1>0. TypeOK /\ SemTypeOK /\ ScopeOpen
    BY DEF SemInv, LockInvariant, SemInvariant
<1>1. OthersStay(t) /\ OthersKeep(t)
    BY StepStays
<1> DEFINE Scope(u) == /\ InMethod(u) => held[u][Sem] > 0 \/ pc[u] = "acquire"
                       /\ InMethod(u) = (request[u] # NoRequest)
                       /\ pc[u] # "running" => InMethod(u)
                       /\ pc[u] = "acquire" => lockvar[u] = Sem
<1>2. \A u \in Threads \ {t} : Scope(u)'
    BY <1>0, <1>1 DEF ScopeOpen, OthersStay, OthersKeep, InMethod
<1>3. Scope(t)
    BY <1>0 DEF ScopeOpen
<1>4. Scope(t)'
  <2>1. ASSUME NEW r \in Calls[t], Enters(t, r) PROVE Scope(t)'
    <3>1. request'[t] = r /\ r # NoRequest /\ InMethod(t)'
        BY <1>0, <2>1, SemAssumption DEF Enters, Goto, InMethod, SemTypeOK
    <3> QED
        BY <1>0, <2>1, <3>1, LocksFree, LocksBlocked DEF Enters
  <2>2. CASE Test(t) \/ Fetch(t) \/ Store(t)
      BY <1>0, <1>3, <2>2 DEF Test, Fetch, Store, At, Goto, InMethod, SemTypeOK, vars
  <2>3. CASE Waits(t)
    <3>1. InMethod(t) /\ InMethod(t)' /\ pc[t] = "running" /\ request' = request
        BY <1>0, <2>3 DEF Waits, At, Goto, InMethod, SemTypeOK
    <3>2. pc'[t] = "cond" /\ held' = held
        BY <1>0, <2>3, CondWaited DEF Waits
    <3> QED
        BY <1>3, <3>1, <3>2
  <2>4. CASE Wakes(t)
    <3>1. CASE LockWakes(t)
      <4>1. pc[t] = "acquire" /\ lockvar[t] = Sem
          BY <1>3, <3>1 DEF LockWakes
      <4> QED
          BY <1>0, <1>3, <2>4, <3>1, <4>1, LockWoken DEF Wakes, SemState, InMethod
    <3>2. CASE CondWakes(t) \/ RelockWakes(t)
      <4>1. pc[t] \in {"cond", "relock"} /\ Relock(t, lockvar[t])
          BY <3>2 DEF CondWakes, RelockWakes
      <4> QED
          BY <1>0, <1>3, <2>4, <4>1, Relocked DEF Wakes, SemState, InMethod
    <3>3. CASE SpuriousWakeup(t)
        BY <1>0, <1>3, <2>4, <3>3, SpuriouslyWoken DEF Wakes, SemState, InMethod
    <3> QED
        BY <2>4, <3>1, <3>2, <3>3 DEF Wakes
  <2>5. CASE TimesOut(t)
    <3>1. pc[t] = "cond" /\ Relock(t, lockvar[t])
        BY <2>5 DEF TimesOut, CondTimesOut
    <3>2. InMethod(t)' /\ request' = request
        BY <1>0, <2>5 DEF TimesOut, Goto, InMethod, SemTypeOK
    <3> QED
        BY <1>0, <1>3, <3>1, <3>2, Relocked
  <2>6. CASE Broadcasts(t)
    <3>1. UNCHANGED <<pc, lockvar, held, request>>
        BY <1>0, <2>6, Broadcasted DEF Broadcasts, vars
    <3>2. InMethod(t) /\ InMethod(t)'
        BY <1>0, <2>6 DEF Broadcasts, At, Goto, InMethod, SemTypeOK
    <3> QED
        BY <1>3, <3>1, <3>2
  <2>7. CASE Leaves(t)
    <3>1. pc'[t] = "running"
        BY <1>0, <2>7, Released DEF Leaves
    <3>2. request'[t] = NoRequest /\ ~InMethod(t)'
        BY <1>0, <2>7 DEF Leaves, Goto, InMethod, SemTypeOK
    <3> QED
        BY <3>1, <3>2 DEF InMethod
  <2> QED
      BY <2>1, <2>2, <2>3, <2>4, <2>5, <2>6, <2>7 DEF SemStep
<1> QED
    BY <1>2, <1>4 DEF ScopeOpen

-----------------------------------------------------------------------------
\* A store happens inside, so that nobody else is where the count matters.
LEMMA StoresAlone ==
    ASSUME SemInv, NEW t \in Threads, At(t, "store"), NEW u \in Threads, Alone(u)
    PROVE  u = t
<1>0. LockInvariant /\ ScopeOpen /\ Settled
    BY DEF SemInv, SemInvariant
<1>1. InMethod(t) /\ pc[t] = "running"
    BY DEF At, InMethod
<1>2. InMethod(u) /\ pc[u] = "running"
    BY <1>0 DEF Settled, Alone, InMethod
<1> QED
    BY <1>0, <1>1, <1>2, OneInside

\* Only a store changes the count.
LEMMA CountStays ==
    ASSUME NEW t \in Threads, SemStep(t), ~Store(t)
    PROVE  count' = count
BY DEF SemStep, Enters, Test, Waits, Wakes, TimesOut, Fetch, Broadcasts, Leaves, SemState

\* An integer comparison: what a test that fails says.
LEMMA NotEnough == ASSUME NEW i \in Int, NEW n \in Int, ~(i >= n) PROVE i < n
OBVIOUS

\* Every step keeps what the thread inside knows of the count.
LEMMA SettledStep ==
    ASSUME SemInv, NEW t \in Threads, SemStep(t)
    PROVE  Settled'
<1>0. TypeOK /\ SemTypeOK /\ ScopeOpen /\ Settled
    BY DEF SemInv, LockInvariant, SemInvariant
<1>1. OthersStay(t) /\ OthersKeep(t)
    BY StepStays
<1> DEFINE Knows(u) ==
               /\ Alone(u) => pc[u] = "running"
               /\ at[u] = "store" => read[u] = count
               /\ at[u] \in {"fetch", "store"} /\ Takes(request[u]) => count >= request[u].n
               /\ at[u] = "wait" => count < request[u].n
<1>2. ASSUME NEW u \in Threads \ {t} PROVE Knows(u)'
  <2>1. Knows(u)
      BY <1>0 DEF Settled
  <2>2. at'[u] = at[u] /\ request'[u] = request[u] /\ read'[u] = read[u] /\ pc'[u] = pc[u]
      BY <1>1 DEF OthersStay, OthersKeep
  <2>3. CASE Store(t)
    <3>1. ~Alone(u)
        BY <2>3, StoresAlone DEF Store
    <3>2. at[u] \notin {"store", "wait", "broadcast"} /\ ~(at[u] = "fetch" /\ Takes(request[u]))
        BY <3>1 DEF Alone
    <3> QED
        BY <2>2, <3>2 DEF Alone, Takes
  <2>4. CASE ~Store(t)
    <3>1. count' = count
        BY <2>4, CountStays
    <3> QED
        BY <2>1, <2>2, <3>1 DEF Alone
  <2> QED
      BY <2>3, <2>4
<1>3. Knows(t)
    BY <1>0 DEF Settled
<1>4. Knows(t)'
  <2>1. ASSUME NEW r \in Calls[t], Enters(t, r) PROVE Knows(t)'
    <3>1. request'[t] = r
        BY <1>0, <2>1 DEF Enters, SemTypeOK
    <3>2. at'[t] = (IF r.call \in {"up", "down_force"} THEN "fetch" ELSE "test")
        BY <1>0, <2>1 DEF Enters, Goto, SemTypeOK
    <3>3. at'[t] = "fetch" => ~Takes(r)
        BY <3>2 DEF Takes
    <3> QED
        BY <3>1, <3>2, <3>3 DEF Alone
  <2>2. CASE Test(t)
    <3>1. request[t] \in Requests /\ request[t].n \in Int /\ count \in Int
        BY <1>0, <2>2, RequestNumber DEF Test, At, ScopeOpen, InMethod, SemTypeOK
    <3>2. /\ at'[t] = (IF count >= request[t].n THEN "fetch"
                       ELSE IF request[t].call = "down_nb" THEN "leave" ELSE "wait")
          /\ UNCHANGED <<pc, count, request>> /\ pc[t] = "running"
        BY <1>0, <2>2 DEF Test, At, Goto, SemTypeOK, vars
    <3>3. at'[t] = "fetch" => count >= request[t].n
        BY <3>2
    <3>4. at'[t] = "wait" => count < request[t].n
        BY <3>1, <3>2, NotEnough
    <3> QED
        BY <3>2, <3>3, <3>4 DEF Alone
  <2>3. CASE Waits(t)
      BY <1>0, <2>3 DEF Waits, Goto, SemTypeOK, Alone
  <2>4. CASE Wakes(t)
    <3>1. pc[t] # "running"
        BY <2>4 DEF Wakes, LockWakes, CondWakes, RelockWakes, SpuriousWakeup
    <3>2. ~Alone(t) /\ UNCHANGED <<count, request, at, read>>
        BY <1>3, <2>4, <3>1 DEF Wakes, SemState
    <3> QED
        BY <3>2 DEF Alone
  <2>5. CASE TimesOut(t) \/ Broadcasts(t) \/ Leaves(t)
    <3>1. at'[t] \in {"leave", "outside"}
        BY <1>0, <2>5 DEF TimesOut, Broadcasts, Leaves, Goto, SemTypeOK
    <3> QED
        BY <3>1 DEF Alone
  <2>6. CASE Fetch(t)
      BY <1>0, <1>3, <2>6 DEF Fetch, At, Goto, SemTypeOK, Alone, vars
  <2>7. CASE Store(t)
    <3>1. at'[t] \in {"broadcast", "leave"} /\ pc'[t] = "running"
        BY <1>0, <2>7 DEF Store, At, Goto, SemTypeOK, vars
    <3> QED
        BY <3>1 DEF Alone
  <2> QED
      BY <2>1, <2>2, <2>3, <2>4, <2>5, <2>6, <2>7 DEF SemStep
<1> QED
    BY <1>2, <1>4 DEF Settled

\* Every step keeps the sleepers' wake-up: a sleeper who could go on since the
\* count was raised is woken, or the thread that raised it is yet to broadcast.
LEMMA SleepingStep ==
    ASSUME SemInv, NEW t \in Threads, SemStep(t)
    PROVE  Sleeping'
<1>0. TypeOK /\ SemTypeOK /\ ScopeOpen /\ Settled /\ Sleeping
    BY DEF SemInv, LockInvariant, SemInvariant
<1>1. OthersStay(t) /\ OthersKeep(t) /\ abandoned' = abandoned
    BY StepStays
<1> DEFINE Awaits(u) == pc[u] = "cond" /\ at[u] = "test" /\ count >= request[u].n
           Announced == \E u \in Threads : at[u] = "broadcast"
<1>2. \A u \in Threads : /\ pc[u] = "cond" => condvar[u] = Sem
                         /\ Awaits(u) => woken[u] \/ Announced
    BY <1>0 DEF Sleeping
<1>3. \A u \in Threads : pc'[u] = "cond" => condvar'[u] = Sem
  <2>1. \A u \in Threads \ {t} : pc'[u] = "cond" => condvar'[u] = Sem
      BY <1>1, <1>2 DEF OthersStay
  <2>2. CASE \E r \in Calls[t] : Enters(t, r)
      BY <1>0, <2>1, <2>2, LocksFree, LocksBlocked DEF Enters
  <2>3. CASE Test(t) \/ Fetch(t) \/ Store(t) \/ Broadcasts(t)
      BY <1>0, <1>2, <2>1, <2>3, Broadcasted DEF Test, Fetch, Store, Broadcasts, vars
  <2>4. CASE Waits(t)
      BY <1>0, <2>1, <2>4, CondWaited DEF Waits
  <2>5. CASE Wakes(t) \/ TimesOut(t)
    <3>1. LockWakes(t) => lockvar[t] = Sem
        BY <1>0 DEF LockWakes, ScopeOpen
    <3> QED
        BY <1>0, <1>2, <2>1, <2>5, <3>1, LockWoken, Relocked, SpuriouslyWoken
        DEF Wakes, TimesOut, CondWakes, CondTimesOut, RelockWakes
  <2>6. CASE Leaves(t)
      BY <1>0, <2>1, <2>6, Released DEF Leaves
  <2> QED
      BY <2>2, <2>3, <2>4, <2>5, <2>6 DEF SemStep
<1>4. ASSUME NEW u \in Threads, Awaits(u)', ~Announced'
      PROVE  woken'[u]
  <2>1. CASE Broadcasts(t)
    <3>1. u # t
        BY <1>0, <1>4, <2>1 DEF Broadcasts, Goto, SemTypeOK
    <3>2. /\ pc[u] = "cond" /\ condvar[u] = Sem /\ request'[u] = request[u]
          /\ at[u] = "test" /\ count' = count
        BY <1>1, <1>2, <1>4, <2>1, <3>1 DEF OthersStay, OthersKeep, Broadcasts
    <3>3. request[u].n \in Nat \ {0} /\ count \in Int /\ count >= request[u].n
        BY <1>0, <1>4, <3>2, RequestNumber DEF ScopeOpen, InMethod, SemTypeOK
    <3>4. count > 0
        BY <3>3
    <3>5. CondBroadcast(t, Sem)
        BY <2>1, <3>3, <3>4 DEF Broadcasts
    <3> QED
        BY <1>0, <3>2, <3>5, Broadcasted
  <2>2. CASE ~Broadcasts(t)
    <3>1. ~Announced
      <4>1. ASSUME NEW w \in Threads, at[w] = "broadcast", w = t PROVE FALSE
        <5>1. pc[t] = "running"
            BY <1>0, <4>1 DEF Settled, Alone
        <5> QED
            BY <2>2, <4>1, <5>1
            DEF SemStep, Enters, Test, Waits, Wakes, TimesOut, Fetch, Store, Leaves, At,
                LockWakes, CondWakes, RelockWakes, SpuriousWakeup, CondTimesOut
      <4>2. ASSUME NEW w \in Threads, at[w] = "broadcast", w # t PROVE FALSE
          BY <1>1, <1>4, <4>2 DEF OthersKeep
      <4> QED
          BY <4>1, <4>2
    <3>2. CASE u # t
      <4>1. /\ pc[u] = "cond" /\ at[u] = "test" /\ request'[u] = request[u]
            /\ woken[u] => woken'[u]
          BY <1>1, <1>4, <3>2 DEF OthersStay, OthersKeep
      <4>2. CASE ~Store(t)
          BY <1>2, <1>4, <3>1, <4>1, <4>2, CountStays
      <4>3. CASE Store(t)
        <5>1. request[t].call # "up"
            BY <1>0, <1>4, <4>3 DEF Store, Goto, SemTypeOK
        <5>2. at[t] = "store" /\ read[t] = count /\ request[t].n \in Nat
            BY <1>0, <4>3, RequestNumber DEF Store, At, Settled, ScopeOpen, InMethod
        <5>3. count' = count - request[t].n /\ count \in Int
            BY <1>0, <4>3, <5>1, <5>2 DEF Store, Changed, SemTypeOK
        <5>4. request[u].n \in Nat /\ count' >= request[u].n
            BY <1>0, <1>4, <4>1, RequestNumber DEF ScopeOpen, InMethod
        <5>5. count >= request[u].n
            BY <5>2, <5>3, <5>4
        <5> QED
            BY <1>2, <3>1, <4>1, <5>5
      <4> QED
          BY <4>2, <4>3
    <3>3. CASE u = t
      <4>1. pc'[t] = "cond" /\ at'[t] = "test"
          BY <1>4, <3>3
      <4>2. CASE Wakes(t)
        <5>1. ~LockWakes(t)
          <6>1. LockWakes(t) => lockvar[t] = Sem
              BY <1>0 DEF LockWakes, ScopeOpen
          <6> QED
              BY <1>0, <4>1, <6>1, LockWoken
        <5>2. ~CondWakes(t) /\ ~RelockWakes(t)
            BY <1>0, <4>1, Relocked DEF CondWakes, RelockWakes
        <5> QED
            BY <1>0, <3>3, <4>2, <5>1, <5>2, SpuriouslyWoken DEF Wakes
      <4>3. CASE Waits(t)
        <5>1. at[t] = "wait" /\ count' = count /\ request' = request
            BY <4>3 DEF Waits, At
        <5>2. count < request[t].n /\ count >= request[t].n
            BY <1>0, <1>4, <3>3, <5>1 DEF Settled
        <5>3. count \in Int /\ request[t].n \in Nat
            BY <1>0, <5>1, RequestNumber DEF ScopeOpen, InMethod, SemTypeOK
        <5> QED
            BY <5>2, <5>3
      <4>4. CASE \E r \in Calls[t] : Enters(t, r)
          BY <1>0, <4>1, <4>4, LocksFree, LocksBlocked DEF Enters
      <4>5. CASE Test(t) \/ Fetch(t) \/ Store(t)
          BY <4>1, <4>5 DEF Test, Fetch, Store, At, vars
      <4>6. CASE TimesOut(t) \/ Leaves(t)
          BY <1>0, <4>1, <4>6 DEF TimesOut, Leaves, Goto, SemTypeOK
      <4> QED
          BY <2>2, <4>2, <4>3, <4>4, <4>5, <4>6 DEF SemStep
    <3> QED
        BY <3>2, <3>3
  <2> QED
      BY <2>1, <2>2
<1> QED
    BY <1>0, <1>1, <1>3, <1>4 DEF Sleeping

-----------------------------------------------------------------------------
\* A semaphore starts with the invariant: nobody is inside a method.
LEMMA SemInitInvariant == SemInit => SemInv
<1> SUFFICES ASSUME SemInit PROVE SemInv
    OBVIOUS
<1>1. LockInvariant
    BY InitInvariant DEF SemInit
<1>2. SemTypeOK
    BY SemAssumption DEF SemInit, SemTypeOK, Phases
<1>3. /\ \A t \in Threads : pc[t] = "running" /\ at[t] = "outside" /\ request[t] = NoRequest
      /\ abandoned[Sem] = NoThread
    BY SemAssumption DEF SemInit, Init
<1>4. ScopeOpen /\ Settled /\ Sleeping
    BY <1>3 DEF ScopeOpen, Settled, Sleeping, InMethod, Alone
<1> QED
    BY <1>1, <1>2, <1>4 DEF SemInv, SemInvariant

\* Every step of every thread keeps the invariant.
LEMMA SemStepInvariant == SemInv /\ [SemNext]_SemVars => SemInv'
<1> SUFFICES ASSUME SemInv, [SemNext]_SemVars PROVE SemInv'
    OBVIOUS
<1>1. LockInvariant'
  <2>1. [Next]_vars
      BY StepOfLocks
  <2>2. TypeOK' /\ Coherent'
      BY <2>1, TypeStep, CoherentStep DEF SemInv
  <2> QED
      BY <2>2 DEF LockInvariant, Coherent
<1>2. CASE SemNext
  <2>1. PICK t \in Threads : SemStep(t)
      BY <1>2 DEF SemNext
  <2> QED
      BY <1>1, <2>1, SemTypeStep, ScopeStep, SettledStep, SleepingStep DEF SemInv, SemInvariant
<1>3. CASE UNCHANGED SemVars
  <2>1. SemInvariant
      BY DEF SemInv
  <2>2. SemTypeOK' /\ ScopeOpen'
      BY <1>3, <2>1 DEF SemVars, vars, SemInvariant, SemTypeOK, ScopeOpen, InMethod
  <2>3. Settled' /\ Sleeping'
      BY <1>3, <2>1 DEF SemVars, vars, SemInvariant, Settled, Sleeping, Alone, Takes
  <2> QED
      BY <1>1, <2>2, <2>3 DEF SemInv, SemInvariant
<1> QED
    BY <1>2, <1>3

\* The thread inside the scope of a method of Thread::Semaphore is alone, and
\* what it knows about the count is true: for any threads, calls and counts.
THEOREM SemaphoreInvariant == SemSpec => []SemInvariant
<1>1. SemSpec => []SemInv
    BY SemInitInvariant, SemStepInvariant, PTL DEF SemSpec
<1>2. SemInv => SemInvariant
    BY DEF SemInv
<1> QED
    BY <1>1, <1>2, PTL

\* No token is lost or made up, whatever the methods interleave with: "-=" and
\* "+=" are a read and a write, the test of down a third step.
THEOREM TokensAreConserved == SemSpec => TokensConserved
<1> DEFINE Conserved == count' # count =>
                  \E t \in Threads : /\ At(t, "store") /\ at'[t] # "store"
                                     /\ count' = Changed(count, request[t])
                                     /\ Takes(request[t]) => count' >= 0
<1>1. ASSUME SemInv, SemNext PROVE Conserved
  <2>1. PICK t \in Threads : SemStep(t)
      BY <1>1 DEF SemNext
  <2>2. CASE Store(t)
    <3>0. SemTypeOK /\ ScopeOpen /\ Settled
        BY <1>1 DEF SemInv, SemInvariant
    <3>1. At(t, "store") /\ at'[t] # "store"
        BY <3>0, <2>2 DEF Store, Goto, SemTypeOK
    <3>2. at[t] = "store" /\ read[t] = count
        BY <3>0, <3>1 DEF At, Settled
    <3>3. count' = Changed(count, request[t])
        BY <2>2, <3>2 DEF Store
    <3>4. request[t].n \in Nat /\ count \in Int
        BY <3>0, <3>2, RequestNumber DEF ScopeOpen, InMethod, SemTypeOK
    <3>5. ASSUME Takes(request[t]) PROVE count' >= 0
      <4>1. count >= request[t].n
          BY <3>0, <3>2, <3>5 DEF Settled
      <4>2. count' = count - request[t].n
          BY <3>3, <3>5 DEF Changed, Takes
      <4> QED
          BY <3>4, <4>1, <4>2
    <3> QED
        BY <3>1, <3>3, <3>5
  <2>3. CASE ~Store(t)
      BY <2>1, <2>3, CountStays
  <2> QED
      BY <2>2, <2>3
<1>2. SemSpec => []SemInv
    BY SemInitInvariant, SemStepInvariant, PTL DEF SemSpec
<1>3. SemInv /\ [SemNext]_SemVars => [Conserved]_SemVars
    BY <1>1
<1> QED
    BY <1>2, <1>3, PTL DEF SemSpec, TokensConserved

\* Whoever sleeps in a down that the count allows has been woken when the lock
\* is free again: the "> 0" of up and its one broadcast are enough for that.
THEOREM NobodyLeftAsleep == SemSpec => []NoDownForgotten
<1>1. SemInv => NoDownForgotten
  <2> SUFFICES ASSUME SemInv, NEW t \in Threads, owner[Sem] = NoThread,
                      pc[t] = "cond", at[t] = "test", count >= request[t].n
               PROVE  woken[t]
      BY DEF NoDownForgotten
  <2>0. LockInvariant /\ ScopeOpen /\ Settled /\ Sleeping
      BY DEF SemInv, SemInvariant
  <2>1. ASSUME NEW u \in Threads, at[u] = "broadcast" PROVE FALSE
    <3>1. pc[u] = "running" /\ InMethod(u)
        BY <2>0, <2>1 DEF Settled, Alone, InMethod
    <3>2. held[u][Sem] > 0 /\ ~Waiting(u, Sem)
        BY <2>0, <3>1 DEF ScopeOpen, Waiting, Blocked
    <3>3. owner[Sem] = u \/ abandoned[Sem] = u
        BY <2>0, <3>2, SemAssumption DEF LockInvariant, HeldCoherent
    <3> QED
        BY <2>0, <3>3, LockAssumption DEF Sleeping
  <2> QED
      BY <2>0, <2>1 DEF Sleeping
<1>2. SemSpec => []SemInv
    BY SemInitInvariant, SemStepInvariant, PTL DEF SemSpec
<1> QED
    BY <1>1, <1>2, PTL
=============================================================================
