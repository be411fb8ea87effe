------------------------------ MODULE Semaphore ------------------------------
(***************************************************************************)
(* Thread::Semaphore: a count in a shared variable, which is its own lock   *)
(* and its own condition (SharedLock).  A shared scalar is tied: each time  *)
(* Perl reads or writes it is a step of its own, and "-=" is two of them.   *)
(***************************************************************************)
EXTENDS SharedLock, Integers

CONSTANTS Sem,        \* the shared scalar that the semaphore is
          Calls,      \* Calls[t]: the requests thread t makes, [call |-> ..., n |-> ...]
          NoRequest,  \* a thread outside any method
          Starts,     \* the arguments of new
          Fewest, Most  \* bounds: no down_force below, no up above

Requests == [call : {"down", "down_nb", "down_force", "down_timed", "up"}, n : Nat \ {0}]

ASSUME SemAssumption == /\ Sem \in Vars /\ Sem \in Conds
                        /\ Calls \in [Threads -> SUBSET Requests]
                        /\ NoRequest \notin Requests
                        /\ Starts \subseteq Int /\ Fewest \in Int /\ Most \in Int
                        /\ "valid" \in AbsTimes

VARIABLES
  count,    \* $$sema
  request,  \* request[t]: the method t is in and its argument
  at,       \* at[t]: the next thing t does in it
  read      \* read[t]: what t read from $$sema to add to or take from, 0 after

SemState == <<count, request, at, read>>
SemVars == <<vars, count, request, at, read>>

Phases == {"outside", "test", "wait", "fetch", "store", "broadcast", "leave"}

At(t, phase) == pc[t] = "running" /\ at[t] = phase
Goto(t, phase) == at' = [at EXCEPT ![t] = phase]

SemInit == /\ Init
           /\ count \in Starts
           /\ request = [t \in Threads |-> NoRequest]
           /\ at = [t \in Threads |-> "outside"]
           /\ read = [t \in Threads |-> 0]

-----------------------------------------------------------------------------
(* The methods.  validate_arg lets positive integers through.               *)

\* The call, up to lock($$sema).
Enters(t, r) == /\ At(t, "outside")
                /\ r.call = "up" => count < Most
                /\ r.call = "down_force" => count > Fewest
                /\ LockFree(t, Sem) \/ LockBlocks(t, Sem)
                /\ request' = [request EXCEPT ![t] = r]
                /\ Goto(t, IF r.call \in {"up", "down_force"} THEN "fetch" ELSE "test")
                /\ UNCHANGED <<count, read>>

\* $$sema >= $dec.
Test(t) == /\ At(t, "test")
           /\ Goto(t, IF count >= request[t].n THEN "fetch"
                      ELSE IF request[t].call = "down_nb" THEN "leave"
                      ELSE "wait")
           /\ UNCHANGED <<vars, count, request, read>>

TestsOnce(t) ==   \* mutant: "if" for "until", the test is not repeated
    /\ At(t, "wait")
    /\ CondWait(t, Sem, Sem, request[t].call = "down_timed")
    /\ Goto(t, "fetch")
    /\ UNCHANGED <<count, request, read>>

\* cond_wait, or cond_timedwait; the loop comes back to the test.
Waits(t) == /\ At(t, "wait")
            /\ CondWait(t, Sem, Sem, request[t].call = "down_timed")
            /\ Goto(t, "test")
            /\ UNCHANGED <<count, request, read>>

\* Steps of a thread inside lock, cond_wait and cond_timedwait.
Wakes(t) == /\ \/ LockWakes(t) \/ CondWakes(t) \/ RelockWakes(t) \/ SpuriousWakeup(t)
            /\ UNCHANGED SemState

\* cond_timedwait returns false, whatever the count is now: so does down_timed.
TimesOut(t) == /\ CondTimesOut(t)
               /\ Goto(t, "leave")
               /\ UNCHANGED <<count, request, read>>

\* $$sema -= $dec and $$sema += $inc: the first half, and the second.
Fetch(t) == /\ At(t, "fetch")
            /\ read' = [read EXCEPT ![t] = count]
            /\ Goto(t, "store")
            /\ UNCHANGED <<vars, count, request>>

Changed(value, r) == IF r.call = "up" THEN value + r.n ELSE value - r.n

Store(t) == /\ At(t, "store")
            /\ count' = Changed(read[t], request[t])
            /\ Goto(t, IF request[t].call = "up" THEN "broadcast" ELSE "leave")
            /\ UNCHANGED <<vars, request, read>>

\* ... > 0 and cond_broadcast($$sema).
SignalsOne(t) == /\ At(t, "broadcast")   \* mutant: cond_signal
                 /\ \/ count > 0 /\ CondSignal(t, Sem)
                    \/ count <= 0 /\ UNCHANGED vars
                 /\ Goto(t, "leave")
                 /\ UNCHANGED <<count, request, read>>

Broadcasts(t) == /\ At(t, "broadcast")
                 /\ \/ count > 0 /\ CondBroadcast(t, Sem)
                    \/ count <= 0 /\ UNCHANGED vars
                 /\ Goto(t, "leave")
                 /\ UNCHANGED <<count, request, read>>

\* The method returns, and its lock ends with its scope.
Leaves(t) == /\ At(t, "leave")
             /\ Release(t, Sem)
             /\ request' = [request EXCEPT ![t] = NoRequest]
             /\ Goto(t, "outside")
             /\ UNCHANGED <<count, read>>

-----------------------------------------------------------------------------
SemStep(t) == \/ \E r \in Calls[t] : Enters(t, r)
              \/ Test(t) \/ Waits(t) \/ Wakes(t) \/ TimesOut(t)
              \/ Fetch(t) \/ Store(t) \/ Broadcasts(t) \/ Leaves(t)

SemNext == \E t \in Threads : SemStep(t)

SemSpec == SemInit /\ [][SemNext]_SemVars

-----------------------------------------------------------------------------
(* Properties *)

SemTypeOK == /\ count \in Int
             /\ request \in [Threads -> Requests \cup {NoRequest}]
             /\ at \in [Threads -> Phases]
             /\ read \in [Threads -> Int]

Takes(r) == r.call \in {"down", "down_nb", "down_timed"}

\* The documented promise of the methods: each changes the count once, by its
\* own argument and from what the count is at that moment (no update is lost
\* between the reading and the writing of a "-=", or between the test and
\* the "-="), and none but down_force takes what is not there.
TokensConserved ==
    [][count' # count =>
          \E t \in Threads : /\ At(t, "store") /\ at'[t] # "store"
                             /\ count' = Changed(count, request[t])
                             /\ Takes(request[t]) => count' >= 0]_SemVars

\* "This will unblock any thread that is blocked trying to down": whoever
\* sleeps in a down that the count would allow has been woken by the time the
\* one that raised it lets go of the lock, however many slept, for however much.
NoDownForgotten ==
    \A t \in Threads :
        owner[Sem] = NoThread /\ pc[t] = "cond" /\ at[t] = "test" /\ count >= request[t].n
            => woken[t]

\* What makes both hold.  The thread that runs between lock($$sema) and the
\* end of the scope has the scope open, so it is alone there: what it read and
\* what it found out about the count stay true, until it stores.
InMethod(t) == at[t] # "outside"
ScopeOpen == \A t \in Threads :
                 /\ InMethod(t) => held[t][Sem] > 0 \/ pc[t] = "acquire"
                 /\ InMethod(t) = (request[t] # NoRequest)
                 /\ pc[t] # "running" => InMethod(t)
                 /\ pc[t] = "acquire" => lockvar[t] = Sem
Alone(t) == at[t] \in {"store", "wait", "broadcast"} \/ (at[t] = "fetch" /\ Takes(request[t]))
Settled == \A t \in Threads :
               /\ Alone(t) => pc[t] = "running"
               /\ at[t] = "store" => read[t] = count
               /\ at[t] \in {"fetch", "store"} /\ Takes(request[t]) => count >= request[t].n
               /\ at[t] = "wait" => count < request[t].n

\* A sleeper who could go on has been woken, or is about to be.
Sleeping == /\ abandoned[Sem] = NoThread
            /\ \A t \in Threads :
                   /\ pc[t] = "cond" => condvar[t] = Sem
                   /\ pc[t] = "cond" /\ at[t] = "test" /\ count >= request[t].n
                          => woken[t] \/ \E u \in Threads : at[u] = "broadcast"

SemInvariant == SemTypeOK /\ ScopeOpen /\ Settled /\ Sleeping
=============================================================================
