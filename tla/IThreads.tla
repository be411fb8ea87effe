------------------------------ MODULE IThreads ------------------------------
(***************************************************************************)
(* The life of interpreter threads, dist/threads/threads.xs: create, run,  *)
(* join, detach, the objects that refer to a thread, and the destruction   *)
(* of its interpreter and of its ithread structure.                        *)
(*                                                                         *)
(* Two kinds of mutex guard it: one per ithread, and the pool's            *)
(* create_destruct_mutex.  A section that takes one of them and blocks on  *)
(* nothing inside is one step.  Those that hold a mutex while they block   *)
(* on another are split there; they are create (both mutexes, during       *)
(* perl_clone), list, object, detach and the end of a thread (the pool's,  *)
(* while they take an ithread's) and S_ithread_clear, which destroys an    *)
(* interpreter with the ithread's mutex held.  agenda[p] is the stack of   *)
(* the calls that thread p is in, innermost first; Do(op, t) is a call     *)
(* about ithread t that has still to do op and what comes after it.        *)
(***************************************************************************)
EXTENDS Integers, FiniteSets, Sequences, SequencesExt, FiniteSetsExt

CONSTANTS Main,        \* the main thread, which is no ithread to join
          NumThreads,  \* bound: the threads ever created
          MaxObjects,  \* bound: threads objects for one thread in one interpreter
          FailsInCompany, \* pthread_create may fail while other threads run
          Nobody       \* the holder of a mutex that is free

ASSUME ThreadsAssumption == /\ NumThreads \in Nat \ {0} /\ MaxObjects \in Nat \ {0}
                            /\ FailsInCompany \in BOOLEAN
                            /\ Main \notin 1..NumThreads
                            /\ Nobody \notin 1..NumThreads \cup {Main}

Tids == 1..NumThreads
Everyone == Tids \cup {Main}

VARIABLES
  phase,     \* phase[t]: unborn, creating, running, over (the OS thread has ended)
  state,     \* state[t]: the PERL_ITHR_ flags that are set
  count,     \* count[t]: the reference count of t's ithread
  allocated, \* the ithreads whose structure exists
  listed,    \* the ithreads on the pool's list
  interps,   \* the interpreters that exist
  objects,   \* objects[i][t]: the threads objects for t in interpreter i
  mutex,     \* mutex[t]: who holds t's mutex
  pool,      \* who holds create_destruct_mutex
  agenda,    \* agenda[p]: the calls that p is in, and how far
  running, joinable, detached, total,   \* the pool's counters
  poolGone   \* the main interpreter, and the pool with it, is destroyed

refvars == <<count, allocated, listed, interps, objects>>
counters == <<running, joinable, detached, total>>
vars == <<phase, state, refvars, mutex, pool, agenda, counters, poolGone>>

Do(op, t) == [op |-> op, t |-> t]

\* PERL_ITHR_UNCALLABLE: detached or joined already.
Uncallable(t) == state[t] \cap {"DETACHED", "JOINED"} # {}

Free(t) == mutex[t] = Nobody
PoolFree == pool = Nobody

\* p is between two calls, and may make one.
Ready(p) == /\ agenda[p] = <<>> /\ ~poolGone
            /\ p # Main => phase[p] = "running" /\ "FINISHED" \notin state[p]
IsNext(p, op) == agenda[p] # <<>> /\ Head(agenda[p]).op = op
It(p) == Head(agenda[p]).t
Rest(p) == Tail(agenda[p])
Then(p, calls) == agenda' = [agenda EXCEPT ![p] = calls \o Rest(p)]
Begin(p, op, t) == agenda' = [agenda EXCEPT ![p] = <<Do(op, t)>>]

Init == /\ phase = [t \in Tids |-> "unborn"]
        /\ state = [t \in Tids |-> {}]
        /\ count = [t \in Tids |-> 0]
        /\ allocated = {} /\ listed = {} /\ interps = {Main}
        /\ objects = [i \in Everyone |-> [t \in Tids |-> 0]]
        /\ mutex = [t \in Tids |-> Nobody]
        /\ pool = Nobody
        /\ agenda = [p \in Everyone |-> <<>>]
        /\ running = 0 /\ joinable = 0 /\ detached = 0 /\ total = 0
        /\ poolGone = FALSE

-----------------------------------------------------------------------------
(* threads->create *)

\* The structure is listed, counted and locked; perl_clone will copy the
\* parent's threads objects one by one.
Create(p, t) ==
    /\ Ready(p) /\ PoolFree
    /\ phase[t] = "unborn" /\ \A u \in Tids : u < t => phase[u] # "unborn"
    /\ pool' = p
    /\ mutex' = [mutex EXCEPT ![t] = p]
    /\ phase' = [phase EXCEPT ![t] = "creating"]
    /\ count' = [count EXCEPT ![t] = 3]
    /\ allocated' = allocated \cup {t}
    /\ listed' = listed \cup {t}
    /\ interps' = interps \cup {t}
    /\ total' = total + 1
    /\ Begin(p, "start", t)
    /\ UNCHANGED <<state, objects, running, joinable, detached, poolGone>>

\* ithread_mg_dup: the copies of the objects for one thread count.
CloneObject(p) ==
    /\ IsNext(p, "start")
    /\ \E u \in Tids :
          /\ objects[p][u] > 0 /\ objects[It(p)][u] = 0 /\ Free(u)
          /\ count' = [count EXCEPT ![u] = @ + objects[p][u]]
          /\ objects' = [objects EXCEPT ![It(p)][u] = objects[p][u]]
    /\ UNCHANGED <<phase, state, allocated, listed, interps, mutex, pool, agenda, counters, poolGone>>

Cloned(p) == IsNext(p, "start") /\ objects[It(p)] = objects[p]

\* pthread_create succeeds: the object is made and the thread let go.
Start(p) ==
    /\ Cloned(p)
    /\ LET t == It(p)
       IN /\ phase' = [phase EXCEPT ![t] = "running"]
          /\ objects' = [objects EXCEPT ![p][t] = @ + 1]
          /\ mutex' = [mutex EXCEPT ![t] = Nobody]
    /\ running' = running + 1
    /\ pool' = Nobody
    /\ Then(p, <<>>)
    /\ UNCHANGED <<state, count, allocated, listed, interps, joinable, detached, total, poolGone>>

\* pthread_create fails: the pool is unlocked before the thread is unlisted,
\* and another thread can get an object for it in between; what becomes of
\* that object is undefined, so a run may leave the case out.
StartFails(p) ==
    /\ Cloned(p)
    /\ FailsInCompany \/ \A t \in Tids \ {p, It(p)} : phase[t] \in {"unborn", "over"}
    /\ FailsInCompany \/ p = Main
    /\ LET t == It(p)
       IN /\ phase' = [phase EXCEPT ![t] = "over"]
          /\ state' = [state EXCEPT ![t] = @ \cup {"NONVIABLE"}]
          /\ Then(p, <<Do("release", t)>>)
    /\ pool' = Nobody
    /\ UNCHANGED <<refvars, mutex, counters, poolGone>>

-----------------------------------------------------------------------------
(* S_ithread_free and S_ithread_clear *)

\* S_ithread_free up to the unlock: one reference less, unless NONVIABLE; the
\* thread that drops the last one goes on.
Release(p) ==
    /\ IsNext(p, "release")
    /\ LET t == It(p)
           left == IF "NONVIABLE" \in state[t] THEN 0 ELSE count[t] - 1
       IN /\ count' = [count EXCEPT ![t] = left]
          /\ mutex' = [mutex EXCEPT ![t] = Nobody]
          /\ Then(p, IF left > 0 THEN <<>> ELSE <<Do("unlink", t)>>)
    /\ UNCHANGED <<phase, state, allocated, listed, interps, objects, pool, counters, poolGone>>

UnlinkUncounts(p) ==   \* mutant: total_threads counted down with the list, too
    /\ IsNext(p, "unlink") /\ PoolFree
    /\ listed' = listed \ {It(p)}
    /\ total' = total - 1
    /\ Then(p, <<Do("destroy", It(p))>>)
    /\ UNCHANGED <<phase, state, count, allocated, interps, objects, mutex, pool, running, joinable, detached, poolGone>>

\* Off the list, under the pool's mutex.
Unlink(p) ==
    /\ IsNext(p, "unlink") /\ PoolFree
    /\ listed' = listed \ {It(p)}
    /\ Then(p, <<Do("destroy", It(p))>>)
    /\ UNCHANGED <<phase, state, count, allocated, interps, objects, mutex, pool, counters, poolGone>>

\* "Thread is now disowned": its interpreter goes, then the structure.
Destroy(p) ==
    /\ IsNext(p, "destroy") /\ Free(It(p))
    /\ mutex' = [mutex EXCEPT ![It(p)] = p]
    /\ Then(p, <<Do("clear", It(p)), Do("dispose", It(p))>>)
    /\ UNCHANGED <<phase, state, refvars, pool, counters, poolGone>>

\* perl_destruct frees the interpreter's threads objects: ithread_mg_free
\* takes the mutex of the object's thread while t's is held.
ClearObject(p) ==
    /\ IsNext(p, "clear") /\ It(p) \in interps
    /\ \E u \in Tids :
          /\ objects[It(p)][u] > 0 /\ Free(u)
          /\ mutex' = [mutex EXCEPT ![u] = p]
          /\ objects' = [objects EXCEPT ![It(p)][u] = @ - 1]
          /\ Then(p, <<Do("release", u), Do("clear", It(p))>>)
    /\ UNCHANGED <<phase, state, count, allocated, listed, interps, pool, counters, poolGone>>

\* S_ithread_clear returns; it does nothing when the interpreter is gone.
ClearEnds(p) ==
    /\ IsNext(p, "clear")
    /\ It(p) \in interps => \A u \in Tids : objects[It(p)][u] = 0
    /\ interps' = interps \ {It(p)}
    /\ Then(p, <<>>)
    /\ UNCHANGED <<phase, state, count, allocated, listed, objects, mutex, pool, counters, poolGone>>

Dispose(p) ==
    /\ IsNext(p, "dispose")
    /\ allocated' = allocated \ {It(p)}
    /\ mutex' = [mutex EXCEPT ![It(p)] = Nobody]
    /\ Then(p, <<Do("untotal", It(p))>>)
    /\ UNCHANGED <<phase, state, count, listed, interps, objects, pool, counters, poolGone>>

\* "Decrement this as the very last thing in the thread's existence."
Uncount(p) ==
    /\ IsNext(p, "untotal") /\ PoolFree
    /\ total' = total - 1
    /\ Then(p, <<>>)
    /\ UNCHANGED <<phase, state, refvars, mutex, pool, running, joinable, detached, poolGone>>

\* A threads object goes out of scope, or DESTROY is called on it.
DropObject(p, t) ==
    /\ Ready(p) /\ objects[p][t] > 0 /\ Free(t)
    /\ objects' = [objects EXCEPT ![p][t] = @ - 1]
    /\ mutex' = [mutex EXCEPT ![t] = p]
    /\ Begin(p, "release", t)
    /\ UNCHANGED <<phase, state, count, allocated, listed, interps, pool, counters, poolGone>>

-----------------------------------------------------------------------------
(* join *)

\* With t's mutex held: the interpreter goes unless its error may be asked
\* for, and the reference of join and detach is dropped.
Reap(t) == IF "DIED" \in state[t] THEN <<Do("release", t)>>
           ELSE <<Do("clear", t), Do("release", t)>>

\* The thread is marked as joined, or the call croaks without an effect.
Join(p, t) ==
    /\ Ready(p) /\ p # t /\ objects[p][t] > 0 /\ Free(t)
    /\ ~Uncallable(t)
    /\ state' = [state EXCEPT ![t] = @ \cup {"JOINED"}]
    /\ Begin(p, "unjoinable", t)
    /\ UNCHANGED <<phase, refvars, mutex, pool, counters, poolGone>>

JoinUncounts(p) ==
    /\ IsNext(p, "unjoinable") /\ PoolFree
    /\ joinable' = joinable - 1
    /\ Then(p, <<Do("wait", It(p))>>)
    /\ UNCHANGED <<phase, state, refvars, mutex, pool, running, detached, total, poolGone>>

\* pthread_join.
JoinReturns(p) ==
    /\ IsNext(p, "wait") /\ phase[It(p)] = "over"
    /\ Then(p, <<Do("collect", It(p))>>)
    /\ UNCHANGED <<phase, state, refvars, mutex, pool, counters, poolGone>>

\* The return values are cloned, under t's mutex, and t's interpreter goes.
JoinCollects(p) ==
    /\ IsNext(p, "collect") /\ Free(It(p))
    /\ mutex' = [mutex EXCEPT ![It(p)] = p]
    /\ Then(p, Reap(It(p)))
    /\ UNCHANGED <<phase, state, refvars, pool, counters, poolGone>>

-----------------------------------------------------------------------------
(* detach, the end of a thread, list and object: under the pool's mutex *)

\* $thr->detach, or threads->detach by the thread itself.
Detach(p, t) ==
    /\ Ready(p) /\ PoolFree
    /\ objects[p][t] > 0 \/ p = t
    /\ pool' = p
    /\ Begin(p, "detach", t)
    /\ UNCHANGED <<phase, state, refvars, mutex, counters, poolGone>>

\* The counts that follow from t's being detached.
CountDetached(t) == /\ IF "FINISHED" \in state[t]
                       THEN joinable' = joinable - 1 /\ UNCHANGED <<running, detached>>
                       ELSE /\ running' = running - 1 /\ detached' = detached + 1
                            /\ UNCHANGED joinable
                    /\ UNCHANGED total

DetachMarksAlways(p) ==   \* mutant: no test of UNCALLABLE
    /\ IsNext(p, "detach") /\ Free(It(p))
    /\ pool' = Nobody
    /\ state' = [state EXCEPT ![It(p)] = @ \cup {"DETACHED"}]
    /\ CountDetached(It(p))
    /\ Then(p, <<Do("detached", It(p))>>)
    /\ UNCHANGED <<phase, refvars, mutex, poolGone>>

DetachMarks(p) ==
    /\ IsNext(p, "detach") /\ Free(It(p))
    /\ pool' = Nobody
    /\ IF Uncallable(It(p))
       THEN Then(p, <<>>) /\ UNCHANGED <<state, counters>>
       ELSE /\ state' = [state EXCEPT ![It(p)] = @ \cup {"DETACHED"}]
            /\ CountDetached(It(p))
            /\ Then(p, <<Do("detached", It(p))>>)
    /\ UNCHANGED <<phase, refvars, mutex, poolGone>>

DetachReaps(p) ==   \* mutant: FINISHED is not looked at
    /\ IsNext(p, "detached") /\ Free(It(p))
    /\ mutex' = [mutex EXCEPT ![It(p)] = p]
    /\ Then(p, Reap(It(p)))
    /\ UNCHANGED <<phase, state, refvars, pool, counters, poolGone>>

DetachReleases(p) ==
    /\ IsNext(p, "detached") /\ Free(It(p))
    /\ mutex' = [mutex EXCEPT ![It(p)] = p]
    /\ Then(p, IF "FINISHED" \in state[It(p)] THEN Reap(It(p)) ELSE <<Do("release", It(p))>>)
    /\ UNCHANGED <<phase, state, refvars, pool, counters, poolGone>>

\* The thread's function has returned or died: S_ithread_run after call_sv.
Finish(t, flags) ==
    /\ Ready(t) /\ PoolFree
    /\ pool' = t
    /\ Begin(t, IF "DIED" \in flags THEN "die" ELSE "finish", t)
    /\ UNCHANGED <<phase, state, refvars, mutex, counters, poolGone>>

\* The counts that follow from t's having finished.
CountFinishedAsRunning(t) ==   \* mutant: DETACHED is not looked at
    /\ running' = running - 1 /\ joinable' = joinable + 1
    /\ UNCHANGED <<detached, total>>

CountFinished(t) ==
    IF "DETACHED" \in state[t]
    THEN detached' = detached - 1 /\ UNCHANGED <<running, joinable, total>>
    ELSE running' = running - 1 /\ joinable' = joinable + 1 /\ UNCHANGED <<detached, total>>

FinishMarks(t) ==
    /\ IsNext(t, "finish") \/ IsNext(t, "die")
    /\ Free(t)
    /\ state' = [state EXCEPT ![t] = @ \cup {"FINISHED"}
                                       \cup (IF IsNext(t, "die") THEN {"DIED"} ELSE {})]
    /\ CountFinished(t)
    /\ pool' = Nobody
    /\ Then(t, <<Do("runfree", t)>>)
    /\ UNCHANGED <<phase, refvars, mutex, poolGone>>

\* The reference of S_ithread_run itself; then the OS thread ends.
FinishReleases(t) ==
    /\ IsNext(t, "runfree") /\ Free(t)
    /\ mutex' = [mutex EXCEPT ![t] = t]
    /\ Then(t, <<Do("release", t), Do("exit", t)>>)
    /\ UNCHANGED <<phase, state, refvars, pool, counters, poolGone>>

ThreadEnds(t) ==
    /\ IsNext(t, "exit")
    /\ phase' = [phase EXCEPT ![t] = "over"]
    /\ Then(t, <<>>)
    /\ UNCHANGED <<state, refvars, mutex, pool, counters, poolGone>>

\* threads->list, whose three filters are "all", "running" and "joinable", goes
\* along the list, which is in the order of the numbers; the calls "object" and
\* those three stand at the thread they look at next.
ListFilters == {"all", "running", "joinable"}

List(p, filter) ==
    /\ Ready(p) /\ PoolFree
    /\ listed # {} /\ \A u \in listed : objects[p][u] < MaxObjects
    /\ pool' = p
    /\ Begin(p, filter, Min(listed))
    /\ UNCHANGED <<phase, state, refvars, mutex, counters, poolGone>>

\* threads->object: another thread with that number, when it is listed.
Object(p, t) ==
    /\ p # t
    /\ Ready(p) /\ PoolFree
    /\ t \in listed /\ objects[p][t] < MaxObjects
    /\ pool' = p
    /\ Begin(p, "object", t)
    /\ UNCHANGED <<phase, state, refvars, mutex, counters, poolGone>>

\* Whether a thread passes the filter, by the one read of its state.
PassesUncallable(t, filter) ==   \* mutant: no test of UNCALLABLE
    /\ filter = "running" => "FINISHED" \notin state[t]
    /\ filter = "joinable" => "FINISHED" \in state[t]

Passes(t, filter) ==
    /\ ~Uncallable(t)
    /\ filter = "running" => "FINISHED" \notin state[t]
    /\ filter = "joinable" => "FINISHED" \in state[t]

\* thread = thread->next, to the end of the list; object has found its thread.
Onward(t, filter) ==
    LET later == {u \in listed : u > t}
    IN IF filter \in ListFilters /\ later # {} THEN Do(filter, Min(later)) ELSE Do("unpool", Main)

\* The state is read under t's mutex; the object is made afterwards.
Look(p) ==
    \E filter \in ListFilters \cup {"object"} :
        /\ IsNext(p, filter) /\ Free(It(p))
        /\ Then(p, IF Passes(It(p), filter)
                   THEN <<Do("refer", It(p)), Onward(It(p), filter)>>
                   ELSE <<Onward(It(p), filter)>>)
        /\ UNCHANGED <<phase, state, refvars, mutex, pool, counters, poolGone>>

\* S_ithread_to_SV: S_ithread_count_inc, and one object more.
Refer(p) ==
    /\ IsNext(p, "refer") /\ Free(It(p))
    /\ count' = [count EXCEPT ![It(p)] = @ + 1]
    /\ objects' = [objects EXCEPT ![p][It(p)] = @ + 1]
    /\ Then(p, <<>>)
    /\ UNCHANGED <<phase, state, allocated, listed, interps, mutex, pool, counters, poolGone>>

LookEnds(p) ==
    /\ IsNext(p, "unpool")
    /\ pool' = Nobody
    /\ Then(p, <<>>)
    /\ UNCHANGED <<phase, state, refvars, mutex, counters, poolGone>>

\* threads->self, also for its own number given to threads->object.
Self(t) ==
    /\ Ready(t) /\ Free(t) /\ objects[t][t] < MaxObjects
    /\ count' = [count EXCEPT ![t] = @ + 1]
    /\ objects' = [objects EXCEPT ![t][t] = @ + 1]
    /\ UNCHANGED <<phase, state, allocated, listed, interps, mutex, pool, agenda, counters, poolGone>>

\* perl_destruct of the main interpreter: Perl_ithread_hook vetoes it while
\* total_threads > 0, and the process just ends.
MainEnds == /\ Ready(Main) /\ PoolFree
            /\ total = 0
            /\ poolGone' = TRUE
            /\ interps' = interps \ {Main}
            /\ UNCHANGED <<phase, state, count, allocated, listed, objects, mutex, pool, agenda, counters>>

-----------------------------------------------------------------------------
\* What a thread does inside a call.
Continue(p) == \/ CloneObject(p) \/ Start(p) \/ StartFails(p)
               \/ Release(p) \/ Unlink(p) \/ Destroy(p) \/ ClearObject(p) \/ ClearEnds(p)
               \/ Dispose(p) \/ Uncount(p)
               \/ JoinUncounts(p) \/ JoinReturns(p) \/ JoinCollects(p)
               \/ DetachMarks(p) \/ DetachReleases(p)
               \/ Look(p) \/ Refer(p) \/ LookEnds(p)

Ending(t) == FinishMarks(t) \/ FinishReleases(t) \/ ThreadEnds(t)

Call(p) == \/ \E t \in Tids : \/ Create(p, t) \/ DropObject(p, t)
                              \/ Join(p, t) \/ Detach(p, t)
                              \/ Object(p, t)
           \/ \E filter \in ListFilters : List(p, filter)

Next == \/ \E p \in Everyone : Continue(p) \/ Call(p)
        \/ \E t \in Tids : Ending(t) \/ Self(t) \/ Finish(t, {}) \/ Finish(t, {"DIED"})
        \/ MainEnds

Spec == Init /\ [][Next]_vars

\* The scheduler runs a thread that can go on; thread functions return.
Fairness == /\ \A p \in Everyone : WF_vars(Continue(p))
            /\ \A t \in Tids : WF_vars(Ending(t))

FairSpec == Spec /\ Fairness

-----------------------------------------------------------------------------
(* Properties *)

Flags == {"DETACHED", "JOINED", "FINISHED", "NONVIABLE", "DIED"}

TypeOK == /\ phase \in [Tids -> {"unborn", "creating", "running", "over"}]
          /\ state \in [Tids -> SUBSET Flags]
          /\ count \in [Tids -> Nat]
          /\ allocated \subseteq Tids /\ listed \subseteq allocated
          /\ interps \subseteq Everyone
          /\ objects \in [Everyone -> [Tids -> 0..MaxObjects]]
          /\ mutex \in [Tids -> Everyone \cup {Nobody}]
          /\ pool \in Everyone \cup {Nobody}
          /\ running \in Nat /\ detached \in Nat /\ total \in Nat /\ joinable \in Int
          /\ poolGone \in BOOLEAN

Pending(op, t) == \E p \in Everyone : Do(op, t) \in ToSet(agenda[p])

\* The references to t: its objects, the one of S_ithread_run, the one of join
\* or detach, and those on their way through S_ithread_free.
InObjects(t) ==
    Cardinality({a \in Everyone \X (1..MaxObjects) : a[2] <= objects[a[1]][t]})
RunRef(t) == IF \/ phase[t] = "creating" \/ Pending("runfree", t)
                \/ (phase[t] = "running" /\ "FINISHED" \notin state[t])
             THEN 1 ELSE 0
JoinRef(t) == IF \/ ~Uncallable(t)
                 \/ \E op \in {"unjoinable", "wait", "collect", "detached"} : Pending(op, t)
              THEN 1 ELSE 0
NewObject(t) == IF phase[t] = "creating" THEN 1 ELSE 0
Releases(t) == IF Pending("release", t) THEN 1 ELSE 0

\* ithread.count is the number of references, whatever mix of objects, joins,
\* detaches and nested interpreter destructions is under way.
RefsCounted ==
    \A t \in Tids : phase[t] # "unborn" /\ "NONVIABLE" \notin state[t] =>
        count[t] = InObjects(t) + RunRef(t) + JoinRef(t) + NewObject(t) + Releases(t)

\* No object and no call refers to an ithread whose structure was freed.
NoUseAfterFree ==
    \A t \in Tids \ allocated :
        /\ \A i \in Everyone : objects[i][t] = 0
        /\ \A p \in Everyone : \A a \in ToSet(agenda[p]) :
               a.t = t => a.op \in {"untotal", "exit"}

\* An interpreter is not destroyed under the thread that runs in it, and the
\* one of a thread that died stays for error() while an object refers to it.
InterpreterLives ==
    \A t \in Tids :
        /\ phase[t] = "running" /\ "FINISHED" \notin state[t] => t \in interps
        /\ "DIED" \in state[t] /\ InObjects(t) > 0 => t \in interps

\* The pool's counters are the threads they stand for.  join counts a thread
\* as joinable no more before it has finished, so that counter may be negative.
CountersAgree ==
    LET Live == {t \in Tids : phase[t] = "running" /\ "FINISHED" \notin state[t]}
        Off == {t \in Tids : "DETACHED" \in state[t]}
        Ended == {t \in Tids : "FINISHED" \in state[t]}
        Uncounted == {t \in Tids : "JOINED" \in state[t] /\ ~Pending("unjoinable", t)}
    IN /\ running = Cardinality(Live \ Off)
       /\ detached = Cardinality(Live \cap Off)
       /\ joinable = Cardinality(Ended \ Off) - Cardinality(Uncounted)

\* The main thread destroys the pool only when no thread will use it again:
\* total_threads is what vetoes it, to the last step of the last thread.
PoolOutlives ==
    poolGone => \A t \in Tids : /\ \A a \in ToSet(agenda[t]) : a.op = "exit"
                                /\ phase[t] = "running" => "FINISHED" \in state[t]

\* threads.pm: join waits for the thread to complete, then returns.
JoinEnds == \A p \in Everyone, t \in Tids :
                (Do("wait", t) \in ToSet(agenda[p]) /\ phase[t] = "over") ~> (agenda[p] = <<>>)

=============================================================================
