----------------------------- MODULE ThreadQueue -----------------------------
(***************************************************************************)
(* Thread::Queue, dist/Thread-Queue/lib/Thread/Queue.pm: a queue shared by *)
(* threads, with a limit for producers, an end, and one condition variable *)
(* for everybody who blocks.                                               *)
(*                                                                         *)
(* Every method locks the queue first, so what it does between lock() and  *)
(* its return, or between two cond_waits, is one step; SharedLock is what  *)
(* justifies that.  peek() and pending() change nothing and are left out.  *)
(* An item is the number of its arrival; undef is not put on the queue.    *)
(***************************************************************************)
EXTENDS Integers, Sequences, SequencesExt

CONSTANTS Threads,   \* the threads that share the queue
          Batches,   \* how many items an enqueue or an insert may bring
          Counts,    \* how many items a dequeue may ask for
          Indices,   \* the positions given to insert and extract
          Limits,    \* the values assigned to limit; 0 is no limit
          MaxItems,  \* bound: the items that ever arrive
          Idle       \* what a thread asks for that is in no method

ASSUME QueueAssumption == /\ MaxItems \in Nat
                          /\ Batches \subseteq 0..MaxItems
                          /\ Counts \subseteq Nat \ {0}
                          /\ Indices \subseteq Int
                          /\ Limits \subseteq Nat

VARIABLES queue,  \* @{$$self{queue}}
          ended,  \* $$self{ENDED}
          limit,  \* $$self{LIMIT}, 0 when it is not set
          at,     \* at[t]: idle, waiting in cond_wait, or woken from it
          want,   \* want[t]: the call that t waits in
          next,   \* the number of the next item
          gone    \* the items handed out

vars == <<queue, ended, limit, at, want, next, gone>>

Requests == [op : {"enqueue"}, n : Batches] \cup [op : {"dequeue", "dequeue_timed"}, n : Counts]

ASSUME IdleAssumption == Idle \notin Requests

New(n) == [i \in 1..n |-> next + i - 1]

AtLimit == limit # 0 /\ Len(queue) >= limit

\* _validate_count: a count beyond the limit croaks.
CountTooBig(n) == limit # 0 /\ n > limit

\* cond_signal with the threads at a: one of those who wait goes on.
OneWoken(a) == LET waiters == {t \in Threads : a[t] = "waiting"}
               IN IF waiters = {} THEN {a}
                  ELSE {[a EXCEPT ![t] = "woken"] : t \in waiters}

Init == /\ \E n \in Batches : queue = [i \in 1..n |-> i] /\ next = n + 1
        /\ ended = FALSE
        /\ limit \in Limits
        /\ at = [t \in Threads |-> "idle"]
        /\ want = [t \in Threads |-> Idle]
        /\ gone = {}

\* t leaves its method: with a cond_signal, or without.
ReturnSignalling(t) == /\ at' \in OneWoken([at EXCEPT ![t] = "idle"])
                       /\ want' = [want EXCEPT ![t] = Idle]
Return(t) == /\ at' = [at EXCEPT ![t] = "idle"]
             /\ want' = [want EXCEPT ![t] = Idle]

\* cond_wait: the lock goes, t blocks.
Waits(t, request) == /\ at' = [at EXCEPT ![t] = "waiting"]
                     /\ want' = [want EXCEPT ![t] = request]
                     /\ UNCHANGED <<queue, ended, limit, next, gone>>

-----------------------------------------------------------------------------
(* enqueue *)

PushSilently(t, n) ==   \* mutant: no cond_signal
    /\ next + n - 1 <= MaxItems
    /\ queue' = queue \o New(n)
    /\ next' = next + n
    /\ Return(t)
    /\ UNCHANGED <<ended, limit, gone>>

\* push(@$queue, ...) and cond_signal: push returns the length of the queue,
\* so only an empty batch on an empty queue signals nobody.
Push(t, n) == /\ next + n - 1 <= MaxItems
              /\ queue' = queue \o New(n)
              /\ next' = next + n
              /\ IF queue' = <<>> THEN Return(t) ELSE ReturnSignalling(t)
              /\ UNCHANGED <<ended, limit, gone>>

\* A call: croaks on an ended queue, else waits while the limit is reached.
Enqueue(t, n) == /\ at[t] = "idle" /\ ~ended
                 /\ \/ AtLimit /\ Waits(t, [op |-> "enqueue", n |-> n])
                    \/ ~AtLimit /\ Push(t, n)

EnqueueWakesUnchecked(t) ==   \* mutant: if for while
    /\ at[t] = "woken" /\ want[t].op = "enqueue"
    /\ Push(t, want[t].n)

\* Back from cond_wait: the limit is looked at again, ENDED is not.
EnqueueWakes(t) == /\ at[t] = "woken" /\ want[t].op = "enqueue"
                   /\ \/ AtLimit /\ Waits(t, want[t])
                      \/ ~AtLimit /\ Push(t, want[t].n)

-----------------------------------------------------------------------------
(* dequeue, dequeue_nb, dequeue_timed, extract *)

\* The items of the queue from position i on, n of them, go to t.
TakeOut(i, n) == LET removed == SubSeq(queue, i + 1, i + n)
                IN /\ queue' = SubSeq(queue, 1, i) \o SubSeq(queue, i + n + 1, Len(queue))
                   /\ gone' = gone \cup ToSet(removed)

\* Takes what there is, up to n items, in dequeue_nb and for its callers.
TakeSilently(t, n) ==   \* mutant: no cond_signal
    /\ TakeOut(0, IF n < Len(queue) THEN n ELSE Len(queue))
    /\ Return(t)
    /\ UNCHANGED <<ended, limit, next>>

TakeUpTo(t, n) == /\ TakeOut(0, IF n < Len(queue) THEN n ELSE Len(queue))
                  /\ ReturnSignalling(t)
                  /\ UNCHANGED <<ended, limit, next>>

\* dequeue_nb called from another method: it validates the count anew.
TakeOrCroak(t, n) == \/ ~CountTooBig(n) /\ TakeUpTo(t, n)
                     \/ CountTooBig(n) /\ Return(t) /\ UNCHANGED <<queue, ended, limit, next, gone>>

DequeueNb(t, n) == /\ at[t] = "idle" /\ ~CountTooBig(n)
                   /\ TakeUpTo(t, n)

\* The loop of dequeue: wait for n items, or for the end.
DequeueLoop(t, n) ==
    \/ Len(queue) < n /\ ~ended /\ Waits(t, [op |-> "dequeue", n |-> n])
    \/ Len(queue) >= n /\ ~ended /\ TakeUpTo(t, n)
    \/ ended /\ TakeOrCroak(t, n)

Dequeue(t, n) == /\ at[t] = "idle" /\ ~CountTooBig(n)
                 /\ DequeueLoop(t, n)

DequeueWakes(t) == /\ at[t] = "woken" /\ want[t].op = "dequeue"
                   /\ DequeueLoop(t, want[t].n)

\* The loop of dequeue_timed, and its exit when cond_timedwait gave up.
TimedLoop(t, n) ==
    \/ Len(queue) < n /\ ~ended /\ Waits(t, [op |-> "dequeue_timed", n |-> n])
    \/ (Len(queue) >= n \/ ended) /\ TakeOrCroak(t, n)

DequeueTimed(t, n) == /\ at[t] = "idle" /\ ~CountTooBig(n)
                      /\ TimedLoop(t, n)

DequeueTimedWakes(t) == /\ at[t] = "woken" /\ want[t].op = "dequeue_timed"
                        /\ TimedLoop(t, want[t].n)

DequeueTimesOut(t) == /\ at[t] = "waiting" /\ want[t].op = "dequeue_timed"
                      /\ TakeOrCroak(t, want[t].n)

\* extract takes n items from index on; a negative index counts from the end,
\* and one beyond the head shortens the request.
Extract(t, index, n) ==
    LET len == Len(queue)
        i == IF index < 0 THEN index + len ELSE index
    IN /\ at[t] = "idle" /\ ~CountTooBig(n)
       /\ \/ i < 0 /\ n + i > 0 /\ TakeOrCroak(t, n + i)
          \/ /\ i >= 0
             /\ IF i < len THEN TakeOut(i, IF n < len - i THEN n ELSE len - i)
                           ELSE UNCHANGED <<queue, gone>>
             /\ ReturnSignalling(t)
             /\ UNCHANGED <<ended, limit, next>>

-----------------------------------------------------------------------------
(* insert, end, limit *)

InsertLosing(t, index, n) ==   \* mutant: @tmp is not pushed back
    LET i == IF index < 0 THEN index + Len(queue) ELSE index
        pos == IF i < 0 THEN 0 ELSE IF i > Len(queue) THEN Len(queue) ELSE i
    IN /\ at[t] = "idle" /\ ~ended /\ n > 0 /\ next + n - 1 <= MaxItems
       /\ queue' = SubSeq(queue, 1, pos) \o New(n)
       /\ next' = next + n
       /\ ReturnSignalling(t)
       /\ UNCHANGED <<ended, limit, gone>>

InsertReversing(t, index, n) ==   \* mutant: push(@tmp, pop) for unshift
    LET i == IF index < 0 THEN index + Len(queue) ELSE index
        pos == IF i < 0 THEN 0 ELSE IF i > Len(queue) THEN Len(queue) ELSE i
    IN /\ at[t] = "idle" /\ ~ended /\ n > 0 /\ next + n - 1 <= MaxItems
       /\ queue' = SubSeq(queue, 1, pos) \o New(n)
                     \o Reverse(SubSeq(queue, pos + 1, Len(queue)))
       /\ next' = next + n
       /\ ReturnSignalling(t)
       /\ UNCHANGED <<ended, limit, gone>>

\* insert puts the items at index, whatever the limit; the ones from there on
\* are popped to @tmp and pushed back.
Insert(t, index, n) ==
    LET i == IF index < 0 THEN index + Len(queue) ELSE index
        pos == IF i < 0 THEN 0 ELSE IF i > Len(queue) THEN Len(queue) ELSE i
    IN /\ at[t] = "idle" /\ ~ended /\ n > 0 /\ next + n - 1 <= MaxItems
       /\ queue' = SubSeq(queue, 1, pos) \o New(n) \o SubSeq(queue, pos + 1, Len(queue))
       /\ next' = next + n
       /\ ReturnSignalling(t)
       /\ UNCHANGED <<ended, limit, gone>>

\* end: one cond_signal for all that wait.
End(t) == /\ at[t] = "idle"
          /\ ended' = TRUE
          /\ ReturnSignalling(t)
          /\ UNCHANGED <<queue, limit, next, gone>>

SetLimitOffByOne(t, n) ==   \* mutant: n taken as a last index
    /\ at[t] = "idle"
    /\ limit' = n - 1
    /\ UNCHANGED <<queue, ended, at, want, next, gone>>

\* The lvalue that limit returns is assigned after the method's lock is gone;
\* nobody is signalled.
SetLimit(t, n) == /\ at[t] = "idle"
                  /\ limit' = n
                  /\ UNCHANGED <<queue, ended, at, want, next, gone>>

\* cond_wait may return for no reason.
SpuriousWakeup(t) == /\ at[t] = "waiting"
                     /\ at' = [at EXCEPT ![t] = "woken"]
                     /\ UNCHANGED <<queue, ended, limit, want, next, gone>>

Next == \E t \in Threads :
            \/ EnqueueWakes(t) \/ DequeueWakes(t) \/ DequeueTimedWakes(t)
            \/ DequeueTimesOut(t) \/ End(t) \/ SpuriousWakeup(t)
            \/ \E n \in Batches : \/ Enqueue(t, n)
                                  \/ \E i \in Indices : Insert(t, i, n)
            \/ \E n \in Counts : \/ Dequeue(t, n) \/ DequeueNb(t, n) \/ DequeueTimed(t, n)
                                 \/ \E i \in Indices : Extract(t, i, n)
            \/ \E n \in Limits : SetLimit(t, n)

Spec == Init /\ [][Next]_vars

\* A woken thread gets the lock and runs; a time limit passes.
Fairness == \A t \in Threads : /\ WF_vars(EnqueueWakes(t)) /\ WF_vars(DequeueWakes(t))
                               /\ WF_vars(DequeueTimedWakes(t)) /\ WF_vars(DequeueTimesOut(t))

FairSpec == Spec /\ Fairness

-----------------------------------------------------------------------------
(* Properties *)

TypeOK == /\ queue \in Seq(Nat \ {0})
          /\ ended \in BOOLEAN
          /\ limit \in Nat
          /\ at \in [Threads -> {"idle", "waiting", "woken"}]
          /\ want \in [Threads -> Requests \cup {Idle}]
          /\ \A t \in Threads : at[t] = "idle" <=> want[t] = Idle
          /\ next \in 1..(MaxItems + 1)
          /\ gone \subseteq 1..MaxItems

\* Each item that arrived is on the queue or was handed out, once: insert and
\* extract take the tail apart and put it back under everybody's feet.
ItemsConserved == /\ \A i, j \in DOMAIN queue : queue[i] = queue[j] => i = j
                  /\ ToSet(queue) \cap gone = {}
                  /\ ToSet(queue) \cup gone = 1..(next - 1)

\* FIFO: no method changes the order of two items that stay on the queue.
OrderKept ==
    [][\A i, j \in DOMAIN queue, k, l \in DOMAIN queue' :
           i < j /\ queue'[k] = queue[i] /\ queue'[l] = queue[j] => k < l]_vars

\* A producer that waited at the limit goes on only below the limit, though
\* others fill the queue between its wake-up and its turn with the lock.
NoOvershoot ==
    [][\A t \in Threads : at[t] = "woken" /\ want[t] # Idle /\ want'[t] = Idle =>
           (want[t].op = "enqueue" => ~AtLimit)]_vars

Taker(t) == want[t] # Idle /\ want[t].op # "enqueue"

\* end() signals one thread only, and each taker that returns signals the
\* next: on a queue that never has a limit this reaches all of them.
EndUnblocksUnlimited == [](limit = 0) =>
                            (ended ~> \A t \in Threads : ~Taker(t))

\* Without a limit and with takers of single items the signals suffice: a
\* taker that waits while there are items does not go on waiting.
SingleTakersServed ==
    [](limit = 0 /\ \A t \in Threads : Taker(t) => want[t].n = 1)
        => \A t \in Threads : (Taker(t) /\ queue # <<>>) ~> (~Taker(t) \/ queue = <<>>)

\* The POD: "All threads blocking on dequeue() calls will be unblocked".
EndUnblocks == ended ~> \A t \in Threads : ~Taker(t)

\* The POD: "Once ended, no more items may be placed in the queue."
EndedStaysClosed == [][ended => next' = next]_vars

=============================================================================
