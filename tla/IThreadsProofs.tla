--------------------------- MODULE IThreadsProofs ---------------------------
(***************************************************************************)
(* Proofs about IThreads, for any number of threads and of objects: the    *)
(* reference count of an ithread is the number of references to it, so no  *)
(* structure is used after it was freed; and with it the pool's counters,  *)
(* the life of the interpreters and of the pool itself.  The invariants    *)
(* below say what each call on a stack may count on, and what the state of *)
(* a thread says about it.  A thread that could not be started is taken    *)
(* for granted to fail while no other runs: see StartFails.                *)
(***************************************************************************)
EXTENDS IThreads, FiniteSetTheorems, SequenceTheorems, WellFoundedInduction, TLAPS

Lookups == ListFilters \cup {"object"}
Joining == {"unjoinable", "wait", "collect"}
\* The steps of S_ithread_free, with the reference on its way out or gone.
Unlinking == {"unlink", "destroy", "dispose", "untotal"}
Freeing == {"release"} \cup Unlinking
Ops == {"start", "clear", "detach", "detached", "finish", "die", "runfree", "exit",
        "refer", "unpool"} \cup Joining \cup Freeing \cup Lookups
Calls == [op : Ops, t : Everyone]

Stack(p) == ToSet(agenda[p])
IsLive(p) == p = Main \/ (phase[p] = "running" /\ "FINISHED" \notin state[p])

-----------------------------------------------------------------------------
(* What a stack looks like *)

\* b may be the call that a returns to.
Follows(a, b) ==
    \/ a.op = "clear" /\ b.op \in {"release", "dispose"} /\ b.t = a.t
    \/ a.op \in Freeing /\ b.op \in {"clear", "exit"}
    \/ a.op = "refer" /\ (b.op = "unpool" \/ (b.op \in ListFilters /\ a.t < b.t))

\* Only the steps of S_ithread_free, of S_ithread_clear and of S_ithread_to_SV
\* return into another call.
Linked(s) ==
    /\ \A i \in 1..Len(s) - 1 : Follows(s[i], s[i + 1])
    /\ s # <<>> => s[Len(s)].op \notin {"clear", "refer"}

\* No ithread is freed twice over in one stack.
Once(s) ==
    \A i, j \in 1..Len(s) :
        s[i].op \in Freeing /\ s[j].op \in Freeing /\ s[i].t = s[j].t => i = j

StacksOK == /\ agenda \in [Everyone -> Seq(Calls)]
            /\ \A p \in Everyone : Linked(agenda[p]) /\ Once(agenda[p])

\* Two threads are never about to free the same ithread, nor do two hold the
\* reference of its join or detach.
Apart ==
    \A p, q \in Everyone : \A a \in Stack(p), b \in Stack(q) :
        a.t = b.t /\ p # q =>
            /\ ~(a.op \in Freeing /\ b.op \in Freeing)
            /\ ~(a.op \in Joining \cup {"detached"} /\ b.op \in Joining \cup {"detached"})

-----------------------------------------------------------------------------
(* What a call on a stack may count on *)

\* The calls that are made with the pool's mutex held.
PoolOps == {"start", "detach", "finish", "die", "refer", "unpool"} \cup Lookups

KnownOK(p, a) == /\ a.op # "unpool" => a.t \in Tids /\ phase[a.t] # "unborn"
                 /\ a.op = "unpool" => a.t = Main
                 /\ a.op \in PoolOps => pool = p

\* S_ithread_free and S_ithread_clear.
FreeOK(p, a) ==
    LET t == a.t
    IN /\ a.op = "release" => mutex[t] = p /\ count[t] > 0
       /\ a.op \in Unlinking => count[t] = 0
       /\ a.op = "unlink" => t \in listed
       /\ a.op \in {"destroy", "dispose"} => t \in allocated \ listed
       /\ a.op = "dispose" => mutex[t] = p
       /\ a.op = "untotal" => t \notin allocated
       /\ a.op = "clear" => /\ state[t] \cap {"FINISHED", "NONVIABLE"} # {}
                            /\ "DIED" \in state[t] => count[t] = 0

\* What is left of a thread's life, of join and of detach.
LifeOK(p, a) ==
    /\ a.op = "start" => mutex[a.t] = p /\ phase[a.t] = "creating"
    /\ a.op \in Joining => "JOINED" \in state[a.t]
    /\ a.op = "collect" => phase[a.t] = "over"
    /\ a.op = "detached" => "DETACHED" \in state[a.t]
    /\ a.op = "detach" => IsLive(p) /\ (objects[p][a.t] > 0 \/ p = a.t)
    /\ a.op \in {"finish", "die"} => p = a.t /\ IsLive(p)
    /\ a.op \in {"runfree", "exit"} => p = a.t /\ "FINISHED" \in state[a.t]

Room(p, t) == objects[p][t] < MaxObjects

\* list and object.  A thread that passed may be joined meanwhile, but join
\* keeps its reference while another thread holds the pool's mutex.
LookOK(p, a) ==
    /\ a.op \in {"refer"} \cup Lookups => IsLive(p) /\ a.t \in listed /\ Room(p, a.t)
    /\ a.op \in ListFilters => \A u \in listed : u > a.t => Room(p, u)
    /\ a.op = "refer" => ~Uncallable(a.t) \/ Pending("unjoinable", a.t)

CallOK(p, a) == KnownOK(p, a) /\ FreeOK(p, a) /\ LifeOK(p, a) /\ LookOK(p, a)

CallsOK == \A p \in Everyone : \A a \in Stack(p) : CallOK(p, a)

-----------------------------------------------------------------------------
(* What the state of a thread says about it *)

NoObjects(t) == \A i \in Everyone : objects[i][t] = 0

UnbornOK(t) ==
    phase[t] = "unborn" => /\ state[t] = {} /\ count[t] = 0
                           /\ t \notin allocated
                           /\ NoObjects(t)
                           /\ \A u \in Tids : objects[t][u] = 0

CreatingOK(t) ==
    phase[t] = "creating" => /\ state[t] = {} /\ NoObjects(t)
                             /\ t \in interps
                             /\ \E p \in Everyone : agenda[p] = <<Do("start", t)>>

StateOK(t) ==
    /\ phase[t] # "running" => agenda[t] = <<>>
    /\ phase[t] = "running" /\ "FINISHED" \notin state[t] =>
           t \in interps /\ "NONVIABLE" \notin state[t]
    /\ phase[t] = "over" => state[t] \cap {"FINISHED", "NONVIABLE"} # {}
    /\ "FINISHED" \in state[t] => phase[t] \in {"running", "over"}
    /\ "DIED" \in state[t] => "FINISHED" \in state[t]
    /\ "DIED" \in state[t] /\ count[t] > 0 => t \in interps
    /\ ~("JOINED" \in state[t] /\ "DETACHED" \in state[t])
    /\ t \notin listed => count[t] = 0

\* While the thread that could not be started is listed, no other runs.
NonviableOK(t) ==
    "NONVIABLE" \in state[t] =>
        /\ state[t] = {"NONVIABLE"} /\ phase[t] = "over"
        /\ NoObjects(t)
        /\ t \in listed => /\ agenda[Main] \in {<<Do("release", t)>>, <<Do("unlink", t)>>}
                           /\ \A u \in Tids : phase[u] \in {"unborn", "over"}

ThreadsOK == \A t \in Tids : UnbornOK(t) /\ CreatingOK(t) /\ StateOK(t) /\ NonviableOK(t)

\* The ithreads that total_threads counts.
InTotal == {t \in Tids : t \in allocated \/ Pending("untotal", t)}
TotalOK == total = Cardinality(InTotal)

GoneOK == poolGone => total = 0 /\ pool = Nobody /\ agenda[Main] = <<>>


\* RefsCounted for one ithread.
RefOK(t) ==
    phase[t] # "unborn" /\ "NONVIABLE" \notin state[t] =>
        count[t] = InObjects(t) + RunRef(t) + JoinRef(t) + NewObject(t) + Releases(t)

IInv == TypeOK /\ StacksOK /\ Apart /\ CallsOK /\ ThreadsOK /\ (\A t \in Tids : RefOK(t))
        /\ TotalOK /\ CountersAgree /\ GoneOK

-----------------------------------------------------------------------------
(* Sequences with one more element in front *)

\* A sequence with a in front: its parts and its elements.
LEMMA PushSeq ==
    ASSUME NEW S, NEW a \in S, NEW s \in Seq(S)
    PROVE  /\ <<a>> \o s \in Seq(S) /\ <<a>> \o s # <<>>
           /\ Len(<<a>> \o s) = Len(s) + 1
           /\ (<<a>> \o s)[1] = a
           /\ \A i \in 1..Len(s) : (<<a>> \o s)[i + 1] = s[i]
           /\ Head(<<a>> \o s) = a /\ Tail(<<a>> \o s) = s
           /\ ToSet(<<a>> \o s) = {a} \cup ToSet(s)
<1> DEFINE z == <<a>> \o s
<1>1. z \in Seq(S) /\ Len(z) = Len(s) + 1 /\ z[1] = a /\ \A i \in 1..Len(s) : z[i + 1] = s[i]
    OBVIOUS
<1>2. z # <<>> /\ Head(z) = a /\ Tail(z) = s
    OBVIOUS
<1> HIDE DEF z
<1>3. DOMAIN z = 1..Len(s) + 1 /\ DOMAIN s = 1..Len(s) /\ Len(s) \in Nat
    BY <1>1
<1>4. ToSet(z) \subseteq {a} \cup ToSet(s)
  <2> SUFFICES ASSUME NEW i \in 1..Len(s) + 1 PROVE z[i] = a \/ \E j \in 1..Len(s) : z[i] = s[j]
      BY <1>3 DEF ToSet
  <2>1. CASE i = 1
      BY <2>1, <1>1
  <2>2. CASE i # 1
    <3>1. i - 1 \in 1..Len(s) /\ z[(i - 1) + 1] = s[i - 1]
        BY <2>2, <1>1, <1>3
    <3> QED
        BY <3>1, <1>3
  <2> QED
      BY <2>1, <2>2
<1>5. {a} \cup ToSet(s) \subseteq ToSet(z)
    BY <1>1, <1>3 DEF ToSet
<1> QED
    BY <1>1, <1>2, <1>4, <1>5 DEF z

\* Every sequence that is not empty is of that form.
LEMMA PopSeq ==
    ASSUME NEW S, NEW s \in Seq(S), s # <<>>
    PROVE  /\ Head(s) \in S /\ Tail(s) \in Seq(S)
           /\ s = <<Head(s)>> \o Tail(s)
           /\ Head(s) \in ToSet(s)
           /\ ToSet(s) = {Head(s)} \cup ToSet(Tail(s))
<1>1. Head(s) \in S /\ Tail(s) \in Seq(S)
    OBVIOUS
<1>2. s = <<Head(s)>> \o Tail(s)
    OBVIOUS
<1>3. ToSet(<<Head(s)>> \o Tail(s)) = {Head(s)} \cup ToSet(Tail(s))
  <2>1. \A a \in S, r \in Seq(S) : ToSet(<<a>> \o r) = {a} \cup ToSet(r)
      BY PushSeq
  <2> QED
      BY <1>1, <2>1, Zenon
<1>4. ToSet(s) = {Head(s)} \cup ToSet(Tail(s))
    BY <1>2, <1>3, Zenon
<1> QED
    BY <1>1, <1>2, <1>4

LEMMA PushTwo ==
    ASSUME NEW a \in Calls, NEW b \in Calls, NEW s \in Seq(Calls)
    PROVE  <<a, b>> \o s = <<a>> \o (<<b>> \o s)
<1> DEFINE r == <<b>> \o s
           x == <<a, b>> \o s
           y == <<a>> \o r
<1>1. /\ x \in Seq(Calls) /\ Len(x) = Len(s) + 2 /\ x[1] = a /\ x[2] = b
      /\ \A i \in 1..Len(s) : x[i + 2] = s[i]
    OBVIOUS
<1>2. /\ r \in Seq(Calls) /\ Len(r) = Len(s) + 1 /\ r[1] = b
      /\ \A i \in 1..Len(s) : r[i + 1] = s[i]
    OBVIOUS
<1> HIDE DEF r
<1>3. y \in Seq(Calls) /\ Len(y) = Len(r) + 1 /\ y[1] = a /\ \A i \in 1..Len(r) : y[i + 1] = r[i]
    BY <1>2
<1>4. Len(s) \in Nat
    OBVIOUS
<1> HIDE DEF x, y
<1>5. \A i \in 1..Len(x) : x[i] = y[i]
  <2> TAKE i \in 1..Len(x)
  <2>1. CASE i = 1
      BY <2>1, <1>1, <1>3
  <2>2. CASE i = 2
      BY <2>2, <1>1, <1>2, <1>3, <1>4
  <2>3. CASE i > 2
    <3>1. /\ i - 2 \in 1..Len(s) /\ i - 1 \in 1..Len(r)
          /\ (i - 2) + 2 = i /\ (i - 2) + 1 = i - 1 /\ (i - 1) + 1 = i
        BY <2>3, <1>1, <1>2, <1>4
    <3>2. x[(i - 2) + 2] = s[i - 2] /\ r[(i - 2) + 1] = s[i - 2] /\ y[(i - 1) + 1] = r[i - 1]
        BY <3>1, <1>1, <1>2, <1>3
    <3> QED
        BY <3>1, <3>2
  <2> QED
      BY <2>1, <2>2, <2>3, <1>1, <1>4
<1>6. x = y
    BY <1>1, <1>2, <1>3, <1>4, <1>5, SeqEqual
<1> QED
    BY <1>6 DEF x, y, r

LEMMA PushCall ==
    \A a \in Calls, s \in Seq(Calls) : ToSet(<<a>> \o s) = {a} \cup ToSet(s)
    BY PushSeq

LEMMA ShortSeq ==
    ASSUME NEW S, NEW a \in S
    PROVE  /\ <<a>> \o <<>> = <<a>> /\ <<a>> \in Seq(S) /\ <<>> \in Seq(S)
           /\ ToSet(<<a>>) = {a} /\ ToSet(<<>>) = {}
           /\ Head(<<a>>) = a /\ Tail(<<a>>) = <<>>
<1>1. <<a>> \o <<>> = <<a>> /\ <<a>> \in Seq(S) /\ <<>> \in Seq(S)
    OBVIOUS
<1>2. ToSet(<<a>>) = {a} /\ ToSet(<<>>) = {}
    BY DEF ToSet
<1>3. Head(<<a>>) = a /\ Tail(<<a>>) = <<>>
    OBVIOUS
<1> QED
    BY <1>1, <1>2, <1>3

\* One call more on a stack leaves it Linked when it returns to what is there.
LEMMA LinkedPush ==
    ASSUME NEW a \in Calls, NEW s \in Seq(Calls)
    PROVE  Linked(<<a>> \o s) <=>
               /\ Linked(s)
               /\ IF s = <<>> THEN a.op \notin {"clear", "refer"} ELSE Follows(a, Head(s))
<1> DEFINE z == <<a>> \o s
<1>1. /\ z \in Seq(Calls) /\ z # <<>> /\ Len(z) = Len(s) + 1 /\ z[1] = a
      /\ \A i \in 1..Len(s) : z[i + 1] = s[i]
    BY PushSeq
<1>2. Len(s) \in Nat /\ (s # <<>> => Len(s) > 0 /\ Head(s) = s[1]) /\ (s = <<>> => Len(s) = 0)
    OBVIOUS
<1> HIDE DEF z
<1>3. CASE s = <<>>
    BY <1>1, <1>2, <1>3 DEF Linked, z
<1>4. CASE s # <<>>
  <2>1. z[Len(z)] = s[Len(s)] /\ z[2] = s[1]
      BY <1>1, <1>2, <1>4
  <2>2. ASSUME Linked(z) PROVE Linked(s) /\ Follows(a, Head(s))
    <3>1. ASSUME NEW i \in 1..Len(s) - 1 PROVE Follows(s[i], s[i + 1])
      <4>1. i + 1 \in 1..Len(z) - 1 /\ i \in 1..Len(s) /\ i + 1 \in 1..Len(s)
          BY <1>1, <1>2
      <4>2. Follows(z[i + 1], z[(i + 1) + 1])
          BY <2>2, <4>1 DEF Linked
      <4> QED
          BY <4>1, <4>2, <1>1
    <3>2. Follows(z[1], z[1 + 1])
        BY <2>2, <1>1, <1>2, <1>4 DEF Linked
    <3> QED
        BY <3>1, <3>2, <2>1, <2>2, <1>1, <1>2, <1>4 DEF Linked
  <2>3. ASSUME Linked(s), Follows(a, Head(s)) PROVE Linked(z)
    <3>1. ASSUME NEW i \in 1..Len(z) - 1 PROVE Follows(z[i], z[i + 1])
      <4>1. CASE i = 1
          BY <4>1, <2>1, <2>3, <1>1, <1>2, <1>4
      <4>2. CASE i # 1
        <5>1. i - 1 \in 1..Len(s) - 1 /\ i - 1 \in 1..Len(s) /\ i \in 1..Len(s)
            BY <4>2, <1>1, <1>2
        <5>2. Follows(s[i - 1], s[(i - 1) + 1])
            BY <5>1, <2>3 DEF Linked
        <5>3. z[(i - 1) + 1] = s[i - 1] /\ z[i + 1] = s[i] /\ (i - 1) + 1 = i
            BY <5>1, <1>1
        <5> QED
            BY <5>2, <5>3
      <4> QED
          BY <4>1, <4>2
    <3> QED
        BY <3>1, <2>1, <2>3, <1>4 DEF Linked
  <2> QED
      BY <2>2, <2>3, <1>4 DEF z
<1> QED
    BY <1>3, <1>4

\* ... and leaves no ithread freed twice when it frees one that no call there frees.
LEMMA OncePush ==
    ASSUME NEW a \in Calls, NEW s \in Seq(Calls)
    PROVE  Once(<<a>> \o s) <=>
               /\ Once(s)
               /\ a.op \in Freeing => \A b \in ToSet(s) : b.op \in Freeing => b.t # a.t
<1> DEFINE z == <<a>> \o s
<1>1. /\ z \in Seq(Calls) /\ Len(z) = Len(s) + 1 /\ z[1] = a
      /\ \A i \in 1..Len(s) : z[i + 1] = s[i]
    BY PushSeq
<1>2. Len(s) \in Nat /\ ToSet(s) = {s[i] : i \in 1..Len(s)}
    BY DEF ToSet
<1> HIDE DEF z
<1>3. ASSUME Once(z) PROVE Once(s)
  <2> SUFFICES ASSUME NEW i \in 1..Len(s), NEW j \in 1..Len(s),
                      s[i].op \in Freeing, s[j].op \in Freeing, s[i].t = s[j].t
               PROVE  i = j
      BY DEF Once
  <2>1. i + 1 \in 1..Len(z) /\ j + 1 \in 1..Len(z) /\ z[i + 1] = s[i] /\ z[j + 1] = s[j]
      BY <1>1, <1>2
  <2>2. i + 1 = j + 1
      BY <2>1, <1>3 DEF Once
  <2> QED
      BY <2>2
<1>4. ASSUME Once(z), a.op \in Freeing, NEW b \in ToSet(s), b.op \in Freeing
      PROVE  b.t # a.t
  <2>1. PICK i \in 1..Len(s) : b = s[i]
      BY <1>2
  <2>2. i + 1 \in 1..Len(z) /\ 1 \in 1..Len(z) /\ z[i + 1] = b /\ i + 1 # 1
      BY <2>1, <1>1, <1>2
  <2> QED
      BY <2>2, <1>4, <1>1 DEF Once
<1>5. ASSUME Once(s), a.op \in Freeing => \A b \in ToSet(s) : b.op \in Freeing => b.t # a.t
      PROVE  Once(z)
  <2> SUFFICES ASSUME NEW i \in 1..Len(z), NEW j \in 1..Len(z),
                      z[i].op \in Freeing, z[j].op \in Freeing, z[i].t = z[j].t
               PROVE  i = j
      BY DEF Once
  <2>1. \A k \in 1..Len(z) : k # 1 => k - 1 \in 1..Len(s) /\ z[(k - 1) + 1] = s[k - 1] /\ (k - 1) + 1 = k
      BY <1>1, <1>2
  <2>2. CASE i = 1 /\ j # 1
      BY <2>1, <2>2, <1>1, <1>2, <1>5
  <2>3. CASE i # 1 /\ j = 1
      BY <2>1, <2>3, <1>1, <1>2, <1>5
  <2>4. CASE i # 1 /\ j # 1
    <3>1. /\ i - 1 \in 1..Len(s) /\ z[i] = s[i - 1]
          /\ j - 1 \in 1..Len(s) /\ z[j] = s[j - 1]
        BY <2>1, <2>4
    <3>2. i - 1 = j - 1
        BY <3>1, <1>5 DEF Once
    <3> QED
        BY <3>1, <3>2, <1>2
  <2> QED
      BY <2>2, <2>3, <2>4
<1> QED
    BY <1>3, <1>4, <1>5 DEF z

-----------------------------------------------------------------------------
(* Counting objects *)

LEMMA EveryoneFinite == IsFiniteSet(Tids) /\ IsFiniteSet(Everyone)
<1>1. IsFiniteSet(Tids)
    BY ThreadsAssumption, FS_Interval DEF Tids
<1> QED
    BY <1>1, FS_AddElement DEF Everyone

\* Room for MaxObjects objects in each interpreter.
LEMMA SlotsFinite ==
    /\ IsFiniteSet(Everyone \X (1..MaxObjects))
    /\ \A i : \A n \in 0..MaxObjects : IsFiniteSet({i} \X (1..n)) /\ Cardinality({i} \X (1..n)) = n
<1>1. IsFiniteSet(Everyone \X (1..MaxObjects))
  <2>1. MaxObjects \in Int /\ 1 \in Int
      BY ThreadsAssumption
  <2>2. IsFiniteSet(1..MaxObjects)
      BY <2>1, FS_Interval
  <2> QED
      BY <2>2, EveryoneFinite, FS_Product, Zenon
<1>2. ASSUME NEW i, NEW n \in 0..MaxObjects
      PROVE  IsFiniteSet({i} \X (1..n)) /\ Cardinality({i} \X (1..n)) = n
  <2>1. n \in Nat /\ n \in Int /\ 1 \in Int
      BY ThreadsAssumption
  <2>2. IsFiniteSet({i}) /\ Cardinality({i}) = 1
      BY FS_Singleton, Zenon
  <2>3. IsFiniteSet(1..n) /\ Cardinality(1..n) = IF 1 > n THEN 0 ELSE n - 1 + 1
      BY <2>1, FS_Interval, Zenon
  <2>4. Cardinality(1..n) = n
      BY <2>1, <2>3
  <2>5. IsFiniteSet({i} \X (1..n)) /\ Cardinality({i} \X (1..n)) = Cardinality({i}) * Cardinality(1..n)
      BY <2>2, <2>3, FS_Product, Zenon
  <2> QED
      BY <2>1, <2>2, <2>4, <2>5
<1> QED
    BY <1>1, <1>2

LEMMA DisjointSum ==
    ASSUME NEW A, NEW B, IsFiniteSet(A), IsFiniteSet(B), A \cap B = {}
    PROVE  /\ Cardinality(A) \in Nat /\ Cardinality(B) \in Nat
           /\ Cardinality(A \cup B) = Cardinality(A) + Cardinality(B)
<1>1. Cardinality(A) \in Nat /\ Cardinality(B) \in Nat
    BY FS_CardinalityType
<1>2. Cardinality(A \cap B) = 0
    BY FS_EmptySet, Zenon
<1>3. Cardinality(A \cup B) = Cardinality(A) + Cardinality(B) - Cardinality(A \cap B)
    BY FS_Union, Zenon
<1> QED
    BY <1>1, <1>2, <1>3

\* objects[i][t] with all else as it was: InObjects(t) changes by as much.
LEMMA ObjectsChange ==
    ASSUME NEW f \in [Everyone -> [Tids -> 0..MaxObjects]],
           NEW g \in [Everyone -> [Tids -> 0..MaxObjects]],
           NEW i \in Everyone, NEW t \in Tids,
           \A j \in Everyone : j # i => f[j][t] = g[j][t]
    PROVE  LET In(h) == {a \in Everyone \X (1..MaxObjects) : a[2] <= h[a[1]][t]}
           IN /\ Cardinality(In(f)) \in Nat /\ Cardinality(In(g)) \in Nat
              /\ Cardinality(In(g)) = (Cardinality(In(f)) - f[i][t]) + g[i][t]
<1> DEFINE In(h) == {a \in Everyone \X (1..MaxObjects) : a[2] <= h[a[1]][t]}
           Rest0 == {a \in Everyone \X (1..MaxObjects) : a[1] # i /\ a[2] <= f[a[1]][t]}
           Mine(n) == {i} \X (1..n)
<1>1. IsFiniteSet(In(f)) /\ IsFiniteSet(In(g)) /\ IsFiniteSet(Rest0)
    BY SlotsFinite, FS_Subset
<1>2. \A n \in 0..MaxObjects : IsFiniteSet(Mine(n)) /\ Cardinality(Mine(n)) = n
    BY SlotsFinite
<1>4. f[i][t] \in 0..MaxObjects /\ g[i][t] \in 0..MaxObjects
    OBVIOUS
<1>5. In(f) = Rest0 \cup Mine(f[i][t]) /\ Rest0 \cap Mine(f[i][t]) = {}
    BY <1>4, ThreadsAssumption
<1>6. In(g) = Rest0 \cup Mine(g[i][t]) /\ Rest0 \cap Mine(g[i][t]) = {}
  <2>1. Rest0 = {a \in Everyone \X (1..MaxObjects) : a[1] # i /\ a[2] <= g[a[1]][t]}
      OBVIOUS
  <2> QED
      BY <2>1, <1>4, ThreadsAssumption
<1> HIDE DEF Rest0, Mine
<1>7. /\ Cardinality(Rest0) \in Nat
      /\ Cardinality(In(f)) = Cardinality(Rest0) + Cardinality(Mine(f[i][t]))
    BY <1>1, <1>2, <1>4, <1>5, DisjointSum
<1>8. Cardinality(In(g)) = Cardinality(Rest0) + Cardinality(Mine(g[i][t]))
    BY <1>1, <1>2, <1>4, <1>6, DisjointSum
<1> QED
    BY <1>2, <1>4, <1>7, <1>8

\* The same of a step of the specification.
LEMMA InObjectsStep ==
    ASSUME TypeOK, objects' \in [Everyone -> [Tids -> 0..MaxObjects]],
           NEW i \in Everyone, NEW t \in Tids,
           \A j \in Everyone : j # i => objects'[j][t] = objects[j][t]
    PROVE  /\ InObjects(t) \in Nat /\ InObjects(t)' \in Nat
           /\ InObjects(t)' = (InObjects(t) - objects[i][t]) + objects'[i][t]
    BY ObjectsChange DEF TypeOK, InObjects

LEMMA InObjectsSame ==
    ASSUME NEW t \in Tids, \A i \in Everyone : objects'[i][t] = objects[i][t]
    PROVE  InObjects(t)' = InObjects(t)
<1>1. \A a \in Everyone \X (1..MaxObjects) : objects'[a[1]][t] = objects[a[1]][t]
    OBVIOUS
<1> QED
    BY <1>1 DEF InObjects

\* There are objects for t when InObjects(t) says so.
LEMMA InObjectsZero ==
    ASSUME TypeOK, NEW t \in Tids
    PROVE  InObjects(t) \in Nat /\ (InObjects(t) = 0 <=> NoObjects(t))
<1> DEFINE In == {a \in Everyone \X (1..MaxObjects) : a[2] <= objects[a[1]][t]}
<1>2. IsFiniteSet(In)
    BY SlotsFinite, FS_Subset
<1>3. In = {} <=> NoObjects(t)
  <2>1. ASSUME NEW i \in Everyone, objects[i][t] # 0 PROVE <<i, 1>> \in In
      BY <2>1, ThreadsAssumption DEF TypeOK
  <2>2. ASSUME NoObjects(t), NEW a \in In PROVE FALSE
      BY <2>2 DEF NoObjects
  <2> QED
      BY <2>1, <2>2 DEF NoObjects
<1> QED
    BY <1>2, <1>3, FS_EmptySet, FS_CardinalityType DEF InObjects

-----------------------------------------------------------------------------
(* Stacks before and after a step *)

\* What the innermost call of a stack is, and what it returns to.
LEMMA Top ==
    ASSUME StacksOK, NEW p \in Everyone, agenda[p] # <<>>
    PROVE  /\ Head(agenda[p]) \in Calls /\ Head(agenda[p]) \in Stack(p)
           /\ Head(agenda[p]) = Do(Head(agenda[p]).op, It(p)) /\ It(p) \in Everyone
           /\ Rest(p) \in Seq(Calls) /\ Linked(Rest(p)) /\ Once(Rest(p))
           /\ agenda[p] = <<Head(agenda[p])>> \o Rest(p)
           /\ Stack(p) = {Head(agenda[p])} \cup ToSet(Rest(p))
           /\ Rest(p) = <<>> => Head(agenda[p]).op \notin {"clear", "refer"}
           /\ Rest(p) # <<>> => /\ Follows(Head(agenda[p]), Head(Rest(p)))
                                /\ Head(Rest(p)) \in ToSet(Rest(p))
                                /\ Head(Rest(p)) \in Calls
           /\ Head(agenda[p]).op \in Freeing =>
                  \A b \in ToSet(Rest(p)) : b.op \in Freeing => b.t # It(p)
<1> DEFINE s == agenda[p]
           a == Head(s)
           r == Tail(s)
<1>1. s \in Seq(Calls) /\ s # <<>> /\ Linked(s) /\ Once(s)
    BY DEF StacksOK
<1>2. a \in Calls /\ r \in Seq(Calls) /\ s = <<a>> \o r /\ a \in ToSet(s) /\ ToSet(s) = {a} \cup ToSet(r)
    BY <1>1, PopSeq
<1>3. r # <<>> => Head(r) \in Calls /\ Head(r) \in ToSet(r)
    BY <1>2, PopSeq
<1> HIDE DEF a, r
<1>4. Linked(<<a>> \o r) /\ Once(<<a>> \o r)
    BY <1>1, <1>2
<1>5. Linked(r) /\ IF r = <<>> THEN a.op \notin {"clear", "refer"} ELSE Follows(a, Head(r))
    BY <1>2, <1>4, LinkedPush
<1>6. Once(r) /\ (a.op \in Freeing => \A b \in ToSet(r) : b.op \in Freeing => b.t # a.t)
    BY <1>2, <1>4, OncePush
<1>7. a = Do(a.op, a.t) /\ a.t \in Everyone
    BY <1>2 DEF Calls, Do
<1> QED
    BY <1>2, <1>3, <1>5, <1>6, <1>7 DEF a, r, Rest, It, Stack

\* Only calls of S_ithread_free, S_ithread_clear and S_ithread_to_SV are made
\* by another; any other is the whole stack.
LEMMA Alone ==
    ASSUME StacksOK, NEW p \in Everyone, agenda[p] # <<>>,
           Head(agenda[p]).op \notin Freeing \cup {"clear", "refer"}
    PROVE  /\ Rest(p) = <<>> /\ agenda[p] = <<Head(agenda[p])>>
           /\ Stack(p) = {Head(agenda[p])}
<1>1. Rest(p) = <<>>
    BY Top DEF Follows
<1>2. Head(agenda[p]) \in Calls /\ agenda[p] = <<Head(agenda[p])>> \o <<>>
    BY <1>1, Top
<1>3. agenda[p] = <<Head(agenda[p])>>
    BY <1>2
<1> QED
    BY <1>1, <1>3, Top, ShortSeq

LEMMA Restack ==
    ASSUME StacksOK, NEW p \in Everyone, NEW s \in Seq(Calls),
           agenda' = [agenda EXCEPT ![p] = s], Linked(s), Once(s)
    PROVE  /\ StacksOK' /\ agenda'[p] = s /\ Stack(p)' = ToSet(s)
           /\ \A q \in Everyone : q # p => agenda'[q] = agenda[q] /\ Stack(q)' = Stack(q)
    BY DEF StacksOK, Stack

\* The innermost call returns.
LEMMA Returns ==
    ASSUME StacksOK, NEW p \in Everyone, agenda[p] # <<>>, Then(p, <<>>)
    PROVE  /\ StacksOK' /\ Stack(p)' = ToSet(Rest(p))
           /\ Head(agenda[p]).op \in Freeing => Head(agenda[p]) \notin Stack(p)'
           /\ \A q \in Everyone : q # p => agenda'[q] = agenda[q] /\ Stack(q)' = Stack(q)
           /\ agenda'[p] = Rest(p)
<1>1. agenda' = [agenda EXCEPT ![p] = Rest(p)]
    BY Top DEF Then
<1>2. /\ StacksOK' /\ Stack(p)' = ToSet(Rest(p)) /\ agenda'[p] = Rest(p)
      /\ \A q \in Everyone : q # p => agenda'[q] = agenda[q] /\ Stack(q)' = Stack(q)
    BY <1>1, Top, Restack
<1>3. Head(agenda[p]).op \in Freeing => Head(agenda[p]) \notin ToSet(Rest(p))
    BY Top DEF It
<1> QED
    BY <1>2, <1>3

\* The innermost call goes on, to b.
LEMMA GoesOn ==
    ASSUME StacksOK, NEW p \in Everyone, agenda[p] # <<>>, NEW b \in Calls, Then(p, <<b>>),
           Rest(p) = <<>> => b.op \notin {"clear", "refer"},
           Rest(p) # <<>> => Follows(b, Head(Rest(p))),
           b.op \in Freeing => \A c \in ToSet(Rest(p)) : c.op \in Freeing => c.t # b.t
    PROVE  /\ StacksOK' /\ Stack(p)' = {b} \cup ToSet(Rest(p))
           /\ \A q \in Everyone : q # p => agenda'[q] = agenda[q] /\ Stack(q)' = Stack(q)
           /\ agenda'[p] = <<b>> \o Rest(p)
<1>1. <<b>> \o Rest(p) \in Seq(Calls) /\ Linked(<<b>> \o Rest(p)) /\ Once(<<b>> \o Rest(p))
    BY Top, LinkedPush, OncePush, PushSeq
<1>2. ToSet(<<b>> \o Rest(p)) = {b} \cup ToSet(Rest(p))
    BY Top, PushCall
<1> QED
    BY <1>1, <1>2, Restack DEF Then

\* The innermost call goes on to c, which makes the call b first.
LEMMA CallsFirst ==
    ASSUME StacksOK, NEW p \in Everyone, agenda[p] # <<>>,
           NEW b \in Calls, NEW c \in Calls, Then(p, <<b, c>>),
           Follows(b, c),
           Rest(p) = <<>> => c.op \notin {"clear", "refer"},
           Rest(p) # <<>> => Follows(c, Head(Rest(p))),
           \A d \in ToSet(Rest(p)) : d.op \in Freeing =>
               /\ b.op \in Freeing => d.t # b.t
               /\ c.op \in Freeing => d.t # c.t,
           ~(b.op \in Freeing /\ c.op \in Freeing)
    PROVE  /\ StacksOK' /\ Stack(p)' = {b, c} \cup ToSet(Rest(p))
           /\ \A q \in Everyone : q # p => agenda'[q] = agenda[q] /\ Stack(q)' = Stack(q)
           /\ agenda'[p] # <<>>
<1> DEFINE r == <<c>> \o Rest(p)
           s == <<b>> \o r
<1>1. Rest(p) \in Seq(Calls) /\ Linked(Rest(p)) /\ Once(Rest(p))
    BY Top
<1>2. r \in Seq(Calls) /\ Linked(r) /\ Once(r) /\ r # <<>> /\ Head(r) = c
    BY <1>1, LinkedPush, OncePush, PushSeq
<1>3. ToSet(r) = {c} \cup ToSet(Rest(p))
    BY <1>1, PushSeq
<1>4. <<b, c>> \o Rest(p) = <<b>> \o (<<c>> \o Rest(p))
    BY <1>1, PushTwo
<1>8. agenda' = [agenda EXCEPT ![p] = s]
    BY <1>4 DEF Then
<1> HIDE DEF r
<1>5. s \in Seq(Calls) /\ Linked(s) /\ s # <<>>
    BY <1>2, LinkedPush, PushSeq
<1>6. Once(s)
    BY <1>2, <1>3, OncePush
<1>7. ToSet(s) = {b, c} \cup ToSet(Rest(p))
    BY <1>2, <1>3, PushSeq
<1> HIDE DEF s
<1> QED
    BY <1>5, <1>6, <1>7, <1>8, Restack

\* A call is made by a thread that is in none.
LEMMA Begins ==
    ASSUME StacksOK, NEW p \in Everyone, NEW op \in Ops, NEW t \in Everyone, Begin(p, op, t),
           op \notin {"clear", "refer"}
    PROVE  /\ StacksOK' /\ Stack(p)' = {Do(op, t)} /\ agenda'[p] = <<Do(op, t)>>
           /\ \A q \in Everyone : q # p => agenda'[q] = agenda[q] /\ Stack(q)' = Stack(q)
<1>1. Do(op, t) \in Calls /\ Do(op, t).op = op
    BY DEF Do, Calls
<1>2. <<Do(op, t)>> \in Seq(Calls) /\ ToSet(<<Do(op, t)>>) = {Do(op, t)} /\ <<Do(op, t)>> \o <<>> = <<Do(op, t)>>
    BY <1>1, ShortSeq
<1>3. Linked(<<>>) /\ Once(<<>>) /\ <<>> \in Seq(Calls) /\ ToSet(<<>>) = {}
  <2>1. <<>> \in Seq(Calls) /\ Len(<<>>) = 0 /\ ToSet(<<>>) = {}
      BY DEF ToSet
  <2> QED
      BY <2>1 DEF Linked, Once
<1>4. Linked(<<Do(op, t)>> \o <<>>) /\ Once(<<Do(op, t)>> \o <<>>)
    BY <1>1, <1>3, LinkedPush, OncePush
<1> QED
    BY <1>2, <1>4, Restack DEF Begin

LEMMA EmptyStack ==
    ASSUME NEW p, agenda[p] = <<>>
    PROVE  Stack(p) = {}
    BY DEF Stack, ToSet

\* Whether a call is pending changes only with the stack that changes.
LEMMA PendingSame ==
    ASSUME NEW p \in Everyone, \A q \in Everyone : q # p => Stack(q)' = Stack(q),
           NEW op, NEW t, Do(op, t) \in Stack(p)' <=> Do(op, t) \in Stack(p)
    PROVE  Pending(op, t)' <=> Pending(op, t)
    BY DEF Pending, Stack

LEMMA PendingBy ==
    ASSUME NEW p \in Everyone, NEW op, NEW t, Do(op, t) \in Stack(p)
    PROVE  Pending(op, t)
    BY DEF Pending, Stack

\* Apart is about the calls that are new on the one stack that changes.
LEMMA ApartStep ==
    ASSUME Apart, NEW p \in Everyone, NEW b1, NEW b2,
           Stack(p)' \subseteq Stack(p) \cup {b1, b2},
           \A q \in Everyone : q # p => Stack(q)' = Stack(q),
           \A b \in {b1, b2}, q \in Everyone : \A c \in Stack(q) : q # p /\ b.t = c.t =>
               /\ ~(b.op \in Freeing /\ c.op \in Freeing)
               /\ ~(b.op \in Joining \cup {"detached"} /\ c.op \in Joining \cup {"detached"})
    PROVE  Apart'
<1> DEFINE D(a, b) == /\ ~(a.op \in Freeing /\ b.op \in Freeing)
                      /\ ~(a.op \in Joining \cup {"detached"} /\ b.op \in Joining \cup {"detached"})
<1> SUFFICES ASSUME NEW q \in Everyone, NEW u \in Everyone, NEW a \in Stack(q)', NEW b \in Stack(u)',
                    a.t = b.t, q # u
             PROVE  D(a, b)
    BY DEF Apart
<1>1. \A x \in Everyone, y \in Everyone : \A c \in Stack(x), d \in Stack(y) :
          c.t = d.t /\ x # y => D(c, d)
    BY DEF Apart
<1>2. \A c \in {b1, b2}, y \in Everyone : \A d \in Stack(y) : y # p /\ c.t = d.t => D(c, d)
    OBVIOUS
<1>3. \A c, d : D(c, d) <=> D(d, c)
    OBVIOUS
<1> HIDE DEF D
<1>4. CASE q = p
    BY <1>1, <1>2, <1>4
<1>5. CASE u = p
    BY <1>1, <1>2, <1>3, <1>5
<1>6. CASE q # p /\ u # p
    BY <1>1, <1>6
<1> QED
    BY <1>4, <1>5, <1>6

-----------------------------------------------------------------------------
(* What the invariant says of a state *)

RefCalls == Joining \cup {"release", "runfree", "detached"}

\* A count of zero means that there is no reference.
LEMMA NoRefs ==
    ASSUME IInv, NEW t \in Tids, phase[t] # "unborn", "NONVIABLE" \notin state[t], count[t] = 0
    PROVE  /\ NoObjects(t)
           /\ phase[t] # "creating"
           /\ ~(phase[t] = "running" /\ "FINISHED" \notin state[t])
           /\ Uncallable(t)
           /\ \A op \in RefCalls : ~Pending(op, t)
<1>1. InObjects(t) \in Nat /\ (InObjects(t) = 0 <=> NoObjects(t))
    BY InObjectsZero DEF IInv
<1>2. 0 = InObjects(t) + RunRef(t) + JoinRef(t) + NewObject(t) + Releases(t)
    BY DEF IInv, RefOK
<1>3. RunRef(t) \in {0, 1} /\ JoinRef(t) \in {0, 1} /\ NewObject(t) \in {0, 1} /\ Releases(t) \in {0, 1}
    BY DEF RunRef, JoinRef, NewObject, Releases
<1>4. InObjects(t) = 0 /\ RunRef(t) = 0 /\ JoinRef(t) = 0 /\ NewObject(t) = 0 /\ Releases(t) = 0
    BY <1>1, <1>2, <1>3
<1>5. /\ phase[t] # "creating" /\ ~Pending("runfree", t)
      /\ ~(phase[t] = "running" /\ "FINISHED" \notin state[t])
    BY <1>4 DEF RunRef
<1>6. Uncallable(t) /\ \A op \in {"unjoinable", "wait", "collect", "detached"} : ~Pending(op, t)
    BY <1>4 DEF JoinRef
<1>7. ~Pending("release", t)
    BY <1>4 DEF Releases
<1> QED
    BY <1>1, <1>4, <1>5, <1>6, <1>7 DEF RefCalls, Joining

\* An ithread with references is listed, and one that has none is freed once.
LEMMA CountListed ==
    ASSUME IInv, NEW t \in Tids
    PROVE  count[t] \in Nat /\ (count[t] > 0 => t \in listed /\ t \in allocated)
    BY DEF IInv, ThreadsOK, StateOK, TypeOK

LEMMA CallAt ==
    ASSUME IInv, NEW p \in Everyone, NEW a \in Stack(p)
    PROVE  CallOK(p, a)
    BY DEF IInv, CallsOK

\* While a thread that could not be started is listed, only the main thread
\* has something to do, and that is to free it.
LEMMA Quiet ==
    ASSUME IInv, NEW u \in Tids, "NONVIABLE" \in state[u], u \in listed,
           NEW p \in Everyone, Ready(p) \/ agenda[p] # <<>>
    PROVE  p = Main /\ agenda[p] \in {<<Do("release", u)>>, <<Do("unlink", u)>>}
<1>1. /\ agenda[Main] \in {<<Do("release", u)>>, <<Do("unlink", u)>>}
      /\ \A v \in Tids : phase[v] \in {"unborn", "over"}
    BY DEF IInv, ThreadsOK, NonviableOK
<1>2. \A v \in Tids : phase[v] # "running" => agenda[v] = <<>>
    BY DEF IInv, ThreadsOK, StateOK
<1> QED
    BY <1>1, <1>2 DEF Ready, Everyone

\* So nothing else happens meanwhile.
LEMMA Viable ==
    ASSUME IInv, NEW p \in Everyone, Ready(p) \/ agenda[p] # <<>>,
           agenda[p] # <<>> => Head(agenda[p]).op \notin {"release", "unlink"}
    PROVE  \A u \in Tids : "NONVIABLE" \in state[u] => u \notin listed /\ count[u] = 0
<1> SUFFICES ASSUME NEW u \in Tids, "NONVIABLE" \in state[u]
             PROVE  u \notin listed /\ count[u] = 0
    OBVIOUS
<1>1. u \notin listed
  <2> SUFFICES ASSUME u \in listed PROVE FALSE
      OBVIOUS
  <2>1. agenda[p] \in {<<Do("release", u)>>, <<Do("unlink", u)>>}
      BY Quiet
  <2> QED
      BY <2>1 DEF Do
<1> QED
    BY <1>1 DEF IInv, ThreadsOK, StateOK

-----------------------------------------------------------------------------
(* What a step leaves as it was *)

LEMMA RefSame ==
    ASSUME NEW t \in Tids, RefOK(t),
           phase'[t] = phase[t], state'[t] = state[t], count'[t] = count[t],
           \A i \in Everyone : objects'[i][t] = objects[i][t],
           \A op \in RefCalls : Pending(op, t)' <=> Pending(op, t)
    PROVE  RefOK(t)'
<1>1. InObjects(t)' = InObjects(t)
    BY InObjectsSame
<1>2. RunRef(t)' = RunRef(t)
    BY DEF RunRef, RefCalls
<1>3. JoinRef(t)' = JoinRef(t)
    BY DEF JoinRef, RefCalls, Joining, Uncallable
<1>4. NewObject(t)' = NewObject(t) /\ Releases(t)' = Releases(t)
    BY DEF NewObject, Releases, RefCalls
<1> QED
    BY <1>1, <1>2, <1>3, <1>4 DEF RefOK

LEMMA TotalSame ==
    ASSUME TotalOK, total' = total,
           \A t \in Tids : (t \in allocated' \/ Pending("untotal", t)')
                               <=> (t \in allocated \/ Pending("untotal", t))
    PROVE  TotalOK'
<1>1. InTotal' = InTotal
    BY DEF InTotal
<1> QED
    BY <1>1 DEF TotalOK

LEMMA CountersSame ==
    ASSUME CountersAgree, running' = running, joinable' = joinable, detached' = detached,
           \A t \in Tids :
               /\ (phase'[t] = "running" /\ "FINISHED" \notin state'[t])
                      <=> (phase[t] = "running" /\ "FINISHED" \notin state[t])
               /\ \A f \in {"DETACHED", "FINISHED", "JOINED"} : f \in state'[t] <=> f \in state[t]
               /\ Pending("unjoinable", t)' <=> Pending("unjoinable", t)
    PROVE  CountersAgree'
<1> DEFINE Live == {t \in Tids : phase[t] = "running" /\ "FINISHED" \notin state[t]}
           Off == {t \in Tids : "DETACHED" \in state[t]}
           Ended == {t \in Tids : "FINISHED" \in state[t]}
           Uncounted == {t \in Tids : "JOINED" \in state[t] /\ ~Pending("unjoinable", t)}
<1>1. Live' = Live /\ Off' = Off /\ Ended' = Ended
    OBVIOUS
<1>2. Uncounted' = Uncounted
    OBVIOUS
<1>3. /\ running' = Cardinality(Live' \ Off') /\ detached' = Cardinality(Live' \cap Off')
      /\ joinable' = Cardinality(Ended' \ Off') - Cardinality(Uncounted')
    BY <1>1, <1>2 DEF CountersAgree
<1> QED
    BY <1>3 DEF CountersAgree

LEMMA NobodyNone == Nobody \notin Everyone /\ Main \notin Tids /\ Main \in Everyone
    BY ThreadsAssumption DEF Everyone, Tids

LEMMA NextCall ==
    ASSUME IInv, NEW p \in Everyone, NEW op, IsNext(p, op)
    PROVE  \E t \in Everyone : /\ t = It(p) /\ agenda[p] # <<>>
                                /\ Head(agenda[p]) = Do(op, t) /\ Do(op, t) \in Stack(p)
                                /\ Head(agenda[p]).op = op
    BY Top DEF IInv, IsNext

\* While the pool's mutex is free no call is made that needs it.
LEMMA NoPoolCalls ==
    ASSUME IInv, pool = Nobody, NEW q \in Everyone, NEW a \in Stack(q)
    PROVE  a.op \notin PoolOps
    BY CallAt, NobodyNone DEF CallOK, KnownOK

\* Only the holder of the pool's mutex makes such calls.
LEMMA PoolCallsOf ==
    ASSUME IInv, NEW p \in Everyone, pool = p, NEW q \in Everyone, NEW a \in Stack(q), a.op \in PoolOps
    PROVE  q = p
    BY CallAt DEF CallOK, KnownOK

\* A thread that does not run is in no call, before and after a step of p.
LEMMA Idle ==
    ASSUME IInv, NEW p \in Everyone, Ready(p) \/ agenda[p] # <<>>,
           \A q \in Everyone : q # p => agenda'[q] = agenda[q],
           NEW u \in Tids, phase[u] # "running"
    PROVE  agenda'[u] = <<>>
<1>1. agenda[u] = <<>> /\ u # Main /\ u \in Everyone
    BY NobodyNone DEF IInv, ThreadsOK, StateOK, Everyone
<1>2. u # p
    BY <1>1 DEF Ready
<1> QED
    BY <1>1, <1>2

\* create goes on unless it is the one that makes a step.
LEMMA StartPending ==
    ASSUME NEW p \in Everyone, agenda[p] # <<>> => Head(agenda[p]).op # "start",
           \A q \in Everyone : q # p => agenda'[q] = agenda[q],
           NEW u, NEW q \in Everyone, agenda[q] = <<Do("start", u)>>
    PROVE  \E x \in Everyone : agenda'[x] = <<Do("start", u)>>
<1>1. agenda[q] # <<>> /\ Head(agenda[q]).op = "start"
    BY DEF Do
<1> QED
    BY <1>1

\* A step that changes the phase and the state of no thread.
LEMMA ThreadsStep ==
    ASSUME IInv, NEW p \in Everyone, Ready(p) \/ agenda[p] # <<>>,
           agenda'[p] = agenda[p] \/ agenda[p] = <<>> \/ Head(agenda[p]).op # "start",
           \A q \in Everyone : q # p => agenda'[q] = agenda[q],
           phase' = phase, state' = state, NEW u \in Tids,
           phase[u] = "unborn" => /\ count'[u] = 0 /\ u \notin allocated'
                                  /\ NoObjects(u)' /\ \A v \in Tids : objects'[u][v] = 0,
           phase[u] = "creating" => NoObjects(u)' /\ u \in interps',
           phase[u] = "running" /\ "FINISHED" \notin state[u] => u \in interps',
           "DIED" \in state[u] /\ count'[u] > 0 => u \in interps',
           u \notin listed' => count'[u] = 0,
           "NONVIABLE" \in state[u] =>
               NoObjects(u)' /\ (u \in listed' => u \in listed /\
                   agenda'[Main] \in {<<Do("release", u)>>, <<Do("unlink", u)>>})
    PROVE  (UnbornOK(u) /\ CreatingOK(u) /\ StateOK(u) /\ NonviableOK(u))'
<1>1. UnbornOK(u) /\ CreatingOK(u) /\ StateOK(u) /\ NonviableOK(u)
    BY DEF IInv, ThreadsOK
<1>2. UnbornOK(u)'
    BY <1>1 DEF UnbornOK
<1>3. CreatingOK(u)'
    BY <1>1, StartPending DEF CreatingOK
<1>4. StateOK(u)'
    BY <1>1, Idle DEF StateOK
<1>5. NonviableOK(u)'
    BY <1>1 DEF NonviableOK
<1> QED
    BY <1>2, <1>3, <1>4, <1>5

-----------------------------------------------------------------------------
(* S_ithread_free and S_ithread_clear *)

\* S_ithread_free goes on: nothing else frees the same ithread.
LEMMA FreeGoesOn ==
    ASSUME IInv, NEW p \in Everyone, agenda[p] # <<>>,
           NEW o \in Freeing, NEW op \in Freeing, NEW t, NEW r,
           Head(agenda[p]) = Do(o, t), Rest(p) = r, o # op, Then(p, <<Do(op, t)>>)
    PROVE  /\ StacksOK' /\ Apart'
           /\ Stack(p)' = {Do(op, t)} \cup ToSet(r)
           /\ \A q \in Everyone : q # p => agenda'[q] = agenda[q] /\ Stack(q)' = Stack(q)
           /\ agenda'[p] # <<>>
           /\ \A q \in Everyone : \A a \in Stack(q)' : a # Do(op, t) =>
                  a \in Stack(q) /\ (a.op \in Freeing => a.t # t)
           /\ \A x, u : u # t \/ x \notin {op, o} => (Pending(x, u)' <=> Pending(x, u))
           /\ ~Pending(o, t)' /\ Pending(op, t)' /\ Pending(o, t) /\ ~Pending(op, t)
<1> DEFINE a0 == Do(o, t)
           b == Do(op, t)
<1> USE DEF IInv
<1>1. /\ a0 \in Calls /\ a0 \in Stack(p) /\ t \in Everyone
      /\ Stack(p) = {a0} \cup ToSet(r)
      /\ r # <<>> => Follows(a0, Head(r))
      /\ a0.op = o /\ a0.t = t
  <2>1. a0.op = o /\ a0.t = t
      BY DEF Do
  <2>2. It(p) = t /\ Head(agenda[p]) = a0
      BY <2>1 DEF It
  <2> HIDE DEF a0
  <2> QED
      BY Top, <2>1, <2>2
<1>0. \A c \in ToSet(r) : c.op \in Freeing => c.t # t
    BY <1>1, Top DEF It
<1>2. b \in Calls /\ b.op = op /\ b.t = t /\ op \notin {"clear", "refer"}
    BY <1>1 DEF Do, Calls, Ops, Freeing, Unlinking
<1>3. r # <<>> => Follows(b, Head(r))
    BY <1>1, <1>2 DEF Follows, Freeing, Unlinking
<1>4. /\ StacksOK' /\ Stack(p)' = {b} \cup ToSet(r)
      /\ \A q \in Everyone : q # p => agenda'[q] = agenda[q] /\ Stack(q)' = Stack(q)
      /\ agenda'[p] = <<b>> \o r
    BY <1>0, <1>1, <1>2, <1>3, GoesOn
<1>9. agenda'[p] # <<>>
  <2>1. r \in Seq(Calls)
      BY Top
  <2> QED
      BY <2>1, <1>2, <1>4, PushSeq
<1>5. \A q \in Everyone : \A c \in Stack(q) :
          (q = p => c \in ToSet(r)) /\ c.op \in Freeing => c.t # t
  <2> SUFFICES ASSUME NEW q \in Everyone, NEW c \in Stack(q), q = p => c \in ToSet(r),
                      c.op \in Freeing, c.t = t
               PROVE  FALSE
      OBVIOUS
  <2>1. q # p
      BY <1>0
  <2> QED
      BY <1>1, <2>1 DEF Apart
<1> HIDE DEF a0, b
<1>6. Apart'
  <2>1. Stack(p)' \subseteq Stack(p) \cup {b, b}
      BY <1>1, <1>4
  <2>2. \A c \in {b, b}, q \in Everyone : \A d \in Stack(q) : q # p /\ c.t = d.t =>
            /\ ~(c.op \in Freeing /\ d.op \in Freeing)
            /\ ~(c.op \in Joining \cup {"detached"} /\ d.op \in Joining \cup {"detached"})
      BY <1>2, <1>5 DEF Freeing, Unlinking, Joining
  <2> QED
      BY <1>4, <2>1, <2>2, ApartStep, Z3T(60)
<1>7. \A q \in Everyone : \A a \in Stack(q)' : a # b =>
          a \in Stack(q) /\ (q = p => a \in ToSet(r))
    BY <1>1, <1>4
<1>8. \A x, u : u # t \/ x \notin {op, o} => (Pending(x, u)' <=> Pending(x, u))
  <2> SUFFICES ASSUME NEW x, NEW u, u # t \/ x \notin {op, o}
               PROVE  Do(x, u) \in Stack(p)' <=> Do(x, u) \in Stack(p)
      BY <1>4, PendingSame
  <2>1. Do(x, u) # b /\ Do(x, u) # a0
      BY DEF Do, a0, b
  <2> QED
      BY <2>1, <1>1, <1>4
<1>10. ~Pending(o, t)' /\ Pending(op, t)'
  <2>1. Pending(op, t)'
      BY <1>4 DEF Pending, Stack, b
  <2>2. ASSUME NEW q \in Everyone, Do(o, t) \in Stack(q)' PROVE FALSE
    <3>1. Do(o, t) # b
        BY DEF Do, b
    <3> QED
        BY <1>5, <1>7, <2>2, <3>1, <1>1 DEF a0
  <2> QED
      BY <2>1, <2>2 DEF Pending, Stack
<1>11. Pending(o, t) /\ ~Pending(op, t)
  <2>1. Pending(o, t)
      BY <1>1 DEF Pending, Stack, a0
  <2>2. ASSUME NEW q \in Everyone, Do(op, t) \in Stack(q) PROVE FALSE
    <3>1. Do(op, t) # a0
        BY DEF Do, a0
    <3> QED
        BY <1>5, <1>1, <2>2, <3>1, <1>2 DEF b
  <2> QED
      BY <2>1, <2>2 DEF Pending, Stack
<1> QED
    BY <1>4, <1>5, <1>6, <1>7, <1>8, <1>9, <1>10, <1>11 DEF a0, b

\* What other calls return to.
LEMMA Under ==
    ASSUME StacksOK, NEW p \in Everyone, agenda[p] # <<>>, NEW a \in ToSet(Rest(p))
    PROVE  a.op \in {"release", "dispose", "clear", "exit", "unpool"} \cup ListFilters
<1> DEFINE s == agenda[p]
<1>1. s \in Seq(Calls) /\ Linked(s) /\ s # <<>>
    BY DEF StacksOK
<1>2. Len(s) \in Nat /\ Len(s) > 0 /\ Len(Tail(s)) = Len(s) - 1 /\ Tail(s) \in Seq(Calls)
      /\ \A i \in 1..Len(Tail(s)) : Tail(s)[i] = s[i + 1]
    BY <1>1
<1>3. PICK i \in 1..Len(Tail(s)) : a = Tail(s)[i]
    BY <1>2 DEF ToSet, Rest
<1>4. a = s[i + 1] /\ i \in 1..Len(s) - 1
    BY <1>2, <1>3
<1>5. Follows(s[i], a)
    BY <1>1, <1>4 DEF Linked
<1> QED
    BY <1>5 DEF Follows

\* S_ithread_free returns.
LEMMA FreeReturns ==
    ASSUME IInv, NEW p \in Everyone, agenda[p] # <<>>, NEW o \in Freeing, NEW t,
           Head(agenda[p]) = Do(o, t), Then(p, <<>>)
    PROVE  /\ StacksOK' /\ Apart'
           /\ \A q \in Everyone : q # p => agenda'[q] = agenda[q] /\ Stack(q)' = Stack(q)
           /\ \A q \in Everyone : \A a \in Stack(q)' :
                  a \in Stack(q) /\ (a.op \in Freeing => a.t # t)
           /\ \A x, u : u # t \/ x # o => (Pending(x, u)' <=> Pending(x, u))
           /\ ~Pending(o, t)' /\ Pending(o, t)
<1> DEFINE a0 == Do(o, t)
           r == Rest(p)
<1>1. a0.op = o /\ a0.t = t /\ It(p) = t /\ Head(agenda[p]) = a0
    BY DEF Do, It
<1> HIDE DEF a0
<1>2. /\ a0 \in Stack(p) /\ t \in Everyone
      /\ Stack(p) = {a0} \cup ToSet(r)
      /\ \A c \in ToSet(r) : c.op \in Freeing => c.t # t
    BY <1>1, Top DEF IInv
<1>3. /\ StacksOK' /\ Stack(p)' = ToSet(r)
      /\ \A q \in Everyone : q # p => agenda'[q] = agenda[q] /\ Stack(q)' = Stack(q)
    BY Returns DEF IInv
<1>4. \A q \in Everyone : \A c \in Stack(q) :
          (q = p => c \in ToSet(r)) /\ c.op \in Freeing => c.t # t
  <2> SUFFICES ASSUME NEW q \in Everyone, NEW c \in Stack(q), q = p => c \in ToSet(r),
                      c.op \in Freeing, c.t = t
               PROVE  FALSE
      OBVIOUS
  <2>1. q # p
      BY <1>2
  <2> QED
      BY <1>1, <1>2, <2>1 DEF Apart, IInv
<1>5. \A q \in Everyone : \A a \in Stack(q)' : a \in Stack(q) /\ (q = p => a \in ToSet(r))
    BY <1>2, <1>3
<1>6. Apart'
    BY <1>5 DEF Apart, IInv
<1>7. \A x, u : u # t \/ x # o => (Pending(x, u)' <=> Pending(x, u))
  <2> SUFFICES ASSUME NEW x, NEW u, u # t \/ x # o
               PROVE  Do(x, u) \in Stack(p)' <=> Do(x, u) \in Stack(p)
      BY <1>3, PendingSame
  <2>1. Do(x, u) # a0
      BY DEF Do, a0
  <2> QED
      BY <2>1, <1>2, <1>3
<1>8. Pending(o, t)
    BY <1>2, PendingBy DEF a0
<1>9. ~Pending(o, t)'
  <2> SUFFICES ASSUME NEW q \in Everyone, a0 \in Stack(q)'
               PROVE  FALSE
      BY DEF Pending, Stack, a0
  <2> QED
      BY <1>1, <1>4, <1>5
<1> QED
    BY <1>3, <1>4, <1>5, <1>6, <1>7, <1>8, <1>9

\* No call frees an ithread that has references and a free mutex.
LEMMA NoFreeing ==
    ASSUME IInv, NEW t \in Tids, mutex[t] = Nobody, count[t] > 0, NEW q \in Everyone, NEW a \in Stack(q), a.t = t
    PROVE  a.op \notin Freeing \cup {"start"}
<1>1. CallOK(q, a) /\ count[t] # 0
    BY CallAt, CountListed
<1> QED
    BY <1>1, NobodyNone DEF CallOK, FreeOK, LifeOK, Freeing

LEMMA NoFreePending ==
    ASSUME IInv, NEW t \in Tids, mutex[t] = Nobody, count[t] > 0, NEW op \in Freeing
    PROVE  ~Pending(op, t)
<1> SUFFICES ASSUME NEW q \in Everyone, Do(op, t) \in Stack(q)
             PROVE  FALSE
    BY DEF Pending, Stack
<1>1. Do(op, t).op = op /\ Do(op, t).t = t
    BY DEF Do
<1> QED
    BY <1>1, NoFreeing

LEMMA UnlinkKeeps == ASSUME IInv, NEW p \in Everyone, Unlink(p) PROVE IInv'
<1>2. PICK t \in Everyone : /\ t = It(p) /\ agenda[p] # <<>>
                           /\ Head(agenda[p]) = Do("unlink", t) /\ Do("unlink", t) \in Stack(p)
                           /\ Head(agenda[p]).op = "unlink"
    BY NextCall DEF Unlink
<1> PICK r : r = Rest(p)
    OBVIOUS
<1> DEFINE b == Do("destroy", t)
<1>1. /\ agenda[p] # <<>> /\ pool = Nobody
      /\ listed' = listed \ {t} /\ Then(p, <<b>>)
      /\ UNCHANGED <<phase, state, count, allocated, interps, objects, mutex, pool,
                     running, joinable, detached, total, poolGone>>
    BY <1>2 DEF Unlink, IsNext, PoolFree, counters
<1>3. t \in Tids /\ phase[t] # "unborn" /\ count[t] = 0 /\ t \in listed /\ t \in allocated
    BY <1>2, CallAt DEF CallOK, KnownOK, FreeOK, Do, Unlinking, TypeOK, IInv
<1>4. /\ StacksOK' /\ Apart'
      /\ Stack(p)' = {b} \cup ToSet(r)
      /\ \A q \in Everyone : q # p => agenda'[q] = agenda[q] /\ Stack(q)' = Stack(q)
      /\ agenda'[p] # <<>>
      /\ \A q \in Everyone : \A a \in Stack(q)' : a # b =>
             a \in Stack(q) /\ (a.op \in Freeing => a.t # t)
      /\ \A x, u : u # t \/ x \notin {"unlink", "destroy"} => (Pending(x, u)' <=> Pending(x, u))
    BY <1>1, <1>2, FreeGoesOn DEF Freeing, Unlinking
<1>5. TypeOK'
    BY <1>1 DEF TypeOK, IInv
<1>6. CallsOK'
  <2> SUFFICES ASSUME NEW q \in Everyone, NEW a \in Stack(q)'
               PROVE  CallOK(q, a)'
      BY DEF CallsOK
  <2>1. CASE a = b
      BY <1>1, <1>3, <2>1, NobodyNone
         DEF CallOK, KnownOK, FreeOK, LifeOK, LookOK, Do, Unlinking, Joining, Lookups, ListFilters, PoolOps
  <2>2. CASE a # b
    <3>1. CallOK(q, a) /\ a.op \notin PoolOps
        BY <1>1, <1>4, <2>2, CallAt, NoPoolCalls
    <3>2. a.op \in Freeing => a.t # t
        BY <1>4, <2>2
    <3>3. KnownOK(q, a)' /\ FreeOK(q, a)'
        BY <1>1, <3>1, <3>2 DEF CallOK, KnownOK, FreeOK, Freeing, Unlinking
    <3>4. LifeOK(q, a)' /\ LookOK(q, a)'
        BY <1>1, <3>1 DEF CallOK, LifeOK, LookOK, PoolOps, Lookups, IsLive
    <3> QED
        BY <3>3, <3>4 DEF CallOK
  <2> QED
      BY <2>1, <2>2
<1>7. ThreadsOK'
  <2> SUFFICES ASSUME NEW u \in Tids
               PROVE  (UnbornOK(u) /\ CreatingOK(u) /\ StateOK(u) /\ NonviableOK(u))'
      BY DEF ThreadsOK
  <2>1. UnbornOK(u) /\ CreatingOK(u) /\ StateOK(u) /\ NonviableOK(u)
      BY DEF IInv, ThreadsOK
  <2>2. "NONVIABLE" \in state[u] /\ u # t => u \notin listed
      BY <1>1, <1>2, Quiet DEF Do
  <2>3. Head(agenda[p]).op # "start"
      BY <1>2 DEF Do
  <2> QED
      BY <1>1, <1>3, <1>4, <2>1, <2>2, <2>3, ThreadsStep, ZenonT(40)
         DEF UnbornOK, CreatingOK, StateOK, NonviableOK, NoObjects
<1>8. \A u \in Tids : RefOK(u)'
    BY <1>1, <1>4, RefSame DEF IInv, RefCalls, Joining
<1>9. TotalOK' /\ CountersAgree' /\ GoneOK'
  <2>1. TotalOK'
      BY <1>1, <1>4, TotalSame DEF IInv
  <2>2. CountersAgree'
      BY <1>1, <1>4, CountersSame DEF IInv
  <2>3. GoneOK'
      BY <1>1, <1>4, NobodyNone DEF GoneOK, IInv
  <2> QED
      BY <2>1, <2>2, <2>3
<1> QED
    BY <1>4, <1>5, <1>6, <1>7, <1>8, <1>9 DEF IInv

LEMMA UncountKeeps == ASSUME IInv, NEW p \in Everyone, Uncount(p) PROVE IInv'
<1>2. PICK t \in Everyone : /\ t = It(p) /\ agenda[p] # <<>>
                           /\ Head(agenda[p]) = Do("untotal", t) /\ Do("untotal", t) \in Stack(p)
                           /\ Head(agenda[p]).op = "untotal"
    BY NextCall DEF Uncount
<1>1. /\ agenda[p] # <<>> /\ pool = Nobody
      /\ total' = total - 1 /\ Then(p, <<>>)
      /\ UNCHANGED <<phase, state, count, allocated, listed, interps, objects, mutex, pool,
                     running, joinable, detached, poolGone>>
    BY <1>2 DEF Uncount, IsNext, PoolFree, refvars
<1>3. t \in Tids /\ phase[t] # "unborn" /\ count[t] = 0 /\ t \notin allocated
    BY <1>2, CallAt DEF CallOK, KnownOK, FreeOK, Do, Unlinking
<1>4. /\ StacksOK' /\ Apart'
      /\ \A q \in Everyone : q # p => agenda'[q] = agenda[q] /\ Stack(q)' = Stack(q)
      /\ \A q \in Everyone : \A a \in Stack(q)' :
             a \in Stack(q) /\ (a.op \in Freeing => a.t # t)
      /\ \A x, u : u # t \/ x # "untotal" => (Pending(x, u)' <=> Pending(x, u))
      /\ ~Pending("untotal", t)' /\ Pending("untotal", t)
    BY <1>1, <1>2, FreeReturns DEF Freeing, Unlinking
<1>5. TotalOK' /\ total' \in Nat
  <2>1. IsFiniteSet(InTotal) /\ t \in InTotal
      BY <1>3, <1>4, EveryoneFinite, FS_Subset DEF InTotal
  <2>2. InTotal' = InTotal \ {t}
      BY <1>1, <1>3, <1>4 DEF InTotal
  <2>3. Cardinality(InTotal') = Cardinality(InTotal) - 1
      BY <2>1, <2>2, FS_RemoveElement
  <2>4. Cardinality(InTotal') \in Nat
      BY <2>1, <2>2, FS_RemoveElement, FS_CardinalityType
  <2> QED
      BY <1>1, <2>3, <2>4 DEF TotalOK, IInv
<1>6. TypeOK'
    BY <1>1, <1>5 DEF TypeOK, IInv
<1>7. CallsOK'
  <2> SUFFICES ASSUME NEW q \in Everyone, NEW a \in Stack(q)'
               PROVE  CallOK(q, a)'
      BY DEF CallsOK
  <2>1. CallOK(q, a) /\ a.op \notin PoolOps
      BY <1>1, <1>4, CallAt, NoPoolCalls
  <2>2. KnownOK(q, a)' /\ FreeOK(q, a)'
      BY <1>1, <2>1 DEF CallOK, KnownOK, FreeOK
  <2>3. LifeOK(q, a)' /\ LookOK(q, a)'
      BY <1>1, <2>1 DEF CallOK, LifeOK, LookOK, PoolOps, Lookups, IsLive
  <2> QED
      BY <2>2, <2>3 DEF CallOK
<1>8. ThreadsOK'
  <2> SUFFICES ASSUME NEW u \in Tids
               PROVE  (UnbornOK(u) /\ CreatingOK(u) /\ StateOK(u) /\ NonviableOK(u))'
      BY DEF ThreadsOK
  <2>1. UnbornOK(u) /\ CreatingOK(u) /\ StateOK(u) /\ NonviableOK(u)
      BY DEF IInv, ThreadsOK
  <2>2. Head(agenda[p]).op = "untotal"
      BY <1>2 DEF Do
  <2>3. "NONVIABLE" \in state[u] => u \notin listed
      BY <1>1, <2>2, Viable
  <2> QED
      BY <1>1, <1>4, <2>1, <2>2, <2>3, ThreadsStep
         DEF UnbornOK, CreatingOK, StateOK, NonviableOK, NoObjects
<1>9. \A u \in Tids : RefOK(u)'
    BY <1>1, <1>4, RefSame DEF IInv, RefCalls, Joining
<1>10. CountersAgree'
    BY <1>1, <1>4, CountersSame DEF IInv
<1>11. GoneOK'
  <2>1. total # 0
      BY <1>5, <1>1 DEF TypeOK, IInv
  <2> QED
      BY <1>1, <2>1 DEF GoneOK, IInv
<1> QED
    BY <1>4, <1>5, <1>6, <1>7, <1>8, <1>9, <1>10, <1>11 DEF IInv

LEMMA DisposeKeeps == ASSUME IInv, NEW p \in Everyone, Dispose(p) PROVE IInv'
<1>2. PICK t \in Everyone : /\ t = It(p) /\ agenda[p] # <<>>
                           /\ Head(agenda[p]) = Do("dispose", t) /\ Do("dispose", t) \in Stack(p)
                           /\ Head(agenda[p]).op = "dispose"
    BY NextCall DEF Dispose
<1> PICK r : r = Rest(p)
    OBVIOUS
<1> DEFINE b == Do("untotal", t)
<1>1. /\ agenda[p] # <<>> /\ allocated' = allocated \ {t}
      /\ mutex' = [mutex EXCEPT ![t] = Nobody] /\ Then(p, <<b>>)
      /\ UNCHANGED <<phase, state, count, listed, interps, objects, pool,
                     running, joinable, detached, total, poolGone>>
    BY <1>2 DEF Dispose, IsNext, counters
<1>3. t \in Tids /\ phase[t] # "unborn" /\ count[t] = 0 /\ t \notin listed /\ mutex[t] = p /\ t \in allocated
    BY <1>2, CallAt DEF CallOK, KnownOK, FreeOK, Do, Unlinking
<1>4. /\ StacksOK' /\ Apart'
      /\ Stack(p)' = {b} \cup ToSet(r)
      /\ \A q \in Everyone : q # p => agenda'[q] = agenda[q] /\ Stack(q)' = Stack(q)
      /\ agenda'[p] # <<>>
      /\ \A q \in Everyone : \A a \in Stack(q)' : a # b =>
             a \in Stack(q) /\ (a.op \in Freeing => a.t # t)
      /\ \A x, u : u # t \/ x \notin {"untotal", "dispose"} => (Pending(x, u)' <=> Pending(x, u))
      /\ Pending("untotal", t)'
    BY <1>1, <1>2, FreeGoesOn DEF Freeing, Unlinking
<1>5. TypeOK'
    BY <1>1, <1>3 DEF TypeOK, IInv
<1>6. CallsOK'
  <2> SUFFICES ASSUME NEW q \in Everyone, NEW a \in Stack(q)'
               PROVE  CallOK(q, a)'
      BY DEF CallsOK
  <2>1. CASE a = b
      BY <1>1, <1>3, <2>1
         DEF CallOK, KnownOK, FreeOK, LifeOK, LookOK, Do, Unlinking, Joining, Lookups, ListFilters, PoolOps
  <2>2. CASE a # b
    <3>1. CallOK(q, a) /\ (a.op \in Freeing => a.t # t)
        BY <1>4, <2>2, CallAt
    <3>2. a.op = "start" => a.t # t
      <4>1. ~("NONVIABLE" \in state[t] /\ phase[t] = "creating") /\ (phase[t] = "creating" => state[t] = {})
          BY <1>3 DEF IInv, ThreadsOK, NonviableOK, CreatingOK
      <4> QED
          BY <3>1, <4>1, <1>3, NoRefs DEF CallOK, LifeOK
    <3>3. KnownOK(q, a)' /\ FreeOK(q, a)'
        BY <1>1, <1>3, <3>1 DEF CallOK, KnownOK, FreeOK, Freeing, Unlinking, TypeOK, IInv
    <3>4. LifeOK(q, a)'
        BY <1>1, <1>3, <3>1, <3>2 DEF CallOK, KnownOK, LifeOK, IsLive, TypeOK, IInv
    <3>5. LookOK(q, a)'
        BY <1>1, <1>4, <3>1 DEF CallOK, LookOK, IsLive, Room, Uncallable
    <3> QED
        BY <3>3, <3>4, <3>5 DEF CallOK
  <2> QED
      BY <2>1, <2>2
<1>7. ThreadsOK'
  <2> SUFFICES ASSUME NEW u \in Tids
               PROVE  (UnbornOK(u) /\ CreatingOK(u) /\ StateOK(u) /\ NonviableOK(u))'
      BY DEF ThreadsOK
  <2>1. UnbornOK(u) /\ CreatingOK(u) /\ StateOK(u) /\ NonviableOK(u)
      BY DEF IInv, ThreadsOK
  <2>2. Head(agenda[p]).op = "dispose"
      BY <1>2 DEF Do
  <2>3. "NONVIABLE" \in state[u] => u \notin listed
      BY <1>1, <2>2, Viable
  <2> QED
      BY <1>1, <1>4, <2>1, <2>2, <2>3, ThreadsStep, ZenonT(40)
         DEF UnbornOK, CreatingOK, StateOK, NonviableOK, NoObjects
<1>8. \A u \in Tids : RefOK(u)'
    BY <1>1, <1>4, RefSame DEF IInv, RefCalls, Joining
<1>9. TotalOK'
    BY <1>1, <1>3, <1>4, TotalSame DEF IInv
<1>10. CountersAgree' /\ GoneOK'
  <2>1. CountersAgree'
      BY <1>1, <1>4, CountersSame DEF IInv
  <2>2. GoneOK'
      BY <1>1, <1>4, NobodyNone DEF GoneOK, IInv
  <2> QED
      BY <2>1, <2>2
<1> QED
    BY <1>4, <1>5, <1>6, <1>7, <1>8, <1>9, <1>10 DEF IInv

\* The only call that frees t is the one that makes the step.
OnlyFree(p, o, t) == \A q \in Everyone : \A a \in Stack(q) :
                         a.t = t /\ a.op \in Freeing => q = p /\ a = Do(o, t)

LEMMA FreeingOnly ==
    ASSUME IInv, NEW p \in Everyone, agenda[p] # <<>>, NEW o \in Freeing, NEW t,
           Head(agenda[p]) = Do(o, t)
    PROVE  OnlyFree(p, o, t)
<1> SUFFICES ASSUME NEW q \in Everyone, NEW a \in Stack(q), a.t = t, a.op \in Freeing,
                    q # p \/ a # Do(o, t)
             PROVE  FALSE
    BY DEF OnlyFree
<1>1. Do(o, t).op = o /\ Do(o, t).t = t /\ It(p) = t
    BY DEF Do, It
<1>2. Do(o, t) \in Stack(p) /\ Stack(p) = {Do(o, t)} \cup ToSet(Rest(p))
      /\ \A b \in ToSet(Rest(p)) : b.op \in Freeing => b.t # t
    BY <1>1, Top DEF IInv
<1>3. q # p
    BY <1>2
<1> QED
    BY <1>1, <1>2, <1>3 DEF Apart, IInv

\* t's mutex is taken, for S_ithread_clear and then for the rest of the call.
LEMMA ClearsFirst ==
    ASSUME IInv, NEW p \in Everyone, agenda[p] # <<>>,
           NEW o \in {"destroy", "collect", "detached"}, NEW op \in {"dispose", "release"},
           NEW t \in Everyone,
           Head(agenda[p]) = Do(o, t), OnlyFree(p, o, t),
           Then(p, <<Do("clear", t), Do(op, t)>>)
    PROVE  /\ StacksOK' /\ Apart' /\ agenda'[p] # <<>>
           /\ \A q \in Everyone : q # p => agenda'[q] = agenda[q] /\ Stack(q)' = Stack(q)
           /\ \A q \in Everyone : \A a \in Stack(q)' :
                  \/ q = p /\ a \in {Do("clear", t), Do(op, t)}
                  \/ a \in Stack(q) /\ (a.op \in Freeing => a.t # t)
           /\ \A x, u : u # t \/ x \notin {o, op, "clear"} => (Pending(x, u)' <=> Pending(x, u))
           /\ Pending(op, t)' /\ ~Pending(op, t) /\ Pending(o, t) /\ ~Pending(o, t)'
<1> DEFINE a0 == Do(o, t)
           b == Do("clear", t)
           c == Do(op, t)
           r == Rest(p)
<1>1. /\ a0.op = o /\ a0.t = t /\ b.op = "clear" /\ b.t = t /\ c.op = op /\ c.t = t
      /\ It(p) = t /\ Head(agenda[p]) = a0
    BY DEF Do, It
<1>2. b \in Calls /\ c \in Calls /\ op \in Freeing
    BY DEF Do, Calls, Ops, Freeing, Unlinking
<1>3. OnlyFree(p, o, t) <=> \A q \in Everyone : \A a \in Stack(q) :
                                a.t = t /\ a.op \in Freeing => q = p /\ a = a0
    BY DEF OnlyFree
<1> HIDE DEF a0
<1>4. /\ a0 \in Stack(p) /\ Stack(p) = {a0} \cup ToSet(r)
      /\ r # <<>> => Follows(a0, Head(r))
      /\ o \in Freeing => \A d \in ToSet(r) : d.op \in Freeing => d.t # t
    BY <1>1, Top DEF IInv
<1>5. o \notin Freeing => r = <<>> /\ ToSet(r) = {}
  <2>1. ToSet(<<>>) = {}
      BY DEF ToSet
  <2> QED
      BY <1>1, <2>1, Alone, Zenon DEF IInv
<1>6. \A d \in ToSet(r) : d.op \in Freeing => d.t # t
    BY <1>4, <1>5
<1>7. r # <<>> => Follows(c, Head(r))
    BY <1>1, <1>2, <1>4, <1>5 DEF Follows
<1>8. Follows(b, c) /\ op \notin {"clear", "refer"} /\ "clear" \notin Freeing
    BY <1>1 DEF Follows, Freeing, Unlinking
<1> HIDE DEF b, c, r
<1>9. /\ StacksOK' /\ Stack(p)' = {b, c} \cup ToSet(r)
      /\ \A q \in Everyone : q # p => agenda'[q] = agenda[q] /\ Stack(q)' = Stack(q)
      /\ agenda'[p] # <<>>
  <2>1. Then(p, <<b, c>>)
      BY DEF b, c
  <2> QED
      BY <1>1, <1>2, <1>6, <1>7, <1>8, <2>1, CallsFirst DEF IInv, r
<1>10. a0 \notin ToSet(r)
  <2>1. o \in Freeing \/ o \notin Freeing
      OBVIOUS
  <2> QED
      BY <1>1, <1>4, <1>5, <2>1
<1>11. \A q \in Everyone : \A a \in Stack(q)' :
           \/ q = p /\ a \in {b, c}
           \/ a \in Stack(q) /\ (a.op \in Freeing => a.t # t) /\ (q = p => a \in ToSet(r))
    BY <1>3, <1>4, <1>6, <1>9
<1>12. Apart'
  <2>1. Stack(p)' \subseteq Stack(p) \cup {b, c}
      BY <1>4, <1>9
  <2>2. \A x \in {b, c}, q \in Everyone : \A d \in Stack(q) : q # p /\ x.t = d.t =>
            /\ ~(x.op \in Freeing /\ d.op \in Freeing)
            /\ ~(x.op \in Joining \cup {"detached"} /\ d.op \in Joining \cup {"detached"})
      BY <1>1, <1>3 DEF Joining
  <2>3. Apart /\ \A q \in Everyone : q # p => Stack(q)' = Stack(q)
      BY <1>9 DEF IInv
  <2> QED
      BY <2>1, <2>2, <2>3, ApartStep, Z3T(60)
<1>13. \A x, u : u # t \/ x \notin {o, op, "clear"} => (Pending(x, u)' <=> Pending(x, u))
  <2> SUFFICES ASSUME NEW x, NEW u, u # t \/ x \notin {o, op, "clear"}
               PROVE  Do(x, u) \in Stack(p)' <=> Do(x, u) \in Stack(p)
      BY <1>9, PendingSame
  <2>1. Do(x, u) # a0 /\ Do(x, u) # b /\ Do(x, u) # c
      BY DEF Do, a0, b, c
  <2> QED
      BY <2>1, <1>4, <1>9
<1>14. Pending(op, t)' /\ Pending(o, t)
    BY <1>4, <1>9 DEF Pending, Stack, a0, c
<1>15. ~Pending(op, t)
  <2> SUFFICES ASSUME NEW q \in Everyone, c \in Stack(q)
               PROVE  FALSE
      BY DEF Pending, Stack, c
  <2>1. c # a0
      BY <1>1
  <2> QED
      BY <1>1, <1>2, <1>3, <2>1
<1>16. ~Pending(o, t)'
  <2> SUFFICES ASSUME NEW q \in Everyone, a0 \in Stack(q)'
               PROVE  FALSE
      BY DEF Pending, Stack, a0
  <2>1. a0 # b /\ a0 # c
      BY <1>1
  <2>2. a0 \in Stack(q) /\ q # p
      BY <1>10, <1>11, <2>1
  <2> QED
      BY <1>1, <1>4, <2>2 DEF Apart, IInv, Freeing, Unlinking, Joining
<1> QED
    BY <1>9, <1>11, <1>12, <1>13, <1>14, <1>15, <1>16 DEF a0, b, c

LEMMA DestroyKeeps == ASSUME IInv, NEW p \in Everyone, Destroy(p) PROVE IInv'
<1>2. PICK t \in Everyone : /\ t = It(p) /\ agenda[p] # <<>>
                           /\ Head(agenda[p]) = Do("destroy", t) /\ Do("destroy", t) \in Stack(p)
                           /\ Head(agenda[p]).op = "destroy"
    BY NextCall DEF Destroy
<1> DEFINE b == Do("clear", t)
           c == Do("dispose", t)
<1>1. /\ mutex[t] = Nobody /\ mutex' = [mutex EXCEPT ![t] = p] /\ Then(p, <<b, c>>)
      /\ UNCHANGED <<phase, state, count, allocated, listed, interps, objects, pool,
                     running, joinable, detached, total, poolGone>>
    BY <1>2 DEF Destroy, IsNext, counters, refvars, Free
<1>3. t \in Tids /\ phase[t] # "unborn" /\ count[t] = 0 /\ t \notin listed /\ t \in allocated
    BY <1>2, CallAt DEF CallOK, KnownOK, FreeOK, Do, Unlinking
<1>4. /\ StacksOK' /\ Apart' /\ agenda'[p] # <<>>
      /\ \A q \in Everyone : q # p => agenda'[q] = agenda[q] /\ Stack(q)' = Stack(q)
      /\ \A q \in Everyone : \A a \in Stack(q)' :
             \/ q = p /\ a \in {b, c}
             \/ a \in Stack(q) /\ (a.op \in Freeing => a.t # t)
      /\ \A x, u : u # t \/ x \notin {"destroy", "dispose", "clear"} => (Pending(x, u)' <=> Pending(x, u))
    BY <1>1, <1>2, FreeingOnly, ClearsFirst DEF Freeing, Unlinking
<1>5. TypeOK'
    BY <1>1 DEF TypeOK, IInv
<1>6. CallsOK'
  <2> SUFFICES ASSUME NEW q \in Everyone, NEW a \in Stack(q)'
               PROVE  CallOK(q, a)'
      BY DEF CallsOK
  <2>1. CASE q = p /\ a = b
    <3>1. state[t] \cap {"FINISHED", "NONVIABLE"} # {}
      <4>1. phase[t] \in {"unborn", "creating", "running", "over"}
          BY <1>3 DEF TypeOK, IInv
      <4>2. StateOK(t)
          BY <1>3 DEF ThreadsOK, IInv
      <4> QED
          BY <1>3, <4>1, <4>2, NoRefs DEF StateOK
    <3> QED
        BY <1>1, <1>3, <2>1, <3>1
           DEF CallOK, KnownOK, FreeOK, LifeOK, LookOK, Do, Unlinking, Joining, Lookups, ListFilters, PoolOps
  <2>2. CASE q = p /\ a = c
      BY <1>1, <1>3, <2>2
         DEF CallOK, KnownOK, FreeOK, LifeOK, LookOK, Do, Unlinking, Joining, Lookups, ListFilters, PoolOps, TypeOK, IInv
  <2>3. CASE a \in Stack(q) /\ (a.op \in Freeing => a.t # t)
    <3>1. CallOK(q, a)
        BY <2>3, CallAt
    <3>2. KnownOK(q, a)' /\ FreeOK(q, a)'
        BY <1>1, <1>3, <2>3, <3>1 DEF CallOK, KnownOK, FreeOK, Freeing, Unlinking, TypeOK, IInv
    <3>3. LifeOK(q, a)'
        BY <1>1, <1>3, <3>1, NobodyNone DEF CallOK, KnownOK, LifeOK, IsLive, TypeOK, IInv
    <3>4. LookOK(q, a)'
        BY <1>1, <1>4, <3>1 DEF CallOK, LookOK, IsLive, Room, Uncallable
    <3> QED
        BY <3>1, <3>2, <3>3, <3>4 DEF CallOK
  <2> QED
      BY <1>4, <2>1, <2>2, <2>3
<1>7. ThreadsOK'
  <2> SUFFICES ASSUME NEW u \in Tids
               PROVE  (UnbornOK(u) /\ CreatingOK(u) /\ StateOK(u) /\ NonviableOK(u))'
      BY DEF ThreadsOK
  <2>1. UnbornOK(u) /\ CreatingOK(u) /\ StateOK(u) /\ NonviableOK(u)
      BY DEF IInv, ThreadsOK
  <2>2. "NONVIABLE" \in state[u] => u \notin listed
      BY <1>2, Viable
  <2> QED
      BY <1>1, <1>2, <1>4, <2>1, <2>2, ThreadsStep
         DEF UnbornOK, CreatingOK, StateOK, NonviableOK, NoObjects
<1>8. \A u \in Tids : RefOK(u)'
    BY <1>1, <1>4, RefSame DEF IInv, RefCalls, Joining
<1>9. TotalOK'
    BY <1>1, <1>3, <1>4, TotalSame DEF IInv
<1>10. CountersAgree' /\ GoneOK'
  <2>1. CountersAgree'
      BY <1>1, <1>4, CountersSame DEF IInv
  <2>2. GoneOK'
      BY <1>1, <1>2, <1>4, NobodyNone DEF GoneOK, IInv
  <2> QED
      BY <2>1, <2>2
<1> QED
    BY <1>4, <1>5, <1>6, <1>7, <1>8, <1>9, <1>10 DEF IInv

LEMMA ReleaseKeeps == ASSUME IInv, NEW p \in Everyone, Release(p) PROVE IInv'
<1>2. PICK t \in Everyone : /\ t = It(p) /\ agenda[p] # <<>>
                           /\ Head(agenda[p]) = Do("release", t) /\ Do("release", t) \in Stack(p)
                           /\ Head(agenda[p]).op = "release"
    BY NextCall DEF Release
<1>3. t \in Tids /\ phase[t] # "unborn" /\ count[t] \in Nat /\ count[t] > 0 /\ mutex[t] = p
      /\ t \in listed /\ t \in allocated
    BY <1>2, CallAt, CountListed DEF CallOK, KnownOK, FreeOK, Do, Unlinking
<1>0. PICK n \in Nat : n = IF "NONVIABLE" \in state[t] THEN 0 ELSE count[t] - 1
    BY <1>3
<1> DEFINE b == Do("unlink", t)
<1>1. /\ count' = [count EXCEPT ![t] = n] /\ mutex' = [mutex EXCEPT ![t] = Nobody]
      /\ Then(p, IF n > 0 THEN <<>> ELSE <<b>>)
      /\ UNCHANGED <<phase, state, allocated, listed, interps, objects, pool,
                     running, joinable, detached, total, poolGone>>
    BY <1>0, <1>2 DEF Release, IsNext, counters
<1>4. /\ StacksOK' /\ Apart'
      /\ \A q \in Everyone : q # p => agenda'[q] = agenda[q] /\ Stack(q)' = Stack(q)
      /\ \A q \in Everyone : \A a \in Stack(q)' :
             \/ a = b /\ n = 0
             \/ a \in Stack(q) /\ (a.op \in Freeing => a.t # t)
      /\ \A x, u : u # t \/ x \notin {"release", "unlink"} => (Pending(x, u)' <=> Pending(x, u))
      /\ ~Pending("release", t)' /\ Pending("release", t)
  <2>1. CASE n > 0
    <3>1. Then(p, <<>>)
        BY <1>1, <2>1
    <3> QED
        BY <1>2, <3>1, FreeReturns DEF Freeing, Unlinking
  <2>2. CASE n = 0
    <3>1. Then(p, <<b>>)
        BY <1>1, <2>2
    <3> QED
        BY <1>2, <2>2, <3>1, FreeGoesOn DEF Freeing, Unlinking
  <2>3. n \in Nat
      BY <1>0
  <2> QED
      BY <2>1, <2>2, <2>3
<1>5. TypeOK'
    BY <1>0, <1>1 DEF TypeOK, IInv
<1>6. CallsOK'
  <2> SUFFICES ASSUME NEW q \in Everyone, NEW a \in Stack(q)'
               PROVE  CallOK(q, a)'
      BY DEF CallsOK
  <2>1. CASE a = b /\ n = 0
      BY <1>1, <1>3, <2>1
         DEF CallOK, KnownOK, FreeOK, LifeOK, LookOK, Do, Unlinking, Joining, Lookups, ListFilters, PoolOps, TypeOK, IInv
  <2>2. CASE a \in Stack(q) /\ (a.op \in Freeing => a.t # t)
    <3>1. CallOK(q, a)
        BY <2>2, CallAt
    <3>2. a.op = "start" => a.t # t
      <4> SUFFICES ASSUME a.op = "start", a.t = t
                   PROVE  FALSE
          OBVIOUS
      <4>1. q = p
          BY <1>3, <3>1 DEF CallOK, LifeOK
      <4>2. a # Do("release", t)
          BY DEF Do
      <4>3. a \in ToSet(Rest(p))
          BY <1>2, <2>2, <4>1, <4>2, Top DEF IInv
      <4> QED
          BY <1>2, <4>3, Under DEF IInv, ListFilters
    <3>3. KnownOK(q, a)'
        BY <1>1, <3>1 DEF CallOK, KnownOK
    <3>4. FreeOK(q, a)'
        BY <1>1, <1>3, <2>2, <3>1 DEF CallOK, KnownOK, FreeOK, Freeing, Unlinking, TypeOK, IInv
    <3>5. LifeOK(q, a)'
        BY <1>1, <1>3, <3>1, <3>2 DEF CallOK, KnownOK, LifeOK, IsLive, TypeOK, IInv
    <3>6. LookOK(q, a)'
        BY <1>1, <1>4, <3>1 DEF CallOK, LookOK, IsLive, Room, Uncallable
    <3> QED
        BY <3>3, <3>4, <3>5, <3>6 DEF CallOK
  <2> QED
      BY <1>4, <2>1, <2>2
<1>7. ThreadsOK'
  <2> SUFFICES ASSUME NEW u \in Tids
               PROVE  (UnbornOK(u) /\ CreatingOK(u) /\ StateOK(u) /\ NonviableOK(u))'
      BY DEF ThreadsOK
  <2>1. UnbornOK(u) /\ CreatingOK(u) /\ StateOK(u) /\ NonviableOK(u)
      BY DEF IInv, ThreadsOK
  <2>2. "NONVIABLE" \in state[u] /\ u \in listed => agenda'[Main] \in {<<Do("release", u)>>, <<Do("unlink", u)>>}
    <3> SUFFICES ASSUME "NONVIABLE" \in state[u], u \in listed
                 PROVE  agenda'[Main] = <<Do("unlink", u)>>
        OBVIOUS
    <3>1. p = Main /\ agenda[p] \in {<<Do("release", u)>>, <<Do("unlink", u)>>}
        BY <1>2, Quiet
    <3>2. u = t /\ Rest(p) = <<>>
      <4>1. agenda[p] = <<Do("release", u)>> \/ agenda[p] = <<Do("unlink", u)>>
          BY <3>1
      <4>2. Do("unlink", u) # Do("release", t) /\ (Do("release", u) = Do("release", t) => u = t)
          BY DEF Do
      <4>3. agenda[p] = <<Do("release", u)>> /\ u = t
          BY <1>2, <4>1, <4>2
      <4>4. Tail(<<Do("release", u)>>) = <<>>
          OBVIOUS
      <4> QED
          BY <4>3, <4>4, Zenon DEF Rest
    <3>3. agenda' = [agenda EXCEPT ![p] = <<b>> \o <<>>]
        BY <1>0, <1>1, <3>2 DEF Then
    <3>4. <<b>> \o <<>> = <<b>>
        BY ShortSeq
    <3> QED
        BY <3>1, <3>2, <3>3, <3>4 DEF IInv, StacksOK
  <2>3. u # t => count'[u] = count[u]
      BY <1>1, <1>3 DEF TypeOK, IInv
  <2>4. count'[t] = n
      BY <1>1, <1>3 DEF TypeOK, IInv
  <2> QED
      BY <1>0, <1>1, <1>2, <1>3, <1>4, <2>1, <2>2, <2>3, <2>4, ThreadsStep, ZenonT(40)
         DEF UnbornOK, CreatingOK, StateOK, NonviableOK, NoObjects
<1>8. \A u \in Tids : RefOK(u)'
  <2> SUFFICES ASSUME NEW u \in Tids
               PROVE  RefOK(u)'
      OBVIOUS
  <2>1. CASE u # t
    <3>1. count'[u] = count[u]
        BY <1>1, <1>3, <2>1 DEF TypeOK, IInv
    <3> QED
        BY <1>1, <1>4, <2>1, <3>1, RefSame DEF IInv
  <2>2. CASE u = t
    <3>1. InObjects(t)' = InObjects(t) /\ InObjects(t) \in Nat
        BY <1>1, <1>3, InObjectsSame, InObjectsZero DEF IInv
    <3>2. RunRef(t)' = RunRef(t) /\ JoinRef(t)' = JoinRef(t) /\ NewObject(t)' = NewObject(t)
        BY <1>1, <1>4 DEF RunRef, JoinRef, NewObject, Uncallable
    <3>3. Releases(t) = 1 /\ Releases(t)' = 0
        BY <1>4 DEF Releases
    <3>4. RunRef(t) \in Nat /\ JoinRef(t) \in Nat /\ NewObject(t) \in Nat
        BY DEF RunRef, JoinRef, NewObject
    <3>5. RefOK(t)
        BY <1>3 DEF IInv
    <3>6. count'[t] = n
        BY <1>1, <1>3 DEF TypeOK, IInv
    <3> QED
        BY <1>0, <1>1, <1>3, <2>2, <3>1, <3>2, <3>3, <3>4, <3>5, <3>6 DEF RefOK
  <2> QED
      BY <2>1, <2>2
<1>9. TotalOK'
    BY <1>1, <1>4, TotalSame DEF IInv
<1>10. CountersAgree' /\ GoneOK'
  <2>1. CountersAgree'
      BY <1>1, <1>4, CountersSame DEF IInv
  <2>2. GoneOK'
      BY <1>1, <1>2, <1>4, NobodyNone DEF GoneOK, IInv
  <2> QED
      BY <2>1, <2>2
<1> QED
    BY <1>4, <1>5, <1>6, <1>7, <1>8, <1>9, <1>10 DEF IInv

LEMMA ClearEndsKeeps == ASSUME IInv, NEW p \in Everyone, ClearEnds(p) PROVE IInv'
<1>2. PICK t \in Everyone : /\ t = It(p) /\ agenda[p] # <<>>
                           /\ Head(agenda[p]) = Do("clear", t) /\ Do("clear", t) \in Stack(p)
                           /\ Head(agenda[p]).op = "clear"
    BY NextCall DEF ClearEnds
<1>1. /\ interps' = interps \ {t} /\ Then(p, <<>>)
      /\ UNCHANGED <<phase, state, count, allocated, listed, objects, mutex, pool,
                     running, joinable, detached, total, poolGone>>
    BY <1>2 DEF ClearEnds, IsNext, counters
<1>3. /\ t \in Tids /\ state[t] \cap {"FINISHED", "NONVIABLE"} # {}
      /\ "DIED" \in state[t] => count[t] = 0
    BY <1>2, CallAt DEF CallOK, KnownOK, FreeOK, Do
<1>4. /\ StacksOK'
      /\ \A q \in Everyone : q # p => agenda'[q] = agenda[q] /\ Stack(q)' = Stack(q)
      /\ \A q \in Everyone : Stack(q)' \subseteq Stack(q)
      /\ \A x, u : x # "clear" => (Pending(x, u)' <=> Pending(x, u))
      /\ Apart'
  <2>1. /\ StacksOK' /\ Stack(p)' = ToSet(Rest(p)) /\ Stack(p) = {Do("clear", t)} \cup ToSet(Rest(p))
        /\ \A q \in Everyone : q # p => agenda'[q] = agenda[q] /\ Stack(q)' = Stack(q)
      BY <1>1, <1>2, Returns, Top DEF IInv
  <2>2. ASSUME NEW x, NEW u, x # "clear" PROVE Pending(x, u)' <=> Pending(x, u)
    <3>1. Do(x, u) # Do("clear", t)
        BY <2>2 DEF Do
    <3>2. Do(x, u) \in Stack(p)' <=> Do(x, u) \in Stack(p)
        BY <2>1, <3>1
    <3> QED
        BY <2>1, <3>2, PendingSame
  <2>3. \A q \in Everyone : Stack(q)' \subseteq Stack(q)
      BY <2>1
  <2>4. Apart'
      BY <2>3 DEF Apart, IInv
  <2> QED
      BY <2>1, <2>2, <2>3, <2>4
<1>5. TypeOK'
    BY <1>1 DEF TypeOK, IInv
<1>6. CallsOK'
  <2> SUFFICES ASSUME NEW q \in Everyone, NEW a \in Stack(q)'
               PROVE  CallOK(q, a)'
      BY DEF CallsOK
  <2>1. CallOK(q, a)
      BY <1>4, CallAt
  <2>2. KnownOK(q, a)' /\ FreeOK(q, a)' /\ LifeOK(q, a)'
      BY <1>1, <2>1 DEF CallOK, KnownOK, FreeOK, LifeOK, IsLive
  <2>3. LookOK(q, a)'
      BY <1>1, <1>4, <2>1 DEF CallOK, LookOK, IsLive, Room, Uncallable
  <2> QED
      BY <2>2, <2>3 DEF CallOK
<1>7. ThreadsOK'
  <2> SUFFICES ASSUME NEW u \in Tids
               PROVE  (UnbornOK(u) /\ CreatingOK(u) /\ StateOK(u) /\ NonviableOK(u))'
      BY DEF ThreadsOK
  <2>1. UnbornOK(u) /\ CreatingOK(u) /\ StateOK(u) /\ NonviableOK(u)
      BY DEF IInv, ThreadsOK
  <2>2. "NONVIABLE" \in state[u] => u \notin listed
      BY <1>2, Viable
  <2>3. phase[u] = "creating" \/ (phase[u] = "running" /\ "FINISHED" \notin state[u]) => u # t
      BY <1>3, <2>1 DEF StateOK, CreatingOK
  <2>4. "DIED" \in state[u] /\ count[u] > 0 => u # t
      BY <1>3
  <2> QED
      BY <1>1, <1>2, <1>4, <2>1, <2>2, <2>3, <2>4, ThreadsStep
         DEF UnbornOK, CreatingOK, StateOK, NonviableOK, NoObjects
<1>8. \A u \in Tids : RefOK(u)'
    BY <1>1, <1>4, RefSame DEF IInv, RefCalls, Joining
<1>9. TotalOK'
    BY <1>1, <1>4, TotalSame DEF IInv
<1>10. CountersAgree' /\ GoneOK'
  <2>1. CountersAgree'
      BY <1>1, <1>4, CountersSame DEF IInv
  <2>2. GoneOK'
      BY <1>1, <1>2, <1>4, NobodyNone DEF GoneOK, IInv
  <2> QED
      BY <2>1, <2>2
<1> QED
    BY <1>4, <1>5, <1>6, <1>7, <1>8, <1>9, <1>10 DEF IInv

LEMMA ClearObjectKeeps == ASSUME IInv, NEW p \in Everyone, ClearObject(p) PROVE IInv'
<1>2. PICK t \in Everyone : /\ t = It(p) /\ agenda[p] # <<>>
                           /\ Head(agenda[p]) = Do("clear", t) /\ Do("clear", t) \in Stack(p)
                           /\ Head(agenda[p]).op = "clear"
    BY NextCall DEF ClearObject
<1>1. PICK u \in Tids :
      /\ objects[t][u] > 0 /\ mutex[u] = Nobody
      /\ mutex' = [mutex EXCEPT ![u] = p]
      /\ objects' = [objects EXCEPT ![t][u] = @ - 1]
      /\ Then(p, <<Do("release", u), Do("clear", t)>>)
      /\ UNCHANGED <<phase, state, count, allocated, listed, interps, pool,
                     running, joinable, detached, total, poolGone>>
    BY <1>2 DEF ClearObject, Free, counters
<1> DEFINE b == Do("release", u)
           c == Do("clear", t)
<1>3. /\ t \in Tids /\ state[t] \cap {"FINISHED", "NONVIABLE"} # {}
      /\ phase[t] # "unborn"
    BY <1>2, CallAt DEF CallOK, KnownOK, FreeOK, Do
<1>4. /\ phase[u] \notin {"unborn", "creating"} /\ "NONVIABLE" \notin state[u] /\ count[u] # 0
      /\ count[u] \in Nat /\ count[u] > 0
  <2>1. ~NoObjects(u) /\ objects[t][u] # 0
      BY <1>1 DEF NoObjects
  <2>2. UnbornOK(u) /\ CreatingOK(u) /\ NonviableOK(u) /\ count[u] \in Nat
      BY DEF IInv, ThreadsOK, TypeOK
  <2>3. phase[u] \notin {"unborn", "creating"} /\ "NONVIABLE" \notin state[u]
      BY <2>1, <2>2 DEF UnbornOK, CreatingOK, NonviableOK
  <2> QED
      BY <2>1, <2>2, <2>3, NoRefs
<1>5. /\ StacksOK' /\ Apart' /\ agenda'[p] # <<>>
      /\ \A q \in Everyone : q # p => agenda'[q] = agenda[q] /\ Stack(q)' = Stack(q)
      /\ \A q \in Everyone : \A a \in Stack(q)' : (q = p /\ a = b) \/ a \in Stack(q)
      /\ \A x, v : v # u \/ x # "release" => (Pending(x, v)' <=> Pending(x, v))
      /\ ~Pending("release", u) /\ Pending("release", u)'
  <2>1. b \in Calls /\ c \in Calls /\ b.op = "release" /\ b.t = u /\ c.op = "clear" /\ c.t = t
        /\ Head(agenda[p]) = c
      BY <1>2 DEF Do, Calls, Ops, Freeing, Unlinking, Everyone
  <2>2. \A q \in Everyone : \A a \in Stack(q) : a.t = u => a.op \notin Freeing
      BY <1>1, <1>4, NoFreeing
  <2>3. /\ Stack(p) = {c} \cup ToSet(Rest(p))
        /\ Rest(p) # <<>> /\ Follows(c, Head(Rest(p)))
      BY <1>2, Top DEF IInv
  <2> HIDE DEF b, c
  <2>4. "clear" \notin Freeing /\ "release" \in Freeing /\ "release" \notin Joining \cup {"detached"}
        /\ "clear" \notin Joining \cup {"detached"}
      BY DEF Freeing, Unlinking, Joining
  <2>5. /\ StacksOK' /\ Stack(p)' = {b, c} \cup ToSet(Rest(p)) /\ agenda'[p] # <<>>
        /\ \A q \in Everyone : q # p => agenda'[q] = agenda[q] /\ Stack(q)' = Stack(q)
    <3>1. Then(p, <<b, c>>)
        BY <1>1 DEF b, c
    <3>2. Follows(b, c)
        BY <2>1, <2>4 DEF Follows
    <3>3. \A d \in ToSet(Rest(p)) : d.op \in Freeing => d.t # u
        BY <2>2, <2>3
    <3> QED
        BY <1>2, <2>1, <2>3, <2>4, <3>1, <3>2, <3>3, CallsFirst DEF IInv
  <2>6. Apart'
    <3>1. Stack(p)' \subseteq Stack(p) \cup {b, c}
        BY <2>3, <2>5
    <3>2. \A x \in {b, c}, q \in Everyone : \A d \in Stack(q) : q # p /\ x.t = d.t =>
              /\ ~(x.op \in Freeing /\ d.op \in Freeing)
              /\ ~(x.op \in Joining \cup {"detached"} /\ d.op \in Joining \cup {"detached"})
        BY <2>1, <2>2, <2>4
    <3>3. Apart /\ \A q \in Everyone : q # p => Stack(q)' = Stack(q)
        BY <2>5 DEF IInv
    <3> QED
        BY <3>1, <3>2, <3>3, ApartStep
  <2>7. \A q \in Everyone : \A a \in Stack(q)' : (q = p /\ a = b) \/ a \in Stack(q)
      BY <2>3, <2>5
  <2>8. ASSUME NEW x, NEW v, v # u \/ x # "release" PROVE Pending(x, v)' <=> Pending(x, v)
    <3>1. Do(x, v) # b
        BY <2>8 DEF Do, b
    <3>2. Do(x, v) \in Stack(p)' <=> Do(x, v) \in Stack(p)
        BY <2>3, <2>5, <3>1
    <3> QED
        BY <2>5, <3>2, PendingSame
  <2>9. ~Pending("release", u)
      BY <1>1, <1>4, <2>4, NoFreePending
  <2>10. Pending("release", u)'
      BY <2>5 DEF Pending, Stack, b
  <2> QED
      BY <2>5, <2>6, <2>7, <2>8, <2>9, <2>10 DEF b
<1>6. TypeOK' /\ objects' \in [Everyone -> [Tids -> 0..MaxObjects]]
    BY <1>1, ThreadsAssumption DEF TypeOK, IInv
<1>7. CallsOK'
  <2> SUFFICES ASSUME NEW q \in Everyone, NEW a \in Stack(q)'
               PROVE  CallOK(q, a)'
      BY DEF CallsOK
  <2>1. CASE q = p /\ a = b
      BY <1>1, <1>4, <2>1
         DEF CallOK, KnownOK, FreeOK, LifeOK, LookOK, Do, Unlinking, Joining, Lookups, ListFilters, PoolOps, TypeOK, IInv
  <2>2. CASE a \in Stack(q)
    <3>1. CallOK(q, a)
        BY <2>2, CallAt
    <3>2. a.t = u => a.op \notin Freeing \cup {"start"}
        BY <1>1, <1>4, <2>2, NoFreeing
    <3>3. KnownOK(q, a)' /\ FreeOK(q, a)'
        BY <1>1, <3>1, <3>2 DEF CallOK, KnownOK, FreeOK, Freeing, Unlinking, TypeOK, IInv
    <3>4. IsLive(q) => \A v \in Tids : objects'[q][v] = objects[q][v]
      <4>1. t # Main /\ ~(phase[t] = "running" /\ "FINISHED" \notin state[t])
          BY <1>3, NobodyNone DEF IInv, ThreadsOK, StateOK
      <4> QED
          BY <1>1, <1>3, <4>1 DEF IsLive, TypeOK, IInv
    <3>5. LifeOK(q, a)'
        BY <1>1, <1>3, <3>1, <3>2, <3>4 DEF CallOK, KnownOK, LifeOK, IsLive, TypeOK, IInv
    <3>6. LookOK(q, a)'
      <4>1. \A v \in listed : v \in Tids
          BY DEF TypeOK, IInv
      <4>2. (IsLive(q)' <=> IsLive(q)) /\ (IsLive(q) => \A v \in Tids : Room(q, v)' <=> Room(q, v))
          BY <1>1, <3>4 DEF IsLive, Room
      <4>3. (Pending("unjoinable", a.t)' <=> Pending("unjoinable", a.t)) /\ (Uncallable(a.t)' <=> Uncallable(a.t))
          BY <1>1, <1>5 DEF Uncallable
      <4>4. LookOK(q, a) /\ listed' = listed
          BY <1>1, <3>1 DEF CallOK
      <4> QED
          BY <4>1, <4>2, <4>3, <4>4 DEF LookOK, Lookups
    <3> QED
        BY <3>3, <3>5, <3>6 DEF CallOK
  <2> QED
      BY <1>5, <2>1, <2>2
<1>8. ThreadsOK'
  <2> SUFFICES ASSUME NEW v \in Tids
               PROVE  (UnbornOK(v) /\ CreatingOK(v) /\ StateOK(v) /\ NonviableOK(v))'
      BY DEF ThreadsOK
  <2>1. UnbornOK(v) /\ CreatingOK(v) /\ StateOK(v) /\ NonviableOK(v)
      BY DEF IInv, ThreadsOK
  <2>2. "NONVIABLE" \in state[v] => v \notin listed
      BY <1>2, Viable
  <2>3. NoObjects(v) => NoObjects(v)'
      BY <1>1, <1>3 DEF NoObjects, TypeOK, IInv
  <2>4. phase[v] = "unborn" => \A w \in Tids : objects'[v][w] = objects[v][w]
      BY <1>1, <1>3 DEF TypeOK, IInv, Everyone
  <2>5. phase[v] = "unborn" => /\ count'[v] = 0 /\ v \notin allocated'
                               /\ NoObjects(v)' /\ \A w \in Tids : objects'[v][w] = 0
      BY <1>1, <2>1, <2>3, <2>4 DEF UnbornOK
  <2>6. phase[v] = "creating" => NoObjects(v)' /\ v \in interps'
      BY <1>1, <2>1, <2>3 DEF CreatingOK
  <2>7. /\ phase[v] = "running" /\ "FINISHED" \notin state[v] => v \in interps'
        /\ "DIED" \in state[v] /\ count'[v] > 0 => v \in interps'
        /\ v \notin listed' => count'[v] = 0
      BY <1>1, <2>1 DEF StateOK
  <2>8. "NONVIABLE" \in state[v] => NoObjects(v)' /\ v \notin listed'
      BY <1>1, <2>1, <2>2, <2>3 DEF NonviableOK
  <2> QED
      BY <1>1, <1>2, <1>5, <2>5, <2>6, <2>7, <2>8, ThreadsStep
<1>9. \A v \in Tids : RefOK(v)'
  <2> SUFFICES ASSUME NEW v \in Tids
               PROVE  RefOK(v)'
      OBVIOUS
  <2>1. CASE v # u
    <3>1. \A i \in Everyone : objects'[i][v] = objects[i][v]
        BY <1>1, <2>1 DEF TypeOK, IInv
    <3> QED
        BY <1>1, <1>5, <2>1, <3>1, RefSame DEF IInv
  <2>2. CASE v = u
    <3>1. /\ \A i \in Everyone : i # t => objects'[i][u] = objects[i][u]
          /\ objects'[t][u] = objects[t][u] - 1 /\ objects[t][u] \in Nat
        BY <1>1, <1>3, ThreadsAssumption DEF TypeOK, IInv
    <3>2. InObjects(u)' = (InObjects(u) - objects[t][u]) + objects'[t][u] /\ InObjects(u) \in Nat
        BY <1>6, <3>1, InObjectsStep DEF IInv
    <3>3. RunRef(u)' = RunRef(u) /\ JoinRef(u)' = JoinRef(u) /\ NewObject(u)' = NewObject(u)
        BY <1>1, <1>5 DEF RunRef, JoinRef, NewObject, Uncallable
    <3>4. Releases(u) = 0 /\ Releases(u)' = 1
        BY <1>5 DEF Releases
    <3>5. RunRef(u) \in Nat /\ JoinRef(u) \in Nat /\ NewObject(u) \in Nat
        BY DEF RunRef, JoinRef, NewObject
    <3>6. RefOK(u)
        BY DEF IInv
    <3> QED
        BY <1>1, <1>4, <2>2, <3>1, <3>2, <3>3, <3>4, <3>5, <3>6 DEF RefOK
  <2> QED
      BY <2>1, <2>2
<1>10. TotalOK'
    BY <1>1, <1>5, TotalSame DEF IInv
<1>11. CountersAgree' /\ GoneOK'
  <2>1. CountersAgree'
      BY <1>1, <1>5, CountersSame DEF IInv
  <2>2. GoneOK'
      BY <1>1, <1>2, <1>5, NobodyNone DEF GoneOK, IInv
  <2> QED
      BY <2>1, <2>2
<1> QED
    BY <1>5, <1>6, <1>7, <1>8, <1>9, <1>10, <1>11 DEF IInv

-----------------------------------------------------------------------------
(* Steps of the other calls *)

\* A thread that is in no call makes one.
LEMMA Called ==
    ASSUME IInv, NEW p \in Everyone, agenda[p] = <<>>,
           NEW op \in Ops, NEW t \in Everyone, Begin(p, op, t), op \notin {"clear", "refer"},
           \A q \in Everyone : \A c \in Stack(q) : c.t = t =>
               /\ ~(op \in Freeing /\ c.op \in Freeing)
               /\ ~(op \in Joining \cup {"detached"} /\ c.op \in Joining \cup {"detached"})
    PROVE  /\ StacksOK' /\ Apart' /\ agenda'[p] = <<Do(op, t)>>
           /\ \A q \in Everyone : q # p => agenda'[q] = agenda[q] /\ Stack(q)' = Stack(q)
           /\ \A q \in Everyone : \A a \in Stack(q)' :
                  (q = p /\ a = Do(op, t)) \/ (q # p /\ a \in Stack(q))
           /\ \A x, u : x # op \/ u # t => (Pending(x, u)' <=> Pending(x, u))
           /\ Pending(op, t)'
<1> DEFINE b == Do(op, t)
<1>1. b.op = op /\ b.t = t
    BY DEF Do
<1>2. /\ StacksOK' /\ Stack(p)' = {b} /\ agenda'[p] = <<b>>
      /\ \A q \in Everyone : q # p => agenda'[q] = agenda[q] /\ Stack(q)' = Stack(q)
    BY Begins DEF IInv
<1>3. Stack(p) = {}
    BY EmptyStack
<1>4. \A x, u : x # op \/ u # t => (Pending(x, u)' <=> Pending(x, u))
  <2> SUFFICES ASSUME NEW x, NEW u, x # op \/ u # t
               PROVE  Do(x, u) \in Stack(p)' <=> Do(x, u) \in Stack(p)
      BY <1>2, PendingSame
  <2>1. Do(x, u) # b
      BY DEF Do
  <2> QED
      BY <1>2, <1>3, <2>1
<1>5. Pending(op, t)'
    BY <1>2 DEF Pending, Stack
<1> HIDE DEF b
<1>6. Apart'
  <2>1. Stack(p)' \subseteq Stack(p) \cup {b, b}
      BY <1>2
  <2>2. \A c \in {b, b}, q \in Everyone : \A d \in Stack(q) : q # p /\ c.t = d.t =>
            /\ ~(c.op \in Freeing /\ d.op \in Freeing)
            /\ ~(c.op \in Joining \cup {"detached"} /\ d.op \in Joining \cup {"detached"})
      BY <1>1
  <2>3. Apart /\ \A q \in Everyone : q # p => Stack(q)' = Stack(q)
      BY <1>2 DEF IInv
  <2> QED
      BY <2>1, <2>2, <2>3, ApartStep
<1>7. \A q \in Everyone : \A a \in Stack(q)' : (q = p /\ a = b) \/ (q # p /\ a \in Stack(q))
    BY <1>2
<1> QED
    BY <1>2, <1>4, <1>5, <1>6, <1>7 DEF b

\* A call that no other call returns to goes on to the next.
LEMMA Proceeds ==
    ASSUME IInv, NEW p \in Everyone, agenda[p] # <<>>, NEW o, NEW t, Head(agenda[p]) = Do(o, t),
           o \notin Freeing \cup {"clear", "refer"},
           NEW op \in Ops, NEW u \in Everyone, Then(p, <<Do(op, u)>>), op \notin {"clear", "refer"},
           \A q \in Everyone : q # p => \A c \in Stack(q) : c.t = u =>
               /\ ~(op \in Freeing /\ c.op \in Freeing)
               /\ ~(op \in Joining \cup {"detached"} /\ c.op \in Joining \cup {"detached"})
    PROVE  /\ StacksOK' /\ Apart' /\ agenda'[p] # <<>>
           /\ Stack(p) = {Do(o, t)} /\ Stack(p)' = {Do(op, u)}
           /\ \A q \in Everyone : q # p => agenda'[q] = agenda[q] /\ Stack(q)' = Stack(q)
           /\ \A q \in Everyone : \A a \in Stack(q)' :
                  (q = p /\ a = Do(op, u)) \/ (q # p /\ a \in Stack(q))
           /\ \A x, v : (x # o \/ v # t) /\ (x # op \/ v # u) => (Pending(x, v)' <=> Pending(x, v))
           /\ Pending(o, t) /\ Pending(op, u)'
<1> DEFINE a0 == Do(o, t)
           b == Do(op, u)
<1>1. b.op = op /\ b.t = u /\ b \in Calls /\ a0.op = o
    BY DEF Do, Calls
<1>2. Rest(p) = <<>> /\ Stack(p) = {a0}
    BY <1>1, Alone DEF IInv
<1>3. ToSet(Rest(p)) = {}
    BY <1>2, ShortSeq
<1> HIDE DEF b, a0
<1>4. Then(p, <<b>>)
    BY DEF b
<1>5. /\ StacksOK' /\ Stack(p)' = {b} \cup ToSet(Rest(p)) /\ agenda'[p] = <<b>> \o Rest(p)
      /\ \A q \in Everyone : q # p => agenda'[q] = agenda[q] /\ Stack(q)' = Stack(q)
    BY <1>1, <1>2, <1>3, <1>4, GoesOn DEF IInv
<1>6. Stack(p)' = {b}
    BY <1>3, <1>5
<1>7. agenda'[p] # <<>>
    BY <1>1, <1>2, <1>5, ShortSeq
<1>8. \A x, v : (x # o \/ v # t) /\ (x # op \/ v # u) => (Pending(x, v)' <=> Pending(x, v))
  <2> SUFFICES ASSUME NEW x, NEW v, x # o \/ v # t, x # op \/ v # u
               PROVE  Do(x, v) \in Stack(p)' <=> Do(x, v) \in Stack(p)
      BY <1>5, PendingSame
  <2>1. Do(x, v) # b /\ Do(x, v) # a0
      BY DEF Do, b, a0
  <2> QED
      BY <1>2, <1>6, <2>1
<1>9. Pending(o, t) /\ Pending(op, u)'
    BY <1>2, <1>6 DEF Pending, Stack, a0, b
<1>10. Apart'
  <2>1. Stack(p)' \subseteq Stack(p) \cup {b, b}
      BY <1>6
  <2>2. \A c \in {b, b}, q \in Everyone : \A d \in Stack(q) : q # p /\ c.t = d.t =>
            /\ ~(c.op \in Freeing /\ d.op \in Freeing)
            /\ ~(c.op \in Joining \cup {"detached"} /\ d.op \in Joining \cup {"detached"})
      BY <1>1
  <2>3. Apart /\ \A q \in Everyone : q # p => Stack(q)' = Stack(q)
      BY <1>5 DEF IInv
  <2> QED
      BY <2>1, <2>2, <2>3, ApartStep
<1>11. \A q \in Everyone : \A a \in Stack(q)' : (q = p /\ a = b) \/ (q # p /\ a \in Stack(q))
    BY <1>5, <1>6
<1> QED
    BY <1>2, <1>5, <1>6, <1>7, <1>8, <1>9, <1>10, <1>11 DEF a0, b

\* A call that no other call returns to ends.
LEMMA CallEnds ==
    ASSUME IInv, NEW p \in Everyone, agenda[p] # <<>>, NEW o, NEW t, Head(agenda[p]) = Do(o, t),
           o \notin Freeing \cup {"clear", "refer"}, Then(p, <<>>)
    PROVE  /\ StacksOK' /\ Apart' /\ agenda'[p] = <<>>
           /\ Stack(p) = {Do(o, t)} /\ Stack(p)' = {}
           /\ \A q \in Everyone : q # p => agenda'[q] = agenda[q] /\ Stack(q)' = Stack(q)
           /\ \A q \in Everyone : \A a \in Stack(q)' : q # p /\ a \in Stack(q)
           /\ \A x, v : x # o \/ v # t => (Pending(x, v)' <=> Pending(x, v))
<1> DEFINE a0 == Do(o, t)
<1>1. a0.op = o
    BY DEF Do
<1>2. Rest(p) = <<>> /\ Stack(p) = {a0}
    BY <1>1, Alone DEF IInv
<1>3. /\ StacksOK' /\ Stack(p)' = {} /\ agenda'[p] = <<>>
      /\ \A q \in Everyone : q # p => agenda'[q] = agenda[q] /\ Stack(q)' = Stack(q)
    BY <1>2, Returns, ShortSeq DEF IInv
<1>4. \A x, v : x # o \/ v # t => (Pending(x, v)' <=> Pending(x, v))
  <2> SUFFICES ASSUME NEW x, NEW v, x # o \/ v # t
               PROVE  Do(x, v) \in Stack(p)' <=> Do(x, v) \in Stack(p)
      BY <1>3, PendingSame
  <2>1. Do(x, v) # a0
      BY DEF Do
  <2> QED
      BY <1>2, <1>3, <2>1
<1>5. \A q \in Everyone : \A a \in Stack(q)' : q # p /\ a \in Stack(q)
    BY <1>3
<1>6. Apart'
    BY <1>5 DEF Apart, IInv
<1> QED
    BY <1>2, <1>3, <1>4, <1>5, <1>6

\* What a call of another thread counts on stays true.
LEMMA CallSame ==
    ASSUME NEW q, NEW a, CallOK(q, a),
           phase' = phase, state' = state, count' = count, allocated' = allocated,
           listed' = listed, objects' = objects,
           a.op \in PoolOps => pool' = pool,
           a.op \in {"release", "dispose", "start"} => mutex'[a.t] = mutex[a.t],
           a.op = "refer" => (Pending("unjoinable", a.t)' <=> Pending("unjoinable", a.t))
    PROVE  CallOK(q, a)'
<1>1. KnownOK(q, a)' /\ FreeOK(q, a)'
    BY DEF CallOK, KnownOK, FreeOK
<1>2. LifeOK(q, a)'
    BY DEF CallOK, LifeOK, IsLive
<1>3. LookOK(q, a)'
    BY DEF CallOK, LookOK, IsLive, Room, Uncallable
<1> QED
    BY <1>1, <1>2, <1>3 DEF CallOK

LEMMA GoneStep ==
    ASSUME IInv, NEW p \in Everyone, Ready(p) \/ agenda[p] # <<>>,
           \A q \in Everyone : q # p => agenda'[q] = agenda[q],
           total' = total, poolGone' = poolGone, Ready(p) \/ pool' \in {pool, Nobody}
    PROVE  GoneOK'
    BY NobodyNone DEF IInv, GoneOK, Ready

\* Where only mutexes and stacks change, it is enough to look at the calls and
\* at the references they hold.
LEMMA AgendaStep ==
    ASSUME IInv, NEW p \in Everyone, Ready(p) \/ agenda[p] # <<>>,
           agenda[p] # <<>> => Head(agenda[p]).op \notin {"start", "release", "unlink"},
           \A q \in Everyone : q # p => agenda'[q] = agenda[q],
           phase' = phase, state' = state, count' = count, allocated' = allocated,
           listed' = listed, interps' = interps, objects' = objects,
           total' = total, poolGone' = poolGone,
           Ready(p) \/ pool' \in {pool, Nobody},
           \A t \in Tids : Pending("untotal", t)' <=> Pending("untotal", t),
           TypeOK', StacksOK', Apart', CallsOK', CountersAgree', \A t \in Tids : RefOK(t)'
    PROVE  IInv'
<1>1. ThreadsOK'
  <2> SUFFICES ASSUME NEW v \in Tids
               PROVE  (UnbornOK(v) /\ CreatingOK(v) /\ StateOK(v) /\ NonviableOK(v))'
      BY DEF ThreadsOK
  <2>1. UnbornOK(v) /\ CreatingOK(v) /\ StateOK(v) /\ NonviableOK(v)
      BY DEF IInv, ThreadsOK
  <2>2. "NONVIABLE" \in state[v] => v \notin listed
      BY Viable
  <2>3. NoObjects(v)' <=> NoObjects(v)
      BY DEF NoObjects
  <2>4. phase[v] = "unborn" => /\ count'[v] = 0 /\ v \notin allocated'
                               /\ NoObjects(v)' /\ \A w \in Tids : objects'[v][w] = 0
      BY <2>1, <2>3 DEF UnbornOK
  <2>5. phase[v] = "creating" => NoObjects(v)' /\ v \in interps'
      BY <2>1, <2>3 DEF CreatingOK
  <2>6. /\ phase[v] = "running" /\ "FINISHED" \notin state[v] => v \in interps'
        /\ "DIED" \in state[v] /\ count'[v] > 0 => v \in interps'
        /\ v \notin listed' => count'[v] = 0
      BY <2>1 DEF StateOK
  <2>7. "NONVIABLE" \in state[v] => NoObjects(v)' /\ v \notin listed'
      BY <2>1, <2>2, <2>3 DEF NonviableOK
  <2> QED
      BY <2>4, <2>5, <2>6, <2>7, ThreadsStep
<1>2. TotalOK'
    BY TotalSame DEF IInv
<1>3. GoneOK'
    BY GoneStep
<1> QED
    BY <1>1, <1>2, <1>3 DEF IInv

-----------------------------------------------------------------------------
(* The steps of join, and the last of list and object *)

LEMMA LookEndsKeeps == ASSUME IInv, NEW p \in Everyone, LookEnds(p) PROVE IInv'
<1>2. PICK t \in Everyone : /\ t = It(p) /\ agenda[p] # <<>>
                           /\ Head(agenda[p]) = Do("unpool", t) /\ Do("unpool", t) \in Stack(p)
                           /\ Head(agenda[p]).op = "unpool"
    BY NextCall DEF LookEnds
<1>1. /\ Then(p, <<>>) /\ pool' = Nobody
      /\ UNCHANGED <<phase, state, count, allocated, listed, interps, objects, mutex,
                     running, joinable, detached, total, poolGone>>
    BY DEF LookEnds, refvars, counters
<1>3. pool = p
    BY <1>2, CallAt DEF CallOK, KnownOK, PoolOps, Do
<1>4. /\ StacksOK' /\ Apart' /\ Stack(p)' = {}
      /\ \A q \in Everyone : q # p => agenda'[q] = agenda[q] /\ Stack(q)' = Stack(q)
      /\ \A q \in Everyone : \A a \in Stack(q)' : q # p /\ a \in Stack(q)
      /\ \A x, v : x # "unpool" \/ v # t => (Pending(x, v)' <=> Pending(x, v))
    BY <1>1, <1>2, CallEnds DEF Freeing, Unlinking
<1>5. TypeOK'
    BY <1>1 DEF TypeOK, IInv
<1>6. CallsOK'
  <2> SUFFICES ASSUME NEW q \in Everyone, NEW a \in Stack(q)'
               PROVE  CallOK(q, a)'
      BY DEF CallsOK
  <2>1. CallOK(q, a) /\ a.op \notin PoolOps
      BY <1>3, <1>4, CallAt, PoolCallsOf
  <2> QED
      BY <1>1, <2>1, CallSame DEF PoolOps
<1>7. \A u \in Tids : RefOK(u)'
    BY <1>1, <1>4, RefSame DEF IInv, RefCalls, Joining
<1>8. CountersAgree'
    BY <1>1, <1>4, CountersSame DEF IInv
<1>9. \A u \in Tids : Pending("untotal", u)' <=> Pending("untotal", u)
    BY <1>4
<1> QED
    BY <1>1, <1>2, <1>4, <1>5, <1>6, <1>7, <1>8, <1>9, AgendaStep

\* No two threads have to count the same thread as joined.
LEMMA JoinUncountsKeeps == ASSUME IInv, NEW p \in Everyone, JoinUncounts(p) PROVE IInv'
<1>2. PICK t \in Everyone : /\ t = It(p) /\ agenda[p] # <<>>
                           /\ Head(agenda[p]) = Do("unjoinable", t) /\ Do("unjoinable", t) \in Stack(p)
                           /\ Head(agenda[p]).op = "unjoinable"
    BY NextCall DEF JoinUncounts
<1>1. /\ Then(p, <<Do("wait", t)>>) /\ pool = Nobody /\ joinable' = joinable - 1
      /\ UNCHANGED <<phase, state, count, allocated, listed, interps, objects, mutex, pool,
                     running, detached, total, poolGone>>
    BY <1>2 DEF JoinUncounts, refvars, PoolFree
<1>3. t \in Tids /\ "JOINED" \in state[t] /\ phase[t] # "unborn"
    BY <1>2, CallAt DEF CallOK, KnownOK, LifeOK, Joining, Do
<1>0. \A q \in Everyone : q # p => \A c \in Stack(q) : c.t = t => c.op \notin Joining \cup {"detached"}
  <2>1. Do("unjoinable", t).op \in Joining /\ Do("unjoinable", t).t = t
      BY DEF Do, Joining
  <2> QED
      BY <1>2, <2>1 DEF Apart, IInv
<1>4. /\ StacksOK' /\ Apart'
      /\ Stack(p)' = {Do("wait", t)}
      /\ \A q \in Everyone : q # p => agenda'[q] = agenda[q] /\ Stack(q)' = Stack(q)
      /\ \A q \in Everyone : \A a \in Stack(q)' :
             (q = p /\ a = Do("wait", t)) \/ (q # p /\ a \in Stack(q))
      /\ \A x, v : (x # "unjoinable" \/ v # t) /\ (x # "wait" \/ v # t) => (Pending(x, v)' <=> Pending(x, v))
      /\ Pending("unjoinable", t) /\ Pending("wait", t)'
  <2>1. "unjoinable" \notin Freeing \cup {"clear", "refer"} /\ "wait" \in Ops
        /\ "wait" \notin Freeing \cup {"clear", "refer"} /\ "wait" \in Joining
      BY DEF Freeing, Unlinking, Ops, Joining
  <2> QED
      BY <1>0, <1>1, <1>2, <2>1, Proceeds
<1>5. ~Pending("unjoinable", t)'
  <2> SUFFICES ASSUME NEW q \in Everyone, Do("unjoinable", t) \in Stack(q)'
               PROVE  FALSE
      BY DEF Pending, Stack
  <2>1. Do("unjoinable", t) # Do("wait", t)
        /\ Do("unjoinable", t).op \in Joining /\ Do("unjoinable", t).t = t
      BY DEF Do, Joining
  <2> QED
      BY <1>0, <1>4, <2>1
<1>6. TypeOK'
    BY <1>1 DEF TypeOK, IInv
<1>7. CallsOK'
  <2> SUFFICES ASSUME NEW q \in Everyone, NEW a \in Stack(q)'
               PROVE  CallOK(q, a)'
      BY DEF CallsOK
  <2>1. CASE q = p /\ a = Do("wait", t)
      BY <1>1, <1>3, <2>1
         DEF CallOK, KnownOK, FreeOK, LifeOK, LookOK, Do, Unlinking, Joining, Lookups, ListFilters, PoolOps
  <2>2. CASE q # p /\ a \in Stack(q)
    <3>1. CallOK(q, a) /\ a.op \notin PoolOps
        BY <1>1, <2>2, CallAt, NoPoolCalls
    <3> QED
        BY <1>1, <3>1, CallSame DEF PoolOps
  <2> QED
      BY <1>4, <2>1, <2>2
<1>8. \A u \in Tids : RefOK(u)'
  <2> SUFFICES ASSUME NEW u \in Tids
               PROVE  RefOK(u)'
      OBVIOUS
  <2>1. CASE u # t
      BY <1>1, <1>4, <2>1, RefSame DEF IInv
  <2>2. CASE u = t
    <3>1. InObjects(t)' = InObjects(t)
        BY <1>1, <1>3, InObjectsSame
    <3>2. RunRef(t)' = RunRef(t) /\ NewObject(t)' = NewObject(t) /\ Releases(t)' = Releases(t)
        BY <1>1, <1>4 DEF RunRef, NewObject, Releases
    <3>3. JoinRef(t)' = JoinRef(t)
        BY <1>4 DEF JoinRef
    <3>4. RefOK(t)
        BY <1>3 DEF IInv
    <3> QED
        BY <1>1, <2>2, <3>1, <3>2, <3>3, <3>4 DEF RefOK
  <2> QED
      BY <2>1, <2>2
<1>9. CountersAgree'
  <2> DEFINE Live == {u \in Tids : phase[u] = "running" /\ "FINISHED" \notin state[u]}
             Off == {u \in Tids : "DETACHED" \in state[u]}
             Ended == {u \in Tids : "FINISHED" \in state[u]}
             Uncounted == {u \in Tids : "JOINED" \in state[u] /\ ~Pending("unjoinable", u)}
  <2>1. Live' = Live /\ Off' = Off /\ Ended' = Ended
      BY <1>1
  <2>2. Uncounted' = Uncounted \cup {t} /\ t \notin Uncounted
      BY <1>1, <1>3, <1>4, <1>5
  <2>3. IsFiniteSet(Uncounted) /\ IsFiniteSet(Ended \ Off)
      BY EveryoneFinite, FS_Subset
  <2> HIDE DEF Uncounted
  <2>4. Cardinality(Uncounted') = Cardinality(Uncounted) + 1
      BY <2>2, <2>3, FS_AddElement
  <2>5. /\ running = Cardinality(Live \ Off) /\ detached = Cardinality(Live \cap Off)
        /\ joinable = Cardinality(Ended \ Off) - Cardinality(Uncounted)
      BY DEF CountersAgree, IInv, Uncounted
  <2>6. Cardinality(Uncounted) \in Nat /\ Cardinality(Ended \ Off) \in Nat
      BY <2>3, FS_CardinalityType
  <2>7. /\ running' = Cardinality(Live' \ Off') /\ detached' = Cardinality(Live' \cap Off')
        /\ joinable' = Cardinality(Ended' \ Off') - Cardinality(Uncounted')
      BY <1>1, <2>1, <2>4, <2>5, <2>6
  <2> QED
      BY <2>7 DEF CountersAgree, Uncounted
<1>10. \A u \in Tids : Pending("untotal", u)' <=> Pending("untotal", u)
    BY <1>4
<1> QED
    BY <1>1, <1>2, <1>4, <1>6, <1>7, <1>8, <1>9, <1>10, AgendaStep

LEMMA JoinReturnsKeeps == ASSUME IInv, NEW p \in Everyone, JoinReturns(p) PROVE IInv'
<1>2. PICK t \in Everyone : /\ t = It(p) /\ agenda[p] # <<>>
                           /\ Head(agenda[p]) = Do("wait", t) /\ Do("wait", t) \in Stack(p)
                           /\ Head(agenda[p]).op = "wait"
    BY NextCall DEF JoinReturns
<1>1. /\ Then(p, <<Do("collect", t)>>) /\ phase[t] = "over"
      /\ UNCHANGED <<phase, state, count, allocated, listed, interps, objects, mutex, pool,
                     running, joinable, detached, total, poolGone>>
    BY <1>2 DEF JoinReturns, refvars, counters
<1>3. t \in Tids /\ "JOINED" \in state[t]
    BY <1>2, CallAt DEF CallOK, KnownOK, LifeOK, Joining, Do
<1>0. \A q \in Everyone : q # p => \A c \in Stack(q) : c.t = t => c.op \notin Joining \cup {"detached"}
  <2>1. Do("wait", t).op \in Joining /\ Do("wait", t).t = t
      BY DEF Do, Joining
  <2> QED
      BY <1>2, <2>1 DEF Apart, IInv
<1>4. /\ StacksOK' /\ Apart'
      /\ \A q \in Everyone : q # p => agenda'[q] = agenda[q] /\ Stack(q)' = Stack(q)
      /\ \A q \in Everyone : \A a \in Stack(q)' :
             (q = p /\ a = Do("collect", t)) \/ (q # p /\ a \in Stack(q))
      /\ \A x, v : (x # "wait" \/ v # t) /\ (x # "collect" \/ v # t) => (Pending(x, v)' <=> Pending(x, v))
      /\ Pending("wait", t) /\ Pending("collect", t)'
  <2>1. "wait" \notin Freeing \cup {"clear", "refer"} /\ "collect" \in Ops
        /\ "collect" \notin Freeing \cup {"clear", "refer"} /\ "collect" \in Joining
      BY DEF Freeing, Unlinking, Ops, Joining
  <2> QED
      BY <1>0, <1>1, <1>2, <2>1, Proceeds
<1>5. TypeOK'
    BY <1>1 DEF TypeOK, IInv
<1>6. CallsOK'
  <2> SUFFICES ASSUME NEW q \in Everyone, NEW a \in Stack(q)'
               PROVE  CallOK(q, a)'
      BY DEF CallsOK
  <2>1. CASE q = p /\ a = Do("collect", t)
      BY <1>1, <1>3, <2>1
         DEF CallOK, KnownOK, FreeOK, LifeOK, LookOK, Do, Unlinking, Joining, Lookups, ListFilters, PoolOps
  <2>2. CASE q # p /\ a \in Stack(q)
    <3>1. CallOK(q, a)
        BY <2>2, CallAt
    <3> QED
        BY <1>1, <1>4, <3>1, CallSame
  <2> QED
      BY <1>4, <2>1, <2>2
<1>7. \A u \in Tids : RefOK(u)'
  <2> SUFFICES ASSUME NEW u \in Tids
               PROVE  RefOK(u)'
      OBVIOUS
  <2>1. CASE u # t
      BY <1>1, <1>4, <2>1, RefSame DEF IInv
  <2>2. CASE u = t
    <3>1. InObjects(t)' = InObjects(t)
        BY <1>1, <1>3, InObjectsSame
    <3>2. RunRef(t)' = RunRef(t) /\ NewObject(t)' = NewObject(t) /\ Releases(t)' = Releases(t)
        BY <1>1, <1>4 DEF RunRef, NewObject, Releases
    <3>3. JoinRef(t)' = JoinRef(t)
        BY <1>4 DEF JoinRef
    <3>4. RefOK(t)
        BY <1>3 DEF IInv
    <3> QED
        BY <1>1, <2>2, <3>1, <3>2, <3>3, <3>4 DEF RefOK
  <2> QED
      BY <2>1, <2>2
<1>8. CountersAgree'
    BY <1>1, <1>4, CountersSame DEF IInv
<1>9. \A u \in Tids : Pending("untotal", u)' <=> Pending("untotal", u)
    BY <1>4
<1> QED
    BY <1>1, <1>2, <1>4, <1>5, <1>6, <1>7, <1>8, <1>9, AgendaStep

-----------------------------------------------------------------------------
(* The reference of join and detach, and the one of S_ithread_run *)

\* With t's mutex taken, the reference of join or detach goes on its way out.
LEMMA ReapKeeps ==
    ASSUME IInv, NEW p \in Everyone, NEW t \in Everyone, NEW o \in {"collect", "detached"},
           agenda[p] # <<>>, Head(agenda[p]) = Do(o, t), mutex[t] = Nobody,
           mutex' = [mutex EXCEPT ![t] = p],
           \/ Then(p, <<Do("release", t)>>)
           \/ /\ Then(p, <<Do("clear", t), Do("release", t)>>)
              /\ "DIED" \notin state[t]
              /\ phase[t] = "over" \/ "FINISHED" \in state[t],
           UNCHANGED <<phase, state, count, allocated, listed, interps, objects, pool,
                       running, joinable, detached, total, poolGone>>
    PROVE  IInv'
<1> DEFINE a0 == Do(o, t)
           b == Do("clear", t)
           c == Do("release", t)
           ClearOK == "DIED" \notin state[t] /\ state[t] \cap {"FINISHED", "NONVIABLE"} # {}
<1>0. /\ a0.op = o /\ a0.t = t /\ b.op = "clear" /\ b.t = t /\ c.op = "release" /\ c.t = t
      /\ b \in Calls /\ c \in Calls
      /\ o \in Joining \cup {"detached"} /\ o \notin Freeing \cup {"clear", "refer"} /\ o \in RefCalls
      /\ "release" \in Freeing /\ "release" \in Ops /\ "clear" \notin Freeing
      /\ {"clear", "release"} \cap (Joining \cup {"detached"}) = {}
    BY DEF Do, Calls, Ops, Freeing, Unlinking, Joining, RefCalls
<1>1. a0 \in Stack(p) /\ Stack(p) = {a0} /\ Rest(p) = <<>>
    BY <1>0, Alone DEF IInv
<1>2. /\ t \in Tids /\ phase[t] # "unborn"
      /\ "JOINED" \in state[t] \/ "DETACHED" \in state[t]
    BY <1>0, <1>1, CallAt DEF CallOK, KnownOK, LifeOK
<1>3. "NONVIABLE" \notin state[t] /\ count[t] # 0 /\ count[t] \in Nat /\ count[t] > 0
  <2>1. NonviableOK(t) /\ count[t] \in Nat
      BY <1>2 DEF IInv, ThreadsOK, TypeOK
  <2>2. "NONVIABLE" \notin state[t]
      BY <1>2, <2>1 DEF NonviableOK
  <2>3. Pending(o, t)
      BY <1>1, PendingBy
  <2> QED
      BY <1>0, <1>2, <2>1, <2>2, <2>3, NoRefs
<1>4. \A q \in Everyone : \A a \in Stack(q) : a.t = t => a.op \notin Freeing
    BY <1>2, <1>3, NoFreeing
<1>5. \A q \in Everyone : q # p => \A a \in Stack(q) : a.t = t => a.op \notin Joining \cup {"detached"}
    BY <1>0, <1>1 DEF Apart, IInv
<1> HIDE DEF a0, b, c
<1>6. /\ StacksOK' /\ c \in Stack(p)' /\ Stack(p)' \subseteq {b, c}
      /\ b \in Stack(p)' => ClearOK
      /\ \A q \in Everyone : q # p => agenda'[q] = agenda[q] /\ Stack(q)' = Stack(q)
  <2>1. CASE Then(p, <<c>>)
    <3>1. Then(p, <<Do("release", t)>>)
        BY <2>1 DEF c
    <3> USE <1>0, <1>4, <1>5, <3>1, Proceeds
    <3>2. /\ StacksOK' /\ Stack(p)' = {c}
          /\ \A q \in Everyone : q # p => agenda'[q] = agenda[q] /\ Stack(q)' = Stack(q)
        BY DEF c
    <3>3. b # c
        BY <1>0
    <3> QED
        BY <3>2, <3>3
  <2>2. CASE Then(p, <<b, c>>) /\ ClearOK
    <3>1. ToSet(Rest(p)) = {}
        BY <1>1, ShortSeq
    <3>2. Follows(b, c)
        BY <1>0 DEF Follows
    <3>3. /\ StacksOK' /\ Stack(p)' = {b, c} \cup ToSet(Rest(p))
          /\ \A q \in Everyone : q # p => agenda'[q] = agenda[q] /\ Stack(q)' = Stack(q)
        BY <1>0, <1>1, <2>2, <3>1, <3>2, CallsFirst DEF IInv
    <3> QED
        BY <2>2, <3>1, <3>3
  <2>3. phase[t] = "over" => state[t] \cap {"FINISHED", "NONVIABLE"} # {}
      BY <1>2 DEF IInv, ThreadsOK, StateOK
  <2> QED
      BY <2>1, <2>2, <2>3 DEF b, c
<1> HIDE DEF ClearOK
<1>7. Apart'
  <2>1. Stack(p)' \subseteq Stack(p) \cup {b, c}
      BY <1>6
  <2>2. \A x \in {b, c}, q \in Everyone : \A d \in Stack(q) : q # p /\ x.t = d.t =>
            /\ ~(x.op \in Freeing /\ d.op \in Freeing)
            /\ ~(x.op \in Joining \cup {"detached"} /\ d.op \in Joining \cup {"detached"})
      BY <1>0, <1>4
  <2>3. Apart /\ \A q \in Everyone : q # p => Stack(q)' = Stack(q)
      BY <1>6 DEF IInv
  <2> QED
      BY <2>1, <2>2, <2>3, ApartStep, Z3T(60)
<1>8. \A x, v : v # t \/ x \notin {o, "clear", "release"} => (Pending(x, v)' <=> Pending(x, v))
  <2> SUFFICES ASSUME NEW x, NEW v, v # t \/ x \notin {o, "clear", "release"}
               PROVE  Do(x, v) \in Stack(p)' <=> Do(x, v) \in Stack(p)
      BY <1>6, PendingSame
  <2>1. Do(x, v) # b /\ Do(x, v) # c /\ Do(x, v) # a0
      BY DEF Do, a0, b, c
  <2> QED
      BY <1>1, <1>6, <2>1
<1>9. ~Pending("release", t) /\ Pending("release", t)' /\ Pending(o, t)
  <2>1. Pending(o, t)
      BY <1>1, PendingBy DEF a0
  <2>2. Pending("release", t)'
      BY <1>6 DEF Pending, Stack, c
  <2> QED
      BY <1>0, <1>2, <1>3, <2>1, <2>2, NoFreePending
<1>10. \A op \in Joining \cup {"detached"} : ~Pending(op, t)'
  <2> SUFFICES ASSUME NEW op \in Joining \cup {"detached"}, NEW q \in Everyone, Do(op, t) \in Stack(q)'
               PROVE  FALSE
      BY DEF Pending, Stack
  <2>1. Do(op, t).op = op /\ Do(op, t).t = t
      BY DEF Do
  <2>2. op # "clear" /\ op # "release"
      BY <1>0
  <2> QED
      BY <1>0, <1>5, <1>6, <2>1, <2>2
<1>11. TypeOK'
    BY DEF TypeOK, IInv
<1>12. CallsOK'
  <2> SUFFICES ASSUME NEW q \in Everyone, NEW a \in Stack(q)'
               PROVE  CallOK(q, a)'
      BY DEF CallsOK
  <2>1. CASE q = p /\ a = c
      BY <1>0, <1>2, <1>3, <2>1
         DEF CallOK, KnownOK, FreeOK, LifeOK, LookOK, Unlinking, Joining, Lookups, ListFilters, PoolOps, TypeOK, IInv
  <2>2. CASE q = p /\ a = b /\ ClearOK
      BY <1>0, <1>2, <2>2
         DEF CallOK, KnownOK, FreeOK, LifeOK, LookOK, Unlinking, Joining, Lookups, ListFilters, PoolOps, ClearOK
  <2>3. CASE q # p /\ a \in Stack(q)
    <3>1. CallOK(q, a)
        BY <2>3, CallAt
    <3>2. a.t = t => a.op \notin Freeing \cup {"start"}
        BY <1>2, <1>3, <2>3, NoFreeing
    <3>3. a.op \in {"release", "dispose", "start"} => mutex'[a.t] = mutex[a.t]
        BY <1>2, <3>1, <3>2 DEF Freeing, Unlinking, CallOK, KnownOK, TypeOK, IInv
    <3>4. a.op = "refer" => (Pending("unjoinable", a.t)' <=> Pending("unjoinable", a.t))
        BY <1>8
    <3> QED
        BY <3>1, <3>3, <3>4, CallSame
  <2> QED
      BY <1>6, <2>1, <2>2, <2>3
<1>13. \A u \in Tids : RefOK(u)'
  <2> SUFFICES ASSUME NEW u \in Tids
               PROVE  RefOK(u)'
      OBVIOUS
  <2>1. CASE u # t
      BY <1>8, <2>1, RefSame DEF IInv
  <2>2. CASE u = t
    <3>1. InObjects(t)' = InObjects(t) /\ InObjects(t) \in Nat
        BY <1>2, InObjectsSame, InObjectsZero DEF IInv
    <3>2. RunRef(t)' = RunRef(t) /\ NewObject(t)' = NewObject(t)
        BY <1>8 DEF RunRef, NewObject
    <3>3. Releases(t) = 0 /\ Releases(t)' = 1
        BY <1>9 DEF Releases
    <3>4. JoinRef(t) = 1 /\ JoinRef(t)' = 0
      <4>1. Uncallable(t)'
          BY <1>2 DEF Uncallable
      <4> QED
          BY <1>9, <1>10, <4>1 DEF JoinRef, Joining
    <3>5. RunRef(t) \in Nat /\ NewObject(t) \in Nat
        BY DEF RunRef, NewObject
    <3>6. RefOK(t)
        BY <1>2 DEF IInv
    <3> QED
        BY <1>2, <2>2, <3>1, <3>2, <3>3, <3>4, <3>5, <3>6 DEF RefOK
  <2> QED
      BY <2>1, <2>2
<1>14. CountersAgree'
    BY <1>8, CountersSame DEF IInv
<1>15. \A u \in Tids : Pending("untotal", u)' <=> Pending("untotal", u)
    BY <1>8
<1>16. Head(agenda[p]).op \notin {"start", "release", "unlink"}
    BY <1>0 DEF a0
<1> QED
    BY <1>6, <1>7, <1>11, <1>12, <1>13, <1>14, <1>15, <1>16, AgendaStep

LEMMA JoinCollectsKeeps == ASSUME IInv, NEW p \in Everyone, JoinCollects(p) PROVE IInv'
<1>1. PICK t \in Everyone : /\ t = It(p) /\ agenda[p] # <<>>
                           /\ Head(agenda[p]) = Do("collect", t) /\ Do("collect", t) \in Stack(p)
                           /\ Head(agenda[p]).op = "collect"
    BY NextCall DEF JoinCollects
<1>2. phase[t] = "over"
    BY <1>1, CallAt DEF CallOK, LifeOK, Do
<1>3. /\ Then(p, Reap(t)) /\ mutex[t] = Nobody /\ mutex' = [mutex EXCEPT ![t] = p]
      /\ UNCHANGED <<phase, state, count, allocated, listed, interps, objects, pool,
                     running, joinable, detached, total, poolGone>>
    BY <1>1 DEF JoinCollects, refvars, counters, Free
<1>4. \/ Then(p, <<Do("release", t)>>)
      \/ Then(p, <<Do("clear", t), Do("release", t)>>) /\ "DIED" \notin state[t]
    BY <1>3 DEF Reap
<1> QED
    BY <1>1, <1>2, <1>3, <1>4, ReapKeeps

LEMMA DetachReleasesKeeps == ASSUME IInv, NEW p \in Everyone, DetachReleases(p) PROVE IInv'
<1>1. PICK t \in Everyone : /\ t = It(p) /\ agenda[p] # <<>>
                           /\ Head(agenda[p]) = Do("detached", t) /\ Do("detached", t) \in Stack(p)
                           /\ Head(agenda[p]).op = "detached"
    BY NextCall DEF DetachReleases
<1>2. /\ Then(p, IF "FINISHED" \in state[t] THEN Reap(t) ELSE <<Do("release", t)>>)
      /\ mutex[t] = Nobody /\ mutex' = [mutex EXCEPT ![t] = p]
      /\ UNCHANGED <<phase, state, count, allocated, listed, interps, objects, pool,
                     running, joinable, detached, total, poolGone>>
    BY <1>1 DEF DetachReleases, refvars, counters, Free
<1>3. \/ Then(p, <<Do("release", t)>>)
      \/ /\ Then(p, <<Do("clear", t), Do("release", t)>>)
         /\ "DIED" \notin state[t] /\ "FINISHED" \in state[t]
    BY <1>2 DEF Reap
<1> QED
    BY <1>1, <1>2, <1>3, ReapKeeps

LEMMA FinishReleasesKeeps == ASSUME IInv, NEW t \in Tids, FinishReleases(t) PROVE IInv'
<1> DEFINE a0 == Do("runfree", t)
           b == Do("release", t)
           c == Do("exit", t)
<1>1. /\ t \in Everyone /\ agenda[t] # <<>> /\ Head(agenda[t]) = a0 /\ a0 \in Stack(t)
      /\ "FINISHED" \in state[t]
  <2>1. t \in Everyone
      BY DEF Everyone
  <2>2. PICK u \in Everyone : /\ u = It(t) /\ agenda[t] # <<>>
                             /\ Head(agenda[t]) = Do("runfree", u) /\ Do("runfree", u) \in Stack(t)
                             /\ Head(agenda[t]).op = "runfree"
      BY <2>1, NextCall DEF FinishReleases
  <2>3. u = t /\ "FINISHED" \in state[t]
      BY <2>1, <2>2, CallAt DEF CallOK, LifeOK, Do
  <2> QED
      BY <2>1, <2>2, <2>3
<1>2. /\ mutex[t] = Nobody /\ mutex' = [mutex EXCEPT ![t] = t]
      /\ Then(t, <<b, c>>)
      /\ UNCHANGED <<phase, state, count, allocated, listed, interps, objects, pool,
                     running, joinable, detached, total, poolGone>>
    BY DEF FinishReleases, refvars, counters, Free
<1>0. /\ a0.op = "runfree" /\ a0.t = t /\ b.op = "release" /\ b.t = t /\ c.op = "exit" /\ c.t = t
      /\ b \in Calls /\ c \in Calls
    BY <1>1 DEF Do, Calls, Ops, Freeing
<1>3. /\ "release" \in Freeing /\ {"exit", "runfree"} \cap (Freeing \cup Joining \cup {"detached", "clear", "refer"}) = {}
      /\ "release" \notin Joining \cup {"detached"}
    BY DEF Freeing, Unlinking, Joining
<1>4. Stack(t) = {a0} /\ Rest(t) = <<>> /\ ToSet(Rest(t)) = {} /\ Pending("runfree", t)
    BY <1>0, <1>1, <1>3, Alone, ShortSeq, PendingBy DEF IInv
<1>5. /\ "NONVIABLE" \notin state[t] /\ phase[t] # "unborn" /\ count[t] # 0
      /\ count[t] \in Nat /\ count[t] > 0
  <2>1. NonviableOK(t) /\ UnbornOK(t) /\ count[t] \in Nat
      BY DEF IInv, ThreadsOK, TypeOK
  <2>2. "NONVIABLE" \notin state[t] /\ phase[t] # "unborn"
      BY <1>1, <2>1 DEF NonviableOK, UnbornOK
  <2> QED
      BY <1>4, <2>1, <2>2, NoRefs DEF RefCalls
<1>6. \A q \in Everyone : \A a \in Stack(q) : a.t = t => a.op \notin Freeing
    BY <1>2, <1>5, NoFreeing
<1> HIDE DEF a0, b, c
<1>7. /\ StacksOK' /\ Stack(t)' = {b, c}
      /\ \A q \in Everyone : q # t => agenda'[q] = agenda[q] /\ Stack(q)' = Stack(q)
  <2>1. Follows(b, c)
      BY <1>0, <1>3 DEF Follows
  <2>2. /\ StacksOK' /\ Stack(t)' = {b, c} \cup ToSet(Rest(t))
        /\ \A q \in Everyone : q # t => agenda'[q] = agenda[q] /\ Stack(q)' = Stack(q)
      BY <1>0, <1>1, <1>2, <1>3, <1>4, <2>1, CallsFirst DEF IInv
  <2> QED
      BY <1>4, <2>2
<1>8. Apart'
  <2>1. Stack(t)' \subseteq Stack(t) \cup {b, c}
      BY <1>7
  <2>2. \A x \in {b, c}, q \in Everyone : \A d \in Stack(q) : q # t /\ x.t = d.t =>
            /\ ~(x.op \in Freeing /\ d.op \in Freeing)
            /\ ~(x.op \in Joining \cup {"detached"} /\ d.op \in Joining \cup {"detached"})
      BY <1>0, <1>3, <1>6
  <2>3. Apart /\ \A q \in Everyone : q # t => Stack(q)' = Stack(q)
      BY <1>7 DEF IInv
  <2> QED
      BY <1>1, <2>1, <2>2, <2>3, ApartStep
<1>9. \A x, v : v # t \/ x \notin {"runfree", "release", "exit"} => (Pending(x, v)' <=> Pending(x, v))
  <2> SUFFICES ASSUME NEW x, NEW v, v # t \/ x \notin {"runfree", "release", "exit"}
               PROVE  Do(x, v) \in Stack(t)' <=> Do(x, v) \in Stack(t)
      BY <1>1, <1>7, PendingSame
  <2>1. Do(x, v) # b /\ Do(x, v) # c /\ Do(x, v) # a0
      BY DEF Do, a0, b, c
  <2> QED
      BY <1>4, <1>7, <2>1
<1>10. ~Pending("release", t) /\ Pending("release", t)' /\ ~Pending("runfree", t)'
  <2>1. Pending("release", t)'
      BY <1>1, <1>7 DEF Pending, Stack, b
  <2>2. ~Pending("release", t)
      BY <1>2, <1>3, <1>5, NoFreePending
  <2>3. ASSUME NEW q \in Everyone, Do("runfree", t) \in Stack(q)' PROVE FALSE
    <3>1. q # t
        BY <1>0, <1>7, <2>3 DEF a0
    <3>2. CallOK(q, a0) /\ a0.op = "runfree" /\ a0.t = t
        BY <1>0, <1>7, <2>3, <3>1, CallAt DEF a0
    <3> QED
        BY <3>1, <3>2 DEF CallOK, LifeOK
  <2> QED
      BY <2>1, <2>2, <2>3 DEF Pending, Stack
<1>11. TypeOK'
    BY <1>1, <1>2 DEF TypeOK, IInv
<1>12. CallsOK'
  <2> SUFFICES ASSUME NEW q \in Everyone, NEW a \in Stack(q)'
               PROVE  CallOK(q, a)'
      BY DEF CallsOK
  <2>1. CASE q = t /\ a = b
      BY <1>0, <1>2, <1>5, <2>1
         DEF CallOK, KnownOK, FreeOK, LifeOK, LookOK, Unlinking, Joining, Lookups, ListFilters, PoolOps, TypeOK, IInv
  <2>2. CASE q = t /\ a = c
      BY <1>0, <1>1, <1>2, <1>5, <2>2
         DEF CallOK, KnownOK, FreeOK, LifeOK, LookOK, Unlinking, Joining, Lookups, ListFilters, PoolOps
  <2>3. CASE q # t /\ a \in Stack(q)
    <3>1. CallOK(q, a)
        BY <2>3, CallAt
    <3>2. a.t = t => a.op \notin Freeing \cup {"start"}
        BY <1>2, <1>5, <2>3, NoFreeing
    <3>3. a.op \in {"release", "dispose", "start"} => mutex'[a.t] = mutex[a.t]
        BY <1>2, <3>1, <3>2 DEF Freeing, Unlinking, CallOK, KnownOK, TypeOK, IInv
    <3>4. a.op = "refer" => (Pending("unjoinable", a.t)' <=> Pending("unjoinable", a.t))
        BY <1>9
    <3> QED
        BY <1>2, <3>1, <3>3, <3>4, CallSame
  <2> QED
      BY <1>7, <2>1, <2>2, <2>3
<1>13. \A u \in Tids : RefOK(u)'
  <2> SUFFICES ASSUME NEW u \in Tids
               PROVE  RefOK(u)'
      OBVIOUS
  <2>1. CASE u # t
      BY <1>2, <1>9, <2>1, RefSame DEF IInv
  <2>2. CASE u = t
    <3>1. InObjects(t)' = InObjects(t) /\ InObjects(t) \in Nat
        BY <1>2, InObjectsSame, InObjectsZero DEF IInv
    <3>2. JoinRef(t)' = JoinRef(t) /\ NewObject(t)' = NewObject(t)
        BY <1>2, <1>9 DEF JoinRef, NewObject, Uncallable
    <3>3. Releases(t) = 0 /\ Releases(t)' = 1
        BY <1>10 DEF Releases
    <3>4. RunRef(t) = 1 /\ RunRef(t)' = 0
      <4>1. phase[t] # "creating"
          BY <1>1 DEF IInv, ThreadsOK, StateOK
      <4> QED
          BY <1>1, <1>2, <1>4, <1>10, <4>1 DEF RunRef
    <3>5. JoinRef(t) \in Nat /\ NewObject(t) \in Nat
        BY DEF JoinRef, NewObject
    <3>6. RefOK(t)
        BY DEF IInv
    <3> QED
        BY <1>2, <2>2, <3>1, <3>2, <3>3, <3>4, <3>5, <3>6 DEF RefOK
  <2> QED
      BY <2>1, <2>2
<1>14. CountersAgree'
    BY <1>2, <1>9, CountersSame DEF IInv
<1>15. \A u \in Tids : Pending("untotal", u)' <=> Pending("untotal", u)
    BY <1>9
<1>16. Head(agenda[t]).op \notin {"start", "release", "unlink"}
    BY <1>0, <1>1
<1> QED
    BY <1>1, <1>2, <1>7, <1>8, <1>11, <1>12, <1>13, <1>14, <1>15, <1>16, AgendaStep

-----------------------------------------------------------------------------
(* Calls that take the pool's mutex *)

LEMMA PoolBegins ==
    ASSUME IInv, NEW p \in Everyone, Ready(p), pool = Nobody, pool' = p,
           NEW op \in {"detach", "finish", "die"} \cup Lookups, NEW t \in Everyone, Begin(p, op, t),
           UNCHANGED <<phase, state, count, allocated, listed, interps, objects, mutex,
                       running, joinable, detached, total, poolGone>>,
           LET a == Do(op, t) IN KnownOK(p, a)' /\ LifeOK(p, a)' /\ LookOK(p, a)'
    PROVE  IInv'
<1> DEFINE b == Do(op, t)
<1>0. /\ b.op = op /\ b.t = t /\ op \in Ops /\ agenda[p] = <<>>
      /\ op \notin Freeing \cup Joining \cup {"clear", "refer", "detached", "untotal"} \cup RefCalls
    BY DEF Do, Ops, Freeing, Unlinking, Joining, Lookups, ListFilters, Ready, RefCalls
<1>1. /\ StacksOK' /\ Apart'
      /\ \A q \in Everyone : q # p => agenda'[q] = agenda[q] /\ Stack(q)' = Stack(q)
      /\ \A q \in Everyone : \A a \in Stack(q)' : (q = p /\ a = b) \/ (q # p /\ a \in Stack(q))
      /\ \A x, u : x # op \/ u # t => (Pending(x, u)' <=> Pending(x, u))
    BY <1>0, Called
<1> HIDE DEF b
<1>2. TypeOK'
    BY DEF TypeOK, IInv
<1>3. CallsOK'
  <2> SUFFICES ASSUME NEW q \in Everyone, NEW a \in Stack(q)'
               PROVE  CallOK(q, a)'
      BY DEF CallsOK
  <2>1. CASE q = p /\ a = b
    <3>1. KnownOK(p, b)' /\ LifeOK(p, b)' /\ LookOK(p, b)'
        BY DEF b
    <3>2. FreeOK(p, b)'
        BY <1>0 DEF FreeOK, Freeing, Unlinking
    <3> QED
        BY <2>1, <3>1, <3>2 DEF CallOK
  <2>2. CASE q # p /\ a \in Stack(q)
    <3>1. CallOK(q, a) /\ a.op \notin PoolOps
        BY <2>2, CallAt, NoPoolCalls
    <3> QED
        BY <3>1, CallSame DEF PoolOps
  <2> QED
      BY <1>1, <2>1, <2>2
<1>4. \A u \in Tids : RefOK(u)'
    BY <1>0, <1>1, RefSame DEF IInv
<1>5. CountersAgree'
    BY <1>0, <1>1, CountersSame DEF IInv, Joining
<1>6. \A u \in Tids : Pending("untotal", u)' <=> Pending("untotal", u)
    BY <1>0, <1>1
<1> QED
    BY <1>0, <1>1, <1>2, <1>3, <1>4, <1>5, <1>6, AgendaStep

\* A thread that may make a call runs.
LEMMA ReadyLive ==
    ASSUME IInv, NEW p \in Everyone, Ready(p)
    PROVE  IsLive(p) /\ agenda[p] = <<>> /\ ~poolGone
    BY DEF Ready, IsLive

\* There are objects only for a thread that was created.
LEMMA ObjectsKnown ==
    ASSUME IInv, NEW p \in Everyone, NEW t \in Tids, objects[p][t] > 0
    PROVE  /\ phase[t] \notin {"unborn", "creating"} /\ "NONVIABLE" \notin state[t]
           /\ count[t] \in Nat /\ count[t] > 0 /\ t \in listed /\ t \in allocated
           /\ p \in Tids => phase[p] # "unborn"
<1>1. ~NoObjects(t) /\ objects[p][t] # 0
    BY DEF NoObjects
<1>2. UnbornOK(t) /\ CreatingOK(t) /\ NonviableOK(t) /\ count[t] \in Nat
    BY DEF IInv, ThreadsOK, TypeOK
<1>3. phase[t] \notin {"unborn", "creating"} /\ "NONVIABLE" \notin state[t]
    BY <1>1, <1>2 DEF UnbornOK, CreatingOK, NonviableOK
<1>4. count[t] # 0
    BY <1>1, <1>3, NoRefs
<1>5. p \in Tids => phase[p] # "unborn"
    BY <1>1 DEF IInv, ThreadsOK, UnbornOK
<1> QED
    BY <1>2, <1>3, <1>4, <1>5, CountListed

LEMMA DetachKeeps == ASSUME IInv, NEW p \in Everyone, NEW t \in Tids, Detach(p, t) PROVE IInv'
<1>1. /\ Ready(p) /\ pool = Nobody /\ pool' = p /\ t \in Everyone
      /\ objects[p][t] > 0 \/ p = t
      /\ Begin(p, "detach", t)
      /\ UNCHANGED <<phase, state, count, allocated, listed, interps, objects, mutex,
                     running, joinable, detached, total, poolGone>>
    BY DEF Detach, PoolFree, refvars, counters, Everyone
<1>2. IsLive(p) /\ phase[t] # "unborn"
    BY <1>1, ReadyLive, ObjectsKnown, NobodyNone DEF IsLive
<1>3. LET a == Do("detach", t) IN KnownOK(p, a)' /\ LifeOK(p, a)' /\ LookOK(p, a)'
    BY <1>1, <1>2 DEF KnownOK, LifeOK, LookOK, Do, IsLive, Joining, Lookups, ListFilters, PoolOps
<1> QED
    BY <1>1, <1>3, PoolBegins

LEMMA FinishKeeps == ASSUME IInv, NEW t \in Tids, NEW flags, Finish(t, flags) PROVE IInv'
<1>0. PICK op \in {"finish", "die"} : op = IF "DIED" \in flags THEN "die" ELSE "finish"
    OBVIOUS
<1>1. /\ Ready(t) /\ pool = Nobody /\ pool' = t /\ t \in Everyone
      /\ Begin(t, op, t)
      /\ UNCHANGED <<phase, state, count, allocated, listed, interps, objects, mutex,
                     running, joinable, detached, total, poolGone>>
    BY <1>0 DEF Finish, PoolFree, refvars, counters, Everyone
<1>2. IsLive(t) /\ phase[t] # "unborn"
    BY <1>1, ReadyLive, NobodyNone DEF IsLive
<1>3. LET a == Do(op, t) IN KnownOK(t, a)' /\ LifeOK(t, a)' /\ LookOK(t, a)'
    BY <1>1, <1>2 DEF KnownOK, LifeOK, LookOK, Do, IsLive, Joining, Lookups, ListFilters, PoolOps
<1> QED
    BY <1>1, <1>3, PoolBegins

LEMMA ObjectKeeps == ASSUME IInv, NEW p \in Everyone, NEW t \in Tids, Object(p, t) PROVE IInv'
<1>1. /\ Ready(p) /\ pool = Nobody /\ pool' = p /\ t \in Everyone
      /\ t \in listed /\ Room(p, t)
      /\ Begin(p, "object", t)
      /\ UNCHANGED <<phase, state, count, allocated, listed, interps, objects, mutex,
                     running, joinable, detached, total, poolGone>>
    BY DEF Object, PoolFree, refvars, counters, Everyone, Room
<1>2. IsLive(p) /\ phase[t] # "unborn"
    BY <1>1, ReadyLive DEF IInv, TypeOK, ThreadsOK, UnbornOK
<1>3. LET a == Do("object", t) IN KnownOK(p, a)' /\ LifeOK(p, a)' /\ LookOK(p, a)'
    BY <1>1, <1>2 DEF KnownOK, LifeOK, LookOK, Do, IsLive, Joining, Lookups, ListFilters, PoolOps, Room
<1> QED
    BY <1>1, <1>3, PoolBegins DEF Lookups

-----------------------------------------------------------------------------
(* list and object *)

\* The relation < as a set of pairs, as the theorems about well-founded
\* relations take it.
Below == {ss \in Nat \X Nat : ss[1] < ss[2]}

\* A set of numbers has a least one.
LEMMA MinIs ==
    ASSUME NEW S \in SUBSET Nat, S # {}
    PROVE  Min(S) \in S /\ \A n \in S : Min(S) <= n
<1>1. IsWellFoundedOn(Below, Nat)
    BY NatLessThanWellFounded, Zenon DEF OpToRel, Below
<1>2. PICK m \in S : \A n \in S : ~(<<n, m>> \in Below)
    BY <1>1, WFMin, Zenon
<1>3. \A n \in S : m <= n
  <2> SUFFICES ASSUME NEW n \in S PROVE m <= n
      OBVIOUS
  <2>1. m \in Nat /\ n \in Nat /\ ~(<<n, m>> \in Below)
      BY <1>2
  <2>2. ~(n < m)
      BY <2>1 DEF Below
  <2> QED
      BY <2>1, <2>2
<1> QED
    BY <1>3 DEF Min

\* A listed thread has been created.
LEMMA ListedKnown ==
    ASSUME IInv, NEW t \in listed
    PROVE  t \in Tids /\ t \in Everyone /\ t \in allocated /\ phase[t] # "unborn" /\ t # Main
    BY NobodyNone DEF IInv, TypeOK, ThreadsOK, UnbornOK, Everyone

LEMMA ListKeeps == ASSUME IInv, NEW p \in Everyone, NEW filter \in ListFilters, List(p, filter) PROVE IInv'
<1>0. PICK t \in listed : t = Min(listed)
  <2>1. listed \in SUBSET Nat
      BY DEF IInv, TypeOK, Tids
  <2> QED
      BY <2>1, MinIs DEF List
<1>1. /\ Ready(p) /\ pool = Nobody /\ pool' = p /\ t \in Everyone
      /\ \A u \in listed : Room(p, u)
      /\ Begin(p, filter, t)
      /\ UNCHANGED <<phase, state, count, allocated, listed, interps, objects, mutex,
                     running, joinable, detached, total, poolGone>>
    BY <1>0, ListedKnown DEF List, PoolFree, refvars, counters, Room
<1>2. IsLive(p) /\ phase[t] # "unborn" /\ t \in Tids
    BY <1>1, ReadyLive, ListedKnown
<1>3. LET a == Do(filter, t) IN KnownOK(p, a)' /\ LifeOK(p, a)' /\ LookOK(p, a)'
    BY <1>1, <1>2 DEF KnownOK, LifeOK, LookOK, Do, IsLive, Joining, Lookups, ListFilters, PoolOps, Room
<1> QED
    BY <1>1, <1>3, PoolBegins DEF Lookups

\* Where list goes on to.
LEMMA OnwardIs ==
    ASSUME IInv, NEW t \in Tids, NEW filter \in Lookups
    PROVE  \/ Onward(t, filter) = Do("unpool", Main)
           \/ \E u \in listed : /\ u > t /\ u \in Tids /\ filter \in ListFilters
                                /\ Onward(t, filter) = Do(filter, u)
<1> DEFINE later == {u \in listed : u > t}
<1>1. later \in SUBSET Nat /\ later \subseteq listed /\ later \subseteq Tids
  <2>1. later \subseteq listed
      OBVIOUS
  <2>2. listed \subseteq Tids
      BY DEF IInv, TypeOK
  <2>3. Tids \subseteq Nat
      BY DEF Tids
  <2> QED
      BY <2>1, <2>2, <2>3
<1>2. CASE filter \in ListFilters /\ later # {}
  <2>1. Min(later) \in later
      BY <1>1, <1>2, MinIs
  <2>2. Onward(t, filter) = Do(filter, Min(later))
      BY <1>2 DEF Onward
  <2> QED
      BY <1>1, <1>2, <2>1, <2>2
<1>3. CASE ~(filter \in ListFilters /\ later # {})
    BY <1>3 DEF Onward
<1> QED
    BY <1>2, <1>3

LEMMA LookKeeps == ASSUME IInv, NEW p \in Everyone, Look(p) PROVE IInv'
<1>1. PICK filter \in Lookups :
        /\ IsNext(p, filter) /\ Free(It(p))
        /\ Then(p, IF Passes(It(p), filter)
                   THEN <<Do("refer", It(p)), Onward(It(p), filter)>>
                   ELSE <<Onward(It(p), filter)>>)
        /\ UNCHANGED <<phase, state, count, allocated, listed, interps, objects, mutex, pool,
                       running, joinable, detached, total, poolGone>>
    BY DEF Look, Lookups, refvars, counters
<1>2. PICK t \in Everyone : /\ t = It(p) /\ agenda[p] # <<>>
                           /\ Head(agenda[p]) = Do(filter, t) /\ Do(filter, t) \in Stack(p)
                           /\ Head(agenda[p]).op = filter
    BY <1>1, NextCall
<1>3. /\ pool = p /\ t \in Tids /\ t \in listed /\ phase[t] # "unborn" /\ IsLive(p) /\ Room(p, t)
      /\ filter \in ListFilters => \A u \in listed : u > t => Room(p, u)
  <2>1. CallOK(p, Do(filter, t)) /\ Do(filter, t).op = filter /\ Do(filter, t).t = t
      BY <1>2, CallAt DEF Do
  <2>2. filter \in PoolOps /\ filter # "unpool"
      BY DEF PoolOps, Lookups, ListFilters
  <2> QED
      BY <2>1, <2>2 DEF CallOK, KnownOK, LookOK
<1> PICK c : c = Onward(t, filter)
    OBVIOUS
<1> DEFINE a0 == Do(filter, t)
           b == Do("refer", t)
<1>4. \/ c.op = "unpool" /\ c.t = Main
      \/ /\ c.op = filter /\ filter \in ListFilters /\ c.t \in listed /\ c.t > t /\ c.t \in Tids
         /\ phase[c.t] # "unborn"
    BY <1>3, OnwardIs, ListedKnown DEF Do
<1>5. c \in Calls
  <2>1. Onward(t, filter) = Do("unpool", Main) \/ \E u \in Tids : Onward(t, filter) = Do(filter, u)
      BY <1>3, OnwardIs
  <2>2. \A o \in Ops, u \in Everyone : Do(o, u) \in Calls
      BY DEF Do, Calls
  <2>3. "unpool" \in Ops /\ filter \in Ops /\ Main \in Everyone /\ Tids \subseteq Everyone
      BY DEF Ops, Everyone
  <2> QED
      BY <2>1, <2>2, <2>3
<1>0. /\ a0.op = filter /\ a0.t = t /\ b.op = "refer" /\ b.t = t /\ b \in Calls
    BY <1>3 DEF Do, Calls, Ops
<1>6. ({"refer", "unpool"} \cup Lookups)
          \cap (Freeing \cup Joining \cup {"detached", "clear", "untotal"} \cup RefCalls) = {}
      /\ Lookups \cap {"refer", "unpool", "start"} = {} /\ ListFilters \subseteq Lookups
    BY DEF Freeing, Unlinking, Joining, Lookups, ListFilters, RefCalls
<1>7. Stack(p) = {a0} /\ Rest(p) = <<>> /\ ToSet(Rest(p)) = {}
    BY <1>0, <1>2, <1>6, Alone, ShortSeq DEF IInv
<1> HIDE DEF a0, b
<1>8. /\ StacksOK' /\ Stack(p)' \subseteq {b, c}
      /\ b \in Stack(p)' => ~Uncallable(t)
      /\ \A q \in Everyone : q # p => agenda'[q] = agenda[q] /\ Stack(q)' = Stack(q)
  <2>1. CASE Passes(t, filter)
    <3>1. Then(p, <<b, c>>) /\ ~Uncallable(t)
        BY <1>1, <1>2, <2>1 DEF b, Passes
    <3>2. Follows(b, c)
        BY <1>0, <1>4 DEF Follows
    <3>3. c.op \notin {"clear", "refer"} /\ c.op \notin Freeing /\ b.op \notin Freeing
        BY <1>0, <1>4, <1>6
    <3>4. /\ StacksOK' /\ Stack(p)' = {b, c} \cup ToSet(Rest(p))
          /\ \A q \in Everyone : q # p => agenda'[q] = agenda[q] /\ Stack(q)' = Stack(q)
        BY <1>0, <1>2, <1>5, <1>7, <3>1, <3>2, <3>3, CallsFirst DEF IInv
    <3> QED
        BY <1>7, <3>1, <3>4
  <2>2. CASE ~Passes(t, filter)
    <3>1. Then(p, <<c>>)
        BY <1>1, <1>2, <2>2
    <3>2. c.op \notin {"clear", "refer"} /\ c.op \notin Freeing /\ b # c
        BY <1>0, <1>4, <1>6
    <3>3. /\ StacksOK' /\ Stack(p)' = {c} \cup ToSet(Rest(p))
          /\ \A q \in Everyone : q # p => agenda'[q] = agenda[q] /\ Stack(q)' = Stack(q)
        BY <1>2, <1>5, <1>7, <3>1, <3>2, GoesOn DEF IInv
    <3> QED
        BY <1>7, <3>2, <3>3
  <2> QED
      BY <2>1, <2>2
<1>9. Apart'
  <2>1. Stack(p)' \subseteq Stack(p) \cup {b, c}
      BY <1>8
  <2>2. \A x \in {b, c}, q \in Everyone : \A d \in Stack(q) : q # p /\ x.t = d.t =>
            /\ ~(x.op \in Freeing /\ d.op \in Freeing)
            /\ ~(x.op \in Joining \cup {"detached"} /\ d.op \in Joining \cup {"detached"})
      BY <1>0, <1>4, <1>6
  <2>3. Apart /\ \A q \in Everyone : q # p => Stack(q)' = Stack(q)
      BY <1>8 DEF IInv
  <2> QED
      BY <2>1, <2>2, <2>3, ApartStep
<1>10. \A x, v : x \in {"untotal"} \cup RefCalls => (Pending(x, v)' <=> Pending(x, v))
  <2> SUFFICES ASSUME NEW x \in {"untotal"} \cup RefCalls, NEW v
               PROVE  Do(x, v) \in Stack(p)' <=> Do(x, v) \in Stack(p)
      BY <1>8, PendingSame
  <2>1. Do(x, v).op = x
      BY DEF Do
  <2>2. Do(x, v) # b /\ Do(x, v) # c /\ Do(x, v) # a0
      BY <1>0, <1>4, <1>6, <2>1
  <2> QED
      BY <1>7, <1>8, <2>2
<1>11. TypeOK'
    BY <1>1 DEF TypeOK, IInv
<1>12. CallsOK'
  <2> SUFFICES ASSUME NEW q \in Everyone, NEW a \in Stack(q)'
               PROVE  CallOK(q, a)'
      BY DEF CallsOK
  <2>1. CASE q = p /\ a = b /\ ~Uncallable(t)
      BY <1>0, <1>1, <1>3, <2>1
         DEF CallOK, KnownOK, FreeOK, LifeOK, LookOK, Unlinking, Joining, Lookups, ListFilters, PoolOps,
             IsLive, Room, Uncallable
  <2>2. CASE q = p /\ a = c
    <3>1. c.op \in {"unpool"} \cup ListFilters
        BY <1>4
    <3>2. KnownOK(p, c)' /\ FreeOK(p, c)' /\ LifeOK(p, c)'
        BY <1>1, <1>3, <1>4, <3>1 DEF KnownOK, FreeOK, LifeOK, Unlinking, Joining, ListFilters, PoolOps
    <3>3. LookOK(p, c)'
      <4>1. c.t \in listed => \A u \in listed : u > c.t /\ c.t > t => u > t
        <5>1. listed \subseteq Int /\ t \in Int
            BY <1>3 DEF IInv, TypeOK, Tids
        <5> SUFFICES ASSUME c.t \in listed, NEW u \in listed, u > c.t, c.t > t
                     PROVE  u > t
            OBVIOUS
        <5>2. u \in Int /\ c.t \in Int
            BY <5>1
        <5> QED
            BY <5>1, <5>2
      <4> QED
          BY <1>1, <1>3, <1>4, <4>1 DEF LookOK, Lookups, ListFilters, IsLive, Room
    <3> QED
        BY <2>2, <3>2, <3>3 DEF CallOK
  <2>3. CASE q # p /\ a \in Stack(q)
    <3>1. CallOK(q, a) /\ a.op \notin PoolOps
        BY <1>3, <2>3, CallAt, PoolCallsOf
    <3> QED
        BY <1>1, <3>1, CallSame DEF PoolOps
  <2> QED
      BY <1>8, <2>1, <2>2, <2>3
<1>13. \A u \in Tids : RefOK(u)'
    BY <1>1, <1>10, RefSame DEF IInv
<1>14. CountersAgree'
    BY <1>1, <1>10, CountersSame DEF IInv, RefCalls, Joining
<1>15. \A u \in Tids : Pending("untotal", u)' <=> Pending("untotal", u)
    BY <1>10
<1>16. Head(agenda[p]).op \notin {"start", "release", "unlink"}
    BY <1>2, <1>6 DEF Lookups, ListFilters
<1> QED
    BY <1>1, <1>2, <1>8, <1>9, <1>11, <1>12, <1>13, <1>14, <1>15, <1>16, AgendaStep

-----------------------------------------------------------------------------
(* A new object for a thread that has references: S_ithread_to_SV *)

LEMMA AddObject ==
    ASSUME IInv, NEW p \in Everyone, NEW t \in Tids, IsLive(p), Room(p, t),
           count[t] > 0, phase[t] \notin {"unborn", "creating"}, "NONVIABLE" \notin state[t],
           Ready(p) \/ agenda[p] # <<>>,
           agenda[p] # <<>> => Head(agenda[p]).op \notin {"start", "release", "unlink"},
           StacksOK', Apart', \A q \in Everyone : q # p => agenda'[q] = agenda[q],
           \A q \in Everyone : \A a \in Stack(q)' : a \in Stack(q),
           \A a \in Stack(p)' : a.op = "unpool" \/ (a.op \in ListFilters /\ t < a.t),
           \A x \in RefCalls \cup {"untotal"}, v \in Tids : Pending(x, v)' <=> Pending(x, v),
           count' = [count EXCEPT ![t] = @ + 1],
           objects' = [objects EXCEPT ![p][t] = @ + 1],
           UNCHANGED <<phase, state, allocated, listed, interps, mutex, pool,
                       running, joinable, detached, total, poolGone>>
    PROVE  IInv'
<1>1. /\ objects \in [Everyone -> [Tids -> 0..MaxObjects]] /\ objects[p][t] \in 0..MaxObjects
      /\ MaxObjects \in Nat /\ count \in [Tids -> Nat] /\ listed \subseteq Tids
    BY ThreadsAssumption DEF IInv, TypeOK
<1>2. objects' \in [Everyone -> [Tids -> 0..MaxObjects]] /\ objects'[p][t] = objects[p][t] + 1
  <2>1. objects[p][t] + 1 \in 0..MaxObjects
      BY <1>1 DEF Room
  <2> QED
      BY <1>1, <2>1
<1>3. /\ count' \in [Tids -> Nat] /\ count'[t] = count[t] + 1 /\ count[t] # 0 /\ count'[t] # 0
      /\ \A u \in Tids : u # t => count'[u] = count[u]
    BY <1>1
<1>4. \A q \in Everyone, u \in Tids : q # p \/ u # t => objects'[q][u] = objects[q][u]
    BY <1>1
<1>5. TypeOK'
    BY <1>2, <1>3 DEF TypeOK, IInv
<1>6. CallsOK'
  <2> SUFFICES ASSUME NEW q \in Everyone, NEW a \in Stack(q)'
               PROVE  CallOK(q, a)'
      BY DEF CallsOK
  <2>1. CallOK(q, a)
      BY CallAt
  <2>2. KnownOK(q, a)'
      BY <2>1 DEF CallOK, KnownOK
  <2>3. FreeOK(q, a)'
    <3>1. KnownOK(q, a) /\ FreeOK(q, a)
        BY <2>1 DEF CallOK
    <3>2. CASE a.t = t
        BY <1>3, <3>1, <3>2 DEF FreeOK, Unlinking
    <3>3. CASE a.t # t /\ a.op # "unpool"
      <4>1. count'[a.t] = count[a.t]
          BY <1>3, <3>1, <3>3 DEF KnownOK
      <4> QED
          BY <3>1, <4>1 DEF FreeOK
    <3>4. CASE a.op = "unpool"
        BY <3>4 DEF FreeOK, Unlinking
    <3> QED
        BY <3>2, <3>3, <3>4
  <2>4. LifeOK(q, a)'
    <3>1. a.op = "detach" => (objects[q][a.t] > 0 => objects'[q][a.t] > 0)
      <4>1. a.op = "detach" => a.t \in Tids
          BY <2>1 DEF CallOK, KnownOK
      <4> QED
          BY <1>1, <1>2, <1>4, <4>1
    <3> QED
        BY <2>1, <3>1 DEF CallOK, LifeOK, IsLive
  <2>5. LookOK(q, a)'
    <3>1. CASE q # p
      <4>1. \A u \in Tids : Room(q, u)' <=> Room(q, u)
          BY <1>4, <3>1 DEF Room
      <4>2. a.op = "refer" => (Pending("unjoinable", a.t)' <=> Pending("unjoinable", a.t))
          BY <1>1, <2>1 DEF CallOK, LookOK, RefCalls, Joining
      <4> QED
          BY <1>1, <2>1, <4>1, <4>2 DEF CallOK, LookOK, IsLive, Uncallable
    <3>2. CASE q = p
      <4>1. a.op = "unpool" \/ (a.op \in ListFilters /\ t < a.t)
          BY <3>2
      <4>2. CASE a.op = "unpool"
          BY <4>2 DEF LookOK, Lookups, ListFilters
      <4>3. CASE a.op \in ListFilters /\ t < a.t
        <5>1. \A u \in Tids : u > t => (Room(q, u)' <=> Room(q, u))
            BY <1>4 DEF Room, Tids
        <5>2. LookOK(q, a) /\ a.t \in Tids
            BY <1>1, <2>1, <4>3 DEF CallOK, LookOK, Lookups
        <5>3. \A u \in Tids : u > a.t => u > t
            BY <4>3, <5>2 DEF Tids
        <5> QED
            BY <1>1, <4>3, <5>1, <5>2, <5>3 DEF LookOK, IsLive, Lookups, ListFilters
      <4> QED
          BY <4>1, <4>2, <4>3
    <3> QED
        BY <3>1, <3>2
  <2> QED
      BY <2>2, <2>3, <2>4, <2>5 DEF CallOK
<1>7. ThreadsOK'
  <2> SUFFICES ASSUME NEW v \in Tids
               PROVE  (UnbornOK(v) /\ CreatingOK(v) /\ StateOK(v) /\ NonviableOK(v))'
      BY DEF ThreadsOK
  <2>1. UnbornOK(v) /\ CreatingOK(v) /\ StateOK(v) /\ NonviableOK(v)
      BY DEF IInv, ThreadsOK
  <2>2. "NONVIABLE" \in state[v] => v \notin listed
      BY Viable
  <2>3. v # t => (NoObjects(v)' <=> NoObjects(v)) /\ count'[v] = count[v]
      BY <1>3, <1>4 DEF NoObjects
  <2>4. phase[v] = "unborn" => /\ count'[v] = 0 /\ v \notin allocated'
                               /\ NoObjects(v)' /\ \A w \in Tids : objects'[v][w] = 0
    <3>1. phase[v] = "unborn" => v # p /\ v \in Everyone
        BY NobodyNone DEF IsLive, Everyone
    <3> QED
        BY <1>4, <2>1, <2>3, <3>1 DEF UnbornOK
  <2>5. phase[v] = "creating" => NoObjects(v)' /\ v \in interps'
      BY <2>1, <2>3 DEF CreatingOK
  <2>6. "DIED" \in state[v] /\ count'[v] > 0 => v \in interps'
      BY <1>3, <2>1, <2>3 DEF StateOK
  <2>7. v \notin listed' => count'[v] = 0
    <3>1. t \in listed
        BY CountListed
    <3> QED
        BY <2>1, <2>3, <3>1 DEF StateOK
  <2>8. phase[v] = "running" /\ "FINISHED" \notin state[v] => v \in interps'
      BY <2>1 DEF StateOK
  <2>9. "NONVIABLE" \in state[v] => NoObjects(v)' /\ v \notin listed'
      BY <2>1, <2>2, <2>3 DEF NonviableOK
  <2> QED
      BY <2>4, <2>5, <2>6, <2>7, <2>8, <2>9, ThreadsStep
<1>8. \A u \in Tids : RefOK(u)'
  <2> SUFFICES ASSUME NEW u \in Tids
               PROVE  RefOK(u)'
      OBVIOUS
  <2>1. CASE u # t
      BY <1>3, <1>4, <2>1, RefSame DEF IInv
  <2>2. CASE u = t
    <3>1. InObjects(t)' = (InObjects(t) - objects[p][t]) + objects'[p][t] /\ InObjects(t) \in Nat
        BY <1>2, <1>4, InObjectsStep DEF IInv
    <3>2. InObjects(t)' = InObjects(t) + 1
        BY <1>1, <1>2, <3>1
    <3>3. RunRef(t)' = RunRef(t) /\ JoinRef(t)' = JoinRef(t)
        BY DEF RunRef, JoinRef, Uncallable, RefCalls, Joining
    <3>4. NewObject(t)' = NewObject(t) /\ Releases(t)' = Releases(t)
        BY DEF NewObject, Releases, RefCalls
    <3>5. RunRef(t) \in Nat /\ JoinRef(t) \in Nat /\ NewObject(t) \in Nat /\ Releases(t) \in Nat
        BY DEF RunRef, JoinRef, NewObject, Releases
    <3>6. RefOK(t)
        BY DEF IInv
    <3> QED
        BY <1>3, <2>2, <3>1, <3>2, <3>3, <3>4, <3>5, <3>6, SMTT(30) DEF RefOK
  <2> QED
      BY <2>1, <2>2
<1>9. TotalOK'
    BY TotalSame DEF IInv
<1>10. CountersAgree'
    BY CountersSame DEF IInv, RefCalls, Joining
<1>11. GoneOK'
    BY GoneStep
<1> QED
    BY <1>5, <1>6, <1>7, <1>8, <1>9, <1>10, <1>11 DEF IInv

LEMMA SelfKeeps == ASSUME IInv, NEW t \in Tids, Self(t) PROVE IInv'
<1>1. /\ Ready(t) /\ agenda' = agenda /\ t \in Everyone /\ Room(t, t)
      /\ count' = [count EXCEPT ![t] = @ + 1]
      /\ objects' = [objects EXCEPT ![t][t] = @ + 1]
      /\ UNCHANGED <<phase, state, allocated, listed, interps, mutex, pool,
                     running, joinable, detached, total, poolGone>>
    BY DEF Self, Room, counters, Everyone
<1>2. IsLive(t) /\ phase[t] = "running" /\ "FINISHED" \notin state[t] /\ "NONVIABLE" \notin state[t]
      /\ agenda[t] = <<>>
    BY <1>1, NobodyNone DEF Ready, IsLive, IInv, ThreadsOK, StateOK
<1>3. count[t] > 0
  <2>1. count[t] # 0 /\ count[t] \in Nat
      BY <1>2, NoRefs, CountListed
  <2> QED
      BY <2>1
<1>4. /\ StacksOK' /\ Apart' /\ \A q \in Everyone : Stack(q)' = Stack(q)
      /\ Stack(t)' = {}
      /\ \A x, v : Pending(x, v)' <=> Pending(x, v)
  <2>1. agenda' = agenda
      BY <1>1
  <2>2. \A q \in Everyone : Stack(q)' = Stack(q)
      BY <2>1 DEF Stack
  <2>3. Stack(t)' = {} /\ StacksOK' /\ Apart'
      BY <1>1, <1>2, <2>1, <2>2, EmptyStack DEF IInv, StacksOK, Apart
  <2>4. \A x, v : Pending(x, v)' <=> Pending(x, v)
      BY <2>1 DEF Pending
  <2> QED
      BY <2>2, <2>3, <2>4
<1> QED
    BY <1>1, <1>2, <1>3, <1>4, AddObject

LEMMA ReferKeeps == ASSUME IInv, NEW p \in Everyone, Refer(p) PROVE IInv'
<1>1. PICK t \in Everyone : /\ t = It(p) /\ agenda[p] # <<>>
                           /\ Head(agenda[p]) = Do("refer", t) /\ Do("refer", t) \in Stack(p)
                           /\ Head(agenda[p]).op = "refer"
    BY NextCall DEF Refer
<1>2. /\ Then(p, <<>>)
      /\ count' = [count EXCEPT ![t] = @ + 1]
      /\ objects' = [objects EXCEPT ![p][t] = @ + 1]
      /\ UNCHANGED <<phase, state, allocated, listed, interps, mutex, pool,
                     running, joinable, detached, total, poolGone>>
    BY <1>1 DEF Refer, counters
<1>3. /\ pool = p /\ t \in Tids /\ phase[t] # "unborn" /\ IsLive(p) /\ Room(p, t)
      /\ ~Uncallable(t) \/ Pending("unjoinable", t)
  <2>1. CallOK(p, Do("refer", t)) /\ Do("refer", t).op = "refer" /\ Do("refer", t).t = t
      BY <1>1, CallAt DEF Do
  <2> QED
      BY <2>1 DEF CallOK, KnownOK, LookOK, PoolOps
<1>4. \A a \in ToSet(Rest(p)) : a.op = "unpool" \/ (a.op \in ListFilters /\ t < a.t)
  <2>1. Rest(p) # <<>> /\ Follows(Do("refer", t), Head(Rest(p))) /\ Rest(p) \in Seq(Calls) /\ Linked(Rest(p))
      BY <1>1, Top DEF IInv
  <2>2. PICK d \in Calls : d = Head(Rest(p)) /\ Rest(p) = <<d>> \o Tail(Rest(p)) /\ Tail(Rest(p)) \in Seq(Calls)
      BY <2>1, PopSeq
  <2>3. Linked(<<d>> \o Tail(Rest(p)))
      BY <2>1, <2>2
  <2>4. d.op = "unpool" \/ (d.op \in ListFilters /\ t < d.t)
      BY <2>1, <2>2 DEF Follows, Do, Freeing, Unlinking
  <2>5. Tail(Rest(p)) = <<>>
    <3>1. Tail(Rest(p)) = <<>> \/ Follows(d, Head(Tail(Rest(p))))
        BY <2>2, <2>3, LinkedPush
    <3> QED
        BY <2>4, <3>1 DEF Follows, Freeing, Unlinking, ListFilters
  <2>6. ToSet(Rest(p)) = {d}
      BY <2>2, <2>5, ShortSeq
  <2> QED
      BY <2>4, <2>6
<1>5. /\ StacksOK' /\ Stack(p)' = ToSet(Rest(p)) /\ Stack(p) = {Do("refer", t)} \cup ToSet(Rest(p))
      /\ \A q \in Everyone : q # p => agenda'[q] = agenda[q] /\ Stack(q)' = Stack(q)
    BY <1>1, <1>2, Returns, Top DEF IInv
<1>6. \A q \in Everyone : \A a \in Stack(q)' : a \in Stack(q)
    BY <1>5
<1>7. Apart'
    BY <1>6 DEF Apart, IInv
<1>8. \A x, v : x # "refer" => (Pending(x, v)' <=> Pending(x, v))
  <2> SUFFICES ASSUME NEW x, NEW v, x # "refer"
               PROVE  Do(x, v) \in Stack(p)' <=> Do(x, v) \in Stack(p)
      BY <1>5, PendingSame
  <2>1. Do(x, v) # Do("refer", t)
      BY DEF Do
  <2> QED
      BY <1>5, <2>1
<1>9. phase[t] # "creating"
  <2> SUFFICES ASSUME phase[t] = "creating"
               PROVE  FALSE
      OBVIOUS
  <2>1. PICK q \in Everyone : agenda[q] = <<Do("start", t)>>
      BY <1>3 DEF IInv, ThreadsOK, CreatingOK
  <2>2. Do("start", t) \in Stack(q) /\ Do("start", t).op \in PoolOps
      BY <2>1, ShortSeq DEF Stack, Do, PoolOps
  <2>3. q = p
      BY <1>3, <2>2, PoolCallsOf
  <2> QED
      BY <1>1, <2>1, <2>3 DEF Do
<1>10. "NONVIABLE" \notin state[t]
  <2>1. t \in listed
      BY <1>1, CallAt DEF CallOK, LookOK, Do
  <2> QED
      BY <1>1, <1>3, <2>1, Viable
<1>11. count[t] > 0
  <2>1. count[t] # 0
      BY <1>3, <1>10, NoRefs DEF RefCalls, Joining
  <2> QED
      BY <1>3, <2>1, CountListed
<1>12. \A x \in RefCalls \cup {"untotal"} : x # "refer"
    BY DEF RefCalls, Joining
<1> QED
    BY <1>1, <1>2, <1>3, <1>4, <1>5, <1>6, <1>7, <1>8, <1>9, <1>10, <1>11, <1>12, AddObject

-----------------------------------------------------------------------------
(* Objects dropped and cloned *)

LEMMA DropObjectKeeps == ASSUME IInv, NEW p \in Everyone, NEW t \in Tids, DropObject(p, t) PROVE IInv'
<1> DEFINE b == Do("release", t)
<1>1. /\ Ready(p) /\ objects[p][t] > 0 /\ mutex[t] = Nobody /\ t \in Everyone
      /\ objects' = [objects EXCEPT ![p][t] = @ - 1]
      /\ mutex' = [mutex EXCEPT ![t] = p]
      /\ Begin(p, "release", t)
      /\ UNCHANGED <<phase, state, count, allocated, listed, interps, pool,
                     running, joinable, detached, total, poolGone>>
    BY DEF DropObject, Free, counters, Everyone
<1>2. /\ phase[t] \notin {"unborn", "creating"} /\ "NONVIABLE" \notin state[t]
      /\ count[t] \in Nat /\ count[t] > 0 /\ t \in listed /\ t \in allocated
      /\ IsLive(p) /\ agenda[p] = <<>>
    BY <1>1, ObjectsKnown, ReadyLive
<1>3. \A q \in Everyone : \A a \in Stack(q) : a.t = t => a.op \notin Freeing \cup {"start"}
    BY <1>1, <1>2, NoFreeing
<1>0. "release" \in Freeing /\ "release" \in Ops /\ b.op = "release" /\ b.t = t
      /\ "release" \notin Joining \cup {"detached", "clear", "refer"}
    BY DEF Freeing, Ops, Do, Joining
<1>4. /\ StacksOK' /\ Apart'
      /\ \A q \in Everyone : q # p => agenda'[q] = agenda[q] /\ Stack(q)' = Stack(q)
      /\ \A q \in Everyone : \A a \in Stack(q)' : (q = p /\ a = b) \/ (q # p /\ a \in Stack(q))
      /\ \A x, u : x # "release" \/ u # t => (Pending(x, u)' <=> Pending(x, u))
      /\ Pending("release", t)' /\ ~Pending("release", t)
    BY <1>0, <1>1, <1>2, <1>3, Called, NoFreePending
<1> HIDE DEF b
<1>5. /\ objects \in [Everyone -> [Tids -> 0..MaxObjects]] /\ objects[p][t] \in 0..MaxObjects
      /\ MaxObjects \in Nat
    BY ThreadsAssumption DEF IInv, TypeOK
<1>6. /\ objects' \in [Everyone -> [Tids -> 0..MaxObjects]] /\ objects'[p][t] = objects[p][t] - 1
      /\ \A q \in Everyone, u \in Tids : q # p \/ u # t => objects'[q][u] = objects[q][u]
    BY <1>1, <1>5
<1>7. TypeOK'
    BY <1>1, <1>6 DEF TypeOK, IInv
<1>8. CallsOK'
  <2> SUFFICES ASSUME NEW q \in Everyone, NEW a \in Stack(q)'
               PROVE  CallOK(q, a)'
      BY DEF CallsOK
  <2>1. CASE q = p /\ a = b
      BY <1>0, <1>1, <1>2, <2>1
         DEF CallOK, KnownOK, FreeOK, LifeOK, LookOK, Unlinking, Joining, Lookups, ListFilters, PoolOps, TypeOK, IInv
  <2>2. CASE q # p /\ a \in Stack(q)
    <3>1. CallOK(q, a) /\ (a.t = t => a.op \notin Freeing \cup {"start"})
        BY <1>3, <2>2, CallAt
    <3>2. KnownOK(q, a)' /\ FreeOK(q, a)'
        BY <1>1, <3>1 DEF CallOK, KnownOK, FreeOK, Freeing, Unlinking, TypeOK, IInv
    <3>3. LifeOK(q, a)'
      <4>1. a.op \in {"start", "detach"} => a.t \in Tids
          BY <3>1 DEF CallOK, KnownOK
      <4>2. a.op = "start" => mutex'[a.t] = mutex[a.t]
          BY <1>1, <3>1, <4>1 DEF TypeOK, IInv
      <4>3. a.op = "detach" => objects'[q][a.t] = objects[q][a.t]
          BY <1>6, <2>2, <4>1
      <4> QED
          BY <1>1, <3>1, <4>2, <4>3 DEF CallOK, LifeOK, IsLive
    <3>4. LookOK(q, a)'
      <4>1. \A u \in Tids : Room(q, u)' <=> Room(q, u)
          BY <1>6, <2>2 DEF Room
      <4>2. Pending("unjoinable", a.t)' <=> Pending("unjoinable", a.t)
          BY <1>4
      <4>3. listed \subseteq Tids
          BY DEF IInv, TypeOK
      <4> QED
          BY <1>1, <3>1, <4>1, <4>2, <4>3 DEF CallOK, LookOK, IsLive, Uncallable
    <3> QED
        BY <3>2, <3>3, <3>4 DEF CallOK
  <2> QED
      BY <1>4, <2>1, <2>2
<1>9. ThreadsOK'
  <2> SUFFICES ASSUME NEW v \in Tids
               PROVE  (UnbornOK(v) /\ CreatingOK(v) /\ StateOK(v) /\ NonviableOK(v))'
      BY DEF ThreadsOK
  <2>1. UnbornOK(v) /\ CreatingOK(v) /\ StateOK(v) /\ NonviableOK(v)
      BY DEF IInv, ThreadsOK
  <2>2. "NONVIABLE" \in state[v] => v \notin listed
      BY <1>1, <1>2, Viable
  <2>3. v # t => (NoObjects(v)' <=> NoObjects(v))
      BY <1>6 DEF NoObjects
  <2>4. phase[v] = "unborn" => /\ count'[v] = 0 /\ v \notin allocated'
                               /\ NoObjects(v)' /\ \A w \in Tids : objects'[v][w] = 0
    <3>1. phase[v] = "unborn" => v # p /\ v \in Everyone
        BY <1>2, NobodyNone DEF IsLive, Everyone
    <3> QED
        BY <1>1, <1>2, <1>6, <2>1, <2>3, <3>1 DEF UnbornOK
  <2>5. phase[v] = "creating" => NoObjects(v)' /\ v \in interps'
      BY <1>1, <1>2, <2>1, <2>3 DEF CreatingOK
  <2>6. /\ phase[v] = "running" /\ "FINISHED" \notin state[v] => v \in interps'
        /\ "DIED" \in state[v] /\ count'[v] > 0 => v \in interps'
        /\ v \notin listed' => count'[v] = 0
      BY <1>1, <2>1 DEF StateOK
  <2>7. "NONVIABLE" \in state[v] => NoObjects(v)' /\ v \notin listed'
      BY <1>1, <1>2, <2>1, <2>2, <2>3 DEF NonviableOK
  <2> QED
      BY <1>1, <1>2, <1>4, <2>4, <2>5, <2>6, <2>7, ThreadsStep
<1>10. \A v \in Tids : RefOK(v)'
  <2> SUFFICES ASSUME NEW v \in Tids
               PROVE  RefOK(v)'
      OBVIOUS
  <2>1. CASE v # t
      BY <1>1, <1>4, <1>6, <2>1, RefSame DEF IInv
  <2>2. CASE v = t
    <3>1. InObjects(t)' = (InObjects(t) - objects[p][t]) + objects'[p][t] /\ InObjects(t) \in Nat
        BY <1>6, InObjectsStep DEF IInv
    <3>2. InObjects(t)' = InObjects(t) - 1
        BY <1>5, <1>6, <3>1
    <3>3. RunRef(t)' = RunRef(t) /\ JoinRef(t)' = JoinRef(t) /\ NewObject(t)' = NewObject(t)
        BY <1>1, <1>4 DEF RunRef, JoinRef, NewObject, Uncallable
    <3>4. Releases(t) = 0 /\ Releases(t)' = 1
        BY <1>4 DEF Releases
    <3>5. RunRef(t) \in Nat /\ JoinRef(t) \in Nat /\ NewObject(t) \in Nat
        BY DEF RunRef, JoinRef, NewObject
    <3>6. RefOK(t)
        BY DEF IInv
    <3> QED
        BY <1>1, <1>2, <2>2, <3>1, <3>2, <3>3, <3>4, <3>5, <3>6, SMTT(30) DEF RefOK
  <2> QED
      BY <2>1, <2>2
<1>11. TotalOK'
    BY <1>1, <1>4, TotalSame DEF IInv
<1>12. CountersAgree'
    BY <1>1, <1>4, CountersSame DEF IInv
<1>13. GoneOK'
    BY <1>1, <1>4, GoneStep
<1> QED
    BY <1>4, <1>7, <1>8, <1>9, <1>10, <1>11, <1>12, <1>13 DEF IInv

LEMMA CloneObjectKeeps == ASSUME IInv, NEW p \in Everyone, CloneObject(p) PROVE IInv'
<1>1. PICK t \in Everyone : /\ t = It(p) /\ agenda[p] # <<>>
                           /\ Head(agenda[p]) = Do("start", t) /\ Do("start", t) \in Stack(p)
                           /\ Head(agenda[p]).op = "start"
    BY NextCall DEF CloneObject
<1>2. PICK u \in Tids :
      /\ objects[p][u] > 0 /\ objects[t][u] = 0 /\ mutex[u] = Nobody
      /\ count' = [count EXCEPT ![u] = @ + objects[p][u]]
      /\ objects' = [objects EXCEPT ![t][u] = objects[p][u]]
      /\ UNCHANGED <<phase, state, allocated, listed, interps, mutex, pool, agenda,
                     running, joinable, detached, total, poolGone>>
    BY <1>1 DEF CloneObject, Free, counters
<1>3. /\ phase[u] \notin {"unborn", "creating"} /\ "NONVIABLE" \notin state[u]
      /\ count[u] \in Nat /\ count[u] > 0 /\ u \in listed
    BY <1>2, ObjectsKnown
<1>4. t \in Tids /\ phase[t] = "creating" /\ t # Main
  <2>1. t \in Tids /\ phase[t] = "creating"
      BY <1>1, CallAt DEF CallOK, KnownOK, LifeOK, Do
  <2> QED
      BY <2>1, NobodyNone
<1>0. pool = p
    BY <1>1, CallAt DEF CallOK, KnownOK, PoolOps, Do
<1>5. /\ objects \in [Everyone -> [Tids -> 0..MaxObjects]] /\ objects[p][u] \in 0..MaxObjects
      /\ MaxObjects \in Nat /\ count \in [Tids -> Nat]
    BY ThreadsAssumption DEF IInv, TypeOK
<1>6. /\ objects' \in [Everyone -> [Tids -> 0..MaxObjects]] /\ objects'[t][u] = objects[p][u]
      /\ \A q \in Everyone, v \in Tids : q # t \/ v # u => objects'[q][v] = objects[q][v]
    BY <1>2, <1>5
<1>7. /\ count' \in [Tids -> Nat] /\ count'[u] = count[u] + objects[p][u] /\ count[u] # 0
      /\ \A v \in Tids : v # u => count'[v] = count[v]
    BY <1>2, <1>3, <1>5
<1>8. /\ StacksOK' /\ Apart' /\ \A q \in Everyone : Stack(q)' = Stack(q)
      /\ \A x, v : Pending(x, v)' <=> Pending(x, v)
    BY <1>2 DEF IInv, StacksOK, Apart, Stack, Pending
<1>9. TypeOK'
    BY <1>2, <1>6, <1>7 DEF TypeOK, IInv
<1>10. CallsOK'
  <2> SUFFICES ASSUME NEW q \in Everyone, NEW a \in Stack(q)'
               PROVE  CallOK(q, a)'
      BY DEF CallsOK
  <2>1. CallOK(q, a)
      BY <1>8, CallAt
  <2>2. KnownOK(q, a)'
      BY <1>2, <2>1 DEF CallOK, KnownOK
  <2>3. FreeOK(q, a)'
    <3>1. KnownOK(q, a) /\ FreeOK(q, a)
        BY <2>1 DEF CallOK
    <3>2. CASE a.t = u
      <4>1. count'[u] > 0
          BY <1>3, <1>5, <1>7
      <4> QED
          BY <1>2, <1>7, <3>1, <3>2, <4>1 DEF FreeOK
    <3>3. CASE a.t # u /\ a.op # "unpool"
      <4>1. count'[a.t] = count[a.t]
          BY <1>7, <3>1, <3>3 DEF KnownOK
      <4> QED
          BY <1>2, <3>1, <4>1 DEF FreeOK
    <3>4. CASE a.op = "unpool"
        BY <3>4 DEF FreeOK, Unlinking
    <3> QED
        BY <3>2, <3>3, <3>4
  <2>4. IsLive(q) => q # t
      BY <1>4 DEF IsLive
  <2>5. LifeOK(q, a)'
    <3>1. a.op = "detach" => a.t \in Tids
        BY <2>1 DEF CallOK, KnownOK
    <3> QED
        BY <1>2, <1>6, <2>1, <2>4, <3>1 DEF CallOK, LifeOK, IsLive
  <2>6. LookOK(q, a)'
    <3>1. q # t => \A v \in Tids : Room(q, v)' <=> Room(q, v)
        BY <1>6 DEF Room
    <3>2. Pending("unjoinable", a.t)' <=> Pending("unjoinable", a.t)
        BY <1>8
    <3>3. listed \subseteq Tids
        BY DEF IInv, TypeOK
    <3> QED
      <4>1. LookOK(q, a)
          BY <2>1 DEF CallOK
      <4>2. a.op \in {"refer"} \cup Lookups => IsLive(q)' /\ (\A v \in Tids : Room(q, v)' <=> Room(q, v))
          BY <1>2, <2>4, <3>1, <4>1 DEF LookOK, IsLive
      <4>3. listed' = listed /\ (Uncallable(a.t) <=> Uncallable(a.t)')
          BY <1>2 DEF Uncallable
      <4>4. ListFilters \subseteq Lookups
          BY DEF Lookups
      <4> QED
          BY <3>2, <3>3, <4>1, <4>2, <4>3, <4>4 DEF LookOK
  <2> QED
      BY <2>2, <2>3, <2>5, <2>6 DEF CallOK
<1>11. ThreadsOK'
  <2> SUFFICES ASSUME NEW v \in Tids
               PROVE  (UnbornOK(v) /\ CreatingOK(v) /\ StateOK(v) /\ NonviableOK(v))'
      BY DEF ThreadsOK
  <2>1. UnbornOK(v) /\ CreatingOK(v) /\ StateOK(v) /\ NonviableOK(v)
      BY DEF IInv, ThreadsOK
  <2>2. "NONVIABLE" \in state[v] => v \notin listed
      BY <1>1, Viable
  <2>3. v # u => (NoObjects(v)' <=> NoObjects(v)) /\ count'[v] = count[v]
      BY <1>6, <1>7 DEF NoObjects
  <2>4. phase[v] = "unborn" => /\ count'[v] = 0 /\ v \notin allocated'
                               /\ NoObjects(v)' /\ \A w \in Tids : objects'[v][w] = 0
    <3>1. phase[v] = "unborn" => v # t /\ v \in Everyone
        BY <1>4 DEF Everyone
    <3> QED
        BY <1>2, <1>3, <1>6, <2>1, <2>3, <3>1 DEF UnbornOK
  <2>5. phase[v] = "creating" => NoObjects(v)' /\ v \in interps'
      BY <1>2, <1>3, <2>1, <2>3 DEF CreatingOK
  <2>6. "DIED" \in state[v] /\ count'[v] > 0 => v \in interps'
      BY <1>2, <1>3, <2>1, <2>3 DEF StateOK
  <2>7. v \notin listed' => count'[v] = 0
      BY <1>2, <1>3, <2>1, <2>3 DEF StateOK
  <2>8. phase[v] = "running" /\ "FINISHED" \notin state[v] => v \in interps'
      BY <1>2, <2>1 DEF StateOK
  <2>9. "NONVIABLE" \in state[v] => NoObjects(v)' /\ v \notin listed'
      BY <1>2, <1>3, <2>1, <2>2, <2>3 DEF NonviableOK
  <2> QED
      BY <1>1, <1>2, <2>4, <2>5, <2>6, <2>7, <2>8, <2>9, ThreadsStep
<1>12. \A v \in Tids : RefOK(v)'
  <2> SUFFICES ASSUME NEW v \in Tids
               PROVE  RefOK(v)'
      OBVIOUS
  <2>1. CASE v # u
      BY <1>2, <1>6, <1>7, <1>8, <2>1, RefSame DEF IInv
  <2>2. CASE v = u
    <3>1. InObjects(u)' = (InObjects(u) - objects[t][u]) + objects'[t][u] /\ InObjects(u) \in Nat
        BY <1>4, <1>6, InObjectsStep DEF IInv, Everyone
    <3>2. InObjects(u)' = InObjects(u) + objects[p][u]
        BY <1>2, <1>5, <1>6, <3>1
    <3>3. RunRef(u)' = RunRef(u) /\ JoinRef(u)' = JoinRef(u)
        BY <1>2, <1>8 DEF RunRef, JoinRef, Uncallable
    <3>4. NewObject(u)' = NewObject(u) /\ Releases(u)' = Releases(u)
        BY <1>2, <1>8 DEF NewObject, Releases
    <3>5. RunRef(u) \in Nat /\ JoinRef(u) \in Nat /\ NewObject(u) \in Nat /\ Releases(u) \in Nat
        BY DEF RunRef, JoinRef, NewObject, Releases
    <3>6. RefOK(u)
        BY DEF IInv
    <3> QED
        BY <1>2, <1>3, <1>5, <1>7, <2>2, <3>1, <3>2, <3>3, <3>4, <3>5, <3>6 DEF RefOK
  <2> QED
      BY <2>1, <2>2
<1>13. TotalOK'
    BY <1>2, <1>8, TotalSame DEF IInv
<1>14. CountersAgree'
    BY <1>2, <1>8, CountersSame DEF IInv
<1>15. GoneOK'
    BY <1>1, <1>2, GoneStep
<1> QED
    BY <1>8, <1>9, <1>10, <1>11, <1>12, <1>13, <1>14, <1>15 DEF IInv

-----------------------------------------------------------------------------
(* Steps that change the state or the phase of one thread *)

\* What they do not touch.
LEMMA OtherThread ==
    ASSUME IInv, NEW p \in Everyone, Ready(p) \/ agenda[p] # <<>>,
           agenda[p] # <<>> => Head(agenda[p]).op \notin {"release", "unlink"},
           \A q \in Everyone : q # p => agenda'[q] = agenda[q],
           NEW u \in Tids, phase'[u] = phase[u], state'[u] = state[u], count'[u] = count[u],
           u \in allocated' <=> u \in allocated, u \in listed' <=> u \in listed,
           u \in interps => u \in interps',
           \A i \in Everyone : objects'[i][u] = objects[i][u],
           phase[u] = "unborn" => \A v \in Tids : objects'[u][v] = objects[u][v],
           agenda[p] # <<Do("start", u)>>
    PROVE  (UnbornOK(u) /\ CreatingOK(u) /\ StateOK(u) /\ NonviableOK(u))'
<1>1. UnbornOK(u) /\ CreatingOK(u) /\ StateOK(u) /\ NonviableOK(u)
    BY DEF IInv, ThreadsOK
<1>2. "NONVIABLE" \in state[u] => u \notin listed
    BY Viable
<1>3. NoObjects(u)' <=> NoObjects(u)
    BY DEF NoObjects
<1>4. UnbornOK(u)'
    BY <1>1, <1>3 DEF UnbornOK
<1>5. CreatingOK(u)'
  <2>1. phase[u] = "creating" => \E q \in Everyone : agenda'[q] = <<Do("start", u)>>
      BY <1>1 DEF CreatingOK
  <2> QED
      BY <1>1, <1>3, <2>1 DEF CreatingOK
<1>6. StateOK(u)'
    BY <1>1, Idle DEF StateOK
<1>7. NonviableOK(u)'
    BY <1>1, <1>2, <1>3 DEF NonviableOK
<1> QED
    BY <1>4, <1>5, <1>6, <1>7

\* What a call that does not need the pool's mutex counts on stays true.
LEMMA CallGrows ==
    ASSUME NEW q, NEW a, CallOK(q, a), a.op \notin PoolOps,
           phase[a.t] # "unborn" => phase'[a.t] # "unborn",
           phase[a.t] = "over" => phase'[a.t] = "over",
           state[a.t] \subseteq state'[a.t],
           a.op = "clear" /\ "DIED" \in state'[a.t] => "DIED" \in state[a.t],
           count'[a.t] = count[a.t],
           a.t \in allocated' <=> a.t \in allocated, a.t \in listed' <=> a.t \in listed,
           a.op \in {"release", "dispose"} => mutex'[a.t] = mutex[a.t]
    PROVE  CallOK(q, a)'
<1>1. KnownOK(q, a)'
    BY DEF CallOK, KnownOK
<1>2. FreeOK(q, a)'
    BY DEF CallOK, FreeOK, Unlinking
<1>3. LifeOK(q, a)'
    BY DEF CallOK, LifeOK, PoolOps
<1>4. a.op \notin {"refer"} \cup Lookups
    BY DEF PoolOps
<1>5. LookOK(q, a)'
    BY <1>4 DEF LookOK, Lookups
<1> QED
    BY <1>1, <1>2, <1>3, <1>5 DEF CallOK

\* Marked as joined or detached, a thread has one more reference until that
\* call is done; so what is marked once is not marked again.
LEMMA NotJoining ==
    ASSUME IInv, NEW t, ~Uncallable(t), NEW q \in Everyone, NEW a \in Stack(q), a.t = t
    PROVE  a.op \notin Joining \cup {"detached"}
    BY CallAt DEF CallOK, LifeOK, Uncallable

LEMMA JoinKeeps == ASSUME IInv, NEW p \in Everyone, NEW t \in Tids, Join(p, t) PROVE IInv'
<1> DEFINE b == Do("unjoinable", t)
<1>1. /\ Ready(p) /\ p # t /\ objects[p][t] > 0 /\ mutex[t] = Nobody /\ ~Uncallable(t) /\ t \in Everyone
      /\ state' = [state EXCEPT ![t] = @ \cup {"JOINED"}]
      /\ Begin(p, "unjoinable", t)
      /\ UNCHANGED <<phase, count, allocated, listed, interps, objects, mutex, pool,
                     running, joinable, detached, total, poolGone>>
    BY DEF Join, Free, refvars, counters, Everyone
<1>2. /\ phase[t] \notin {"unborn", "creating"} /\ "NONVIABLE" \notin state[t]
      /\ count[t] \in Nat /\ count[t] > 0 /\ t \in listed /\ t \in allocated
      /\ IsLive(p) /\ agenda[p] = <<>>
    BY <1>1, ObjectsKnown, ReadyLive
<1>0. "unjoinable" \notin Freeing \cup {"clear", "refer", "untotal"} /\ "unjoinable" \in Ops
      /\ "unjoinable" \in Joining /\ b.op = "unjoinable" /\ b.t = t
    BY DEF Freeing, Unlinking, Ops, Do, Joining
<1>3. \A q \in Everyone : \A a \in Stack(q) : a.t = t => a.op \notin Joining \cup {"detached"}
    BY <1>1, NotJoining
<1>4. /\ StacksOK' /\ Apart'
      /\ \A q \in Everyone : q # p => agenda'[q] = agenda[q] /\ Stack(q)' = Stack(q)
      /\ \A q \in Everyone : \A a \in Stack(q)' : (q = p /\ a = b) \/ (q # p /\ a \in Stack(q))
      /\ \A x, u : x # "unjoinable" \/ u # t => (Pending(x, u)' <=> Pending(x, u))
      /\ Pending("unjoinable", t)'
    BY <1>0, <1>1, <1>2, <1>3, Called
<1> HIDE DEF b
<1>5. /\ state \in [Tids -> SUBSET Flags] /\ state' \in [Tids -> SUBSET Flags]
      /\ state'[t] = state[t] \cup {"JOINED"}
      /\ \A u \in Tids : u # t => state'[u] = state[u]
  <2>1. state \in [Tids -> SUBSET Flags]
      BY DEF IInv, TypeOK
  <2> QED
      BY <1>1, <2>1 DEF Flags
<1>6. TypeOK'
    BY <1>1, <1>5 DEF TypeOK, IInv
<1>7. CallsOK'
  <2> SUFFICES ASSUME NEW q \in Everyone, NEW a \in Stack(q)'
               PROVE  CallOK(q, a)'
      BY DEF CallsOK
  <2>1. CASE q = p /\ a = b
      BY <1>0, <1>1, <1>2, <1>5, <2>1
         DEF CallOK, KnownOK, FreeOK, LifeOK, LookOK, Unlinking, Joining, Lookups, ListFilters, PoolOps
  <2>2. CASE q # p /\ a \in Stack(q)
    <3>1. CallOK(q, a) /\ (a.t \in Tids \/ a.op = "unpool")
        BY <2>2, CallAt DEF CallOK, KnownOK
    <3>2. IsLive(q)' <=> IsLive(q)
      <4>1. q = Main \/ q \in Tids
          BY DEF Everyone
      <4> QED
          BY <1>1, <1>5, <4>1 DEF IsLive
    <3>3. a.t \in Tids => /\ state[a.t] \subseteq state'[a.t]
                          /\ \A f \in {"FINISHED", "DIED"} : f \in state'[a.t] <=> f \in state[a.t]
        BY <1>5
    <3>4. KnownOK(q, a)'
        BY <1>1, <3>1 DEF CallOK, KnownOK
    <3>5. FreeOK(q, a)'
        BY <1>1, <3>1, <3>3 DEF CallOK, FreeOK, Unlinking
    <3>6. LifeOK(q, a)'
        BY <1>1, <3>1, <3>2, <3>3 DEF CallOK, LifeOK, Joining
    <3>7. LookOK(q, a)'
      <4>1. a.t \in Tids /\ (~Uncallable(a.t) \/ Pending("unjoinable", a.t)) =>
                ~Uncallable(a.t)' \/ Pending("unjoinable", a.t)'
          BY <1>4, <1>5 DEF Uncallable
      <4> QED
          BY <1>1, <3>1, <3>2, <4>1 DEF CallOK, LookOK, Room, Lookups, ListFilters
    <3> QED
        BY <3>4, <3>5, <3>6, <3>7 DEF CallOK
  <2> QED
      BY <1>4, <2>1, <2>2
<1>8. ThreadsOK'
  <2> SUFFICES ASSUME NEW v \in Tids
               PROVE  (UnbornOK(v) /\ CreatingOK(v) /\ StateOK(v) /\ NonviableOK(v))'
      BY DEF ThreadsOK
  <2>1. CASE v # t
    <3>1. agenda[p] # <<Do("start", v)>>
        BY <1>2
    <3> QED
        BY <1>1, <1>2, <1>4, <1>5, <2>1, <3>1, OtherThread
  <2>2. CASE v = t
    <3>1. StateOK(t)
        BY DEF IInv, ThreadsOK
    <3>2. (UnbornOK(t) /\ CreatingOK(t) /\ NonviableOK(t))'
        BY <1>1, <1>2, <1>5 DEF UnbornOK, CreatingOK, NonviableOK
    <3>3. StateOK(t)'
        BY <1>1, <1>4, <1>5, <3>1 DEF StateOK, Uncallable
    <3> QED
        BY <2>2, <3>2, <3>3
  <2> QED
      BY <2>1, <2>2
<1>9. \A v \in Tids : RefOK(v)'
  <2> SUFFICES ASSUME NEW v \in Tids
               PROVE  RefOK(v)'
      OBVIOUS
  <2>1. CASE v # t
      BY <1>1, <1>4, <1>5, <2>1, RefSame DEF IInv
  <2>2. CASE v = t
    <3>1. InObjects(t)' = InObjects(t)
        BY <1>1, InObjectsSame
    <3>2. RunRef(t)' = RunRef(t) /\ NewObject(t)' = NewObject(t) /\ Releases(t)' = Releases(t)
        BY <1>1, <1>4, <1>5 DEF RunRef, NewObject, Releases
    <3>3. JoinRef(t)' = JoinRef(t)
        BY <1>1, <1>4 DEF JoinRef
    <3>4. RefOK(t)
        BY DEF IInv
    <3> QED
        BY <1>1, <1>2, <2>2, <3>1, <3>2, <3>3, <3>4 DEF RefOK
  <2> QED
      BY <2>1, <2>2
<1>10. TotalOK'
    BY <1>1, <1>4, TotalSame DEF IInv
<1>11. CountersAgree'
  <2> DEFINE Live == {u \in Tids : phase[u] = "running" /\ "FINISHED" \notin state[u]}
             Off == {u \in Tids : "DETACHED" \in state[u]}
             Ended == {u \in Tids : "FINISHED" \in state[u]}
             Uncounted == {u \in Tids : "JOINED" \in state[u] /\ ~Pending("unjoinable", u)}
  <2>1. Live' = Live /\ Off' = Off /\ Ended' = Ended
      BY <1>1, <1>5
  <2>2. Uncounted' = Uncounted
      BY <1>1, <1>4, <1>5 DEF Uncallable
  <2>3. /\ running' = Cardinality(Live' \ Off') /\ detached' = Cardinality(Live' \cap Off')
        /\ joinable' = Cardinality(Ended' \ Off') - Cardinality(Uncounted')
      BY <1>1, <2>1, <2>2 DEF CountersAgree, IInv
  <2> QED
      BY <2>3 DEF CountersAgree
<1>12. GoneOK'
    BY <1>1, <1>4, GoneStep
<1> QED
    BY <1>4, <1>6, <1>7, <1>8, <1>9, <1>10, <1>11, <1>12 DEF IInv

LEMMA ThreadEndsKeeps == ASSUME IInv, NEW t \in Tids, ThreadEnds(t) PROVE IInv'
<1>1. /\ t \in Everyone /\ agenda[t] # <<>> /\ Head(agenda[t]) = Do("exit", t)
      /\ Head(agenda[t]).op = "exit" /\ "FINISHED" \in state[t] /\ phase[t] # "unborn"
  <2>1. t \in Everyone
      BY DEF Everyone
  <2>2. PICK u \in Everyone : /\ u = It(t) /\ agenda[t] # <<>>
                             /\ Head(agenda[t]) = Do("exit", u) /\ Do("exit", u) \in Stack(t)
                             /\ Head(agenda[t]).op = "exit"
      BY <2>1, NextCall DEF ThreadEnds
  <2>3. u = t /\ "FINISHED" \in state[t] /\ phase[t] # "unborn"
      BY <2>1, <2>2, CallAt DEF CallOK, LifeOK, KnownOK, Do
  <2> QED
      BY <2>1, <2>2, <2>3
<1>2. /\ phase' = [phase EXCEPT ![t] = "over"] /\ Then(t, <<>>)
      /\ UNCHANGED <<state, count, allocated, listed, interps, objects, mutex, pool,
                     running, joinable, detached, total, poolGone>>
    BY DEF ThreadEnds, refvars, counters
<1>3. /\ StacksOK' /\ Apart' /\ agenda'[t] = <<>>
      /\ \A q \in Everyone : q # t => agenda'[q] = agenda[q] /\ Stack(q)' = Stack(q)
      /\ \A q \in Everyone : \A a \in Stack(q)' : q # t /\ a \in Stack(q)
      /\ \A x, v : x # "exit" \/ v # t => (Pending(x, v)' <=> Pending(x, v))
    BY <1>1, <1>2, CallEnds DEF Freeing, Unlinking
<1>4. /\ phase \in [Tids -> {"unborn", "creating", "running", "over"}] /\ phase'[t] = "over"
      /\ \A u \in Tids : u # t => phase'[u] = phase[u]
    BY <1>2 DEF IInv, TypeOK
<1>5. StateOK(t) /\ NonviableOK(t) /\ phase[t] = "running" /\ "NONVIABLE" \notin state[t]
  <2>1. StateOK(t) /\ NonviableOK(t)
      BY DEF IInv, ThreadsOK
  <2>2. phase[t] = "running"
      BY <1>1, <2>1 DEF StateOK
  <2> QED
      BY <2>1, <2>2 DEF NonviableOK
<1>6. TypeOK'
    BY <1>2 DEF TypeOK, IInv
<1>7. CallsOK'
  <2> SUFFICES ASSUME NEW q \in Everyone, NEW a \in Stack(q)'
               PROVE  CallOK(q, a)'
      BY DEF CallsOK
  <2>1. CallOK(q, a) /\ q # t /\ (a.t \in Tids \/ a.op = "unpool")
      BY <1>3, CallAt DEF CallOK, KnownOK
  <2>2. IsLive(q)' <=> IsLive(q)
    <3>1. q = Main \/ q \in Tids
        BY DEF Everyone
    <3> QED
        BY <1>2, <1>4, <2>1, <3>1 DEF IsLive
  <2>3. KnownOK(q, a)' /\ FreeOK(q, a)'
      BY <1>2, <1>4, <2>1 DEF CallOK, KnownOK, FreeOK
  <2>4. LifeOK(q, a)'
    <3>1. a.op \in {"start", "collect"} => phase'[a.t] = phase[a.t]
        BY <1>4, <1>5, <2>1 DEF CallOK, LifeOK
    <3> QED
        BY <1>2, <2>1, <2>2, <3>1 DEF CallOK, LifeOK
  <2>5. LookOK(q, a)'
    <3>1. Pending("unjoinable", a.t)' <=> Pending("unjoinable", a.t)
        BY <1>3
    <3> QED
        BY <1>2, <2>1, <2>2, <3>1 DEF CallOK, LookOK, Room, Uncallable
  <2> QED
      BY <2>3, <2>4, <2>5 DEF CallOK
<1>8. ThreadsOK'
  <2> SUFFICES ASSUME NEW v \in Tids
               PROVE  (UnbornOK(v) /\ CreatingOK(v) /\ StateOK(v) /\ NonviableOK(v))'
      BY DEF ThreadsOK
  <2>1. CASE v # t
    <3>1. agenda[t] # <<Do("start", v)>>
        BY <1>1 DEF Do
    <3> QED
        BY <1>1, <1>2, <1>3, <1>4, <2>1, <3>1, OtherThread
  <2>2. CASE v = t
    <3>1. (UnbornOK(t) /\ CreatingOK(t) /\ NonviableOK(t))'
        BY <1>2, <1>4, <1>5 DEF UnbornOK, CreatingOK, NonviableOK
    <3>2. StateOK(t)'
        BY <1>1, <1>2, <1>3, <1>4, <1>5 DEF StateOK
    <3> QED
        BY <2>2, <3>1, <3>2
  <2> QED
      BY <2>1, <2>2
<1>9. \A v \in Tids : RefOK(v)'
  <2> SUFFICES ASSUME NEW v \in Tids
               PROVE  RefOK(v)'
      OBVIOUS
  <2>1. \A x \in RefCalls : Pending(x, v)' <=> Pending(x, v)
      BY <1>3 DEF RefCalls, Joining
  <2>2. CASE v # t
      BY <1>2, <1>4, <2>1, <2>2, RefSame DEF IInv
  <2>3. CASE v = t
    <3>1. InObjects(t)' = InObjects(t)
        BY <1>2, InObjectsSame
    <3>2. RunRef(t)' = RunRef(t) /\ NewObject(t)' = NewObject(t) /\ Releases(t)' = Releases(t)
        BY <1>1, <1>2, <1>4, <1>5, <2>1, <2>3 DEF RunRef, NewObject, Releases, RefCalls
    <3>3. JoinRef(t)' = JoinRef(t)
        BY <1>2, <2>1, <2>3 DEF JoinRef, RefCalls, Joining, Uncallable
    <3>4. RefOK(t)
        BY DEF IInv
    <3> QED
        BY <1>1, <1>2, <1>4, <1>5, <2>3, <3>1, <3>2, <3>3, <3>4 DEF RefOK
  <2> QED
      BY <2>2, <2>3
<1>10. TotalOK'
    BY <1>2, <1>3, TotalSame DEF IInv
<1>11. CountersAgree'
  <2>1. \A v \in Tids : (phase'[v] = "running" /\ "FINISHED" \notin state'[v])
                            <=> (phase[v] = "running" /\ "FINISHED" \notin state[v])
      BY <1>1, <1>2, <1>4
  <2> QED
      BY <1>2, <1>3, <2>1, CountersSame DEF IInv
<1>12. GoneOK'
    BY <1>1, <1>2, <1>3, GoneStep
<1> QED
    BY <1>3, <1>6, <1>7, <1>8, <1>9, <1>10, <1>11, <1>12 DEF IInv

LEMMA OneMore ==
    ASSUME NEW S, S \subseteq Tids, NEW t \in Tids
    PROVE  /\ Cardinality(S) \in Nat /\ Cardinality(S \ {t}) \in Nat
           /\ t \in S => Cardinality(S \ {t}) = Cardinality(S) - 1
           /\ t \notin S => Cardinality(S \cup {t}) = Cardinality(S) + 1
<1>1. IsFiniteSet(S) /\ IsFiniteSet(S \ {t})
    BY EveryoneFinite, FS_Subset
<1>2. Cardinality(S) \in Nat /\ Cardinality(S \ {t}) \in Nat
    BY <1>1, FS_CardinalityType
<1>3. t \in S => Cardinality(S \ {t}) = Cardinality(S) - 1
    BY <1>1, FS_RemoveElement
<1>4. t \notin S => Cardinality(S \cup {t}) = Cardinality(S) + 1
    BY <1>1, FS_AddElement
<1> QED
    BY <1>2, <1>3, <1>4

\* The pool's mutex is held by the thread that detaches or finishes another.
LEMMA DetachMarksKeeps == ASSUME IInv, NEW p \in Everyone, DetachMarks(p) PROVE IInv'
<1>1. PICK t \in Everyone : /\ t = It(p) /\ agenda[p] # <<>>
                           /\ Head(agenda[p]) = Do("detach", t) /\ Do("detach", t) \in Stack(p)
                           /\ Head(agenda[p]).op = "detach"
    BY NextCall DEF DetachMarks
<1>2. /\ mutex[t] = Nobody /\ pool' = Nobody
      /\ IF Uncallable(t)
         THEN Then(p, <<>>) /\ UNCHANGED <<state, running, joinable, detached, total>>
         ELSE /\ state' = [state EXCEPT ![t] = @ \cup {"DETACHED"}]
              /\ CountDetached(t)
              /\ Then(p, <<Do("detached", t)>>)
      /\ UNCHANGED <<phase, count, allocated, listed, interps, objects, mutex, poolGone>>
    BY <1>1 DEF DetachMarks, refvars, counters, Free
<1>3. /\ pool = p /\ t \in Tids /\ phase[t] # "unborn" /\ IsLive(p)
      /\ objects[p][t] > 0 \/ p = t
  <2>1. CallOK(p, Do("detach", t)) /\ Do("detach", t).op = "detach" /\ Do("detach", t).t = t
      BY <1>1, CallAt DEF Do
  <2> QED
      BY <2>1 DEF CallOK, KnownOK, LifeOK, PoolOps
<1>4. /\ phase[t] # "creating" /\ "NONVIABLE" \notin state[t]
      /\ phase[t] = "running" \/ "FINISHED" \in state[t]
  <2>1. StateOK(t)
      BY <1>3 DEF IInv, ThreadsOK
  <2>2. CASE objects[p][t] > 0
      BY <1>3, <2>1, <2>2, ObjectsKnown DEF StateOK, IInv, TypeOK
  <2>3. CASE p = t
      BY <1>3, <2>1, <2>3, NobodyNone DEF StateOK, IsLive
  <2> QED
      BY <1>3, <2>2, <2>3
<1>0. "detach" \notin Freeing \cup RefCalls \cup {"clear", "refer", "untotal", "release", "unlink", "start"}
      /\ {"detached", "detach"} \cap Freeing = {} /\ "detached" \in Ops
    BY DEF Freeing, Unlinking, RefCalls, Joining, Ops
<1>5. \A q \in Everyone : \A a \in Stack(q) : q # p => a.op \notin PoolOps /\ a \in Stack(q)
    BY <1>3, PoolCallsOf
<1>6. CASE Uncallable(t)
  <2>1. /\ Then(p, <<>>)
        /\ UNCHANGED <<phase, state, count, allocated, listed, interps, objects, mutex,
                       running, joinable, detached, total, poolGone>>
      BY <1>2, <1>6
  <2>2. /\ StacksOK' /\ Apart'
        /\ \A q \in Everyone : q # p => agenda'[q] = agenda[q] /\ Stack(q)' = Stack(q)
        /\ \A q \in Everyone : \A a \in Stack(q)' : q # p /\ a \in Stack(q)
        /\ \A x, v : x # "detach" \/ v # t => (Pending(x, v)' <=> Pending(x, v))
      BY <1>0, <1>1, <2>1, CallEnds
  <2>3. TypeOK'
      BY <1>2, <2>1 DEF TypeOK, IInv
  <2>4. CallsOK'
    <3> SUFFICES ASSUME NEW q \in Everyone, NEW a \in Stack(q)'
                 PROVE  CallOK(q, a)'
        BY DEF CallsOK
    <3>1. CallOK(q, a) /\ a.op \notin PoolOps
        BY <1>5, <2>2, CallAt
    <3> QED
        BY <2>1, <3>1, CallSame DEF PoolOps
  <2>5. \A u \in Tids : RefOK(u)'
      BY <1>0, <2>1, <2>2, RefSame DEF IInv
  <2>6. CountersAgree'
      BY <2>1, <2>2, CountersSame DEF IInv
  <2>7. \A u \in Tids : Pending("untotal", u)' <=> Pending("untotal", u)
      BY <2>2
  <2> QED
      BY <1>1, <1>2, <2>1, <2>2, <2>3, <2>4, <2>5, <2>6, <2>7, AgendaStep
<1>7. CASE ~Uncallable(t)
  <2> DEFINE b == Do("detached", t)
  <2>1. /\ state' = [state EXCEPT ![t] = @ \cup {"DETACHED"}]
        /\ CountDetached(t) /\ Then(p, <<b>>)
        /\ UNCHANGED <<phase, count, allocated, listed, interps, objects, mutex, total, poolGone>>
      BY <1>2, <1>7 DEF CountDetached
  <2>2. \A q \in Everyone : \A a \in Stack(q) : a.t = t => a.op \notin Joining \cup {"detached"}
      BY <1>7, NotJoining
  <2>3. /\ StacksOK' /\ Apart'
        /\ \A q \in Everyone : q # p => agenda'[q] = agenda[q] /\ Stack(q)' = Stack(q)
        /\ \A q \in Everyone : \A a \in Stack(q)' : (q = p /\ a = b) \/ (q # p /\ a \in Stack(q))
        /\ \A x, v : (x # "detach" \/ v # t) /\ (x # "detached" \/ v # t) => (Pending(x, v)' <=> Pending(x, v))
        /\ Pending("detached", t)'
      BY <1>0, <1>1, <2>1, <2>2, Proceeds
  <2>0. b.op = "detached" /\ b.t = t
      BY DEF Do
  <2> HIDE DEF b
  <2>4. /\ state \in [Tids -> SUBSET Flags] /\ state' \in [Tids -> SUBSET Flags]
        /\ state'[t] = state[t] \cup {"DETACHED"}
        /\ \A u \in Tids : u # t => state'[u] = state[u]
    <3>1. state \in [Tids -> SUBSET Flags]
        BY DEF IInv, TypeOK
    <3> QED
        BY <1>3, <2>1, <3>1 DEF Flags
  <2>5. CallsOK'
    <3> SUFFICES ASSUME NEW q \in Everyone, NEW a \in Stack(q)'
                 PROVE  CallOK(q, a)'
        BY DEF CallsOK
    <3>1. CASE q = p /\ a = b
        BY <1>3, <2>0, <2>1, <2>4, <3>1
           DEF CallOK, KnownOK, FreeOK, LifeOK, LookOK, Unlinking, Joining, Lookups, ListFilters, PoolOps
    <3>2. CASE q # p /\ a \in Stack(q)
      <4>1. CallOK(q, a) /\ a.op \notin PoolOps
          BY <1>5, <3>2, CallAt
      <4>2. a.t \in Tids
          BY <4>1 DEF CallOK, KnownOK, PoolOps
      <4>3. state[a.t] \subseteq state'[a.t] /\ ("DIED" \in state'[a.t] => "DIED" \in state[a.t])
          BY <2>4, <4>2
      <4> QED
          BY <2>1, <4>1, <4>2, <4>3, CallGrows
    <3> QED
        BY <2>3, <3>1, <3>2
  <2>6. ThreadsOK'
    <3> SUFFICES ASSUME NEW v \in Tids
                 PROVE  (UnbornOK(v) /\ CreatingOK(v) /\ StateOK(v) /\ NonviableOK(v))'
        BY DEF ThreadsOK
    <3>1. CASE v # t
      <4>1. agenda[p] # <<Do("start", v)>>
          BY <1>1 DEF Do
      <4> QED
          BY <1>0, <1>1, <2>1, <2>3, <2>4, <3>1, <4>1, OtherThread
    <3>2. CASE v = t
      <4>1. StateOK(t)
          BY <1>3 DEF IInv, ThreadsOK
      <4>2. (UnbornOK(t) /\ CreatingOK(t) /\ NonviableOK(t))'
          BY <1>3, <1>4, <2>1, <2>4 DEF UnbornOK, CreatingOK, NonviableOK
      <4>3. phase[t] # "running" => agenda'[t] = <<>>
          BY <1>1, <1>3, <2>3, Idle
      <4>4. StateOK(t)'
          BY <1>7, <2>1, <2>4, <4>1, <4>3 DEF StateOK, Uncallable
      <4> QED
          BY <3>2, <4>2, <4>4
    <3> QED
        BY <3>1, <3>2
  <2>7. \A v \in Tids : RefOK(v)'
    <3> SUFFICES ASSUME NEW v \in Tids
                 PROVE  RefOK(v)'
        OBVIOUS
    <3>1. CASE v # t
        BY <2>1, <2>3, <2>4, <3>1, RefSame DEF IInv
    <3>2. CASE v = t
      <4>1. InObjects(t)' = InObjects(t)
          BY <1>3, <2>1, InObjectsSame
      <4>2. RunRef(t)' = RunRef(t) /\ NewObject(t)' = NewObject(t) /\ Releases(t)' = Releases(t)
          BY <2>1, <2>3, <2>4 DEF RunRef, NewObject, Releases
      <4>3. JoinRef(t)' = JoinRef(t)
          BY <1>7, <2>3 DEF JoinRef
      <4>4. RefOK(t)
          BY <1>3 DEF IInv
      <4> QED
          BY <1>3, <1>4, <2>1, <3>2, <4>1, <4>2, <4>3, <4>4 DEF RefOK
    <3> QED
        BY <3>1, <3>2
  <2>8. CountersAgree' /\ running' \in Nat /\ detached' \in Nat /\ joinable' \in Int
    <3> DEFINE Live == {u \in Tids : phase[u] = "running" /\ "FINISHED" \notin state[u]}
               Off == {u \in Tids : "DETACHED" \in state[u]}
               Ended == {u \in Tids : "FINISHED" \in state[u]}
               Uncounted == {u \in Tids : "JOINED" \in state[u] /\ ~Pending("unjoinable", u)}
    <3>1. /\ running = Cardinality(Live \ Off) /\ detached = Cardinality(Live \cap Off)
          /\ joinable = Cardinality(Ended \ Off) - Cardinality(Uncounted)
        BY DEF CountersAgree, IInv
    <3>2. Live' = Live /\ Ended' = Ended /\ Off' = Off \cup {t} /\ t \notin Off
        BY <1>3, <1>7, <2>1, <2>4 DEF Uncallable
    <3>3. Uncounted' = Uncounted
        BY <1>3, <2>3, <2>4
    <3>4. t \in Live <=> t \notin Ended
        BY <1>3, <1>4
    <3>5. Live \subseteq Tids /\ Off \subseteq Tids /\ Ended \subseteq Tids /\ Uncounted \subseteq Tids
        OBVIOUS
    <3>6. IF t \in Ended
          THEN joinable' = joinable - 1 /\ running' = running /\ detached' = detached
          ELSE running' = running - 1 /\ detached' = detached + 1 /\ joinable' = joinable
        BY <1>3, <2>1 DEF CountDetached
    <3> HIDE DEF Live, Off, Ended, Uncounted
    <3>7. /\ Cardinality(Live \ Off) \in Nat /\ Cardinality(Live \cap Off) \in Nat
          /\ Cardinality(Ended \ Off) \in Nat /\ Cardinality(Uncounted) \in Nat
          /\ Cardinality((Live \ Off) \ {t}) \in Nat
        BY <1>3, <3>5, OneMore
    <3>8. CASE t \in Ended
      <4>1. /\ Live' \ Off' = Live \ Off /\ Live' \cap Off' = Live \cap Off
            /\ Ended' \ Off' = (Ended \ Off) \ {t} /\ t \in Ended \ Off
          BY <3>2, <3>4, <3>8
      <4>2. Cardinality((Ended \ Off) \ {t}) = Cardinality(Ended \ Off) - 1
          BY <1>3, <3>5, <4>1, OneMore
      <4>3. running' = Cardinality(Live' \ Off')
          BY <3>1, <3>6, <3>8, <4>1
      <4>4. detached' = Cardinality(Live' \cap Off')
          BY <3>1, <3>6, <3>8, <4>1
      <4>5. joinable' = Cardinality(Ended' \ Off') - Cardinality(Uncounted')
          BY <3>1, <3>3, <3>6, <3>7, <3>8, <4>1, <4>2
      <4>6. running' \in Nat /\ detached' \in Nat /\ joinable' \in Int
          BY <3>1, <3>6, <3>7, <3>8, <4>1, <4>3, <4>4
      <4> QED
          BY <4>3, <4>4, <4>5, <4>6 DEF CountersAgree, Live, Off, Ended, Uncounted
    <3>9. CASE t \notin Ended
      <4>1. /\ Live' \ Off' = (Live \ Off) \ {t} /\ t \in Live \ Off
            /\ Live' \cap Off' = (Live \cap Off) \cup {t} /\ t \notin Live \cap Off
            /\ Ended' \ Off' = Ended \ Off
          BY <3>2, <3>4, <3>9
      <4>2. /\ Cardinality((Live \ Off) \ {t}) = Cardinality(Live \ Off) - 1
            /\ Cardinality((Live \cap Off) \cup {t}) = Cardinality(Live \cap Off) + 1
          BY <1>3, <3>5, <4>1, OneMore
      <4>3. running' = Cardinality(Live' \ Off')
          BY <3>1, <3>6, <3>7, <3>9, <4>1, <4>2
      <4>4. detached' = Cardinality(Live' \cap Off')
          BY <3>1, <3>6, <3>7, <3>9, <4>1, <4>2
      <4>5. joinable' = Cardinality(Ended' \ Off') - Cardinality(Uncounted')
          BY <3>1, <3>3, <3>6, <3>9, <4>1
      <4>6. running' \in Nat /\ detached' \in Nat /\ joinable' \in Int
          BY <3>1, <3>6, <3>7, <3>9, <4>1, <4>2, <4>3, <4>4
      <4> QED
          BY <4>3, <4>4, <4>5, <4>6 DEF CountersAgree, Live, Off, Ended, Uncounted
    <3> QED
        BY <3>8, <3>9
  <2>9. TypeOK'
      BY <1>2, <2>1, <2>4, <2>8 DEF TypeOK, IInv
  <2>10. TotalOK'
      BY <2>1, <2>3, TotalSame DEF IInv
  <2>11. GoneOK'
      BY <1>1, <1>2, <2>1, <2>3, GoneStep
  <2> QED
      BY <2>3, <2>5, <2>6, <2>7, <2>8, <2>9, <2>10, <2>11 DEF IInv
<1> QED
    BY <1>6, <1>7

LEMMA FinishMarksKeeps == ASSUME IInv, NEW t \in Tids, FinishMarks(t) PROVE IInv'
<1> DEFINE b == Do("runfree", t)
<1>1. PICK o \in {"finish", "die"} :
        /\ t \in Everyone /\ agenda[t] # <<>> /\ Head(agenda[t]) = Do(o, t) /\ Do(o, t) \in Stack(t)
        /\ Head(agenda[t]).op = o
        /\ IsLive(t) /\ pool = t /\ phase[t] # "unborn"
  <2>1. t \in Everyone
      BY DEF Everyone
  <2>2. PICK o \in {"finish", "die"} : IsNext(t, o)
      BY DEF FinishMarks
  <2>3. PICK u \in Everyone : /\ u = It(t) /\ agenda[t] # <<>>
                             /\ Head(agenda[t]) = Do(o, u) /\ Do(o, u) \in Stack(t)
                             /\ Head(agenda[t]).op = o
      BY <2>1, <2>2, NextCall
  <2>4. CallOK(t, Do(o, u)) /\ Do(o, u).op = o /\ Do(o, u).t = u
      BY <2>1, <2>3, CallAt DEF Do
  <2>5. u = t /\ IsLive(t) /\ pool = t /\ phase[t] # "unborn"
      BY <2>4 DEF CallOK, LifeOK, KnownOK, PoolOps
  <2> QED
      BY <2>1, <2>3, <2>5
<1>2. PICK d \in SUBSET {"DIED"} : d = IF IsNext(t, "die") THEN {"DIED"} ELSE {}
    OBVIOUS
<1>3. /\ mutex[t] = Nobody /\ pool' = Nobody
      /\ state' = [state EXCEPT ![t] = @ \cup {"FINISHED"} \cup d]
      /\ CountFinished(t) /\ Then(t, <<b>>)
      /\ UNCHANGED <<phase, count, allocated, listed, interps, objects, mutex, total, poolGone>>
    BY <1>2 DEF FinishMarks, CountFinished, refvars, Free
<1>4. /\ phase[t] = "running" /\ "FINISHED" \notin state[t] /\ "NONVIABLE" \notin state[t]
      /\ t \in interps /\ StateOK(t)
    BY <1>1, NobodyNone DEF IsLive, IInv, ThreadsOK, StateOK
<1>0. /\ o \notin Freeing \cup RefCalls \cup {"clear", "refer", "untotal", "release", "unlink", "start"}
      /\ "runfree" \notin Freeing \cup Joining \cup {"detached", "clear", "refer"} /\ "runfree" \in Ops
      /\ b.op = "runfree" /\ b.t = t
    BY DEF Freeing, Unlinking, RefCalls, Joining, Ops, Do
<1>5. /\ StacksOK' /\ Apart'
      /\ \A q \in Everyone : q # t => agenda'[q] = agenda[q] /\ Stack(q)' = Stack(q)
      /\ \A q \in Everyone : \A a \in Stack(q)' : (q = t /\ a = b) \/ (q # t /\ a \in Stack(q))
      /\ \A x, v : (x # o \/ v # t) /\ (x # "runfree" \/ v # t) => (Pending(x, v)' <=> Pending(x, v))
      /\ Pending("runfree", t)'
    BY <1>0, <1>1, <1>3, Proceeds
<1> HIDE DEF b
<1>6. /\ state \in [Tids -> SUBSET Flags] /\ state' \in [Tids -> SUBSET Flags]
      /\ state'[t] = state[t] \cup {"FINISHED"} \cup d
      /\ \A u \in Tids : u # t => state'[u] = state[u]
  <2>1. state \in [Tids -> SUBSET Flags]
      BY DEF IInv, TypeOK
  <2> QED
      BY <1>3, <2>1 DEF Flags
<1>7. CallsOK'
  <2> SUFFICES ASSUME NEW q \in Everyone, NEW a \in Stack(q)'
               PROVE  CallOK(q, a)'
      BY DEF CallsOK
  <2>1. CASE q = t /\ a = b
      BY <1>0, <1>1, <1>3, <1>6, <2>1
         DEF CallOK, KnownOK, FreeOK, LifeOK, LookOK, Unlinking, Joining, Lookups, ListFilters, PoolOps
  <2>2. CASE q # t /\ a \in Stack(q)
    <3>1. CallOK(q, a) /\ a.op \notin PoolOps
        BY <1>1, <2>2, CallAt, PoolCallsOf
    <3>2. a.t \in Tids
        BY <3>1 DEF CallOK, KnownOK, PoolOps
    <3>3. state[a.t] \subseteq state'[a.t]
        BY <1>6, <3>2
    <3>4. a.op = "clear" => a.t # t
        BY <1>4, <3>1 DEF CallOK, FreeOK
    <3>5. a.op = "clear" /\ "DIED" \in state'[a.t] => "DIED" \in state[a.t]
        BY <1>6, <3>2, <3>4
    <3> QED
        BY <1>3, <3>1, <3>2, <3>3, <3>5, CallGrows
  <2> QED
      BY <1>5, <2>1, <2>2
<1>8. ThreadsOK'
  <2> SUFFICES ASSUME NEW v \in Tids
               PROVE  (UnbornOK(v) /\ CreatingOK(v) /\ StateOK(v) /\ NonviableOK(v))'
      BY DEF ThreadsOK
  <2>1. CASE v # t
    <3>1. agenda[t] # <<Do("start", v)>>
        BY <1>1 DEF Do
    <3> QED
        BY <1>0, <1>1, <1>3, <1>5, <1>6, <2>1, <3>1, OtherThread
  <2>2. CASE v = t
    <3>1. (UnbornOK(t) /\ CreatingOK(t) /\ NonviableOK(t))'
        BY <1>3, <1>4, <1>6 DEF UnbornOK, CreatingOK, NonviableOK
    <3>2. StateOK(t)'
        BY <1>3, <1>4, <1>6 DEF StateOK
    <3> QED
        BY <2>2, <3>1, <3>2
  <2> QED
      BY <2>1, <2>2
<1>9. \A v \in Tids : RefOK(v)'
  <2> SUFFICES ASSUME NEW v \in Tids
               PROVE  RefOK(v)'
      OBVIOUS
  <2>1. CASE v # t
      BY <1>0, <1>3, <1>5, <1>6, <2>1, RefSame DEF IInv
  <2>2. CASE v = t
    <3>1. InObjects(t)' = InObjects(t)
        BY <1>3, InObjectsSame
    <3>2. RunRef(t) = 1 /\ RunRef(t)' = 1
        BY <1>4, <1>5 DEF RunRef
    <3>3. NewObject(t)' = NewObject(t) /\ Releases(t)' = Releases(t)
        BY <1>0, <1>3, <1>5 DEF NewObject, Releases, RefCalls
    <3>4. JoinRef(t)' = JoinRef(t)
      <4>1. Uncallable(t)' <=> Uncallable(t)
          BY <1>2, <1>6 DEF Uncallable
      <4> QED
          BY <1>0, <1>5, <4>1 DEF JoinRef, RefCalls, Joining
    <3>5. RefOK(t)
        BY DEF IInv
    <3> QED
        BY <1>3, <1>4, <1>6, <2>2, <3>1, <3>2, <3>3, <3>4, <3>5 DEF RefOK
  <2> QED
      BY <2>1, <2>2
<1>10. CountersAgree' /\ running' \in Nat /\ detached' \in Nat /\ joinable' \in Int
  <2> DEFINE Live == {u \in Tids : phase[u] = "running" /\ "FINISHED" \notin state[u]}
             Off == {u \in Tids : "DETACHED" \in state[u]}
             Ended == {u \in Tids : "FINISHED" \in state[u]}
             Uncounted == {u \in Tids : "JOINED" \in state[u] /\ ~Pending("unjoinable", u)}
  <2>1. /\ running = Cardinality(Live \ Off) /\ detached = Cardinality(Live \cap Off)
        /\ joinable = Cardinality(Ended \ Off) - Cardinality(Uncounted)
      BY DEF CountersAgree, IInv
  <2>2. /\ Live' = Live \ {t} /\ Ended' = Ended \cup {t} /\ Off' = Off
        /\ t \in Live /\ t \notin Ended
      BY <1>3, <1>4, <1>6
  <2>3. Uncounted' = Uncounted
      BY <1>0, <1>5, <1>6 DEF RefCalls, Joining
  <2>4. Live \subseteq Tids /\ Off \subseteq Tids /\ Ended \subseteq Tids /\ Uncounted \subseteq Tids
      OBVIOUS
  <2>5. IF t \in Off
        THEN detached' = detached - 1 /\ running' = running /\ joinable' = joinable
        ELSE running' = running - 1 /\ joinable' = joinable + 1 /\ detached' = detached
      BY <1>3 DEF CountFinished
  <2> HIDE DEF Live, Off, Ended, Uncounted
  <2>6. /\ Cardinality(Live \ Off) \in Nat /\ Cardinality(Live \cap Off) \in Nat
        /\ Cardinality(Ended \ Off) \in Nat /\ Cardinality(Uncounted) \in Nat
        /\ Cardinality((Live \ Off) \ {t}) \in Nat /\ Cardinality((Live \cap Off) \ {t}) \in Nat
      BY <2>4, OneMore
  <2>7. CASE t \in Off
    <3>1. /\ Live' \ Off' = Live \ Off /\ Live' \cap Off' = (Live \cap Off) \ {t}
          /\ t \in Live \cap Off /\ Ended' \ Off' = Ended \ Off
        BY <2>2, <2>7
    <3>2. Cardinality((Live \cap Off) \ {t}) = Cardinality(Live \cap Off) - 1
        BY <2>4, <3>1, OneMore
    <3>3. running' = Cardinality(Live' \ Off')
        BY <2>1, <2>5, <2>7, <3>1
    <3>4. detached' = Cardinality(Live' \cap Off')
        BY <2>1, <2>5, <2>6, <2>7, <3>1, <3>2
    <3>5. joinable' = Cardinality(Ended' \ Off') - Cardinality(Uncounted')
        BY <2>1, <2>3, <2>5, <2>7, <3>1
    <3>6. running' \in Nat /\ detached' \in Nat /\ joinable' \in Int
        BY <2>1, <2>5, <2>6, <2>7, <3>1, <3>2, <3>3, <3>4
    <3> QED
        BY <3>3, <3>4, <3>5, <3>6 DEF CountersAgree, Live, Off, Ended, Uncounted
  <2>8. CASE t \notin Off
    <3>1. /\ Live' \ Off' = (Live \ Off) \ {t} /\ t \in Live \ Off
          /\ Live' \cap Off' = Live \cap Off
          /\ Ended' \ Off' = (Ended \ Off) \cup {t} /\ t \notin Ended \ Off
        BY <2>2, <2>8
    <3>2. /\ Cardinality((Live \ Off) \ {t}) = Cardinality(Live \ Off) - 1
          /\ Cardinality((Ended \ Off) \cup {t}) = Cardinality(Ended \ Off) + 1
        BY <2>4, <3>1, OneMore
    <3>3. running' = Cardinality(Live' \ Off')
        BY <2>1, <2>5, <2>6, <2>8, <3>1, <3>2
    <3>4. detached' = Cardinality(Live' \cap Off')
        BY <2>1, <2>5, <2>8, <3>1
    <3>5. joinable' = Cardinality(Ended' \ Off') - Cardinality(Uncounted')
      <4>1. Cardinality(Ended' \ Off') = Cardinality(Ended \ Off) + 1
          BY <3>1, <3>2
      <4>2. Cardinality(Uncounted') = Cardinality(Uncounted)
          BY <2>3
      <4>3. joinable' = joinable + 1
          BY <2>5, <2>8
      <4> QED
          BY <2>1, <2>6, <4>1, <4>2, <4>3
    <3>6. running' \in Nat /\ detached' \in Nat /\ joinable' \in Int
        BY <2>1, <2>5, <2>6, <2>8, <3>1, <3>2, <3>3, <3>4
    <3> QED
        BY <3>3, <3>4, <3>5, <3>6 DEF CountersAgree, Live, Off, Ended, Uncounted
  <2> QED
      BY <2>7, <2>8
<1>11. TypeOK'
    BY <1>3, <1>6, <1>10 DEF TypeOK, IInv
<1>12. TotalOK'
  <2>1. \A u \in Tids : Pending("untotal", u)' <=> Pending("untotal", u)
      BY <1>0, <1>5
  <2> QED
      BY <1>3, <2>1, TotalSame DEF IInv
<1>13. GoneOK'
    BY <1>1, <1>3, <1>5, GoneStep
<1> QED
    BY <1>5, <1>7, <1>8, <1>9, <1>10, <1>11, <1>12, <1>13 DEF IInv

-----------------------------------------------------------------------------
(* create *)

\* A thread that is not born is in no call and no call is about it.
LEMMA NotBorn ==
    ASSUME IInv, NEW t \in Tids, phase[t] = "unborn", NEW q \in Everyone, NEW a \in Stack(q)
    PROVE  a.t # t /\ q # t
<1>1. CallOK(q, a)
    BY CallAt
<1>2. a.t # t
    BY <1>1, NobodyNone DEF CallOK, KnownOK
<1>3. agenda[t] = <<>> /\ t \in Everyone
    BY DEF IInv, ThreadsOK, StateOK, Everyone
<1>4. Stack(t) = {}
    BY <1>3, EmptyStack
<1> QED
    BY <1>2, <1>4

LEMMA CreateKeeps == ASSUME IInv, NEW p \in Everyone, NEW t \in Tids, Create(p, t) PROVE IInv'
<1> DEFINE b == Do("start", t)
<1>1. /\ Ready(p) /\ pool = Nobody /\ phase[t] = "unborn" /\ t \in Everyone
      /\ pool' = p /\ mutex' = [mutex EXCEPT ![t] = p]
      /\ phase' = [phase EXCEPT ![t] = "creating"]
      /\ count' = [count EXCEPT ![t] = 3]
      /\ allocated' = allocated \cup {t} /\ listed' = listed \cup {t} /\ interps' = interps \cup {t}
      /\ total' = total + 1 /\ Begin(p, "start", t)
      /\ UNCHANGED <<state, objects, running, joinable, detached, poolGone>>
    BY DEF Create, PoolFree, Everyone
<1>2. IsLive(p) /\ agenda[p] = <<>> /\ ~poolGone /\ p # t
    BY <1>1, ReadyLive, NobodyNone DEF IsLive
<1>3. /\ state[t] = {} /\ count[t] = 0 /\ t \notin allocated /\ NoObjects(t)
      /\ t \notin listed
    BY <1>1 DEF IInv, TypeOK, ThreadsOK, UnbornOK
<1>0. "start" \notin Freeing \cup Joining \cup RefCalls \cup {"clear", "refer", "detached", "untotal"}
      /\ "start" \in Ops /\ b.op = "start" /\ b.t = t
    BY DEF Freeing, Unlinking, Joining, RefCalls, Ops, Do
<1>4. /\ StacksOK' /\ Apart' /\ agenda'[p] = <<b>>
      /\ \A q \in Everyone : q # p => agenda'[q] = agenda[q] /\ Stack(q)' = Stack(q)
      /\ \A q \in Everyone : \A a \in Stack(q)' : (q = p /\ a = b) \/ (q # p /\ a \in Stack(q))
      /\ \A x, u : x # "start" \/ u # t => (Pending(x, u)' <=> Pending(x, u))
    BY <1>0, <1>1, <1>2, Called
<1> HIDE DEF b
<1>5. /\ phase'[t] = "creating" /\ count'[t] = 3 /\ mutex'[t] = p
      /\ \A u \in Tids : u # t => /\ phase'[u] = phase[u] /\ count'[u] = count[u]
                                  /\ mutex'[u] = mutex[u]
    BY <1>1 DEF IInv, TypeOK
<1>6. \A op : ~Pending(op, t)
  <2> SUFFICES ASSUME NEW op, NEW q \in Everyone, Do(op, t) \in Stack(q)
               PROVE  FALSE
      BY DEF Pending, Stack
  <2>1. Do(op, t).t = t
      BY DEF Do
  <2> QED
      BY <1>1, <2>1, NotBorn
<1>7. TypeOK' /\ TotalOK'
  <2>1. t \notin InTotal /\ InTotal' = InTotal \cup {t} /\ InTotal \subseteq Tids
      BY <1>0, <1>1, <1>3, <1>4, <1>6 DEF InTotal
  <2>2. Cardinality(InTotal') = Cardinality(InTotal) + 1
      BY <2>1, OneMore
  <2>3. TotalOK'
      BY <1>1, <2>2 DEF TotalOK, IInv
  <2>4. TypeOK'
      BY <1>1 DEF TypeOK, IInv
  <2> QED
      BY <2>3, <2>4
<1>8. CallsOK'
  <2> SUFFICES ASSUME NEW q \in Everyone, NEW a \in Stack(q)'
               PROVE  CallOK(q, a)'
      BY DEF CallsOK
  <2>1. CASE q = p /\ a = b
      BY <1>0, <1>1, <1>5, <2>1
         DEF CallOK, KnownOK, FreeOK, LifeOK, LookOK, Unlinking, Joining, Lookups, ListFilters, PoolOps
  <2>2. CASE q # p /\ a \in Stack(q)
    <3>1. CallOK(q, a) /\ a.op \notin PoolOps /\ a.t # t
        BY <1>1, <2>2, CallAt, NoPoolCalls, NotBorn
    <3>2. a.t \in Tids
        BY <3>1 DEF CallOK, KnownOK, PoolOps
    <3> QED
        BY <1>1, <1>5, <3>1, <3>2, CallGrows
  <2> QED
      BY <1>4, <2>1, <2>2
<1>9. ThreadsOK'
  <2> SUFFICES ASSUME NEW v \in Tids
               PROVE  (UnbornOK(v) /\ CreatingOK(v) /\ StateOK(v) /\ NonviableOK(v))'
      BY DEF ThreadsOK
  <2>1. CASE v # t
    <3>1. agenda[p] # <<Do("start", v)>>
        BY <1>2
    <3> QED
        BY <1>1, <1>2, <1>4, <1>5, <2>1, <3>1, OtherThread
  <2>2. CASE v = t
    <3>1. StateOK(t)
        BY DEF IInv, ThreadsOK
    <3>2. agenda'[t] = <<>>
        BY <1>1, <1>2, <1>4, <3>1 DEF StateOK
    <3>3. UnbornOK(t)' /\ NonviableOK(t)'
        BY <1>1, <1>3, <1>5 DEF UnbornOK, NonviableOK
    <3>4. StateOK(t)'
        BY <1>1, <1>3, <1>5, <3>2 DEF StateOK
    <3>5. CreatingOK(t)'
        BY <1>1, <1>3, <1>4, <1>5 DEF CreatingOK, NoObjects, b
    <3> QED
        BY <2>2, <3>3, <3>4, <3>5
  <2> QED
      BY <2>1, <2>2
<1>10. \A v \in Tids : RefOK(v)'
  <2> SUFFICES ASSUME NEW v \in Tids
               PROVE  RefOK(v)'
      OBVIOUS
  <2>1. CASE v # t
      BY <1>1, <1>4, <1>5, <2>1, RefSame DEF IInv
  <2>2. CASE v = t
    <3>1. InObjects(t)' = InObjects(t) /\ InObjects(t) = 0
        BY <1>1, <1>3, InObjectsSame, InObjectsZero DEF IInv
    <3>2. RunRef(t)' = 1 /\ NewObject(t)' = 1
        BY <1>5 DEF RunRef, NewObject
    <3>3. JoinRef(t)' = 1
        BY <1>1, <1>3 DEF JoinRef, Uncallable
    <3>4. Releases(t)' = 0
        BY <1>0, <1>4, <1>6 DEF Releases, RefCalls
    <3> QED
        BY <1>5, <2>2, <3>1, <3>2, <3>3, <3>4 DEF RefOK
  <2> QED
      BY <2>1, <2>2
<1>11. CountersAgree'
  <2>1. \A v \in Tids : (phase'[v] = "running" /\ "FINISHED" \notin state'[v])
                            <=> (phase[v] = "running" /\ "FINISHED" \notin state[v])
      BY <1>1, <1>5
  <2> QED
      BY <1>1, <1>4, <2>1, CountersSame DEF IInv
<1>12. GoneOK'
    BY <1>1, <1>2 DEF GoneOK
<1> QED
    BY <1>4, <1>7, <1>8, <1>9, <1>10, <1>11, <1>12 DEF IInv

LEMMA StartKeeps == ASSUME IInv, NEW p \in Everyone, Start(p) PROVE IInv'
<1>1. PICK t \in Everyone : /\ t = It(p) /\ agenda[p] # <<>>
                           /\ Head(agenda[p]) = Do("start", t) /\ Do("start", t) \in Stack(p)
                           /\ Head(agenda[p]).op = "start"
    BY NextCall DEF Start, Cloned
<1>2. /\ phase' = [phase EXCEPT ![t] = "running"]
      /\ objects' = [objects EXCEPT ![p][t] = @ + 1]
      /\ mutex' = [mutex EXCEPT ![t] = Nobody]
      /\ running' = running + 1 /\ pool' = Nobody /\ Then(p, <<>>)
      /\ UNCHANGED <<state, count, allocated, listed, interps, joinable, detached, total, poolGone>>
    BY <1>1 DEF Start
<1>3. /\ pool = p /\ t \in Tids /\ phase[t] = "creating" /\ mutex[t] = p
      /\ state[t] = {} /\ NoObjects(t) /\ t \in interps
  <2>1. CallOK(p, Do("start", t)) /\ Do("start", t).op = "start" /\ Do("start", t).t = t
      BY <1>1, CallAt DEF Do
  <2>2. pool = p /\ t \in Tids /\ phase[t] = "creating" /\ mutex[t] = p
      BY <2>1 DEF CallOK, KnownOK, LifeOK, PoolOps
  <2> QED
      BY <2>2 DEF IInv, ThreadsOK, CreatingOK
<1>0. "start" \notin Freeing \cup RefCalls \cup {"clear", "refer", "untotal", "unjoinable"}
    BY DEF Freeing, Unlinking, RefCalls, Joining
<1>4. /\ StacksOK' /\ Apart' /\ agenda'[p] = <<>>
      /\ \A q \in Everyone : q # p => agenda'[q] = agenda[q] /\ Stack(q)' = Stack(q)
      /\ \A q \in Everyone : \A a \in Stack(q)' : q # p /\ a \in Stack(q)
      /\ \A x, v : x # "start" \/ v # t => (Pending(x, v)' <=> Pending(x, v))
    BY <1>0, <1>1, <1>2, CallEnds
<1>5. /\ objects \in [Everyone -> [Tids -> 0..MaxObjects]] /\ objects[p][t] = 0
      /\ MaxObjects \in Nat /\ MaxObjects > 0
    BY <1>3, ThreadsAssumption DEF IInv, TypeOK, NoObjects
<1>6. /\ objects' \in [Everyone -> [Tids -> 0..MaxObjects]] /\ objects'[p][t] = 1
      /\ \A q \in Everyone, v \in Tids : q # p \/ v # t => objects'[q][v] = objects[q][v]
  <2>1. objects[p][t] + 1 \in 0..MaxObjects
      BY <1>5
  <2> QED
      BY <1>2, <1>3, <1>5, <2>1
<1>7. /\ phase'[t] = "running" /\ mutex'[t] = Nobody
      /\ \A u \in Tids : u # t => phase'[u] = phase[u] /\ mutex'[u] = mutex[u]
    BY <1>2, <1>3 DEF IInv, TypeOK
<1>8. TypeOK'
    BY <1>2, <1>3, <1>6 DEF TypeOK, IInv
<1>9. CallsOK'
  <2> SUFFICES ASSUME NEW q \in Everyone, NEW a \in Stack(q)'
               PROVE  CallOK(q, a)'
      BY DEF CallsOK
  <2>1. CallOK(q, a) /\ a.op \notin PoolOps /\ q # p
      BY <1>3, <1>4, CallAt, PoolCallsOf
  <2>2. a.t \in Tids
      BY <2>1 DEF CallOK, KnownOK, PoolOps
  <2>3. a.op \in {"release", "dispose"} => a.t # t
      BY <1>3, <2>1 DEF CallOK, FreeOK
  <2>4. a.op \in {"release", "dispose"} => mutex'[a.t] = mutex[a.t]
      BY <1>7, <2>2, <2>3
  <2>5. /\ phase[a.t] # "unborn" => phase'[a.t] # "unborn"
        /\ phase[a.t] = "over" => phase'[a.t] = "over"
      BY <1>3, <1>7, <2>2
  <2> QED
      BY <1>2, <2>1, <2>2, <2>4, <2>5, CallGrows
<1>10. ThreadsOK'
  <2> SUFFICES ASSUME NEW v \in Tids
               PROVE  (UnbornOK(v) /\ CreatingOK(v) /\ StateOK(v) /\ NonviableOK(v))'
      BY DEF ThreadsOK
  <2>1. CASE v # t
    <3>1. agenda[p] # <<Do("start", v)>>
        BY <1>1, <2>1 DEF Do
    <3>2. phase[v] = "unborn" => v # p /\ v \in Everyone
        BY <1>1 DEF IInv, ThreadsOK, StateOK, Everyone
    <3>3. \A i \in Everyone : objects'[i][v] = objects[i][v]
        BY <1>6, <2>1
    <3>4. phase[v] = "unborn" => \A w \in Tids : objects'[v][w] = objects[v][w]
        BY <1>6, <3>2
    <3> QED
        BY <1>1, <1>2, <1>4, <1>7, <2>1, <3>1, <3>3, <3>4, OtherThread
  <2>2. CASE v = t
    <3>1. StateOK(t)
        BY <1>3 DEF IInv, ThreadsOK
    <3>2. (UnbornOK(t) /\ CreatingOK(t) /\ NonviableOK(t))'
        BY <1>2, <1>3, <1>7 DEF UnbornOK, CreatingOK, NonviableOK
    <3>3. StateOK(t)'
        BY <1>2, <1>3, <1>7, <3>1 DEF StateOK
    <3> QED
        BY <2>2, <3>2, <3>3
  <2> QED
      BY <2>1, <2>2
<1>11. \A v \in Tids : RefOK(v)'
  <2> SUFFICES ASSUME NEW v \in Tids
               PROVE  RefOK(v)'
      OBVIOUS
  <2>1. CASE v # t
      BY <1>0, <1>2, <1>4, <1>6, <1>7, <2>1, RefSame DEF IInv
  <2>2. CASE v = t
    <3>1. InObjects(t)' = (InObjects(t) - objects[p][t]) + objects'[p][t] /\ InObjects(t) \in Nat
        BY <1>3, <1>6, InObjectsStep DEF IInv
    <3>2. InObjects(t)' = InObjects(t) + 1
        BY <1>5, <1>6, <3>1
    <3>3. RunRef(t) = 1 /\ RunRef(t)' = 1 /\ NewObject(t) = 1 /\ NewObject(t)' = 0
        BY <1>2, <1>3, <1>7 DEF RunRef, NewObject
    <3>4. JoinRef(t)' = JoinRef(t) /\ Releases(t)' = Releases(t)
        BY <1>0, <1>2, <1>4 DEF JoinRef, Releases, Uncallable, RefCalls, Joining
    <3>5. JoinRef(t) \in Nat /\ Releases(t) \in Nat
        BY DEF JoinRef, Releases
    <3>6. RefOK(t)
        BY <1>3 DEF IInv
    <3> QED
        BY <1>2, <1>3, <2>2, <3>1, <3>2, <3>3, <3>4, <3>5, <3>6 DEF RefOK
  <2> QED
      BY <2>1, <2>2
<1>12. TotalOK'
    BY <1>0, <1>2, <1>4, TotalSame DEF IInv
<1>13. CountersAgree'
  <2> DEFINE Live == {u \in Tids : phase[u] = "running" /\ "FINISHED" \notin state[u]}
             Off == {u \in Tids : "DETACHED" \in state[u]}
             Ended == {u \in Tids : "FINISHED" \in state[u]}
             Uncounted == {u \in Tids : "JOINED" \in state[u] /\ ~Pending("unjoinable", u)}
  <2>1. /\ running = Cardinality(Live \ Off) /\ detached = Cardinality(Live \cap Off)
        /\ joinable = Cardinality(Ended \ Off) - Cardinality(Uncounted)
      BY DEF CountersAgree, IInv
  <2>2. /\ Live' = Live \cup {t} /\ Ended' = Ended /\ Off' = Off
        /\ t \notin Live /\ t \notin Off
      BY <1>2, <1>3, <1>7
  <2>3. Uncounted' = Uncounted
      BY <1>0, <1>2, <1>4
  <2>4. Live \subseteq Tids /\ Off \subseteq Tids
      OBVIOUS
  <2> HIDE DEF Live, Off, Ended, Uncounted
  <2>5. /\ Live' \ Off' = (Live \ Off) \cup {t} /\ t \notin Live \ Off
        /\ Live' \cap Off' = Live \cap Off /\ Ended' \ Off' = Ended \ Off
      BY <2>2
  <2>6. Cardinality((Live \ Off) \cup {t}) = Cardinality(Live \ Off) + 1
      BY <1>3, <2>4, <2>5, OneMore
  <2>7. /\ running' = Cardinality(Live' \ Off') /\ detached' = Cardinality(Live' \cap Off')
        /\ joinable' = Cardinality(Ended' \ Off') - Cardinality(Uncounted')
      BY <1>2, <2>1, <2>3, <2>5, <2>6
  <2> QED
      BY <2>7 DEF CountersAgree, Live, Off, Ended, Uncounted
<1>14. GoneOK'
    BY <1>1, <1>2, <1>4, GoneStep
<1> QED
    BY <1>4, <1>8, <1>9, <1>10, <1>11, <1>12, <1>13, <1>14 DEF IInv

\* Where the thread cannot be started no other thread runs that could get an
\* object for it.
LEMMA StartFailsKeeps ==
    ASSUME IInv, ~FailsInCompany, NEW p \in Everyone, StartFails(p)
    PROVE  IInv'
<1>1. PICK t \in Everyone : /\ t = It(p) /\ agenda[p] # <<>>
                           /\ Head(agenda[p]) = Do("start", t) /\ Do("start", t) \in Stack(p)
                           /\ Head(agenda[p]).op = "start"
    BY NextCall DEF StartFails, Cloned
<1> DEFINE b == Do("release", t)
<1>2. /\ p = Main /\ \A u \in Tids \ {p, t} : phase[u] \in {"unborn", "over"}
      /\ phase' = [phase EXCEPT ![t] = "over"]
      /\ state' = [state EXCEPT ![t] = @ \cup {"NONVIABLE"}]
      /\ Then(p, <<b>>) /\ pool' = Nobody
      /\ UNCHANGED <<count, allocated, listed, interps, objects, mutex,
                     running, joinable, detached, total, poolGone>>
    BY <1>1 DEF StartFails, refvars, counters
<1>3. /\ pool = p /\ t \in Tids /\ phase[t] = "creating" /\ mutex[t] = p
      /\ state[t] = {} /\ NoObjects(t) /\ t \in interps
  <2>1. CallOK(p, Do("start", t)) /\ Do("start", t).op = "start" /\ Do("start", t).t = t
      BY <1>1, CallAt DEF Do
  <2>2. pool = p /\ t \in Tids /\ phase[t] = "creating" /\ mutex[t] = p
      BY <2>1 DEF CallOK, KnownOK, LifeOK, PoolOps
  <2> QED
      BY <2>2 DEF IInv, ThreadsOK, CreatingOK
<1>4. count[t] \in Nat /\ count[t] > 0 /\ t \in listed
  <2>1. count[t] # 0
      BY <1>3, NoRefs
  <2> QED
      BY <1>3, <2>1, CountListed
<1>5. \A q \in Everyone : q # p => agenda[q] = <<>> /\ Stack(q) = {}
  <2> SUFFICES ASSUME NEW q \in Everyone, q # p
               PROVE  agenda[q] = <<>>
      BY EmptyStack
  <2>1. q \in Tids /\ phase[q] # "running"
      BY <1>2, <1>3 DEF Everyone
  <2> QED
      BY <2>1 DEF IInv, ThreadsOK, StateOK
<1>0. /\ "start" \notin Freeing \cup RefCalls \cup {"clear", "refer", "untotal", "unjoinable"}
      /\ "release" \notin {"clear", "refer", "untotal", "unjoinable"} /\ "release" \in Ops
      /\ b.op = "release" /\ b.t = t
    BY DEF Freeing, Unlinking, RefCalls, Joining, Ops, Do
<1>6. /\ StacksOK' /\ Apart' /\ Stack(p)' = {b}
      /\ \A q \in Everyone : q # p => agenda'[q] = agenda[q] /\ Stack(q)' = Stack(q)
      /\ \A x, v : (x # "start" \/ v # t) /\ (x # "release" \/ v # t) => (Pending(x, v)' <=> Pending(x, v))
    BY <1>0, <1>1, <1>2, <1>5, Proceeds
<1>7. agenda'[p] = <<b>>
  <2>1. Rest(p) = <<>> /\ b \in Calls
      BY <1>0, <1>1, Alone DEF IInv, Calls, Do
  <2>2. <<b>> \o <<>> = <<b>>
      BY <2>1, ShortSeq
  <2> QED
      BY <1>2, <2>1, <2>2 DEF Then, IInv, StacksOK
<1>8. /\ phase'[t] = "over" /\ state'[t] = {"NONVIABLE"}
      /\ \A u \in Tids : u # t => phase'[u] = phase[u] /\ state'[u] = state[u]
    BY <1>2, <1>3 DEF IInv, TypeOK
<1>9. TypeOK'
  <2>1. state' \in [Tids -> SUBSET Flags]
      BY <1>2, <1>3 DEF IInv, TypeOK, Flags
  <2> QED
      BY <1>2, <2>1 DEF TypeOK, IInv
<1> HIDE DEF b
<1>10. CallsOK'
  <2> SUFFICES ASSUME NEW q \in Everyone, NEW a \in Stack(q)'
               PROVE  CallOK(q, a)'
      BY DEF CallsOK
  <2>1. q = p /\ a = b
      BY <1>5, <1>6
  <2> QED
      BY <1>0, <1>2, <1>3, <1>4, <1>8, <2>1
         DEF CallOK, KnownOK, FreeOK, LifeOK, LookOK, Unlinking, Joining, Lookups, ListFilters, PoolOps
<1>11. ThreadsOK'
  <2> SUFFICES ASSUME NEW v \in Tids
               PROVE  (UnbornOK(v) /\ CreatingOK(v) /\ StateOK(v) /\ NonviableOK(v))'
      BY DEF ThreadsOK
  <2>1. CASE v # t
    <3>1. agenda[p] # <<Do("start", v)>>
        BY <1>1, <2>1 DEF Do
    <3> QED
        BY <1>1, <1>2, <1>6, <1>8, <2>1, <3>1, OtherThread
  <2>2. CASE v = t
    <3>1. (UnbornOK(t) /\ CreatingOK(t))'
        BY <1>8 DEF UnbornOK, CreatingOK
    <3>2. agenda'[t] = <<>>
        BY <1>1, <1>2, <1>3, <1>5, <1>6, NobodyNone
    <3>3. StateOK(t)'
        BY <1>2, <1>4, <1>8, <3>2 DEF StateOK
    <3>4. \A u \in Tids : phase'[u] \in {"unborn", "over"}
        BY <1>2, <1>3, <1>8, NobodyNone
    <3>5. NonviableOK(t)'
        BY <1>2, <1>3, <1>7, <1>8, <3>4 DEF NonviableOK, NoObjects, b
    <3> QED
        BY <2>2, <3>1, <3>3, <3>5
  <2> QED
      BY <2>1, <2>2
<1>12. \A v \in Tids : RefOK(v)'
  <2> SUFFICES ASSUME NEW v \in Tids
               PROVE  RefOK(v)'
      OBVIOUS
  <2>1. CASE v # t
      BY <1>2, <1>6, <1>8, <2>1, RefSame DEF IInv
  <2>2. CASE v = t
      BY <1>8, <2>2 DEF RefOK
  <2> QED
      BY <2>1, <2>2
<1>13. TotalOK'
    BY <1>0, <1>2, <1>6, TotalSame DEF IInv
<1>14. CountersAgree'
  <2>1. \A v \in Tids : (phase'[v] = "running" /\ "FINISHED" \notin state'[v])
                            <=> (phase[v] = "running" /\ "FINISHED" \notin state[v])
      BY <1>3, <1>8
  <2>2. \A v \in Tids : \A f \in {"DETACHED", "FINISHED", "JOINED"} : f \in state'[v] <=> f \in state[v]
      BY <1>3, <1>8
  <2> QED
      BY <1>0, <1>2, <1>6, <2>1, <2>2, CountersSame DEF IInv
<1>15. GoneOK'
    BY <1>1, <1>2, <1>6, GoneStep
<1> QED
    BY <1>6, <1>9, <1>10, <1>11, <1>12, <1>13, <1>14, <1>15 DEF IInv

-----------------------------------------------------------------------------
(* The end of the main thread, and the whole *)

LEMMA MainEndsKeeps == ASSUME IInv, MainEnds PROVE IInv'
<1>1. /\ Ready(Main) /\ pool = Nobody /\ total = 0 /\ Main \in Everyone /\ agenda[Main] = <<>>
      /\ poolGone' = TRUE /\ interps' = interps \ {Main}
      /\ UNCHANGED <<phase, state, count, allocated, listed, objects, mutex, pool, agenda,
                     running, joinable, detached, total>>
    BY NobodyNone DEF MainEnds, PoolFree, Ready, counters
<1>2. /\ StacksOK' /\ Apart' /\ \A q \in Everyone : Stack(q)' = Stack(q)
      /\ \A x, v : Pending(x, v)' <=> Pending(x, v)
    BY <1>1 DEF IInv, StacksOK, Apart, Stack, Pending
<1>3. TypeOK'
    BY <1>1 DEF IInv, TypeOK
<1>4. CallsOK'
  <2> SUFFICES ASSUME NEW q \in Everyone, NEW a \in Stack(q)'
               PROVE  CallOK(q, a)'
      BY DEF CallsOK
  <2>1. CallOK(q, a)
      BY <1>2, CallAt
  <2> QED
      BY <1>1, <1>2, <2>1, CallSame
<1>5. ThreadsOK'
  <2> SUFFICES ASSUME NEW v \in Tids
               PROVE  (UnbornOK(v) /\ CreatingOK(v) /\ StateOK(v) /\ NonviableOK(v))'
      BY DEF ThreadsOK
  <2>1. v \in interps => v \in interps'
      BY <1>1, NobodyNone
  <2> QED
      BY <1>1, <2>1, OtherThread
<1>6. \A v \in Tids : RefOK(v)'
    BY <1>1, <1>2, RefSame DEF IInv
<1>7. TotalOK' /\ CountersAgree'
    BY <1>1, <1>2, TotalSame, CountersSame DEF IInv
<1>8. GoneOK'
    BY <1>1 DEF GoneOK
<1> QED
    BY <1>2, <1>3, <1>4, <1>5, <1>6, <1>7, <1>8 DEF IInv

LEMMA Initially == Init => IInv
<1> SUFFICES ASSUME Init PROVE IInv
    OBVIOUS
<1>1. \A p \in Everyone : agenda[p] = <<>> /\ Stack(p) = {}
    BY EmptyStack DEF Init
<1>2. TypeOK
  <2>1. Main \in Everyone /\ 0 \in 0..MaxObjects
      BY ThreadsAssumption DEF Everyone
  <2>2. /\ phase \in [Tids -> {"unborn", "creating", "running", "over"}]
        /\ state \in [Tids -> SUBSET Flags] /\ count \in [Tids -> Nat]
        /\ mutex \in [Tids -> Everyone \cup {Nobody}]
      BY DEF Init
  <2>3. objects \in [Everyone -> [Tids -> 0..MaxObjects]]
      BY <2>1 DEF Init
  <2>4. allocated \subseteq Tids /\ listed \subseteq allocated /\ interps \subseteq Everyone
      BY <2>1 DEF Init
  <2>5. pool \in Everyone \cup {Nobody} /\ poolGone \in BOOLEAN
      BY DEF Init
  <2>6. running = 0 /\ detached = 0 /\ total = 0 /\ joinable = 0
      BY DEF Init
  <2>7. running \in Nat /\ detached \in Nat /\ total \in Nat /\ joinable \in Int
      BY <2>6
  <2> QED
      BY <2>2, <2>3, <2>4, <2>5, <2>7 DEF TypeOK
<1>3. StacksOK
  <2>1. <<>> \in Seq(Calls) /\ Len(<<>>) = 0
      OBVIOUS
  <2>2. Linked(<<>>) /\ Once(<<>>)
      BY <2>1 DEF Linked, Once
  <2> QED
      BY <2>1, <2>2 DEF StacksOK, Init
<1>4. Apart /\ CallsOK
    BY <1>1 DEF Apart, CallsOK
<1>5. ThreadsOK
  <2> SUFFICES ASSUME NEW v \in Tids
               PROVE  UnbornOK(v) /\ CreatingOK(v) /\ StateOK(v) /\ NonviableOK(v)
      BY DEF ThreadsOK
  <2>1. v \in Everyone
      BY DEF Everyone
  <2>2. phase[v] = "unborn" /\ state[v] = {} /\ count[v] = 0 /\ agenda[v] = <<>>
      BY <2>1 DEF Init
  <2>3. NoObjects(v) /\ \A u \in Tids : objects[v][u] = 0
      BY <2>1 DEF Init, NoObjects
  <2> QED
      BY <2>2, <2>3 DEF Init, UnbornOK, CreatingOK, StateOK, NonviableOK
<1>6. \A v \in Tids : RefOK(v)
    BY DEF Init, RefOK
<1>7. \A x, v : ~Pending(x, v)
    BY <1>1 DEF Pending, Stack
<1>8. TotalOK
  <2>1. InTotal = {}
      BY <1>7 DEF Init, InTotal
  <2> QED
      BY <2>1, FS_EmptySet DEF Init, TotalOK
<1>9. CountersAgree
  <2> DEFINE Live == {u \in Tids : phase[u] = "running" /\ "FINISHED" \notin state[u]}
             Off == {u \in Tids : "DETACHED" \in state[u]}
             Ended == {u \in Tids : "FINISHED" \in state[u]}
             Uncounted == {u \in Tids : "JOINED" \in state[u] /\ ~Pending("unjoinable", u)}
  <2>1. Live \ Off = {} /\ Live \cap Off = {} /\ Ended \ Off = {} /\ Uncounted = {}
      BY DEF Init
  <2>2. /\ running = Cardinality(Live \ Off) /\ detached = Cardinality(Live \cap Off)
        /\ joinable = Cardinality(Ended \ Off) - Cardinality(Uncounted)
    <3>1. Cardinality(Live \ Off) = 0 /\ Cardinality(Live \cap Off) = 0
          /\ Cardinality(Ended \ Off) = 0 /\ Cardinality(Uncounted) = 0
        BY <2>1, FS_EmptySet
    <3>2. running = 0 /\ detached = 0 /\ joinable = 0
        BY DEF Init
    <3> QED
        BY <3>1, <3>2
  <2> QED
      BY <2>2 DEF CountersAgree
<1>10. GoneOK
    BY DEF Init, GoneOK
<1> QED
    BY <1>2, <1>3, <1>4, <1>5, <1>6, <1>8, <1>9, <1>10 DEF IInv

LEMMA Stuttering == ASSUME IInv, UNCHANGED vars PROVE IInv'
<1>1. UNCHANGED <<phase, state, count, allocated, listed, interps, objects, mutex, pool, agenda,
                  running, joinable, detached, total, poolGone>>
    BY DEF vars, refvars, counters
<1>2. /\ StacksOK' /\ Apart' /\ \A q \in Everyone : Stack(q)' = Stack(q)
      /\ \A x, v : Pending(x, v)' <=> Pending(x, v)
    BY <1>1 DEF IInv, StacksOK, Apart, Stack, Pending
<1>3. TypeOK' /\ GoneOK'
    BY <1>1 DEF IInv, TypeOK, GoneOK
<1>4. CallsOK'
  <2> SUFFICES ASSUME NEW q \in Everyone, NEW a \in Stack(q)'
               PROVE  CallOK(q, a)'
      BY DEF CallsOK
  <2>1. CallOK(q, a)
      BY <1>2, CallAt
  <2> QED
      BY <1>1, <1>2, <2>1, CallSame
<1>5. ThreadsOK'
    BY <1>1 DEF IInv, ThreadsOK, UnbornOK, CreatingOK, StateOK, NonviableOK, NoObjects
<1>6. \A v \in Tids : RefOK(v)'
    BY <1>1, <1>2, RefSame DEF IInv
<1>7. TotalOK' /\ CountersAgree'
    BY <1>1, <1>2, TotalSame, CountersSame DEF IInv
<1> QED
    BY <1>2, <1>3, <1>4, <1>5, <1>6, <1>7 DEF IInv

LEMMA EachStep == ASSUME ~FailsInCompany, IInv, [Next]_vars PROVE IInv'
<1>1. ASSUME NEW p \in Everyone, Continue(p) PROVE IInv'
  <2>1. CASE CloneObject(p) \/ Start(p) \/ StartFails(p)
      BY <2>1, CloneObjectKeeps, StartKeeps, StartFailsKeeps
  <2>2. CASE Release(p) \/ Unlink(p) \/ Destroy(p) \/ Dispose(p) \/ Uncount(p)
      BY <2>2, ReleaseKeeps, UnlinkKeeps, DestroyKeeps, DisposeKeeps, UncountKeeps
  <2>3. CASE ClearObject(p) \/ ClearEnds(p)
      BY <2>3, ClearObjectKeeps, ClearEndsKeeps
  <2>4. CASE JoinUncounts(p) \/ JoinReturns(p) \/ JoinCollects(p)
      BY <2>4, JoinUncountsKeeps, JoinReturnsKeeps, JoinCollectsKeeps
  <2>5. CASE DetachMarks(p) \/ DetachReleases(p)
      BY <2>5, DetachMarksKeeps, DetachReleasesKeeps
  <2>6. CASE Look(p) \/ Refer(p) \/ LookEnds(p)
      BY <2>6, LookKeeps, ReferKeeps, LookEndsKeeps
  <2> QED
      BY <1>1, <2>1, <2>2, <2>3, <2>4, <2>5, <2>6 DEF Continue
<1>2. ASSUME NEW p \in Everyone, Call(p) PROVE IInv'
  <2>1. CASE \E t \in Tids : Create(p, t) \/ DropObject(p, t) \/ Join(p, t) \/ Detach(p, t) \/ Object(p, t)
      BY <2>1, CreateKeeps, DropObjectKeeps, JoinKeeps, DetachKeeps, ObjectKeeps
  <2>2. CASE \E filter \in ListFilters : List(p, filter)
      BY <2>2, ListKeeps
  <2> QED
      BY <1>2, <2>1, <2>2 DEF Call
<1>3. ASSUME NEW t \in Tids, Ending(t) \/ Self(t) \/ Finish(t, {}) \/ Finish(t, {"DIED"}) PROVE IInv'
  <2>1. CASE Ending(t)
      BY <2>1, FinishMarksKeeps, FinishReleasesKeeps, ThreadEndsKeeps DEF Ending
  <2>2. CASE Self(t)
      BY <2>2, SelfKeeps
  <2>3. CASE Finish(t, {}) \/ Finish(t, {"DIED"})
      BY <2>3, FinishKeeps
  <2> QED
      BY <1>3, <2>1, <2>2, <2>3
<1> QED
    BY <1>1, <1>2, <1>3, MainEndsKeeps, Stuttering DEF Next

-----------------------------------------------------------------------------
(* What the invariant gives *)

\* No call refers to an ithread whose structure was freed: S_ithread_clear,
\* too, is called only by the steps of join, detach and S_ithread_free.
LEMMA CallsOnAllocated ==
    ASSUME IInv, NEW t \in Tids \ allocated, NEW p \in Everyone, NEW a \in Stack(p), a.t = t
    PROVE  a.op \in {"untotal", "exit"}
<1>1. CallOK(p, a) /\ t \in Tids /\ t \notin listed /\ a \in Calls /\ a.op # "unpool"
  <2>1. CallOK(p, a)
      BY CallAt
  <2>2. a.op # "unpool"
      BY <2>1, NobodyNone DEF CallOK, KnownOK
  <2>3. a \in Calls
      BY DEF IInv, StacksOK, Stack, ToSet
  <2> QED
      BY <2>1, <2>2, <2>3 DEF IInv, TypeOK
<1>2. count[t] = 0 /\ phase[t] # "unborn"
    BY <1>1 DEF CallOK, KnownOK, IInv, ThreadsOK, StateOK
<1>3. NoObjects(t) /\ phase[t] # "creating" /\ ~IsLive(t) /\ \A op \in RefCalls : ~Pending(op, t)
  <2>1. CASE "NONVIABLE" \notin state[t]
      BY <1>1, <1>2, <2>1, NoRefs, NobodyNone DEF IsLive
  <2>2. CASE "NONVIABLE" \in state[t]
    <3>1. NoObjects(t) /\ state[t] = {"NONVIABLE"} /\ phase[t] = "over"
        BY <1>1, <2>2 DEF IInv, ThreadsOK, NonviableOK
    <3>2. ASSUME NEW op \in RefCalls, NEW q \in Everyone, Do(op, t) \in Stack(q) PROVE FALSE
      <4>1. CallOK(q, Do(op, t)) /\ Do(op, t).op = op /\ Do(op, t).t = t
          BY <3>2, CallAt DEF Do
      <4>2. op \in Joining \cup {"detached", "release", "runfree"}
          BY DEF RefCalls
      <4> QED
          BY <1>2, <3>1, <4>1, <4>2 DEF CallOK, FreeOK, LifeOK
    <3>3. \A op \in RefCalls : ~Pending(op, t)
        BY <3>2 DEF Pending, Stack
    <3> QED
        BY <1>1, <3>1, <3>3, NobodyNone DEF IsLive
  <2> QED
      BY <2>1, <2>2
<1>4. a = Do(a.op, t)
    BY <1>1 DEF Calls, Do
<1>5. a.op \notin RefCalls
    BY <1>3, <1>4, PendingBy
<1>6. a.op \notin {"start", "detach", "finish", "die", "refer", "unlink", "destroy", "dispose"} \cup Lookups
    BY <1>1, <1>3 DEF CallOK, FreeOK, LifeOK, LookOK, NoObjects
<1>7. a.op # "clear"
  <2> SUFFICES ASSUME a.op = "clear" PROVE FALSE
      OBVIOUS
  <2> DEFINE s == agenda[p]
  <2>1. s \in Seq(Calls) /\ Linked(s)
      BY DEF IInv, StacksOK
  <2>2. PICK i \in 1..Len(s) : a = s[i]
      BY <2>1 DEF Stack, ToSet
  <2>3. i \in 1..Len(s) - 1
    <3>1. Len(s) \in Nat /\ s # <<>>
        BY <2>1, <2>2
    <3>2. s[Len(s)].op # "clear"
        BY <2>1, <3>1 DEF Linked
    <3> QED
        BY <2>2, <3>1, <3>2
  <2>4. Follows(a, s[i + 1]) /\ s[i + 1] \in Stack(p) /\ s[i + 1] \in Calls
    <3>1. Len(s) \in Nat /\ i + 1 \in 1..Len(s)
        BY <2>1, <2>3
    <3> QED
        BY <2>1, <2>2, <2>3, <3>1 DEF Linked, Stack, ToSet
  <2>5. s[i + 1].op \in {"release", "dispose"} /\ s[i + 1].t = t
      BY <2>4 DEF Follows, Freeing, Unlinking
  <2>6. CallOK(p, s[i + 1])
      BY <2>4, CallAt
  <2> QED
      BY <1>2, <2>5, <2>6 DEF CallOK, FreeOK
<1>8. a.op \in Ops
    BY <1>1 DEF Calls
<1> QED
    BY <1>1, <1>5, <1>6, <1>7, <1>8 DEF Ops, RefCalls, Freeing, Unlinking, Joining, Lookups

LEMMA Consequences ==
    ASSUME IInv
    PROVE  RefsCounted /\ NoUseAfterFree /\ InterpreterLives /\ PoolOutlives
<1>1. RefsCounted
    BY DEF IInv, RefsCounted, RefOK
<1>2. NoUseAfterFree
  <2> SUFFICES ASSUME NEW t \in Tids \ allocated
               PROVE  /\ \A i \in Everyone : objects[i][t] = 0
                      /\ \A p \in Everyone : \A a \in Stack(p) : a.t = t => a.op \in {"untotal", "exit"}
      BY DEF NoUseAfterFree, Stack
  <2>1. NoObjects(t)
    <3>1. UnbornOK(t) /\ StateOK(t) /\ NonviableOK(t) /\ t \notin listed
        BY DEF IInv, TypeOK, ThreadsOK
    <3>2. CASE phase[t] = "unborn" \/ "NONVIABLE" \in state[t]
        BY <3>1, <3>2 DEF UnbornOK, NonviableOK
    <3>3. CASE phase[t] # "unborn" /\ "NONVIABLE" \notin state[t]
        BY <3>1, <3>3, NoRefs DEF StateOK
    <3> QED
        BY <3>2, <3>3
  <2> QED
      BY <2>1, CallsOnAllocated DEF NoObjects
<1>3. InterpreterLives
  <2> SUFFICES ASSUME NEW t \in Tids
               PROVE  /\ phase[t] = "running" /\ "FINISHED" \notin state[t] => t \in interps
                      /\ "DIED" \in state[t] /\ InObjects(t) > 0 => t \in interps
      BY DEF InterpreterLives
  <2>1. StateOK(t) /\ UnbornOK(t) /\ NonviableOK(t) /\ count[t] \in Nat
      BY DEF IInv, TypeOK, ThreadsOK
  <2>2. "DIED" \in state[t] /\ InObjects(t) > 0 => count[t] > 0
    <3> SUFFICES ASSUME "DIED" \in state[t], InObjects(t) > 0
                 PROVE  count[t] # 0
        BY <2>1
    <3>1. ~NoObjects(t)
        BY InObjectsZero DEF IInv
    <3>2. phase[t] # "unborn" /\ "NONVIABLE" \notin state[t]
        BY <2>1 DEF UnbornOK, NonviableOK
    <3> QED
        BY <3>1, <3>2, NoRefs
  <2> QED
      BY <2>1, <2>2 DEF StateOK
<1>4. PoolOutlives
  <2> SUFFICES ASSUME poolGone, NEW t \in Tids
               PROVE  /\ \A a \in Stack(t) : a.op = "exit"
                      /\ phase[t] = "running" => "FINISHED" \in state[t]
      BY DEF PoolOutlives, Stack
  <2>1. total = 0 /\ pool = Nobody /\ InTotal = {} /\ t \in Everyone
    <3>1. IsFiniteSet(InTotal)
        BY EveryoneFinite, FS_Subset DEF InTotal
    <3>2. total = 0 /\ total = Cardinality(InTotal)
        BY DEF IInv, GoneOK, TotalOK
    <3> QED
        BY <3>1, <3>2, FS_EmptySet DEF IInv, GoneOK, Everyone
  <2>2. \A u \in Tids : u \notin allocated /\ ~Pending("untotal", u)
      BY <2>1 DEF InTotal
  <2>3. ASSUME NEW a \in Stack(t) PROVE a.op = "exit"
    <3>1. a.op \notin PoolOps /\ CallOK(t, a) /\ a \in Calls
      <4>1. a \in Calls
          BY <2>1 DEF IInv, StacksOK, Stack, ToSet
      <4> QED
          BY <2>1, <2>3, <4>1, NoPoolCalls, CallAt
    <3>2. a.t \in Tids /\ a = Do(a.op, a.t)
        BY <3>1 DEF CallOK, KnownOK, PoolOps, Calls, Do
    <3>3. a.op \in {"untotal", "exit"}
        BY <2>1, <2>2, <2>3, <3>2, CallsOnAllocated
    <3>4. a.op # "untotal"
        BY <2>1, <2>2, <2>3, <3>2, PendingBy
    <3> QED
        BY <3>3, <3>4
  <2>4. phase[t] = "running" => "FINISHED" \in state[t]
    <3>1. count[t] = 0 /\ (phase[t] = "running" /\ "FINISHED" \notin state[t] => "NONVIABLE" \notin state[t])
        BY <2>2 DEF IInv, TypeOK, ThreadsOK, StateOK
    <3> QED
        BY <3>1, NoRefs
  <2> QED
      BY <2>3, <2>4
<1> QED
    BY <1>1, <1>2, <1>3, <1>4

-----------------------------------------------------------------------------
(* The theorems *)

\* The invariant, of any number of threads and objects, wherever no thread
\* fails to start while others run (what becomes of an object that another
\* thread makes for it meanwhile is undefined).
THEOREM IThreadsInvariant == ASSUME ~FailsInCompany PROVE Spec => []IInv
<1>1. Init => IInv
    BY Initially
<1>2. IInv /\ [Next]_vars => IInv'
    BY EachStep
<1> QED
    BY <1>1, <1>2, PTL DEF Spec

\* Counts, counters and flags are what their declarations say, and the pool's
\* list holds only ithreads that exist.
THEOREM IThreadsTypeOK == ASSUME ~FailsInCompany PROVE Spec => []TypeOK
<1>1. IInv => TypeOK
    BY DEF IInv
<1> QED
    BY <1>1, IThreadsInvariant, PTL

\* ithread.count is the number of references: the objects in all interpreters,
\* the running thread, the one join or detach to come, and what is on its way
\* through S_ithread_free.
THEOREM CountIsReferences == ASSUME ~FailsInCompany PROVE Spec => []RefsCounted
<1>1. IInv => RefsCounted
    BY Consequences
<1> QED
    BY <1>1, IThreadsInvariant, PTL

\* An ithread structure is freed only when no object, no list and no call of
\* any thread, however deeply nested, refers to it.
THEOREM FreedUnreferenced == ASSUME ~FailsInCompany PROVE Spec => []NoUseAfterFree
<1>1. IInv => NoUseAfterFree
    BY Consequences
<1> QED
    BY <1>1, IThreadsInvariant, PTL

\* S_ithread_clear destroys no interpreter that a thread runs in, nor that of a
\* thread that died while an object may ask for its error.
THEOREM InterpretersLive == ASSUME ~FailsInCompany PROVE Spec => []InterpreterLives
<1>1. IInv => InterpreterLives
    BY Consequences
<1> QED
    BY <1>1, IThreadsInvariant, PTL

\* running_threads, detached_threads and joinable_threads are the threads that
\* they stand for, whichever of join, detach and the end comes first.
THEOREM PoolCounters == ASSUME ~FailsInCompany PROVE Spec => []CountersAgree
<1>1. IInv => CountersAgree
    BY DEF IInv
<1> QED
    BY <1>1, IThreadsInvariant, PTL

\* total_threads keeps the pool until the last thread is done with it.
THEOREM PoolOutlivesThreads == ASSUME ~FailsInCompany PROVE Spec => []PoolOutlives
<1>1. IInv => PoolOutlives
    BY Consequences
<1> QED
    BY <1>1, IThreadsInvariant, PTL

=============================================================================
