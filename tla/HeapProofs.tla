----------------------------- MODULE HeapProofs -----------------------------
(***************************************************************************)
(* For any SVs, classes and depth of nested frees: SvREFCNT is the number  *)
(* of those who hold the SV, references and back-references agree, and an  *)
(* SV is freed once.                                                       *)
(*                                                                         *)
(* And for any keys, sizes and iterators of a hash: while no free runs     *)
(* code of the program, the buckets, the counts, the iterator and the      *)
(* entry kept for it agree; and while no hole of Holes is open, nothing    *)
(* that a lookup or an iterator holds was freed, and each() returns every  *)
(* entry once.                                                             *)
(***************************************************************************)
EXTENDS SvHeap, HashIter, FiniteSetTheorems, SequenceTheorems,
        WellFoundedInduction, TLAPS

\* Where the sequence s has members of V, and how often; and a count of one.
Where(s, V) == {n \in 1..Len(s) : s[n] \in V}
Times(s, V) == Cardinality(Where(s, V))
One(b) == IF b THEN 1 ELSE 0

LEMMA OneIs == \A b \in BOOLEAN : One(b) \in {0, 1} /\ (b <=> One(b) = 1) /\ (~b <=> One(b) = 0)
BY DEF One

-----------------------------------------------------------------------------
(* Counting in sequences and sets *)

LEMMA WhereFinite ==
    ASSUME NEW S, NEW s \in Seq(S), NEW V
    PROVE  IsFiniteSet(Where(s, V)) /\ Times(s, V) \in Nat /\ (Times(s, V) = 0 <=> Where(s, V) = {})
<1>1. IsFiniteSet(1..Len(s))
    BY FS_Interval
<1>2. Where(s, V) \in SUBSET (1..Len(s))
    BY DEF Where
<1>3. IsFiniteSet(Where(s, V))
    BY <1>1, <1>2, FS_Subset
<1> QED
    BY <1>3, FS_CardinalityType, FS_EmptySet DEF Times

\* A sequence with one more element in front.
LEMMA PushSeq ==
    ASSUME NEW S, NEW a \in S, NEW s \in Seq(S)
    PROVE  /\ <<a>> \o s \in Seq(S) /\ <<a>> \o s # <<>>
           /\ Len(<<a>> \o s) = Len(s) + 1 /\ Len(s) \in Nat
           /\ (<<a>> \o s)[1] = a /\ Head(<<a>> \o s) = a
           /\ \A i \in 1..Len(s) : (<<a>> \o s)[i + 1] = s[i]
           /\ Tail(<<a>> \o s) = s
OBVIOUS

LEMMA PopSeq ==
    ASSUME NEW S, NEW s \in Seq(S), s # <<>>
    PROVE  /\ Head(s) \in S /\ Head(s) = s[1] /\ Tail(s) \in Seq(S)
           /\ Len(s) \in Nat \ {0} /\ Len(Tail(s)) = Len(s) - 1
           /\ \A i \in 1..Len(s) - 1 : Tail(s)[i] = s[i + 1]
           /\ s = <<Head(s)>> \o Tail(s)
OBVIOUS

LEMMA PushTimes ==
    ASSUME NEW S, NEW a \in S, NEW s \in Seq(S), NEW V
    PROVE  Times(<<a>> \o s, V) = Times(s, V) + One(a \in V)
<1> DEFINE z == <<a>> \o s
           W == Where(z, V)
           U == Where(s, V)
<1>1. /\ z \in Seq(S) /\ Len(z) = Len(s) + 1 /\ Len(s) \in Nat /\ z[1] = a
      /\ \A i \in 1..Len(s) : z[i + 1] = s[i]
    BY PushSeq
<1> HIDE DEF z
<1>2. IsFiniteSet(U) /\ IsFiniteSet(W) /\ Cardinality(U) \in Nat
    BY <1>1, WhereFinite DEF Times
<1>3. Cardinality(W \ {1}) = Cardinality(U)
  <2> DEFINE f == [n \in U |-> n + 1]
  <2>1. f \in [U -> W \ {1}]
    <3> SUFFICES ASSUME NEW n \in U PROVE n + 1 \in W /\ n + 1 # 1
        OBVIOUS
    <3> QED
        BY <1>1 DEF Where
  <2>2. \A m, n \in U : f[m] = f[n] => m = n
      BY DEF Where
  <2>3. \A m \in W \ {1} : \E n \in U : f[n] = m
    <3> SUFFICES ASSUME NEW m \in W \ {1} PROVE m - 1 \in U /\ f[m - 1] = m
        OBVIOUS
    <3>1. m \in 1..Len(s) + 1 /\ m # 1 /\ z[m] \in V
        BY <1>1 DEF Where
    <3>2. m - 1 \in 1..Len(s) /\ z[(m - 1) + 1] = s[m - 1] /\ (m - 1) + 1 = m
        BY <1>1, <3>1
    <3> QED
        BY <3>1, <3>2 DEF Where
  <2>4. f \in Bijection(U, W \ {1})
      BY <2>1, <2>2, <2>3 DEF Bijection, Injection, Surjection, IsInjective
  <2> QED
      BY <1>2, <2>4, FS_Bijection DEF ExistsBijection
<1>4. 1 \in W <=> a \in V
    BY <1>1 DEF Where
<1>5. Cardinality(W \ {1}) = IF 1 \in W THEN Cardinality(W) - 1 ELSE Cardinality(W)
    BY <1>2, FS_RemoveElement
<1>6. Cardinality(W) \in Nat
    BY <1>2, FS_CardinalityType
<1> QED
    BY <1>2, <1>3, <1>4, <1>5, <1>6 DEF Times, One, z

LEMMA PopTimes ==
    ASSUME NEW S, NEW s \in Seq(S), s # <<>>, NEW V
    PROVE  Times(s, V) = Times(Tail(s), V) + One(Head(s) \in V)
<1>1. \A a \in S, r \in Seq(S) : Times(<<a>> \o r, V) = Times(r, V) + One(a \in V)
    BY PushTimes
<1>2. Head(s) \in S /\ Tail(s) \in Seq(S) /\ s = <<Head(s)>> \o Tail(s)
    BY PopSeq
<1>3. Times(<<Head(s)>> \o Tail(s), V) = Times(Tail(s), V) + One(Head(s) \in V)
    BY <1>1, <1>2
<1> QED
    BY <1>2, <1>3, Zenon

LEMMA AppendTimes ==
    ASSUME NEW S, NEW a \in S, NEW s \in Seq(S), NEW V
    PROVE  Times(Append(s, a), V) = Times(s, V) + One(a \in V)
<1> DEFINE z == Append(s, a)
           W == Where(z, V)
           U == Where(s, V)
           n == Len(s) + 1
<1>1. /\ z \in Seq(S) /\ Len(z) = n /\ Len(s) \in Nat /\ z[n] = a
      /\ \A i \in 1..Len(s) : z[i] = s[i]
    OBVIOUS
<1> HIDE DEF z
<1>2. IsFiniteSet(U) /\ IsFiniteSet(W) /\ Cardinality(W) \in Nat
    BY <1>1, WhereFinite DEF Times
<1>3. W \ {n} = U
    BY <1>1 DEF Where
<1>4. n \in W <=> a \in V
    BY <1>1 DEF Where
<1>5. Cardinality(W \ {n}) = IF n \in W THEN Cardinality(W) - 1 ELSE Cardinality(W)
    BY <1>2, FS_RemoveElement
<1>6. Cardinality(U) = IF a \in V THEN Cardinality(W) - 1 ELSE Cardinality(W)
    BY <1>3, <1>4, <1>5
<1> HIDE DEF W, U
<1>7. Cardinality(W) = Cardinality(U) + One(a \in V)
    BY <1>2, <1>6 DEF One
<1> QED
    BY <1>7 DEF Times, z, W, U

LEMMA LastTimes ==
    ASSUME NEW S, NEW s \in Seq(S), Len(s) > 0, NEW V
    PROVE  /\ Front(s) \in Seq(S) /\ Last(s) \in S /\ Last(s) = s[Len(s)] /\ Len(s) \in 1..Len(s)
           /\ \A i \in 1..Len(Front(s)) : i \in 1..Len(s) /\ Front(s)[i] = s[i]
           /\ Times(s, V) = Times(Front(s), V) + One(Last(s) \in V)
<1> DEFINE n == Len(s)
<1>1. n \in Nat /\ n > 0 /\ n - 1 \in 0..n /\ n - 1 \in Nat /\ n \in 1..n
    OBVIOUS
<1>2. ASSUME NEW m \in 0..n
      PROVE  /\ SubSeq(s, 1, m) \in Seq(S) /\ Len(SubSeq(s, 1, m)) = m
             /\ \A i \in 1..m : SubSeq(s, 1, m)[i] = s[i]
    OBVIOUS
<1>3. Front(s) \in Seq(S) /\ Len(Front(s)) = n - 1 /\ \A i \in 1..n - 1 : Front(s)[i] = s[i]
    BY <1>1, <1>2 DEF Front
<1>4. Last(s) = s[n] /\ s[n] \in S
    BY <1>1 DEF Last
<1>5. Where(s, V) \ {n} = Where(Front(s), V)
    BY <1>1, <1>3 DEF Where
<1>6. n \in Where(s, V) <=> s[n] \in V
    BY <1>1 DEF Where
<1>7. IsFiniteSet(Where(s, V)) /\ Cardinality(Where(s, V)) \in Nat
    BY WhereFinite DEF Times
<1>8. Cardinality(Where(s, V) \ {n}) =
          IF n \in Where(s, V) THEN Cardinality(Where(s, V)) - 1 ELSE Cardinality(Where(s, V))
    BY <1>7, FS_RemoveElement
<1>9. Times(s, V) = Times(Front(s), V) + One(Last(s) \in V)
  <2> DEFINE W == Where(s, V)
             U == Where(Front(s), V)
  <2>1. Cardinality(U) = IF s[n] \in V THEN Cardinality(W) - 1 ELSE Cardinality(W)
      BY <1>5, <1>6, <1>8
  <2>2. Cardinality(W) \in Nat
      BY <1>7
  <2> HIDE DEF W, U
  <2>3. Cardinality(W) = Cardinality(U) + One(s[n] \in V)
      BY <2>1, <2>2 DEF One
  <2> QED
      BY <1>4, <2>3 DEF Times, W, U
<1> QED
    BY <1>1, <1>3, <1>4, <1>9

\* Sets that agree but at r.
LEMMA AgreeBut ==
    ASSUME NEW A, NEW B, IsFiniteSet(A), IsFiniteSet(B), NEW r, A \ {r} = B \ {r}
    PROVE  /\ Cardinality(B) + One(r \in A) = Cardinality(A) + One(r \in B)
           /\ Cardinality(A) \in Nat /\ Cardinality(B) \in Nat
<1>1. Cardinality(A) \in Nat /\ Cardinality(B) \in Nat
    BY FS_CardinalityType
<1>2. /\ Cardinality(A \ {r}) = IF r \in A THEN Cardinality(A) - 1 ELSE Cardinality(A)
      /\ Cardinality(B \ {r}) = IF r \in B THEN Cardinality(B) - 1 ELSE Cardinality(B)
    BY FS_RemoveElement
<1> QED
    BY <1>1, <1>2 DEF One

-----------------------------------------------------------------------------
(* The inductive invariant *)

FrameSet == [do : {"dec", "clear", "DESTROY"}, sv : Svs,
             ran : Packages \cup {NoPackage}, floor : Nat]
            \cup [do : {"tmps"}, sv : {NoSv}, ran : {NoPackage}, floor : Nat]
Kind(what, s) == {f \in FrameSet : f.do = what /\ f.sv = s}

SvTypes ==
    /\ alive \subseteq Svs /\ pad \subseteq Svs /\ weak \subseteq Svs
    /\ rv \in [Svs -> Svs \cup {NoSv}] /\ backrefs \in [Svs -> SUBSET Svs]
    /\ refcnt \in [Svs -> Nat] /\ stash \in [Svs -> Packages \cup {NoPackage}]
    /\ mortals \in Seq(Svs) /\ frames \in Seq(FrameSet)

\* Those who hold s: the strong references to it, and all of them.
Refs(s) == {r \in Svs : rv[r] = s /\ r \notin weak}
Waiting(what, s) == Times(frames, Kind(what, s))
Holders(s) == One(s \in pad) + Cardinality(Refs(s)) + Times(mortals, {s})
              + Waiting("dec", s) + Waiting("DESTROY", s)

\* A freed SV has no holders, and nothing is left to do about it.
Counted == \A s \in Svs : /\ s \in alive => refcnt[s] = Holders(s)
                          /\ s \notin alive => Holders(s) = 0 /\ Waiting("clear", s) = 0

Once == \A s \in Svs : /\ Waiting("clear", s) <= 1
                       /\ s \in alive /\ refcnt[s] = 0 => Waiting("clear", s) > 0

\* sv_clear goes on only when the DESTROY it has called is over.
Nests(fs) ==
    \A n \in 1..Len(fs) :
        /\ fs[n].do = "clear" /\ n > 1 => fs[n - 1].do = "DESTROY" /\ fs[n - 1].sv = fs[n].sv
        /\ fs[n].do = "DESTROY" => /\ n < Len(fs)
                                   /\ fs[n + 1].do = "clear" /\ fs[n + 1].sv = fs[n].sv

SvInvariant == SvTypes /\ SvWeakCoherent /\ Counted /\ Once /\ Nests(frames)

LEMMA FrameFacts ==
    ASSUME NEW f \in FrameSet
    PROVE  /\ f.do \in {"dec", "clear", "DESTROY", "tmps"} /\ f.floor \in Nat
           /\ f.do # "tmps" => f.sv \in Svs
           /\ \A what, s : f \in Kind(what, s) <=> f.do = what /\ f.sv = s
BY DEF FrameSet, Kind

LEMMA MakeFrame ==
    /\ \A what \in {"dec", "clear", "DESTROY"}, s \in Svs, class \in Packages \cup {NoPackage}, n \in Nat :
          /\ Frame(what, s, class, n) \in FrameSet
          /\ Frame(what, s, class, n).do = what /\ Frame(what, s, class, n).sv = s
    /\ \A n \in Nat : /\ Frame("tmps", NoSv, NoPackage, n) \in FrameSet
                      /\ Frame("tmps", NoSv, NoPackage, n).do = "tmps"
    /\ \A s \in Svs : Dec(s) \in FrameSet /\ Dec(s).do = "dec" /\ Dec(s).sv = s
BY DEF Frame, Dec, FrameSet

\* The parts of Holders are natural numbers, of finite sets.
LEMMA HolderTypes ==
    ASSUME SvTypes, NEW s \in Svs
    PROVE  /\ One(s \in pad) \in {0, 1} /\ IsFiniteSet(Refs(s)) /\ Cardinality(Refs(s)) \in Nat
           /\ Times(mortals, {s}) \in Nat
           /\ \A what : Waiting(what, s) \in Nat
<1>1. IsFiniteSet(Refs(s))
  <2>1. Refs(s) \in SUBSET Svs
      BY DEF Refs
  <2> QED
      BY <2>1, FS_Subset, SvAssumption
<1>2. Times(mortals, {s}) \in Nat
    BY WhereFinite DEF SvTypes
<1>3. \A what : Waiting(what, s) \in Nat
    BY WhereFinite DEF SvTypes, Waiting
<1> QED
    BY <1>1, <1>2, <1>3, FS_CardinalityType DEF One

\* Who is held is alive.
LEMMA HeldAlive ==
    ASSUME SvInvariant, NEW s \in Svs
    PROVE  /\ s \in pad => s \in alive
           /\ \A r \in Svs : r \in Refs(s) => s \in alive
           /\ Times(mortals, {s}) > 0 => s \in alive
           /\ \A what \in {"dec", "DESTROY", "clear"} : Waiting(what, s) > 0 => s \in alive
<1>1. s \notin alive => Holders(s) = 0 /\ Waiting("clear", s) = 0
    BY DEF SvInvariant, Counted
<1>2. s \notin alive => /\ One(s \in pad) = 0 /\ Cardinality(Refs(s)) = 0
                        /\ Times(mortals, {s}) = 0 /\ Waiting("dec", s) = 0
                        /\ Waiting("DESTROY", s) = 0 /\ Waiting("clear", s) = 0
    BY <1>1, HolderTypes DEF SvInvariant, Holders
<1>3. Cardinality(Refs(s)) = 0 => Refs(s) = {}
    BY HolderTypes, FS_EmptySet DEF SvInvariant
<1> QED
    BY <1>2, <1>3 DEF One

-----------------------------------------------------------------------------
(* Steps of the stack of frames *)

LEMMA NestPush ==
    ASSUME NEW fs \in Seq(FrameSet), NEW f \in FrameSet, Nests(fs),
           fs # <<>> /\ Head(fs).do = "clear" => f.do = "DESTROY" /\ f.sv = Head(fs).sv,
           f.do = "DESTROY" => fs # <<>> /\ Head(fs).do = "clear" /\ Head(fs).sv = f.sv
    PROVE  Nests(<<f>> \o fs)
<1> DEFINE gs == <<f>> \o fs
<1>1. /\ gs \in Seq(FrameSet) /\ Len(gs) = Len(fs) + 1 /\ Len(fs) \in Nat /\ gs[1] = f
      /\ \A i \in 1..Len(fs) : gs[i + 1] = fs[i]
    BY PushSeq
<1> HIDE DEF gs
<1>2. fs # <<>> <=> Len(fs) > 0
    OBVIOUS
<1>3. Len(fs) > 0 => Head(fs) = fs[1]
    OBVIOUS
<1>4. ASSUME NEW n \in 1..Len(fs) + 1
      PROVE  /\ gs[n].do = "clear" /\ n > 1 => gs[n - 1].do = "DESTROY" /\ gs[n - 1].sv = gs[n].sv
             /\ gs[n].do = "DESTROY" => /\ n < Len(fs) + 1
                                        /\ gs[n + 1].do = "clear" /\ gs[n + 1].sv = gs[n].sv
  <2>1. CASE n = 1
    <3>1. gs[n] = f /\ (Len(fs) > 0 => gs[n + 1] = Head(fs))
        BY <1>1, <1>3, <2>1
    <3> QED
        BY <1>1, <1>2, <2>1, <3>1
  <2>2. CASE n # 1
    <3>1. n - 1 \in 1..Len(fs) /\ gs[n] = fs[n - 1]
      <4>1. n - 1 \in 1..Len(fs) /\ (n - 1) + 1 = n
          BY <1>1, <2>2
      <4> QED
          BY <1>1, <4>1
    <3>2. PICK m \in 1..Len(fs) : m = n - 1 /\ gs[n] = fs[m]
        BY <3>1
    <3>3. /\ fs[m].do = "clear" /\ m > 1 => fs[m - 1].do = "DESTROY" /\ fs[m - 1].sv = fs[m].sv
          /\ fs[m].do = "DESTROY" => m < Len(fs) /\ fs[m + 1].do = "clear" /\ fs[m + 1].sv = fs[m].sv
        BY DEF Nests
    <3>4. m > 1 => gs[m] = fs[m - 1]
      <4>1. m > 1 => m - 1 \in 1..Len(fs) /\ (m - 1) + 1 = m
          BY <1>1
      <4> QED
          BY <1>1, <4>1
    <3>5. m = 1 => gs[m] = f /\ fs[m] = Head(fs)
        BY <1>1, <1>3
    <3>6. m < Len(fs) => gs[n + 1] = fs[m + 1]
      <4>1. m < Len(fs) => m + 1 \in 1..Len(fs) /\ (m + 1) + 1 = n + 1
          BY <1>1, <3>2
      <4> QED
          BY <1>1, <4>1
    <3>7. gs[n].do = "clear" => gs[n - 1].do = "DESTROY" /\ gs[n - 1].sv = gs[n].sv
      <4>1. CASE m = 1
          BY <1>1, <1>2, <3>2, <3>5, <4>1
      <4>2. CASE m > 1
          BY <3>2, <3>3, <3>4, <4>2
      <4> QED
          BY <4>1, <4>2
    <3>8. gs[n].do = "DESTROY" => /\ n < Len(fs) + 1
                                  /\ gs[n + 1].do = "clear" /\ gs[n + 1].sv = gs[n].sv
        BY <1>1, <3>2, <3>3, <3>6
    <3> QED
        BY <3>7, <3>8
  <2> QED
      BY <2>1, <2>2
<1> QED
    BY <1>1, <1>4 DEF Nests, gs

LEMMA NestPop ==
    ASSUME NEW fs \in Seq(FrameSet), fs # <<>>, Nests(fs)
    PROVE  Nests(Tail(fs))
<1>1. /\ Len(fs) \in Nat \ {0} /\ Len(Tail(fs)) = Len(fs) - 1
      /\ \A i \in 1..Len(fs) - 1 : Tail(fs)[i] = fs[i + 1]
    BY PopSeq
<1>2. ASSUME NEW n \in 1..Len(fs) - 1
      PROVE  LET gs == Tail(fs)
             IN  /\ gs[n].do = "clear" /\ n > 1 => gs[n - 1].do = "DESTROY" /\ gs[n - 1].sv = gs[n].sv
                 /\ gs[n].do = "DESTROY" => /\ n < Len(fs) - 1
                                            /\ gs[n + 1].do = "clear" /\ gs[n + 1].sv = gs[n].sv
  <2>1. PICK m \in 1..Len(fs) : m = n + 1
      BY <1>1
  <2>2. /\ fs[m].do = "clear" /\ m > 1 => fs[m - 1].do = "DESTROY" /\ fs[m - 1].sv = fs[m].sv
        /\ fs[m].do = "DESTROY" => m < Len(fs) /\ fs[m + 1].do = "clear" /\ fs[m + 1].sv = fs[m].sv
      BY DEF Nests
  <2>3. Tail(fs)[n] = fs[m] /\ (n > 1 => Tail(fs)[n - 1] = fs[m - 1])
    <3>1. n > 1 => n - 1 \in 1..Len(fs) - 1 /\ (n - 1) + 1 = m - 1
        BY <1>1, <2>1
    <3> QED
        BY <1>1, <2>1, <3>1
  <2>4. n < Len(fs) - 1 => Tail(fs)[n + 1] = fs[m + 1]
    <3>1. n < Len(fs) - 1 => n + 1 \in 1..Len(fs) - 1 /\ (n + 1) + 1 = m + 1
        BY <1>1, <2>1
    <3> QED
        BY <1>1, <3>1
  <2> QED
      BY <1>1, <2>1, <2>2, <2>3, <2>4
<1> QED
    BY <1>1, <1>2 DEF Nests

LEMMA KindPush ==
    ASSUME NEW fs \in Seq(FrameSet), NEW f \in FrameSet, NEW what, NEW s
    PROVE  Times(<<f>> \o fs, Kind(what, s)) = Times(fs, Kind(what, s)) + One(f.do = what /\ f.sv = s)
<1>1. Times(<<f>> \o fs, Kind(what, s)) = Times(fs, Kind(what, s)) + One(f \in Kind(what, s))
    BY PushTimes
<1>2. (f \in Kind(what, s)) = (f.do = what /\ f.sv = s)
    BY FrameFacts
<1> QED
    BY <1>1, <1>2

LEMMA KindPop ==
    ASSUME NEW fs \in Seq(FrameSet), fs # <<>>, NEW what, NEW s
    PROVE  /\ Times(fs, Kind(what, s)) = Times(Tail(fs), Kind(what, s))
                                         + One(Head(fs).do = what /\ Head(fs).sv = s)
           /\ Times(Tail(fs), Kind(what, s)) \in Nat
<1>1. Times(fs, Kind(what, s)) = Times(Tail(fs), Kind(what, s)) + One(Head(fs) \in Kind(what, s))
    BY PopTimes
<1>2. Head(fs) \in FrameSet /\ Tail(fs) \in Seq(FrameSet)
    BY PopSeq
<1>3. (Head(fs) \in Kind(what, s)) = (Head(fs).do = what /\ Head(fs).sv = s)
    BY <1>2, FrameFacts
<1>4. Times(Tail(fs), Kind(what, s)) \in Nat
    BY <1>2, WhereFinite
<1> QED
    BY <1>1, <1>3, <1>4

LEMMA FramesPush ==
    ASSUME SvTypes, Nests(frames), NEW f \in FrameSet, f.do # "DESTROY",
           frames # <<>> => Head(frames).do # "clear", frames' = <<f>> \o frames
    PROVE  /\ frames' \in Seq(FrameSet) /\ Nests(frames')
           /\ \A what, s : Waiting(what, s)' = Waiting(what, s) + One(f.do = what /\ f.sv = s)
<1>1. frames \in Seq(FrameSet)
    BY DEF SvTypes
<1>2. frames' \in Seq(FrameSet)
    BY <1>1, PushSeq
<1>3. Nests(frames')
    BY <1>1, NestPush
<1>4. \A what, s : Waiting(what, s)' = Waiting(what, s) + One(f.do = what /\ f.sv = s)
    BY <1>1, KindPush DEF Waiting
<1> QED
    BY <1>2, <1>3, <1>4

LEMMA FramesPop ==
    ASSUME SvTypes, Nests(frames), frames # <<>>, frames' = Tail(frames)
    PROVE  /\ frames' \in Seq(FrameSet) /\ Nests(frames')
           /\ \A what, s : /\ Waiting(what, s) = Waiting(what, s)' + One(Head(frames).do = what /\ Head(frames).sv = s)
                           /\ Waiting(what, s)' \in Nat
<1>1. frames \in Seq(FrameSet)
    BY DEF SvTypes
<1>2. frames' \in Seq(FrameSet)
    BY <1>1, PopSeq
<1>3. Nests(frames')
    BY <1>1, NestPop
<1>4. \A what, s : /\ Waiting(what, s) = Waiting(what, s)' + One(Head(frames).do = what /\ Head(frames).sv = s)
                   /\ Waiting(what, s)' \in Nat
    BY <1>1, KindPop DEF Waiting
<1> QED
    BY <1>2, <1>3, <1>4

\* The SV of the frame on top.
LEMMA OnTop ==
    ASSUME SvInvariant, frames # <<>>
    PROVE  LET f == Head(frames)
           IN  /\ f \in FrameSet /\ f.do \in {"dec", "clear", "DESTROY", "tmps"} /\ f.floor \in Nat
               /\ f.do # "tmps" => f.sv \in Svs /\ f.sv \in alive /\ Waiting(f.do, f.sv) >= 1
<1> DEFINE f == Head(frames)
<1>1. frames \in Seq(FrameSet)
    BY DEF SvInvariant, SvTypes
<1>2. f \in FrameSet
    BY <1>1, PopSeq
<1> HIDE DEF f
<1>3. ASSUME f.do # "tmps"
      PROVE  f.sv \in Svs /\ f.sv \in alive /\ Waiting(f.do, f.sv) >= 1
  <2>1. f.sv \in Svs /\ f.do \in {"dec", "DESTROY", "clear"}
      BY <1>2, <1>3, FrameFacts
  <2>2. /\ Times(frames, Kind(f.do, f.sv)) = Times(Tail(frames), Kind(f.do, f.sv)) + One(TRUE)
        /\ Times(Tail(frames), Kind(f.do, f.sv)) \in Nat
      BY <1>1, KindPop DEF f
  <2>3. Waiting(f.do, f.sv) >= 1
      BY <2>2 DEF Waiting, One
  <2>4. Waiting(f.do, f.sv) > 0
      BY <2>2 DEF Waiting, One
  <2> QED
      BY <2>1, <2>3, <2>4, HeldAlive
<1> QED
    BY <1>2, <1>3, FrameFacts DEF f

\* What running code reaches is alive.
LEMMA ReachedAlive ==
    ASSUME SvInvariant, PerlRuns
    PROVE  Reached \subseteq alive /\ (frames # <<>> => Head(frames).do # "clear")
<1>1. AtHand \subseteq alive
  <2>1. pad \subseteq alive
      BY HeldAlive DEF SvInvariant, SvTypes
  <2>2. InFrame("DESTROY") => Head(frames).sv \in alive
      BY OnTop DEF InFrame
  <2> QED
      BY <2>1, <2>2 DEF AtHand
<1>2. Followed(alive) /\ alive \in SUBSET Svs
    BY DEF Followed, SvInvariant, SvTypes, SvWeakCoherent
<1>3. frames # <<>> => Head(frames).do # "clear"
    BY DEF PerlRuns, InFrame
<1> QED
    BY <1>1, <1>2, <1>3 DEF Reached

\* One reference changes.
LEMMA RefsChange ==
    ASSUME SvTypes, SvTypes', NEW s \in Svs, NEW r \in Svs,
           \A q \in Svs : q # r => (rv'[q] = s /\ q \notin weak' <=> rv[q] = s /\ q \notin weak)
    PROVE  /\ Cardinality(Refs(s)') + One(rv[r] = s /\ r \notin weak)
                  = Cardinality(Refs(s)) + One(rv'[r] = s /\ r \notin weak')
           /\ Cardinality(Refs(s)') \in Nat
<1>1. IsFiniteSet(Refs(s)) /\ IsFiniteSet(Refs(s)')
  <2>1. Refs(s) \in SUBSET Svs /\ Refs(s)' \in SUBSET Svs
      BY DEF Refs
  <2> QED
      BY <2>1, FS_Subset, SvAssumption
<1>2. Refs(s) \ {r} = Refs(s)' \ {r}
    BY DEF Refs
<1>3. /\ Cardinality(Refs(s)') + One(r \in Refs(s)) = Cardinality(Refs(s)) + One(r \in Refs(s)')
      /\ Cardinality(Refs(s)') \in Nat
    BY <1>1, <1>2, AgreeBut
<1>4. /\ (r \in Refs(s)) = (rv[r] = s /\ r \notin weak)
      /\ (r \in Refs(s)') = (rv'[r] = s /\ r \notin weak')
    BY DEF Refs
<1> QED
    BY <1>3, <1>4

LEMMA RefsSame ==
    ASSUME UNCHANGED <<rv, weak>>, NEW s
    PROVE  Refs(s)' = Refs(s)
BY DEF Refs

LEMMA OnceKept ==
    ASSUME SvInvariant, UNCHANGED alive,
           \A s \in Svs : Waiting("clear", s)' = Waiting("clear", s),
           \A s \in alive : refcnt'[s] = 0 => refcnt[s] = 0
    PROVE  Once'
BY DEF Once, SvInvariant

\* sv_del_backref.
LEMMA BackrefsOf ==
    ASSUME SvInvariant, NEW r \in Svs
    PROVE  /\ BackrefsWithout(r) \in [Svs -> SUBSET Svs]
           /\ \A q, u \in Svs : q \in BackrefsWithout(r)[u] <=> q \in weak /\ rv[q] = u /\ q # r
<1>1. /\ backrefs \in [Svs -> SUBSET Svs]
      /\ \A q, u \in Svs : q \in backrefs[u] <=> q \in weak /\ rv[q] = u
    BY DEF SvInvariant, SvTypes, SvWeakCoherent
<1> QED
    BY <1>1 DEF BackrefsWithout

\* r lets go of what it refers to.
LEMMA Released ==
    ASSUME SvInvariant, PerlRuns, NEW r \in Svs, LetsGo(r)
    PROVE  /\ frames' \in Seq(FrameSet) /\ Nests(frames')
           /\ \A s \in Svs : /\ Waiting("dec", s)' = Waiting("dec", s) + One(rv[r] = s /\ r \notin weak)
                             /\ Waiting("clear", s)' = Waiting("clear", s)
                             /\ Waiting("DESTROY", s)' = Waiting("DESTROY", s)
<1>1. \A what : \A s \in Svs : Waiting(what, s) \in Nat
    BY HolderTypes DEF SvInvariant
<1>2. CASE Strong(r)
  <2>1. rv[r] \in Svs /\ r \notin weak
      BY <1>2 DEF Strong, SvInvariant, SvTypes
  <2>2. PICK f : f = Dec(rv[r])
      OBVIOUS
  <2>3. f \in FrameSet /\ f.do = "dec" /\ f.sv = rv[r]
      BY <2>1, <2>2, MakeFrame
  <2>4. frames' = <<f>> \o frames
      BY <1>2, <2>2 DEF LetsGo, Push
  <2>5. /\ frames' \in Seq(FrameSet) /\ Nests(frames')
        /\ \A what, s : Waiting(what, s)' = Waiting(what, s) + One(f.do = what /\ f.sv = s)
      BY <2>3, <2>4, FramesPush, ReachedAlive DEF SvInvariant
  <2>6. /\ \A s \in Svs : Waiting("dec", s)' = Waiting("dec", s) + One(rv[r] = s /\ r \notin weak)
        /\ \A s \in Svs : Waiting("clear", s)' = Waiting("clear", s) + One(FALSE)
        /\ \A s \in Svs : Waiting("DESTROY", s)' = Waiting("DESTROY", s) + One(FALSE)
    <3>1. /\ \A s : (f.do = "dec" /\ f.sv = s) = (rv[r] = s /\ r \notin weak)
          /\ \A s : (f.do = "clear" /\ f.sv = s) = FALSE
          /\ \A s : (f.do = "DESTROY" /\ f.sv = s) = FALSE
        BY <2>1, <2>3
    <3> QED
        BY <2>5, <3>1
  <2> QED
      BY <1>1, <2>5, <2>6 DEF One
<1>3. CASE ~Strong(r)
  <2>1. frames' = frames /\ \A s \in Svs : ~(rv[r] = s /\ r \notin weak)
      BY <1>3, SvAssumption DEF LetsGo, Strong
  <2> QED
      BY <1>1, <2>1 DEF One, Waiting, SvInvariant, SvTypes
<1> QED
    BY <1>2, <1>3

-----------------------------------------------------------------------------
(* Steps of the program *)

LEMMA HolderParts ==
    ASSUME SvInvariant, NEW s \in Svs
    PROVE  /\ Holders(s) \in Nat /\ refcnt[s] \in Nat
           /\ s \in alive => refcnt[s] = Holders(s)
           /\ s \in pad => Holders(s) >= 1
           /\ \A r \in Svs : rv[r] = s /\ r \notin weak => Cardinality(Refs(s)) >= 1 /\ Holders(s) >= 1
<1>1. /\ One(s \in pad) \in {0, 1} /\ IsFiniteSet(Refs(s)) /\ Cardinality(Refs(s)) \in Nat
      /\ Times(mortals, {s}) \in Nat /\ Waiting("dec", s) \in Nat /\ Waiting("DESTROY", s) \in Nat
    BY HolderTypes DEF SvInvariant
<1>2. s \in pad => One(s \in pad) = 1
    BY DEF One
<1>3. \A r \in Svs : rv[r] = s /\ r \notin weak => Cardinality(Refs(s)) >= 1
  <2>1. (\E r \in Svs : rv[r] = s /\ r \notin weak) => Refs(s) # {}
      BY DEF Refs
  <2>2. Refs(s) # {} => Cardinality(Refs(s)) # 0
      BY <1>1, FS_EmptySet
  <2> QED
      BY <1>1, <2>1, <2>2
<1>4. Holders(s) \in Nat /\ Holders(s) >= One(s \in pad) /\ Holders(s) >= Cardinality(Refs(s))
    BY <1>1 DEF Holders
<1> QED
    BY <1>1, <1>2, <1>3, <1>4 DEF SvInvariant, SvTypes, Counted

\* The counts and the holders change together.
LEMMA CountedBy ==
    ASSUME SvInvariant, UNCHANGED alive, SvTypes',
           \A s \in Svs : Holders(s)' \in Nat /\ Holders(s)' + refcnt[s] = Holders(s) + refcnt'[s],
           \A s \in Svs \ alive : refcnt'[s] = refcnt[s],
           \A s \in Svs \ alive : Waiting("clear", s)' = Waiting("clear", s)
    PROVE  Counted'
<1> SUFFICES ASSUME NEW s \in Svs
             PROVE  /\ s \in alive => refcnt'[s] = Holders(s)'
                    /\ s \notin alive => Holders(s)' = 0 /\ Waiting("clear", s)' = 0
    BY DEF Counted
<1>1. Holders(s) \in Nat /\ refcnt[s] \in Nat /\ refcnt'[s] \in Nat /\ Holders(s)' \in Nat
    BY HolderParts DEF SvTypes
<1>2. Holders(s)' + refcnt[s] = Holders(s) + refcnt'[s]
    OBVIOUS
<1>3. CASE s \in alive
  <2>1. refcnt[s] = Holders(s)
      BY <1>3 DEF SvInvariant, Counted
  <2> QED
      BY <1>1, <1>2, <1>3, <2>1
<1>4. CASE s \notin alive
  <2>1. Holders(s) = 0 /\ Waiting("clear", s) = 0 /\ refcnt'[s] = refcnt[s]
      BY <1>4 DEF SvInvariant, Counted
  <2> QED
      BY <1>1, <1>2, <1>4, <2>1
<1> QED
    BY <1>3, <1>4

LEMMA FramesSame ==
    ASSUME UNCHANGED frames
    PROVE  \A what, s : Waiting(what, s)' = Waiting(what, s)
BY DEF Waiting

LEMMA NewSvKeeps == ASSUME SvInvariant, NEW x \in Svs, NewSv(x) PROVE SvInvariant'
<1>1. /\ x \notin alive /\ alive' = alive \cup {x} /\ pad' = pad \cup {x}
      /\ refcnt' = [refcnt EXCEPT ![x] = 1]
      /\ UNCHANGED <<rv, weak, backrefs, stash, mortals, frames>>
    BY DEF NewSv
<1>2. SvTypes'
    BY <1>1 DEF SvInvariant, SvTypes
<1>3. SvWeakCoherent'
    BY <1>1 DEF SvInvariant, SvWeakCoherent
<1>4. Counted' /\ Once'
  <2> SUFFICES ASSUME NEW s \in Svs
               PROVE  /\ s \in alive' => refcnt'[s] = Holders(s)'
                      /\ s \notin alive' => Holders(s)' = 0 /\ Waiting("clear", s)' = 0
                      /\ Waiting("clear", s)' <= 1
                      /\ s \in alive' /\ refcnt'[s] = 0 => Waiting("clear", s)' > 0
      BY DEF Counted, Once
  <2>1. \A what : Waiting(what, s)' = Waiting(what, s)
      BY <1>1, FramesSame
  <2>2. Refs(s)' = Refs(s)
      BY <1>1, RefsSame
  <2>3. /\ One(s \in pad) \in {0, 1} /\ Cardinality(Refs(s)) \in Nat /\ Times(mortals, {s}) \in Nat
        /\ Waiting("dec", s) \in Nat /\ Waiting("DESTROY", s) \in Nat
      BY HolderTypes DEF SvInvariant
  <2>4. CASE s = x
    <3>1. Holders(s) = 0 /\ One(s \in pad') = 1 /\ refcnt'[s] = 1
        BY <1>1, <2>4 DEF SvInvariant, Counted, One, SvTypes
    <3>2. One(s \in pad) = 0
        BY <2>3, <3>1 DEF Holders
    <3>3. Holders(s)' = 1
        BY <1>1, <2>1, <2>2, <2>3, <3>1, <3>2 DEF Holders
    <3>4. Waiting("clear", s)' <= 1
        BY <2>1 DEF SvInvariant, Once
    <3> QED
        BY <1>1, <2>4, <3>1, <3>3, <3>4
  <2>5. CASE s # x
    <3>1. (s \in pad') = (s \in pad) /\ refcnt'[s] = refcnt[s] /\ (s \in alive' <=> s \in alive)
        BY <1>1, <2>5 DEF SvInvariant, SvTypes
    <3>2. Holders(s)' = Holders(s)
        BY <1>1, <2>1, <2>2, <3>1 DEF Holders
    <3> QED
        BY <2>1, <3>1, <3>2 DEF SvInvariant, Counted, Once
  <2> QED
      BY <2>4, <2>5
<1> QED
    BY <1>1, <1>2, <1>3, <1>4 DEF SvInvariant

LEMMA StrongIs ==
    ASSUME SvInvariant, NEW r \in Svs
    PROVE  /\ Strong(r) => /\ rv[r] \in Svs /\ rv[r] \in alive
                           /\ refcnt[rv[r]] \in Nat /\ refcnt[rv[r]] >= 1
           /\ \A s \in Svs : (rv[r] = s /\ r \notin weak) = (Strong(r) /\ rv[r] = s)
<1>1. Strong(r) => rv[r] \in Svs /\ rv[r] \in alive
    BY DEF Strong, SvInvariant, SvTypes, SvWeakCoherent
<1>2. ASSUME Strong(r) PROVE refcnt[rv[r]] \in Nat /\ refcnt[rv[r]] >= 1
  <2>1. PICK s \in Svs : s = rv[r]
      BY <1>1, <1>2
  <2> QED
      BY <1>1, <1>2, <2>1, HolderParts DEF Strong
<1>3. \A s \in Svs : (rv[r] = s /\ r \notin weak) = (Strong(r) /\ rv[r] = s)
    BY SvAssumption DEF Strong
<1> QED
    BY <1>1, <1>2, <1>3

LEMMA AssignRefKeeps ==
    ASSUME SvInvariant, NEW r \in Svs, NEW t \in Svs, AssignRef(r, t)
    PROVE  SvInvariant'
<1> DEFINE mortal == MakesMortal(r)
           dropped == Strong(r) /\ ~MakesMortal(r)
<1>1. /\ PerlRuns /\ {r, t} \subseteq Reached
      /\ mortals' = IF mortal THEN Append(mortals, rv[r]) ELSE mortals
      /\ backrefs' = BackrefsWithout(r)
      /\ rv' = [rv EXCEPT ![r] = t] /\ weak' = weak \ {r}
      /\ UNCHANGED <<alive, stash, pad, frames>>
    BY DEF AssignRef
<1>2. r \in alive /\ t \in alive
    BY <1>1, ReachedAlive
<1>3. refcnt \in [Svs -> Nat] /\ rv \in [Svs -> Svs \cup {NoSv}]
    BY DEF SvInvariant, SvTypes
<1>4. Strong(r) => /\ rv[r] \in Svs /\ rv[r] \in alive
                   /\ refcnt[rv[r]] \in Nat /\ refcnt[rv[r]] >= 1
    BY StrongIs
<1>5. dropped => refcnt[rv[r]] >= 2
    BY <1>4 DEF MakesMortal
<1>6. /\ refcnt' \in [Svs -> Nat]
      /\ \A s \in Svs : refcnt'[s] = refcnt[s] + One(t = s) - One(dropped /\ rv[r] = s)
      /\ \A s \in Svs : refcnt'[s] = 0 => refcnt[s] = 0
  <2>1. PICK given : given = [refcnt EXCEPT ![t] = @ + 1]
      OBVIOUS
  <2>2. /\ given \in [Svs -> Nat] /\ \A s \in Svs : given[s] = refcnt[s] + One(t = s)
        /\ refcnt' = IF dropped THEN [given EXCEPT ![rv[r]] = @ - 1] ELSE given
      BY <1>3, <2>1 DEF AssignRef, One
  <2>3. CASE dropped
    <3>1. PICK x \in Svs : x = rv[r]
        BY <1>4, <2>3
    <3>2. given[x] \in Nat /\ given[x] >= 2
      <4>1. refcnt[x] \in Nat /\ refcnt[x] >= 2 /\ One(t = x) \in {0, 1}
          BY <1>3, <1>5, <2>3, <3>1 DEF One
      <4> QED
          BY <2>2, <4>1
    <3>3. refcnt' = [given EXCEPT ![x] = @ - 1]
        BY <2>2, <2>3, <3>1
    <3>4. refcnt' \in [Svs -> Nat] /\ \A s \in Svs : refcnt'[s] = given[s] - One(x = s)
        BY <2>2, <3>2, <3>3 DEF One
    <3>5. \A s \in Svs : refcnt'[s] = 0 => refcnt[s] = 0
      <4> SUFFICES ASSUME NEW s \in Svs, refcnt'[s] = 0 PROVE refcnt[s] = 0
          OBVIOUS
      <4>1. s # x
          BY <3>2, <3>4 DEF One
      <4>2. given[s] = 0
          BY <2>2, <3>4, <4>1 DEF One
      <4> QED
          BY <1>3, <2>2, <4>2 DEF One
    <3>6. \A s \in Svs : (dropped /\ rv[r] = s) = (x = s)
        BY <2>3, <3>1
    <3>7. ASSUME NEW s \in Svs
          PROVE  refcnt'[s] = refcnt[s] + One(t = s) - One(dropped /\ rv[r] = s)
      <4>1. refcnt'[s] = given[s] - One(x = s) /\ given[s] = refcnt[s] + One(t = s)
          BY <2>2, <3>4
      <4>2. One(dropped /\ rv[r] = s) = One(x = s)
          BY <3>6
      <4>3. refcnt'[s] = refcnt[s] + One(t = s) - One(x = s)
        <5>1. refcnt[s] \in Nat /\ One(t = s) \in {0, 1} /\ One(x = s) \in {0, 1}
            BY <1>3 DEF One
        <5> QED
            BY <4>1, <5>1
      <4> QED
          BY <4>2, <4>3, Zenon
    <3> QED
        BY <3>4, <3>5, <3>7
  <2>4. CASE ~dropped
    <3>1. refcnt' = given /\ \A s \in Svs : One(dropped /\ rv[r] = s) = 0
        BY <2>2, <2>4 DEF One
    <3>2. ASSUME NEW s \in Svs
          PROVE  /\ refcnt'[s] = refcnt[s] + One(t = s) - One(dropped /\ rv[r] = s)
                 /\ refcnt'[s] = 0 => refcnt[s] = 0
      <4>1. /\ refcnt'[s] = refcnt[s] + One(t = s) /\ One(dropped /\ rv[r] = s) = 0
            /\ refcnt[s] \in Nat /\ One(t = s) \in {0, 1}
          BY <1>3, <2>2, <3>1 DEF One
      <4> QED
          BY <4>1
    <3> QED
        BY <2>2, <3>1, <3>2
  <2> QED
      BY <2>3, <2>4
<1>7. /\ mortals' \in Seq(Svs)
      /\ \A s \in Svs : Times(mortals', {s}) = Times(mortals, {s}) + One(mortal /\ rv[r] = s)
  <2>1. mortals \in Seq(Svs) /\ \A s \in Svs : Times(mortals, {s}) \in Nat
      BY HolderTypes DEF SvInvariant, SvTypes
  <2>2. CASE mortal
    <3>1. PICK x \in Svs : x = rv[r]
        BY <1>4, <2>2 DEF MakesMortal
    <3>2. mortals' = Append(mortals, x)
        BY <1>1, <2>2, <3>1
    <3>3. \A s \in Svs : Times(mortals', {s}) = Times(mortals, {s}) + One(x \in {s})
        BY <2>1, <3>2, AppendTimes
    <3>4. \A s \in Svs : (x \in {s}) = (mortal /\ rv[r] = s)
        BY <2>2, <3>1
    <3> QED
        BY <2>1, <3>2, <3>3, <3>4
  <2>3. CASE ~mortal
      BY <1>1, <2>1, <2>3 DEF One
  <2> QED
      BY <2>2, <2>3
<1>8. SvTypes'
    BY <1>1, <1>6, <1>7, BackrefsOf DEF SvInvariant, SvTypes
<1>9. SvWeakCoherent'
    BY <1>1, <1>2, BackrefsOf DEF SvInvariant, SvWeakCoherent, SvTypes
<1>10. \A what, s : Waiting(what, s)' = Waiting(what, s)
    BY <1>1, FramesSame
<1>11. ASSUME NEW s \in Svs
       PROVE  Holders(s)' \in Nat /\ Holders(s)' + refcnt[s] = Holders(s) + refcnt'[s]
  <2>1. /\ Cardinality(Refs(s)') + One(Strong(r) /\ rv[r] = s) = Cardinality(Refs(s)) + One(t = s)
        /\ Cardinality(Refs(s)') \in Nat
    <3>1. \A q \in Svs : q # r => (rv'[q] = s /\ q \notin weak' <=> rv[q] = s /\ q \notin weak)
        BY <1>1, <1>3
    <3>2. /\ Cardinality(Refs(s)') + One(rv[r] = s /\ r \notin weak)
                 = Cardinality(Refs(s)) + One(rv'[r] = s /\ r \notin weak')
          /\ Cardinality(Refs(s)') \in Nat
        BY <1>8, <3>1, RefsChange DEF SvInvariant
    <3>3. (rv[r] = s /\ r \notin weak) = (Strong(r) /\ rv[r] = s)
        BY StrongIs
    <3>4. (rv'[r] = s /\ r \notin weak') = (t = s)
        BY <1>1, <1>3
    <3> QED
        BY <3>2, <3>3, <3>4
  <2>2. One(Strong(r) /\ rv[r] = s) = One(mortal /\ rv[r] = s) + One(dropped /\ rv[r] = s)
      BY DEF MakesMortal, One
  <2>3. /\ One(s \in pad) \in {0, 1} /\ Cardinality(Refs(s)) \in Nat /\ Times(mortals, {s}) \in Nat
        /\ Waiting("dec", s) \in Nat /\ Waiting("DESTROY", s) \in Nat
      BY HolderTypes DEF SvInvariant
  <2>4. Times(mortals', {s}) \in Nat /\ refcnt[s] \in Nat /\ refcnt'[s] \in Nat
      BY <1>3, <1>6, <1>7, WhereFinite
  <2>5. /\ One(t = s) \in {0, 1} /\ One(mortal /\ rv[r] = s) \in {0, 1}
        /\ One(dropped /\ rv[r] = s) \in {0, 1}
      BY DEF One
  <2>6. /\ refcnt'[s] = refcnt[s] + One(t = s) - One(dropped /\ rv[r] = s)
        /\ Times(mortals', {s}) = Times(mortals, {s}) + One(mortal /\ rv[r] = s)
      BY <1>6, <1>7
  <2> HIDE DEF mortal, dropped
  <2>7. Holders(s)' = One(s \in pad) + Cardinality(Refs(s)') + Times(mortals', {s})
                      + Waiting("dec", s) + Waiting("DESTROY", s)
      BY <1>1, <1>10 DEF Holders
  <2> QED
      BY <2>1, <2>2, <2>3, <2>4, <2>5, <2>6, <2>7 DEF Holders
<1>12. \A s \in Svs \ alive : refcnt'[s] = refcnt[s]
  <2> SUFFICES ASSUME NEW s \in Svs \ alive PROVE refcnt'[s] = refcnt[s]
      OBVIOUS
  <2>1. t # s /\ ~(dropped /\ rv[r] = s)
      BY <1>2, <1>4
  <2> QED
      BY <1>3, <1>6, <2>1 DEF One
<1>13. Counted'
    BY <1>1, <1>8, <1>10, <1>11, <1>12, CountedBy
<1>14. Once'
    BY <1>1, <1>6, <1>10, OnceKept DEF SvInvariant, SvTypes
<1> QED
    BY <1>1, <1>8, <1>9, <1>13, <1>14 DEF SvInvariant

\* r gives up its reference, and may take another.
LEMMA ReleaseKeeps ==
    ASSUME SvInvariant, PerlRuns, NEW r \in Svs, LetsGo(r), SvTypes', SvWeakCoherent',
           UNCHANGED <<alive, pad, mortals>>,
           \A s \in Svs, q \in Svs : q # r => (rv'[q] = s /\ q \notin weak' <=> rv[q] = s /\ q \notin weak),
           \A s \in Svs : refcnt'[s] = refcnt[s] + One(rv'[r] = s /\ r \notin weak')
    PROVE  SvInvariant'
<1>1. /\ Nests(frames')
      /\ \A s \in Svs : /\ Waiting("dec", s)' = Waiting("dec", s) + One(rv[r] = s /\ r \notin weak)
                        /\ Waiting("clear", s)' = Waiting("clear", s)
                        /\ Waiting("DESTROY", s)' = Waiting("DESTROY", s)
    BY Released
<1>2. \A s \in Svs : refcnt[s] \in Nat /\ refcnt'[s] \in Nat
    BY DEF SvInvariant, SvTypes
<1>3. ASSUME NEW s \in Svs
      PROVE  /\ Holders(s)' \in Nat /\ Holders(s)' + refcnt[s] = Holders(s) + refcnt'[s]
             /\ refcnt'[s] = 0 => refcnt[s] = 0
  <2> DEFINE lost == One(rv[r] = s /\ r \notin weak)
             won == One(rv'[r] = s /\ r \notin weak')
  <2>1. /\ Cardinality(Refs(s)') + lost = Cardinality(Refs(s)) + won
        /\ Cardinality(Refs(s)') \in Nat
      BY RefsChange DEF SvInvariant
  <2>2. /\ One(s \in pad) \in {0, 1} /\ Cardinality(Refs(s)) \in Nat /\ Times(mortals, {s}) \in Nat
        /\ Waiting("dec", s) \in Nat /\ Waiting("DESTROY", s) \in Nat
      BY HolderTypes DEF SvInvariant
  <2>3. lost \in {0, 1} /\ won \in {0, 1}
      BY DEF One
  <2>4. refcnt'[s] = refcnt[s] + won /\ Waiting("dec", s)' = Waiting("dec", s) + lost
      BY <1>1
  <2> HIDE DEF lost, won
  <2>5. Holders(s)' = One(s \in pad) + Cardinality(Refs(s)') + Times(mortals, {s})
                      + Waiting("dec", s)' + Waiting("DESTROY", s)
      BY <1>1 DEF Holders
  <2> QED
      BY <1>2, <2>1, <2>2, <2>3, <2>4, <2>5 DEF Holders
<1>4. ASSUME NEW s \in Svs \ alive PROVE refcnt'[s] = refcnt[s]
  <2>1. rv'[r] # s
      BY SvAssumption DEF SvWeakCoherent
  <2> QED
      BY <1>2, <2>1 DEF One
<1>5. Counted'
    BY <1>1, <1>3, <1>4, CountedBy
<1>6. Once'
    BY <1>1, <1>3, OnceKept DEF SvInvariant, SvTypes
<1> QED
    BY <1>1, <1>5, <1>6 DEF SvInvariant

LEMMA AssignBodylessKeeps ==
    ASSUME SvInvariant, NEW r \in Svs, NEW t \in Svs, AssignBodyless(r, t)
    PROVE  SvInvariant'
<1>1. /\ PerlRuns /\ {r, t} \subseteq Reached /\ LetsGo(r)
      /\ refcnt' = [refcnt EXCEPT ![t] = @ + 1]
      /\ backrefs' = BackrefsWithout(r)
      /\ rv' = [rv EXCEPT ![r] = t] /\ weak' = weak \ {r}
      /\ UNCHANGED <<alive, stash, pad, mortals>>
    BY DEF AssignBodyless
<1>2. r \in alive /\ t \in alive
    BY <1>1, ReachedAlive
<1>3. refcnt \in [Svs -> Nat] /\ rv \in [Svs -> Svs \cup {NoSv}]
    BY DEF SvInvariant, SvTypes
<1>4. SvTypes'
    BY <1>1, BackrefsOf, Released DEF SvInvariant, SvTypes
<1>5. SvWeakCoherent'
    BY <1>1, <1>2, BackrefsOf DEF SvInvariant, SvWeakCoherent, SvTypes
<1>6. \A s \in Svs, q \in Svs : q # r => (rv'[q] = s /\ q \notin weak' <=> rv[q] = s /\ q \notin weak)
    BY <1>1, <1>3
<1>7. \A s \in Svs : refcnt'[s] = refcnt[s] + One(rv'[r] = s /\ r \notin weak')
    BY <1>1, <1>3 DEF One
<1> QED
    BY <1>1, <1>4, <1>5, <1>6, <1>7, ReleaseKeeps

LEMMA UndefKeeps == ASSUME SvInvariant, NEW r \in Svs, Undef(r) PROVE SvInvariant'
<1>1. /\ PerlRuns /\ LetsGo(r)
      /\ backrefs' = BackrefsWithout(r)
      /\ rv' = [rv EXCEPT ![r] = NoSv] /\ weak' = weak \ {r}
      /\ UNCHANGED <<refcnt, alive, stash, pad, mortals>>
    BY DEF Undef
<1>2. refcnt \in [Svs -> Nat] /\ rv \in [Svs -> Svs \cup {NoSv}]
    BY DEF SvInvariant, SvTypes
<1>3. SvTypes'
    BY <1>1, BackrefsOf, Released DEF SvInvariant, SvTypes
<1>4. SvWeakCoherent'
    BY <1>1, BackrefsOf, SvAssumption DEF SvInvariant, SvWeakCoherent, SvTypes
<1>5. \A s \in Svs, q \in Svs : q # r => (rv'[q] = s /\ q \notin weak' <=> rv[q] = s /\ q \notin weak)
    BY <1>1, <1>2
<1>6. \A s \in Svs : refcnt'[s] = refcnt[s] + One(rv'[r] = s /\ r \notin weak')
    BY <1>1, <1>2, SvAssumption DEF One
<1> QED
    BY <1>1, <1>3, <1>4, <1>5, <1>6, ReleaseKeeps

LEMMA WeakenKeeps == ASSUME SvInvariant, NEW r \in Svs, Weaken(r) PROVE SvInvariant'
<1>1. /\ PerlRuns /\ Strong(r) /\ LetsGo(r)
      /\ backrefs' = [backrefs EXCEPT ![rv[r]] = @ \cup {r}]
      /\ weak' = weak \cup {r}
      /\ UNCHANGED <<refcnt, alive, rv, stash, pad, mortals>>
    BY DEF Weaken, LetsGo
<1>2. PICK x \in Svs : x = rv[r]
    BY <1>1, StrongIs
<1>3. /\ refcnt \in [Svs -> Nat] /\ backrefs \in [Svs -> SUBSET Svs]
      /\ \A q, u \in Svs : q \in backrefs[u] <=> q \in weak /\ rv[q] = u
    BY DEF SvInvariant, SvTypes, SvWeakCoherent
<1>4. /\ backrefs' \in [Svs -> SUBSET Svs]
      /\ \A q, u \in Svs : q \in backrefs'[u] <=> q \in weak' /\ rv'[q] = u
    BY <1>1, <1>2, <1>3
<1>5. SvTypes'
    BY <1>1, <1>4, Released DEF SvInvariant, SvTypes
<1>6. SvWeakCoherent'
    BY <1>1, <1>4 DEF SvInvariant, SvWeakCoherent
<1>7. \A s \in Svs, q \in Svs : q # r => (rv'[q] = s /\ q \notin weak' <=> rv[q] = s /\ q \notin weak)
    BY <1>1
<1>8. \A s \in Svs : refcnt'[s] = refcnt[s] + One(rv'[r] = s /\ r \notin weak')
    BY <1>1, <1>3 DEF One
<1> QED
    BY <1>1, <1>5, <1>6, <1>7, <1>8, ReleaseKeeps

\* sv_clear and leave_scope: x loses its value, and its weak references theirs.
LEMMA Forgets ==
    ASSUME SvInvariant, NEW x \in Svs,
           rv' = [[q \in Svs |-> IF q \in backrefs[x] THEN NoSv ELSE rv[q]] EXCEPT ![x] = NoSv],
           weak' = weak \ (backrefs[x] \cup {x}),
           backrefs' = [BackrefsWithout(x) EXCEPT ![x] = {}]
    PROVE  /\ rv' \in [Svs -> Svs \cup {NoSv}] /\ weak' \subseteq Svs
           /\ backrefs' \in [Svs -> SUBSET Svs]
           /\ \A q \in Svs : rv'[q] = IF q = x \/ (q \in weak /\ rv[q] = x) THEN NoSv ELSE rv[q]
           /\ \A q, u \in Svs : q \in backrefs'[u] <=> q \in weak' /\ rv'[q] = u
           /\ \A s \in Svs, q \in Svs :
                 q # x => (rv'[q] = s /\ q \notin weak' <=> rv[q] = s /\ q \notin weak)
<1>1. /\ rv \in [Svs -> Svs \cup {NoSv}] /\ backrefs \in [Svs -> SUBSET Svs] /\ weak \subseteq Svs
      /\ \A q, u \in Svs : q \in backrefs[u] <=> q \in weak /\ rv[q] = u
    BY DEF SvInvariant, SvTypes, SvWeakCoherent
<1>2. /\ rv' \in [Svs -> Svs \cup {NoSv}]
      /\ \A q \in Svs : rv'[q] = IF q = x \/ (q \in weak /\ rv[q] = x) THEN NoSv ELSE rv[q]
    BY <1>1
<1>3. \A q \in Svs : q \in weak' <=> q \in weak /\ rv[q] # x /\ q # x
    BY <1>1
<1>4. /\ backrefs' \in [Svs -> SUBSET Svs]
      /\ \A q, u \in Svs : q \in backrefs'[u] <=> q \in weak /\ rv[q] = u /\ q # x /\ u # x
    BY BackrefsOf
<1>5. \A q, u \in Svs : q \in backrefs'[u] <=> q \in weak' /\ rv'[q] = u
    BY <1>2, <1>3, <1>4, SvAssumption
<1>6. ASSUME NEW s \in Svs, NEW q \in Svs, q # x
      PROVE  rv'[q] = s /\ q \notin weak' <=> rv[q] = s /\ q \notin weak
  <2>1. s # NoSv
      BY SvAssumption
  <2>2. CASE q \in weak /\ rv[q] = x
      BY <1>2, <2>1, <2>2
  <2>3. CASE ~(q \in weak /\ rv[q] = x)
      BY <1>2, <1>3, <1>6, <2>3
  <2> QED
      BY <2>2, <2>3
<1> QED
    BY <1>1, <1>2, <1>4, <1>5, <1>6

LEMMA ClearInPlaceKeeps == ASSUME SvInvariant, NEW x \in Svs, ClearInPlace(x) PROVE SvInvariant'
<1>1. /\ PerlRuns /\ LetsGo(x)
      /\ rv' = [[q \in Svs |-> IF q \in backrefs[x] THEN NoSv ELSE rv[q]] EXCEPT ![x] = NoSv]
      /\ weak' = weak \ (backrefs[x] \cup {x})
      /\ backrefs' = [BackrefsWithout(x) EXCEPT ![x] = {}]
      /\ UNCHANGED <<refcnt, alive, stash, pad, mortals>>
    BY DEF ClearInPlace
<1>2. /\ rv' \in [Svs -> Svs \cup {NoSv}] /\ weak' \subseteq Svs
      /\ backrefs' \in [Svs -> SUBSET Svs]
      /\ \A q \in Svs : rv'[q] = IF q = x \/ (q \in weak /\ rv[q] = x) THEN NoSv ELSE rv[q]
      /\ \A q, u \in Svs : q \in backrefs'[u] <=> q \in weak' /\ rv'[q] = u
      /\ \A s \in Svs, q \in Svs :
            q # x => (rv'[q] = s /\ q \notin weak' <=> rv[q] = s /\ q \notin weak)
    BY <1>1, Forgets
<1>3. SvTypes'
    BY <1>1, <1>2, Released DEF SvInvariant, SvTypes
<1>4. SvWeakCoherent'
  <2>1. \A q \in Svs : rv'[q] # NoSv => q \in alive /\ rv'[q] \in alive
      BY <1>2 DEF SvInvariant, SvWeakCoherent
  <2> QED
      BY <1>1, <1>2, <2>1 DEF SvWeakCoherent
<1>5. \A s \in Svs : refcnt'[s] = refcnt[s] + One(rv'[x] = s /\ x \notin weak')
    BY <1>1, <1>2, SvAssumption DEF One, SvInvariant, SvTypes
<1> QED
    BY <1>1, <1>2, <1>3, <1>4, <1>5, ReleaseKeeps

LEMMA UnweakenKeeps == ASSUME SvInvariant, NEW r \in Svs, Unweaken(r) PROVE SvInvariant'
<1>1. /\ r \in weak
      /\ refcnt' = [refcnt EXCEPT ![rv[r]] = @ + 1]
      /\ backrefs' = BackrefsWithout(r) /\ weak' = weak \ {r}
      /\ UNCHANGED <<alive, rv, stash, pad, mortals, frames>>
    BY DEF Unweaken
<1>2. refcnt \in [Svs -> Nat] /\ rv \in [Svs -> Svs \cup {NoSv}]
    BY DEF SvInvariant, SvTypes
<1>3. /\ refcnt' \in [Svs -> Nat]
      /\ \A s \in Svs : refcnt'[s] = refcnt[s] + One(rv[r] = s) /\ (refcnt'[s] = 0 => refcnt[s] = 0)
  <2>1. refcnt' \in [Svs -> Nat]
    <3>1. PICK x : x = rv[r]
        OBVIOUS
    <3>2. refcnt' = [refcnt EXCEPT ![x] = @ + 1]
        BY <1>1, <3>1
    <3>3. x \in Svs => refcnt[x] + 1 \in Nat
        BY <1>2
    <3>4. x \notin Svs => refcnt' = refcnt
        BY <1>2, <3>2
    <3> QED
        BY <1>2, <3>2, <3>3, <3>4
  <2>2. ASSUME NEW s \in Svs
        PROVE  refcnt'[s] = refcnt[s] + One(rv[r] = s) /\ (refcnt'[s] = 0 => refcnt[s] = 0)
    <3>1. CASE rv[r] = s
      <4>1. refcnt'[s] = refcnt[s] + 1 /\ refcnt[s] \in Nat
          BY <1>1, <1>2, <3>1
      <4> QED
          BY <3>1, <4>1 DEF One
    <3>2. CASE rv[r] # s
      <4>1. refcnt'[s] = refcnt[s] /\ refcnt[s] \in Nat
          BY <1>1, <1>2, <3>2
      <4> QED
          BY <3>2, <4>1 DEF One
    <3> QED
        BY <3>1, <3>2
  <2> QED
      BY <2>1, <2>2
<1>4. SvTypes'
    BY <1>1, <1>3, BackrefsOf DEF SvInvariant, SvTypes
<1>5. SvWeakCoherent'
    BY <1>1, BackrefsOf DEF SvInvariant, SvWeakCoherent
<1>6. \A what, s : Waiting(what, s)' = Waiting(what, s)
    BY <1>1, FramesSame
<1>7. ASSUME NEW s \in Svs
      PROVE  Holders(s)' \in Nat /\ Holders(s)' + refcnt[s] = Holders(s) + refcnt'[s]
  <2> DEFINE won == One(rv[r] = s)
  <2>1. Cardinality(Refs(s)') = Cardinality(Refs(s)) + won /\ Cardinality(Refs(s)) \in Nat
    <3>1. \A q \in Svs : q # r => (rv'[q] = s /\ q \notin weak' <=> rv[q] = s /\ q \notin weak)
        BY <1>1
    <3>2. /\ Cardinality(Refs(s)') + One(rv[r] = s /\ r \notin weak)
                 = Cardinality(Refs(s)) + One(rv'[r] = s /\ r \notin weak')
          /\ Cardinality(Refs(s)') \in Nat
        BY <1>4, <3>1, RefsChange DEF SvInvariant
    <3>3. One(rv[r] = s /\ r \notin weak) = 0 /\ (rv'[r] = s /\ r \notin weak') = (rv[r] = s)
        BY <1>1 DEF One
    <3>4. Cardinality(Refs(s)') + 0 = Cardinality(Refs(s)) + won
        BY <3>2, <3>3
    <3>5. Cardinality(Refs(s)) \in Nat
        BY HolderTypes DEF SvInvariant
    <3> QED
        BY <3>2, <3>4, <3>5
  <2>2. /\ One(s \in pad) \in {0, 1} /\ Times(mortals, {s}) \in Nat
        /\ Waiting("dec", s) \in Nat /\ Waiting("DESTROY", s) \in Nat
      BY HolderTypes DEF SvInvariant
  <2>3. won \in {0, 1} /\ refcnt'[s] = refcnt[s] + won /\ refcnt[s] \in Nat
      BY <1>2, <1>3 DEF One
  <2> HIDE DEF won
  <2>4. Holders(s)' = One(s \in pad) + Cardinality(Refs(s)') + Times(mortals, {s})
                      + Waiting("dec", s) + Waiting("DESTROY", s)
      BY <1>1, <1>6 DEF Holders
  <2> QED
      BY <2>1, <2>2, <2>3, <2>4 DEF Holders
<1>8. \A s \in Svs \ alive : refcnt'[s] = refcnt[s]
    BY <1>2, <1>3, SvAssumption DEF One, SvInvariant, SvWeakCoherent
<1>9. Counted' /\ Once'
    BY <1>1, <1>3, <1>4, <1>6, <1>7, <1>8, CountedBy, OnceKept DEF SvInvariant, SvTypes
<1> QED
    BY <1>1, <1>4, <1>5, <1>9 DEF SvInvariant

LEMMA AbandonKeeps == ASSUME SvInvariant, NEW x \in Svs, Abandon(x) PROVE SvInvariant'
<1>1. /\ PerlRuns /\ x \in pad /\ pad' = pad \ {x} /\ Push(Dec(x))
      /\ UNCHANGED <<refcnt, alive, rv, weak, backrefs, stash, mortals>>
    BY DEF Abandon
<1>2. PICK f : f = Dec(x)
    OBVIOUS
<1>3. f \in FrameSet /\ f.do = "dec" /\ f.sv = x /\ frames' = <<f>> \o frames
    BY <1>1, <1>2, MakeFrame DEF Push
<1>4. /\ frames' \in Seq(FrameSet) /\ Nests(frames')
      /\ \A what, s : Waiting(what, s)' = Waiting(what, s) + One(f.do = what /\ f.sv = s)
    BY <1>1, <1>3, FramesPush, ReachedAlive DEF SvInvariant
<1>5. SvTypes'
    BY <1>1, <1>4 DEF SvInvariant, SvTypes
<1>6. SvWeakCoherent'
    BY <1>1 DEF SvInvariant, SvWeakCoherent
<1>7. ASSUME NEW s \in Svs
      PROVE  /\ Holders(s)' \in Nat /\ Holders(s)' + refcnt[s] = Holders(s) + refcnt'[s]
             /\ Waiting("clear", s)' = Waiting("clear", s)
  <2>1. /\ One(s \in pad) \in {0, 1} /\ Cardinality(Refs(s)) \in Nat /\ Times(mortals, {s}) \in Nat
        /\ Waiting("dec", s) \in Nat /\ Waiting("DESTROY", s) \in Nat /\ Waiting("clear", s) \in Nat
        /\ refcnt[s] \in Nat
      BY HolderTypes DEF SvInvariant, SvTypes
  <2>2. One(s \in pad') + One(f.sv = s) = One(s \in pad) /\ One(f.sv = s) \in {0, 1}
        /\ One(s \in pad') \in {0, 1}
      BY <1>1, <1>3 DEF One
  <2>3. /\ Waiting("dec", s)' = Waiting("dec", s) + One(f.sv = s)
        /\ Waiting("DESTROY", s)' = Waiting("DESTROY", s) + 0
        /\ Waiting("clear", s)' = Waiting("clear", s) + 0
    <3>1. /\ (f.do = "dec" /\ f.sv = s) = (f.sv = s)
          /\ One(f.do = "DESTROY" /\ f.sv = s) = 0 /\ One(f.do = "clear" /\ f.sv = s) = 0
        BY <1>3 DEF One
    <3> QED
        BY <1>4, <3>1
  <2>4. Refs(s)' = Refs(s)
      BY <1>1, RefsSame
  <2>5. Holders(s)' = One(s \in pad') + Cardinality(Refs(s)) + Times(mortals, {s})
                      + Waiting("dec", s)' + Waiting("DESTROY", s)'
      BY <1>1, <2>4 DEF Holders
  <2> QED
      BY <1>1, <2>1, <2>2, <2>3, <2>5 DEF Holders
<1>8. Counted' /\ Once'
    BY <1>1, <1>5, <1>7, CountedBy, OnceKept
<1> QED
    BY <1>4, <1>5, <1>6, <1>8 DEF SvInvariant

\* Nothing that counts has changed.
LEMMA CountsKept ==
    ASSUME SvInvariant, UNCHANGED <<refcnt, alive, rv, weak, backrefs, pad, mortals>>,
           frames' \in Seq(FrameSet), Nests(frames'), stash' \in [Svs -> Packages \cup {NoPackage}],
           \A what \in {"dec", "DESTROY", "clear"}, s \in Svs : Waiting(what, s)' = Waiting(what, s)
    PROVE  SvInvariant'
<1>1. SvTypes' /\ SvWeakCoherent'
    BY DEF SvInvariant, SvTypes, SvWeakCoherent
<1>2. ASSUME NEW s \in Svs PROVE Holders(s)' = Holders(s)
  <2>1. Refs(s)' = Refs(s)
      BY RefsSame
  <2>2. Waiting("dec", s)' = Waiting("dec", s) /\ Waiting("DESTROY", s)' = Waiting("DESTROY", s)
      OBVIOUS
  <2> QED
      BY <2>1, <2>2 DEF Holders
<1>3. \A s \in Svs : Waiting("clear", s)' = Waiting("clear", s)
    OBVIOUS
<1>4. Counted'
    BY <1>2, <1>3 DEF Counted, SvInvariant
<1>5. Once'
    BY <1>3 DEF Once, SvInvariant
<1> QED
    BY <1>1, <1>4, <1>5 DEF SvInvariant

LEMMA QuietKeeps ==
    ASSUME SvInvariant,
           \/ \E t \in Svs, class \in Packages : Bless(t, class)
           \/ FreeTmps \/ Exits \/ UNCHANGED SvVars
    PROVE  SvInvariant'
<1>1. ASSUME NEW t \in Svs, NEW class \in Packages, Bless(t, class) PROVE SvInvariant'
  <2>1. /\ stash' = [stash EXCEPT ![t] = class]
        /\ UNCHANGED <<refcnt, alive, rv, weak, backrefs, pad, mortals, frames>>
      BY <1>1 DEF Bless
  <2>2. stash' \in [Svs -> Packages \cup {NoPackage}] /\ frames' \in Seq(FrameSet) /\ Nests(frames')
      BY <2>1 DEF SvInvariant, SvTypes
  <2> QED
      BY <2>1, <2>2, FramesSame, CountsKept
<1>2. CASE FreeTmps
  <2>1. Floor \in Nat
      BY OnTop DEF Floor
  <2>2. PICK f : f = Frame("tmps", NoSv, NoPackage, Floor)
      OBVIOUS
  <2>3. /\ f \in FrameSet /\ f.do = "tmps" /\ frames' = <<f>> \o frames /\ PerlRuns
        /\ UNCHANGED <<refcnt, alive, rv, weak, backrefs, stash, pad, mortals>>
      BY <1>2, <2>1, <2>2, MakeFrame DEF FreeTmps, Push
  <2>4. /\ frames' \in Seq(FrameSet) /\ Nests(frames')
        /\ \A what, s : Waiting(what, s)' = Waiting(what, s) + One(f.do = what /\ f.sv = s)
      BY <2>3, FramesPush, ReachedAlive DEF SvInvariant
  <2>5. ASSUME NEW what \in {"dec", "DESTROY", "clear"}, NEW s \in Svs
        PROVE  Waiting(what, s)' = Waiting(what, s)
    <3>1. One(f.do = what /\ f.sv = s) = 0
        BY <2>3 DEF One
    <3>2. Waiting(what, s)' = Waiting(what, s) + 0 /\ Waiting(what, s) \in Nat
        BY <2>4, <3>1, HolderTypes DEF SvInvariant
    <3> QED
        BY <3>2
  <2> QED
      BY <2>3, <2>4, <2>5, CountsKept DEF SvInvariant, SvTypes
<1>3. CASE Exits
  <2>1. /\ frames = <<>> /\ mortals = <<>> /\ pad = {}
        /\ refcnt' = [s \in Svs |-> 0] /\ alive' = {}
        /\ rv' = [s \in Svs |-> NoSv] /\ weak' = {}
        /\ backrefs' = [s \in Svs |-> {}]
        /\ stash' = [s \in Svs |-> NoPackage]
        /\ UNCHANGED <<pad, mortals, frames>>
      BY <1>3 DEF Exits
  <2>2. SvTypes' /\ SvWeakCoherent'
      BY <2>1 DEF SvInvariant, SvTypes, SvWeakCoherent
  <2>3. ASSUME NEW s \in Svs
        PROVE  Holders(s)' = 0 /\ \A what : Waiting(what, s)' = 0
    <3>1. Where(mortals', {s}) = {} /\ \A what : Where(frames', Kind(what, s)) = {}
        BY <2>1 DEF Where
    <3>2. Refs(s)' = {}
        BY <2>1, SvAssumption DEF Refs
    <3>3. One(s \in pad') = 0
        BY <2>1 DEF One
    <3>4. Times(mortals', {s}) = 0 /\ \A what : Waiting(what, s)' = 0
        BY <3>1, FS_EmptySet DEF Times, Waiting
    <3> QED
        BY <3>2, <3>3, <3>4, FS_EmptySet DEF Holders
  <2>4. Counted' /\ Once'
      BY <2>1, <2>3 DEF Counted, Once
  <2> QED
      BY <2>1, <2>2, <2>4 DEF SvInvariant
<1>4. CASE UNCHANGED SvVars
  <2>1. UNCHANGED <<refcnt, alive, rv, weak, backrefs, stash, pad, mortals, frames>>
      BY <1>4 DEF SvVars
  <2> QED
      BY <2>1, FramesSame, CountsKept DEF SvInvariant, SvTypes
<1> QED
    BY <1>1, <1>2, <1>3, <1>4

-----------------------------------------------------------------------------
(* Steps of the interpreter *)

LEMMA FreeingKeeps ==
    ASSUME SvInvariant, UNCHANGED <<alive, rv, weak, backrefs, stash, pad>>,
           refcnt' \in [Svs -> Nat], mortals' \in Seq(Svs), frames' \in Seq(FrameSet), Nests(frames'),
           \A s \in Svs : Times(mortals', {s}) + Waiting("dec", s)' + Waiting("DESTROY", s)' + refcnt[s]
                              = Times(mortals, {s}) + Waiting("dec", s) + Waiting("DESTROY", s) + refcnt'[s],
           \A s \in Svs \ alive : refcnt'[s] = refcnt[s],
           \A s \in Svs \ alive : Waiting("clear", s)' = Waiting("clear", s),
           Once'
    PROVE  SvInvariant'
<1>1. SvTypes' /\ SvWeakCoherent'
    BY DEF SvInvariant, SvTypes, SvWeakCoherent
<1>2. ASSUME NEW s \in Svs
      PROVE  Holders(s)' \in Nat /\ Holders(s)' + refcnt[s] = Holders(s) + refcnt'[s]
  <2>1. Refs(s)' = Refs(s)
      BY RefsSame
  <2>2. /\ One(s \in pad) \in {0, 1} /\ Cardinality(Refs(s)) \in Nat /\ Times(mortals, {s}) \in Nat
        /\ Waiting("dec", s) \in Nat /\ Waiting("DESTROY", s) \in Nat /\ refcnt[s] \in Nat
      BY HolderTypes DEF SvInvariant, SvTypes
  <2>3. /\ Times(mortals', {s}) \in Nat /\ refcnt'[s] \in Nat
        /\ Waiting("dec", s)' \in Nat /\ Waiting("DESTROY", s)' \in Nat
      BY WhereFinite DEF Waiting
  <2>4. Holders(s)' = One(s \in pad) + Cardinality(Refs(s)) + Times(mortals', {s})
                      + Waiting("dec", s)' + Waiting("DESTROY", s)'
      BY <2>1 DEF Holders
  <2>5. Times(mortals', {s}) + Waiting("dec", s)' + Waiting("DESTROY", s)' + refcnt[s]
            = Times(mortals, {s}) + Waiting("dec", s) + Waiting("DESTROY", s) + refcnt'[s]
      OBVIOUS
  <2>6. Holders(s) = One(s \in pad) + Cardinality(Refs(s)) + Times(mortals, {s})
                     + Waiting("dec", s) + Waiting("DESTROY", s)
      BY DEF Holders
  <2>7. PICK held \in Nat : held = Times(mortals, {s}) + Waiting("dec", s) + Waiting("DESTROY", s)
      BY <2>2
  <2>8. PICK hold \in Nat : hold = Times(mortals', {s}) + Waiting("dec", s)' + Waiting("DESTROY", s)'
      BY <2>3
  <2>9. PICK rest \in Nat : rest = One(s \in pad) + Cardinality(Refs(s))
      BY <2>2
  <2>10. Holders(s) = rest + held
      BY <2>2, <2>6, <2>7, <2>9
  <2>11. Holders(s)' = rest + hold
    <3>1. PICK h : h = Holders(s)'
        OBVIOUS
    <3>2. PICK o \in Nat : o = One(s \in pad)
        BY <2>2
    <3>3. PICK c \in Nat : c = Cardinality(Refs(s))
        BY <2>2
    <3>4. PICK t \in Nat : t = Times(mortals', {s})
        BY <2>3
    <3>5. PICK w \in Nat : w = Waiting("dec", s)'
        BY <2>3
    <3>6. PICK d \in Nat : d = Waiting("DESTROY", s)'
        BY <2>3
    <3>7. h = o + c + t + w + d
        BY <2>4, <3>1, <3>2, <3>3, <3>4, <3>5, <3>6
    <3>8. rest = o + c /\ hold = t + w + d
        BY <2>8, <2>9, <3>2, <3>3, <3>4, <3>5, <3>6
    <3> QED
        BY <3>1, <3>7, <3>8
  <2>12. hold + refcnt[s] = held + refcnt'[s]
      BY <2>2, <2>3, <2>5, <2>7, <2>8
  <2>13. PICK h : h = Holders(s)'
      OBVIOUS
  <2>14. PICK n \in Nat, m \in Nat : n = refcnt[s] /\ m = refcnt'[s]
      BY <2>2, <2>3
  <2>15. h = rest + hold /\ hold + n = held + m
      BY <2>11, <2>12, <2>13, <2>14
  <2>16. h \in Nat /\ h + n = (rest + held) + m
      BY <2>15
  <2> QED
      BY <2>10, <2>13, <2>14, <2>16
<1>3. Counted'
    BY <1>1, <1>2, CountedBy
<1> QED
    BY <1>1, <1>3 DEF SvInvariant

LEMMA TmpsKeeps == ASSUME SvInvariant, TmpsStep PROVE SvInvariant'
<1>1. /\ frames # <<>> /\ Head(frames).do = "tmps"
      /\ UNCHANGED <<refcnt, alive, rv, weak, backrefs, stash, pad>>
    BY DEF TmpsStep, InFrame
<1>2. Nests(frames) /\ SvTypes /\ mortals \in Seq(Svs) /\ refcnt \in [Svs -> Nat]
    BY DEF SvInvariant, SvTypes
<1>3. ASSUME NEW s \in Svs
      PROVE  /\ Times(mortals, {s}) \in Nat /\ \A what : Waiting(what, s) \in Nat
             /\ refcnt[s] \in Nat
    BY <1>2, HolderTypes
<1>4. CASE Len(mortals) > Head(frames).floor /\ mortals' = Front(mortals) /\ Push(Dec(Last(mortals)))
  <2>1. Len(mortals) > 0
    <3>1. Head(frames).floor \in Nat /\ Len(mortals) \in Nat
        BY <1>1, <1>2, OnTop
    <3> QED
        BY <1>4, <3>1
  <2>2. /\ Front(mortals) \in Seq(Svs) /\ Last(mortals) \in Svs
        /\ \A V : Times(mortals, V) = Times(Front(mortals), V) + One(Last(mortals) \in V)
      BY <1>2, <2>1, LastTimes
  <2>3. PICK f : f = Dec(Last(mortals))
      OBVIOUS
  <2>4. f \in FrameSet /\ f.do = "dec" /\ f.sv = Last(mortals) /\ frames' = <<f>> \o frames
      BY <1>4, <2>2, <2>3, MakeFrame DEF Push
  <2>5. /\ frames' \in Seq(FrameSet) /\ Nests(frames')
        /\ \A what, s : Waiting(what, s)' = Waiting(what, s) + One(f.do = what /\ f.sv = s)
      BY <1>1, <1>2, <2>4, FramesPush
  <2>6. ASSUME NEW s \in Svs
        PROVE  /\ Times(mortals', {s}) + Waiting("dec", s)' + Waiting("DESTROY", s)' + refcnt[s]
                     = Times(mortals, {s}) + Waiting("dec", s) + Waiting("DESTROY", s) + refcnt'[s]
               /\ Waiting("clear", s)' = Waiting("clear", s)
    <3>1. /\ (f.do = "dec" /\ f.sv = s) = (Last(mortals) \in {s})
          /\ One(f.do = "clear" /\ f.sv = s) = 0 /\ One(f.do = "DESTROY" /\ f.sv = s) = 0
        BY <2>4 DEF One
    <3>2. Times(mortals, {s}) = Times(mortals', {s}) + One(Last(mortals) \in {s})
        BY <1>4, <2>2
    <3>3. Times(mortals', {s}) \in Nat /\ One(Last(mortals) \in {s}) \in {0, 1}
        BY <1>4, <2>2, WhereFinite DEF One
    <3>4. /\ Waiting("dec", s)' = Waiting("dec", s) + One(Last(mortals) \in {s})
          /\ Waiting("clear", s)' = Waiting("clear", s) + 0
          /\ Waiting("DESTROY", s)' = Waiting("DESTROY", s) + 0
        BY <2>5, <3>1
    <3> QED
        BY <1>1, <1>3, <3>2, <3>3, <3>4
  <2>7. Once'
      BY <1>1, <2>6, OnceKept
  <2> QED
      BY <1>1, <1>2, <1>4, <2>2, <2>5, <2>6, <2>7, FreeingKeeps
<1>5. CASE Len(mortals) = Head(frames).floor /\ Pop /\ UNCHANGED mortals
  <2>1. /\ frames' \in Seq(FrameSet) /\ Nests(frames')
        /\ \A what, s : /\ Waiting(what, s) = Waiting(what, s)' + One(Head(frames).do = what /\ Head(frames).sv = s)
                        /\ Waiting(what, s)' \in Nat
      BY <1>1, <1>2, <1>5, FramesPop DEF Pop
  <2>2. \A what \in {"dec", "DESTROY", "clear"}, s \in Svs : Waiting(what, s)' = Waiting(what, s)
    <3> SUFFICES ASSUME NEW what \in {"dec", "DESTROY", "clear"}, NEW s \in Svs
                 PROVE  Waiting(what, s)' = Waiting(what, s)
        OBVIOUS
    <3>1. One(Head(frames).do = what /\ Head(frames).sv = s) = 0
        BY <1>1 DEF One
    <3>2. Waiting(what, s) = Waiting(what, s)' + 0 /\ Waiting(what, s)' \in Nat
        BY <2>1, <3>1
    <3> QED
        BY <3>2
  <2> QED
      BY <1>1, <1>5, <2>1, <2>2, CountsKept DEF SvInvariant, SvTypes
<1> QED
    BY <1>4, <1>5 DEF TmpsStep

\* Whatever sv_clear is at below the top has its DESTROY under way.
LEMMA ClearWaits ==
    ASSUME SvInvariant, frames # <<>>, Head(frames).do # "clear", NEW s \in Svs,
           Waiting("clear", s) > 0
    PROVE  Waiting("DESTROY", s) > 0
<1>1. frames \in Seq(FrameSet) /\ Nests(frames)
    BY DEF SvInvariant, SvTypes
<1>2. Where(frames, Kind("clear", s)) # {}
    BY <1>1, WhereFinite DEF Waiting
<1>3. PICK n \in 1..Len(frames) : frames[n] \in Kind("clear", s)
    BY <1>2 DEF Where
<1>4. frames[n].do = "clear" /\ frames[n].sv = s
    BY <1>3 DEF Kind
<1>5. n > 1 /\ n - 1 \in 1..Len(frames)
  <2>1. Head(frames) = frames[1] /\ Len(frames) \in Nat
      BY <1>1, PopSeq
  <2> QED
      BY <1>4, <2>1
<1>6. frames[n - 1].do = "DESTROY" /\ frames[n - 1].sv = s /\ frames[n - 1] \in FrameSet
    BY <1>1, <1>4, <1>5 DEF Nests
<1>7. Where(frames, Kind("DESTROY", s)) # {}
    BY <1>5, <1>6 DEF Where, Kind
<1> QED
    BY <1>1, <1>7, WhereFinite DEF Waiting

\* What is under the frame on top.
LEMMA Behind ==
    ASSUME SvInvariant, frames # <<>>
    PROVE  /\ Tail(frames) \in Seq(FrameSet) /\ Nests(Tail(frames))
           /\ \A what, s :
                 /\ Times(Tail(frames), Kind(what, s)) \in Nat
                 /\ Waiting(what, s) = Times(Tail(frames), Kind(what, s))
                                       + One(Head(frames).do = what /\ Head(frames).sv = s)
           /\ Head(frames).do # "DESTROY" /\ Tail(frames) # <<>> => Head(Tail(frames)).do # "clear"
           /\ Head(frames).do = "DESTROY" => /\ Tail(frames) # <<>> /\ Head(Tail(frames)).do = "clear"
                                             /\ Head(Tail(frames)).sv = Head(frames).sv
<1>1. frames \in Seq(FrameSet) /\ Nests(frames)
    BY DEF SvInvariant, SvTypes
<1>2. Tail(frames) \in Seq(FrameSet) /\ Nests(Tail(frames))
    BY <1>1, PopSeq, NestPop
<1>3. \A what, s : /\ Times(Tail(frames), Kind(what, s)) \in Nat
                   /\ Waiting(what, s) = Times(Tail(frames), Kind(what, s))
                                         + One(Head(frames).do = what /\ Head(frames).sv = s)
    BY <1>1, KindPop DEF Waiting
<1>4. /\ Head(frames) = frames[1] /\ Len(frames) \in Nat \ {0} /\ Len(Tail(frames)) = Len(frames) - 1
      /\ \A i \in 1..Len(frames) - 1 : Tail(frames)[i] = frames[i + 1]
    BY <1>1, PopSeq
<1>5. Tail(frames) # <<>> <=> Len(frames) > 1
  <2>1. PICK t \in Seq(FrameSet) : t = Tail(frames)
      BY <1>2
  <2>2. t # <<>> <=> Len(t) > 0
      OBVIOUS
  <2> QED
      BY <1>4, <2>1, <2>2
<1>6. Len(frames) > 1 => Head(Tail(frames)) = frames[2]
  <2>1. Len(frames) > 1 => Head(Tail(frames)) = Tail(frames)[1]
      BY <1>2, <1>5, PopSeq
  <2>2. Len(frames) > 1 => 1 \in 1..Len(frames) - 1 /\ 1 + 1 = 2
      BY <1>4
  <2> QED
      BY <1>4, <2>1, <2>2
<1>7. Len(frames) > 1 /\ frames[2].do = "clear" => frames[1].do = "DESTROY"
  <2>1. Len(frames) > 1 => 2 \in 1..Len(frames) /\ 2 - 1 = 1 /\ 2 > 1
      BY <1>4
  <2> QED
      BY <1>1, <2>1 DEF Nests
<1>8. frames[1].do = "DESTROY" => /\ Len(frames) > 1
                                  /\ frames[2].do = "clear" /\ frames[2].sv = frames[1].sv
  <2>1. 1 \in 1..Len(frames) /\ 1 + 1 = 2
      BY <1>4
  <2> QED
      BY <1>1, <1>4, <2>1 DEF Nests
<1> QED
    BY <1>2, <1>3, <1>4, <1>5, <1>6, <1>7, <1>8

LEMMA DecKeeps == ASSUME SvInvariant, DecStep PROVE SvInvariant'
<1> DEFINE x == Head(frames).sv
           T == Tail(frames)
<1>1. /\ frames # <<>> /\ Head(frames).do = "dec" /\ refcnt[x] > 0
      /\ refcnt' = [refcnt EXCEPT ![x] = @ - 1]
      /\ frames' = (IF refcnt[x] = 1 THEN <<Frame("clear", x, NoPackage, 0)>> ELSE <<>>) \o T
      /\ UNCHANGED <<alive, rv, weak, backrefs, stash, pad, mortals>>
    BY DEF DecStep, InFrame
<1>2. x \in Svs /\ x \in alive /\ Waiting("dec", x) >= 1
    BY <1>1, OnTop
<1>3. /\ T \in Seq(FrameSet) /\ Nests(T)
      /\ \A what, s : /\ Times(T, Kind(what, s)) \in Nat
                      /\ Waiting(what, s) = Times(T, Kind(what, s))
                                            + One(Head(frames).do = what /\ Head(frames).sv = s)
      /\ T # <<>> => Head(T).do # "clear"
    BY <1>1, Behind
<1>4. refcnt \in [Svs -> Nat] /\ mortals \in Seq(Svs)
    BY DEF SvInvariant, SvTypes
<1>5. refcnt' \in [Svs -> Nat] /\ refcnt'[x] = refcnt[x] - 1 /\ \A s \in Svs : s # x => refcnt'[s] = refcnt[s]
    BY <1>1, <1>2, <1>4
<1>6. refcnt[x] = 1 => Waiting("clear", x) = 0
  <2> SUFFICES ASSUME refcnt[x] = 1 PROVE Waiting("clear", x) = 0
      OBVIOUS
  <2>1. refcnt[x] = Holders(x)
      BY <1>2, HolderParts
  <2>2. /\ One(x \in pad) \in {0, 1} /\ Cardinality(Refs(x)) \in Nat /\ Times(mortals, {x}) \in Nat
        /\ Waiting("dec", x) \in Nat /\ Waiting("DESTROY", x) \in Nat /\ Waiting("clear", x) \in Nat
      BY <1>2, HolderTypes DEF SvInvariant
  <2>3. Waiting("DESTROY", x) = 0
      BY <1>2, <2>1, <2>2 DEF Holders
  <2>4. Waiting("clear", x) > 0 => Waiting("DESTROY", x) > 0
      BY <1>1, <1>2, ClearWaits
  <2> QED
      BY <2>2, <2>3, <2>4
<1> HIDE DEF x, T
<1>7. /\ frames' \in Seq(FrameSet) /\ Nests(frames')
      /\ \A s \in Svs : /\ Waiting("dec", s)' = Times(T, Kind("dec", s))
                        /\ Waiting("DESTROY", s)' = Times(T, Kind("DESTROY", s))
                        /\ Waiting("clear", s)' = Times(T, Kind("clear", s)) + One(refcnt[x] = 1 /\ s = x)
  <2>1. CASE refcnt[x] = 1
    <3>1. PICK f : f = Frame("clear", x, NoPackage, 0)
        OBVIOUS
    <3>2. f \in FrameSet /\ f.do = "clear" /\ f.sv = x /\ frames' = <<f>> \o T
      <4>1. f \in FrameSet /\ f.do = "clear" /\ f.sv = x
          BY <1>2, <3>1, MakeFrame
      <4> QED
          BY <1>1, <2>1, <3>1, <4>1
    <3>3. frames' \in Seq(FrameSet) /\ Nests(frames')
        BY <1>3, <3>2, PushSeq, NestPush
    <3>4. \A what, s : Times(frames', Kind(what, s)) = Times(T, Kind(what, s)) + One(f.do = what /\ f.sv = s)
        BY <1>3, <3>2, KindPush
    <3>5. ASSUME NEW s \in Svs
          PROVE  /\ (f.do = "clear" /\ f.sv = s) = (refcnt[x] = 1 /\ s = x)
                 /\ One(f.do = "dec" /\ f.sv = s) = 0 /\ One(f.do = "DESTROY" /\ f.sv = s) = 0
        BY <2>1, <3>2 DEF One
    <3>6. ASSUME NEW s \in Svs
          PROVE  /\ Times(frames', Kind("dec", s)) = Times(T, Kind("dec", s)) + 0
                 /\ Times(frames', Kind("DESTROY", s)) = Times(T, Kind("DESTROY", s)) + 0
                 /\ Times(frames', Kind("clear", s)) = Times(T, Kind("clear", s)) + One(refcnt[x] = 1 /\ s = x)
        BY <3>4, <3>5
    <3> QED
        BY <1>3, <3>3, <3>6 DEF Waiting
  <2>2. CASE refcnt[x] # 1
    <3>1. frames' = T
        BY <1>1, <1>3, <2>2
    <3>2. \A s : One(refcnt[x] = 1 /\ s = x) = 0
        BY <2>2 DEF One
    <3>3. ASSUME NEW s \in Svs
          PROVE  Times(T, Kind("clear", s)) = Times(T, Kind("clear", s)) + One(refcnt[x] = 1 /\ s = x)
      <4>1. Times(T, Kind("clear", s)) \in Nat /\ One(refcnt[x] = 1 /\ s = x) = 0
          BY <1>3, <3>2
      <4> QED
          BY <4>1
    <3> QED
        BY <1>3, <3>1, <3>3 DEF Waiting
  <2> QED
      BY <2>1, <2>2
<1>8. ASSUME NEW s \in Svs
      PROVE  /\ Times(mortals', {s}) + Waiting("dec", s)' + Waiting("DESTROY", s)' + refcnt[s]
                     = Times(mortals, {s}) + Waiting("dec", s) + Waiting("DESTROY", s) + refcnt'[s]
             /\ Waiting("clear", s)' = Waiting("clear", s) + One(refcnt[x] = 1 /\ s = x)
  <2>1. /\ (Head(frames).do = "dec" /\ Head(frames).sv = s) = (s = x)
        /\ One(Head(frames).do = "DESTROY" /\ Head(frames).sv = s) = 0
        /\ One(Head(frames).do = "clear" /\ Head(frames).sv = s) = 0
      BY <1>1 DEF One, x
  <2>2. PICK a \in Nat, b \in Nat, c \in Nat :
            a = Times(T, Kind("dec", s)) /\ b = Times(T, Kind("DESTROY", s)) /\ c = Times(T, Kind("clear", s))
      BY <1>3
  <2>3. /\ Waiting("dec", s) = a + One(s = x) /\ Waiting("DESTROY", s) = b + 0
        /\ Waiting("clear", s) = c + 0
      BY <1>3, <2>1, <2>2
  <2>4. /\ Waiting("dec", s)' = a /\ Waiting("DESTROY", s)' = b
        /\ Waiting("clear", s)' = c + One(refcnt[x] = 1 /\ s = x)
      BY <1>7, <2>2
  <2>5. refcnt[s] = refcnt'[s] + One(s = x) /\ refcnt'[s] \in Nat /\ One(s = x) \in {0, 1}
      BY <1>2, <1>4, <1>5 DEF One
  <2>6. PICK t \in Nat : t = Times(mortals, {s}) /\ t = Times(mortals', {s})
      BY <1>1, HolderTypes DEF SvInvariant
  <2>7. PICK m \in Nat, o \in {0, 1} : m = refcnt'[s] /\ o = One(s = x)
      BY <2>5
  <2>8. t + a + b + (m + o) = t + (a + o) + (b + 0) + m /\ b + 0 = b /\ c + 0 = c
      OBVIOUS
  <2> QED
      BY <2>3, <2>4, <2>5, <2>6, <2>7, <2>8, Zenon
<1>9. \A s \in Svs \ alive : refcnt'[s] = refcnt[s] /\ Waiting("clear", s)' = Waiting("clear", s)
  <2> SUFFICES ASSUME NEW s \in Svs \ alive
               PROVE  refcnt'[s] = refcnt[s] /\ Waiting("clear", s)' = Waiting("clear", s)
      OBVIOUS
  <2>1. s # x
      BY <1>2
  <2>2. One(refcnt[x] = 1 /\ s = x) = 0 /\ Waiting("clear", s) \in Nat
      BY <2>1, HolderTypes DEF One, SvInvariant
  <2>3. Waiting("clear", s)' = Waiting("clear", s) + 0
      BY <1>8, <2>2
  <2> QED
      BY <1>5, <2>1, <2>2, <2>3
<1>10. Once'
  <2> SUFFICES ASSUME NEW s \in Svs
               PROVE  /\ Waiting("clear", s)' <= 1
                      /\ s \in alive /\ refcnt'[s] = 0 => Waiting("clear", s)' > 0
      BY <1>1 DEF Once
  <2>1. /\ Waiting("clear", s) \in Nat /\ Waiting("clear", s) <= 1
        /\ s \in alive /\ refcnt[s] = 0 => Waiting("clear", s) > 0
      BY HolderTypes DEF SvInvariant, Once
  <2>2. Waiting("clear", s)' = Waiting("clear", s) + One(refcnt[x] = 1 /\ s = x)
      BY <1>8
  <2>3. CASE s = x /\ refcnt[x] = 1
    <3>1. One(refcnt[x] = 1 /\ s = x) = 1 /\ Waiting("clear", s) = 0
        BY <1>6, <2>3 DEF One
    <3> QED
        BY <2>2, <3>1
  <2>4. CASE ~(s = x /\ refcnt[x] = 1)
    <3>1. One(refcnt[x] = 1 /\ s = x) = 0
        BY <2>4 DEF One
    <3>2. Waiting("clear", s)' = Waiting("clear", s)
        BY <2>1, <2>2, <3>1
    <3>3. refcnt'[s] = 0 => refcnt[s] = 0
        BY <1>1, <1>4, <1>5, <2>4
    <3> QED
        BY <2>1, <3>2, <3>3
  <2> QED
      BY <2>3, <2>4
<1> QED
    BY <1>1, <1>4, <1>5, <1>7, <1>8, <1>9, <1>10, FreeingKeeps

LEMMA CallKeeps == ASSUME SvInvariant, CallDestroy PROVE SvInvariant'
<1> DEFINE x == Head(frames).sv
           F == Head(frames)
           T == Tail(frames)
<1>1. /\ frames # <<>> /\ F.do = "clear"
      /\ refcnt' = [refcnt EXCEPT ![x] = @ + 1]
      /\ frames' = <<Frame("DESTROY", x, NoPackage, Len(mortals)), [F EXCEPT !.ran = stash[x]]>> \o T
      /\ UNCHANGED <<alive, rv, weak, backrefs, stash, pad, mortals>>
    BY DEF CallDestroy, InFrame
<1>2. x \in Svs /\ x \in alive /\ F \in FrameSet
    BY <1>1, OnTop
<1>3. /\ T \in Seq(FrameSet) /\ Nests(T)
      /\ \A what, s : /\ Times(T, Kind(what, s)) \in Nat
                      /\ Waiting(what, s) = Times(T, Kind(what, s)) + One(F.do = what /\ F.sv = s)
      /\ T # <<>> => Head(T).do # "clear"
    BY <1>1, Behind
<1>4. refcnt \in [Svs -> Nat] /\ mortals \in Seq(Svs) /\ stash[x] \in Packages \cup {NoPackage}
    BY <1>2 DEF SvInvariant, SvTypes
<1>5. refcnt' \in [Svs -> Nat] /\ \A s \in Svs : refcnt'[s] = refcnt[s] + One(s = x)
  <2>1. refcnt[x] + 1 \in Nat /\ \A s \in Svs : refcnt[s] = refcnt[s] + 0
      BY <1>2, <1>4
  <2> QED
      BY <1>1, <1>2, <1>4, <2>1 DEF One
<1>6. PICK D : D = Frame("DESTROY", x, NoPackage, Len(mortals))
    OBVIOUS
<1>7. PICK C : C = [F EXCEPT !.ran = stash[x]]
    OBVIOUS
<1> HIDE DEF x, T, F
<1>8. D \in FrameSet /\ D.do = "DESTROY" /\ D.sv = x
  <2>1. Len(mortals) \in Nat /\ NoPackage \in Packages \cup {NoPackage}
      BY <1>4
  <2> QED
      BY <1>2, <1>6, <2>1, MakeFrame
<1>9. C \in FrameSet /\ C.do = "clear" /\ C.sv = x
  <2>1. F \in [do : {"dec", "clear", "DESTROY"}, sv : Svs, ran : Packages \cup {NoPackage}, floor : Nat]
      BY <1>1, <1>2 DEF FrameSet
  <2>2. /\ C \in [do : {"dec", "clear", "DESTROY"}, sv : Svs, ran : Packages \cup {NoPackage}, floor : Nat]
        /\ C.do = F.do /\ C.sv = F.sv
      BY <1>4, <1>7, <2>1
  <2> QED
      BY <1>1, <2>2 DEF FrameSet, x, F
<1>10. frames' = <<D>> \o (<<C>> \o T)
  <2>1. frames' = <<D, C>> \o T
      BY <1>1, <1>6, <1>7
  <2>2. ASSUME NEW S, NEW d \in S, NEW c \in S, NEW t \in Seq(S)
        PROVE  <<d, c>> \o t = <<d>> \o (<<c>> \o t)
    <3>1. <<d, c>> = <<d>> \o <<c>> /\ <<d>> \in Seq(S) /\ <<c>> \in Seq(S)
      <4>1. <<d, c>> \in Seq(S) /\ <<d>> \in Seq(S) /\ <<c>> \in Seq(S)
          OBVIOUS
      <4>2. Len(<<d, c>>) = 2 /\ <<d, c>>[1] = d /\ <<d, c>>[2] = c
          OBVIOUS
      <4>3. Len(<<d>> \o <<c>>) = 2 /\ (<<d>> \o <<c>>)[1] = d /\ (<<d>> \o <<c>>)[2] = c
          OBVIOUS
      <4>4. <<d>> \o <<c>> \in Seq(S)
          BY <4>1
      <4>5. \A i \in 1..2 : <<d, c>>[i] = (<<d>> \o <<c>>)[i]
          BY <4>2, <4>3
      <4> QED
          BY <4>1, <4>2, <4>3, <4>4, <4>5, SeqEqual
    <3>2. (<<d>> \o <<c>>) \o t = <<d>> \o (<<c>> \o t)
        BY <3>1, ConcatAssociative
    <3> QED
        BY <3>1, <3>2, Zenon
  <2> QED
    <3>1. T \in Seq(FrameSet) /\ D \in FrameSet /\ C \in FrameSet
        BY <1>3, <1>8, <1>9
    <3>2. <<D, C>> \o T = <<D>> \o (<<C>> \o T)
        BY <2>2, <3>1
    <3> QED
        BY <2>1, <3>2, Zenon
<1>11. PICK gs : gs = <<C>> \o T
    OBVIOUS
<1>12. /\ gs \in Seq(FrameSet) /\ gs # <<>> /\ Head(gs) = C /\ Nests(gs)
       /\ \A what, s : Times(gs, Kind(what, s)) = Times(T, Kind(what, s)) + One(C.do = what /\ C.sv = s)
    BY <1>3, <1>9, <1>11, PushSeq, NestPush, KindPush
<1>13. /\ frames' \in Seq(FrameSet) /\ Nests(frames')
       /\ \A what, s : Times(frames', Kind(what, s)) = Times(gs, Kind(what, s)) + One(D.do = what /\ D.sv = s)
  <2>1. frames' = <<D>> \o gs
      BY <1>10, <1>11
  <2>2. <<D>> \o gs \in Seq(FrameSet)
      BY <1>8, <1>12, PushSeq
  <2>3. Nests(<<D>> \o gs)
      BY <1>8, <1>9, <1>12, NestPush
  <2>4. \A what, s : Times(<<D>> \o gs, Kind(what, s)) = Times(gs, Kind(what, s)) + One(D.do = what /\ D.sv = s)
      BY <1>8, <1>12, KindPush
  <2> QED
      BY <2>1, <2>2, <2>3, <2>4
<1>14. ASSUME NEW s \in Svs
       PROVE  /\ Times(mortals', {s}) + Waiting("dec", s)' + Waiting("DESTROY", s)' + refcnt[s]
                      = Times(mortals, {s}) + Waiting("dec", s) + Waiting("DESTROY", s) + refcnt'[s]
              /\ Waiting("clear", s)' = Waiting("clear", s)
  <2>1. \A what : (C.do = what /\ C.sv = s) = (F.do = what /\ F.sv = s)
      BY <1>1, <1>9 DEF x, F
  <2>2. \A what : Times(gs, Kind(what, s)) = Waiting(what, s)
      BY <1>3, <1>12, <2>1
  <2>3. \A what : Waiting(what, s)' = Waiting(what, s) + One(D.do = what /\ D.sv = s)
      BY <1>13, <2>2 DEF Waiting
  <2>4. /\ One(D.do = "dec" /\ D.sv = s) = 0 /\ One(D.do = "clear" /\ D.sv = s) = 0
        /\ (D.do = "DESTROY" /\ D.sv = s) = (s = x)
      BY <1>8 DEF One
  <2>5. PICK a \in Nat, b \in Nat, c \in Nat, t \in Nat, n \in Nat, o \in {0, 1} :
            /\ a = Waiting("dec", s) /\ b = Waiting("DESTROY", s) /\ c = Waiting("clear", s)
            /\ t = Times(mortals, {s}) /\ n = refcnt[s] /\ o = One(s = x)
    <3>1. One(s = x) \in {0, 1} /\ refcnt[s] \in Nat
        BY <1>4 DEF One
    <3> QED
        BY <3>1, HolderTypes DEF SvInvariant
  <2>6. /\ Waiting("dec", s)' = a + 0 /\ Waiting("DESTROY", s)' = b + o /\ Waiting("clear", s)' = c + 0
        /\ t = Times(mortals', {s}) /\ refcnt'[s] = n + o
      BY <1>1, <1>5, <2>3, <2>4, <2>5
  <2>7. t + (a + 0) + (b + o) + n = t + a + b + (n + o) /\ c + 0 = c
      OBVIOUS
  <2> QED
      BY <2>5, <2>6, <2>7, Zenon
<1>15. ASSUME NEW s \in Svs
       PROVE  /\ s \notin alive => refcnt'[s] = refcnt[s]
              /\ refcnt'[s] = 0 => refcnt[s] = 0
  <2>1. refcnt'[s] = refcnt[s] + One(s = x) /\ refcnt[s] \in Nat /\ One(s = x) \in {0, 1}
      BY <1>4, <1>5 DEF One
  <2>2. s \notin alive => One(s = x) = 0
      BY <1>2 DEF One
  <2> QED
      BY <2>1, <2>2
<1>16. Once'
    BY <1>1, <1>14, <1>15, OnceKept DEF SvInvariant, SvTypes
<1> QED
    BY <1>1, <1>4, <1>5, <1>13, <1>14, <1>15, <1>16, FreeingKeeps

LEMMA ReturnKeeps == ASSUME SvInvariant, DestroyReturns PROVE SvInvariant'
<1> DEFINE x == Head(frames).sv
           T == Tail(frames)
<1>1. /\ frames # <<>> /\ Head(frames).do = "DESTROY" /\ frames' = T
      /\ refcnt' = [refcnt EXCEPT ![x] = @ - 1]
      /\ UNCHANGED <<alive, rv, weak, backrefs, stash, pad, mortals>>
    BY DEF DestroyReturns, InFrame, Pop
<1>2. x \in Svs /\ x \in alive /\ Waiting("DESTROY", x) >= 1
    BY <1>1, OnTop
<1>3. /\ T \in Seq(FrameSet) /\ Nests(T)
      /\ \A what, s : /\ Times(T, Kind(what, s)) \in Nat
                      /\ Waiting(what, s) = Times(T, Kind(what, s))
                                            + One(Head(frames).do = what /\ Head(frames).sv = s)
      /\ T # <<>> /\ Head(T).do = "clear" /\ Head(T).sv = x
    BY <1>1, Behind
<1>4. refcnt \in [Svs -> Nat] /\ mortals \in Seq(Svs)
    BY DEF SvInvariant, SvTypes
<1>5. refcnt[x] >= 1
  <2>1. refcnt[x] = Holders(x)
      BY <1>2, HolderParts
  <2>2. /\ One(x \in pad) \in {0, 1} /\ Cardinality(Refs(x)) \in Nat /\ Times(mortals, {x}) \in Nat
        /\ Waiting("dec", x) \in Nat /\ Waiting("DESTROY", x) \in Nat
      BY <1>2, HolderTypes DEF SvInvariant
  <2> QED
      BY <1>2, <2>1, <2>2 DEF Holders
<1>6. refcnt' \in [Svs -> Nat] /\ refcnt'[x] = refcnt[x] - 1 /\ \A s \in Svs : s # x => refcnt'[s] = refcnt[s]
    BY <1>1, <1>2, <1>4, <1>5
<1>7. Times(T, Kind("clear", x)) > 0
  <2>1. Times(T, Kind("clear", x)) = Times(Tail(T), Kind("clear", x)) + One(TRUE)
        /\ Times(Tail(T), Kind("clear", x)) \in Nat
    <3>1. (Head(T).do = "clear" /\ Head(T).sv = x) = TRUE
        BY <1>3
    <3> QED
        BY <1>3, <3>1, KindPop
  <2> QED
      BY <2>1 DEF One
<1> HIDE DEF x, T
<1>8. ASSUME NEW s \in Svs
      PROVE  /\ Times(mortals', {s}) + Waiting("dec", s)' + Waiting("DESTROY", s)' + refcnt[s]
                     = Times(mortals, {s}) + Waiting("dec", s) + Waiting("DESTROY", s) + refcnt'[s]
             /\ Waiting("clear", s)' = Waiting("clear", s)
  <2>1. /\ (Head(frames).do = "DESTROY" /\ Head(frames).sv = s) = (s = x)
        /\ One(Head(frames).do = "dec" /\ Head(frames).sv = s) = 0
        /\ One(Head(frames).do = "clear" /\ Head(frames).sv = s) = 0
      BY <1>1 DEF One, x
  <2>2. PICK a \in Nat, b \in Nat, c \in Nat :
            a = Times(T, Kind("dec", s)) /\ b = Times(T, Kind("DESTROY", s)) /\ c = Times(T, Kind("clear", s))
      BY <1>3
  <2>3. /\ Waiting("dec", s) = a + 0 /\ Waiting("DESTROY", s) = b + One(s = x)
        /\ Waiting("clear", s) = c + 0
      BY <1>3, <2>1, <2>2
  <2>4. Waiting("dec", s)' = a /\ Waiting("DESTROY", s)' = b /\ Waiting("clear", s)' = c
      BY <1>1, <2>2 DEF Waiting
  <2>5. refcnt[s] = refcnt'[s] + One(s = x) /\ refcnt'[s] \in Nat /\ One(s = x) \in {0, 1}
      BY <1>2, <1>4, <1>6 DEF One
  <2>6. PICK t \in Nat : t = Times(mortals, {s}) /\ t = Times(mortals', {s})
      BY <1>1, HolderTypes DEF SvInvariant
  <2>7. PICK m \in Nat, o \in {0, 1} : m = refcnt'[s] /\ o = One(s = x)
      BY <2>5
  <2>8. t + a + b + (m + o) = t + (a + 0) + (b + o) + m /\ c + 0 = c
      OBVIOUS
  <2> QED
      BY <2>3, <2>4, <2>5, <2>6, <2>7, <2>8, Zenon
<1>9. \A s \in Svs \ alive : refcnt'[s] = refcnt[s]
    BY <1>2, <1>6
<1>10. Once'
  <2> SUFFICES ASSUME NEW s \in Svs
               PROVE  /\ Waiting("clear", s)' <= 1
                      /\ s \in alive /\ refcnt'[s] = 0 => Waiting("clear", s)' > 0
      BY <1>1 DEF Once
  <2>1. Waiting("clear", s) <= 1 /\ (s \in alive /\ refcnt[s] = 0 => Waiting("clear", s) > 0)
      BY DEF SvInvariant, Once
  <2>2. s = x => Waiting("clear", s)' > 0
      BY <1>1, <1>7 DEF Waiting
  <2> QED
      BY <1>6, <1>8, <2>1, <2>2
<1> QED
    BY <1>1, <1>3, <1>4, <1>6, <1>8, <1>9, <1>10, FreeingKeeps

LEMMA ResurrectKeeps == ASSUME SvInvariant, Resurrect PROVE SvInvariant'
<1> DEFINE x == Head(frames).sv
           T == Tail(frames)
<1>1. /\ frames # <<>> /\ Head(frames).do = "clear" /\ frames' = T /\ refcnt[x] > 0
      /\ UNCHANGED <<refcnt, alive, rv, weak, backrefs, stash, pad, mortals>>
    BY DEF Resurrect, InFrame, Pop
<1>2. x \in Svs /\ x \in alive
    BY <1>1, OnTop
<1>3. /\ T \in Seq(FrameSet) /\ Nests(T)
      /\ \A what, s : /\ Times(T, Kind(what, s)) \in Nat
                      /\ Waiting(what, s) = Times(T, Kind(what, s))
                                            + One(Head(frames).do = what /\ Head(frames).sv = s)
    BY <1>1, Behind
<1>4. refcnt \in [Svs -> Nat] /\ mortals \in Seq(Svs)
    BY DEF SvInvariant, SvTypes
<1> HIDE DEF x, T
<1>5. ASSUME NEW s \in Svs
      PROVE  /\ Times(mortals', {s}) + Waiting("dec", s)' + Waiting("DESTROY", s)' + refcnt[s]
                     = Times(mortals, {s}) + Waiting("dec", s) + Waiting("DESTROY", s) + refcnt'[s]
             /\ Waiting("clear", s) = Waiting("clear", s)' + One(s = x) /\ Waiting("clear", s)' \in Nat
  <2>1. /\ (Head(frames).do = "clear" /\ Head(frames).sv = s) = (s = x)
        /\ One(Head(frames).do = "dec" /\ Head(frames).sv = s) = 0
        /\ One(Head(frames).do = "DESTROY" /\ Head(frames).sv = s) = 0
      BY <1>1 DEF One, x
  <2>2. \A what : Waiting(what, s)' = Times(T, Kind(what, s)) /\ Times(T, Kind(what, s)) \in Nat
      BY <1>1, <1>3 DEF Waiting
  <2>3. /\ Waiting("dec", s) = Waiting("dec", s)' + 0
        /\ Waiting("DESTROY", s) = Waiting("DESTROY", s)' + 0
        /\ Waiting("clear", s) = Waiting("clear", s)' + One(s = x)
      BY <1>3, <2>1, <2>2
  <2>4. Waiting("dec", s) = Waiting("dec", s)' /\ Waiting("DESTROY", s) = Waiting("DESTROY", s)'
      BY <2>2, <2>3
  <2> QED
      BY <1>1, <2>2, <2>3, <2>4
<1>6. ASSUME NEW s \in Svs
      PROVE  /\ Waiting("clear", s)' <= 1
             /\ s \in alive /\ refcnt'[s] = 0 => Waiting("clear", s)' > 0
             /\ s \notin alive => Waiting("clear", s)' = Waiting("clear", s)
  <2>1. Waiting("clear", s) <= 1 /\ (s \in alive /\ refcnt[s] = 0 => Waiting("clear", s) > 0)
      BY DEF SvInvariant, Once
  <2>2. /\ Waiting("clear", s) = Waiting("clear", s)' + One(s = x) /\ Waiting("clear", s)' \in Nat
        /\ One(s = x) \in {0, 1}
      BY <1>5 DEF One
  <2>3. s # x => One(s = x) = 0
      BY DEF One
  <2>4. refcnt'[s] = 0 \/ s \notin alive => s # x
      BY <1>1, <1>2
  <2>5. refcnt'[s] = refcnt[s]
      BY <1>1
  <2> QED
      BY <2>1, <2>2, <2>3, <2>4, <2>5
<1>7. Once'
    BY <1>1, <1>6 DEF Once
<1> QED
    BY <1>1, <1>3, <1>4, <1>5, <1>6, <1>7, FreeingKeeps

LEMMA FreeSvKeeps == ASSUME SvInvariant, FreeSv PROVE SvInvariant'
<1> DEFINE x == Head(frames).sv
           T == Tail(frames)
<1>1. /\ frames # <<>> /\ Head(frames).do = "clear" /\ refcnt[x] = 0
      /\ alive' = alive \ {x} /\ stash' = [stash EXCEPT ![x] = NoPackage]
      /\ rv' = [[q \in Svs |-> IF q \in backrefs[x] THEN NoSv ELSE rv[q]] EXCEPT ![x] = NoSv]
      /\ weak' = weak \ (backrefs[x] \cup {x})
      /\ backrefs' = [BackrefsWithout(x) EXCEPT ![x] = {}]
      /\ frames' = (IF Strong(x) THEN <<Dec(rv[x])>> ELSE <<>>) \o T
      /\ UNCHANGED <<refcnt, pad, mortals>>
    BY DEF FreeSv, InFrame
<1>2. x \in Svs /\ x \in alive /\ Waiting("clear", x) >= 1
    BY <1>1, OnTop
<1>3. /\ T \in Seq(FrameSet) /\ Nests(T)
      /\ \A what, s : /\ Times(T, Kind(what, s)) \in Nat
                      /\ Waiting(what, s) = Times(T, Kind(what, s))
                                            + One(Head(frames).do = what /\ Head(frames).sv = s)
      /\ T # <<>> => Head(T).do # "clear"
    BY <1>1, Behind
<1>4. /\ rv' \in [Svs -> Svs \cup {NoSv}] /\ weak' \subseteq Svs /\ backrefs' \in [Svs -> SUBSET Svs]
      /\ \A q \in Svs : rv'[q] = IF q = x \/ (q \in weak /\ rv[q] = x) THEN NoSv ELSE rv[q]
      /\ \A q, u \in Svs : q \in backrefs'[u] <=> q \in weak' /\ rv'[q] = u
      /\ \A s \in Svs, q \in Svs :
            q # x => (rv'[q] = s /\ q \notin weak' <=> rv[q] = s /\ q \notin weak)
    BY <1>1, <1>2, Forgets
<1>5. Holders(x) = 0 /\ \A q \in Svs : rv[q] = x => q \in weak
    BY <1>1, <1>2, HolderParts
<1> HIDE DEF x, T
<1>6. /\ frames' \in Seq(FrameSet) /\ Nests(frames')
      /\ \A s \in Svs : /\ Waiting("dec", s)' = Times(T, Kind("dec", s)) + One(rv[x] = s /\ x \notin weak)
                        /\ Waiting("DESTROY", s)' = Times(T, Kind("DESTROY", s))
                        /\ Waiting("clear", s)' = Times(T, Kind("clear", s))
  <2>1. CASE Strong(x)
    <3>1. PICK f : f = Dec(rv[x])
        OBVIOUS
    <3>2. rv[x] \in Svs /\ x \notin weak
        BY <1>2, <2>1, StrongIs DEF Strong
    <3>3. f \in FrameSet /\ f.do = "dec" /\ f.sv = rv[x]
        BY <3>1, <3>2, MakeFrame
    <3>4. frames' = <<f>> \o T
        BY <1>1, <2>1, <3>1
    <3>5. frames' \in Seq(FrameSet) /\ Nests(frames')
        BY <1>3, <3>3, <3>4, PushSeq, NestPush
    <3>6. \A what, s : Times(frames', Kind(what, s)) = Times(T, Kind(what, s)) + One(f.do = what /\ f.sv = s)
        BY <1>3, <3>3, <3>4, KindPush
    <3>7. ASSUME NEW s \in Svs
          PROVE  /\ (f.do = "dec" /\ f.sv = s) = (rv[x] = s /\ x \notin weak)
                 /\ One(f.do = "clear" /\ f.sv = s) = 0 /\ One(f.do = "DESTROY" /\ f.sv = s) = 0
        BY <3>2, <3>3 DEF One
    <3>8. ASSUME NEW s \in Svs
          PROVE  /\ Times(frames', Kind("dec", s)) = Times(T, Kind("dec", s)) + One(rv[x] = s /\ x \notin weak)
                 /\ Times(frames', Kind("DESTROY", s)) = Times(T, Kind("DESTROY", s)) + 0
                 /\ Times(frames', Kind("clear", s)) = Times(T, Kind("clear", s)) + 0
        BY <3>6, <3>7
    <3> QED
        BY <1>3, <3>5, <3>8 DEF Waiting
  <2>2. CASE ~Strong(x)
    <3>1. frames' = T
        BY <1>1, <1>3, <2>2
    <3>2. ASSUME NEW s \in Svs
          PROVE  Times(T, Kind("dec", s)) = Times(T, Kind("dec", s)) + One(rv[x] = s /\ x \notin weak)
      <4>1. (rv[x] = s /\ x \notin weak) = FALSE
          BY <1>2, <2>2, StrongIs
      <4>2. Times(T, Kind("dec", s)) \in Nat /\ One(rv[x] = s /\ x \notin weak) = 0
          BY <1>3, <4>1 DEF One
      <4> QED
          BY <4>2
    <3> QED
        BY <1>3, <3>1, <3>2 DEF Waiting
  <2> QED
      BY <2>1, <2>2
<1>7. SvTypes'
    BY <1>1, <1>4, <1>6 DEF SvInvariant, SvTypes
<1>8. SvWeakCoherent'
  <2>1. ASSUME NEW q \in Svs, rv'[q] # NoSv PROVE q \in alive' /\ rv'[q] \in alive'
    <3>1. q # x /\ rv'[q] = rv[q] /\ rv[q] # x
        BY <1>4, <1>5, <2>1
    <3> QED
        BY <1>1, <2>1, <3>1 DEF SvInvariant, SvWeakCoherent
  <2> QED
      BY <1>4, <2>1 DEF SvWeakCoherent
<1>9. ASSUME NEW s \in Svs
      PROVE  /\ Holders(s)' = Holders(s)
             /\ Waiting("clear", s) = Waiting("clear", s)' + One(s = x)
             /\ Waiting("clear", s)' \in Nat
  <2>1. /\ (Head(frames).do = "clear" /\ Head(frames).sv = s) = (s = x)
        /\ One(Head(frames).do = "dec" /\ Head(frames).sv = s) = 0
        /\ One(Head(frames).do = "DESTROY" /\ Head(frames).sv = s) = 0
      BY <1>1 DEF One, x
  <2>2. PICK a \in Nat, b \in Nat, c \in Nat :
            a = Times(T, Kind("dec", s)) /\ b = Times(T, Kind("DESTROY", s)) /\ c = Times(T, Kind("clear", s))
      BY <1>3
  <2>3. Waiting("dec", s) = a + 0 /\ Waiting("DESTROY", s) = b + 0 /\ Waiting("clear", s) = c + One(s = x)
      BY <1>3, <2>1, <2>2
  <2>4. PICK o \in {0, 1} : o = One(rv[x] = s /\ x \notin weak)
      BY DEF One
  <2>5. Waiting("dec", s)' = a + o /\ Waiting("DESTROY", s)' = b /\ Waiting("clear", s)' = c
      BY <1>6, <2>2, <2>4
  <2>6. PICK k \in Nat, j \in Nat : /\ k = Cardinality(Refs(s)) /\ j = Cardinality(Refs(s)')
                                    /\ j + o = k
    <3>1. /\ Cardinality(Refs(s)') + One(rv[x] = s /\ x \notin weak)
                 = Cardinality(Refs(s)) + One(rv'[x] = s /\ x \notin weak')
          /\ Cardinality(Refs(s)') \in Nat
        BY <1>2, <1>4, <1>7, RefsChange DEF SvInvariant
    <3>2. One(rv'[x] = s /\ x \notin weak') = 0
        BY <1>2, <1>4, SvAssumption DEF One
    <3>3. Cardinality(Refs(s)) \in Nat
        BY HolderTypes DEF SvInvariant
    <3>4. Cardinality(Refs(s)') + o = Cardinality(Refs(s)) + 0
        BY <2>4, <3>1, <3>2
    <3>5. Cardinality(Refs(s)') + o = Cardinality(Refs(s))
        BY <3>3, <3>4
    <3> QED
        BY <3>1, <3>3, <3>5
  <2>7. PICK p \in Nat, t \in Nat : /\ p = One(s \in pad) /\ p = One(s \in pad')
                                    /\ t = Times(mortals, {s}) /\ t = Times(mortals', {s})
    <3>1. One(s \in pad) \in Nat
        BY DEF One
    <3> QED
        BY <1>1, <3>1, HolderTypes DEF SvInvariant
  <2>8. Holders(s) = p + k + t + (a + 0) + (b + 0)
      BY <2>3, <2>6, <2>7 DEF Holders
  <2>9. Holders(s)' = p + j + t + (a + o) + b
      BY <2>5, <2>6, <2>7 DEF Holders
  <2>10. p + k + t + (a + 0) + (b + 0) = p + j + t + (a + o) + b
      BY <2>6
  <2>11. Holders(s)' = Holders(s)
      BY <2>8, <2>9, <2>10, Zenon
  <2> QED
      BY <2>2, <2>3, <2>5, <2>11
<1>10. ASSUME NEW s \in Svs
       PROVE  /\ s \in alive' => refcnt'[s] = Holders(s)'
              /\ s \notin alive' => Holders(s)' = 0 /\ Waiting("clear", s)' = 0
              /\ Waiting("clear", s)' <= 1
              /\ s \in alive' /\ refcnt'[s] = 0 => Waiting("clear", s)' > 0
  <2>1. /\ s \in alive => refcnt[s] = Holders(s)
        /\ s \notin alive => Holders(s) = 0 /\ Waiting("clear", s) = 0
        /\ Waiting("clear", s) <= 1
        /\ s \in alive /\ refcnt[s] = 0 => Waiting("clear", s) > 0
      BY DEF SvInvariant, Counted, Once
  <2>2. CASE s = x
    <3>1. One(s = x) = 1 /\ s \notin alive'
        BY <1>1, <2>2 DEF One
    <3>2. Waiting("clear", s) = Waiting("clear", s)' + 1
        BY <1>9, <3>1
    <3>3. Waiting("clear", s)' = 0
        BY <1>9, <2>1, <3>2
    <3> QED
        BY <1>5, <1>9, <2>2, <3>1, <3>3
  <2>3. CASE s # x
    <3>1. One(s = x) = 0 /\ (s \in alive' <=> s \in alive) /\ refcnt'[s] = refcnt[s]
        BY <1>1, <2>3 DEF One
    <3>2. Waiting("clear", s) = Waiting("clear", s)' + 0
        BY <1>9, <3>1
    <3>3. Waiting("clear", s)' = Waiting("clear", s)
        BY <1>9, <3>2
    <3> QED
        BY <1>9, <2>1, <3>1, <3>3
  <2> QED
      BY <2>2, <2>3
<1>11. Counted' /\ Once'
    BY <1>10 DEF Counted, Once
<1> QED
    BY <1>6, <1>7, <1>8, <1>11 DEF SvInvariant

-----------------------------------------------------------------------------
(* The theorems *)

LEMMA SvInitInvariant == SvInit => SvInvariant
<1> SUFFICES ASSUME SvInit PROVE SvInvariant
    OBVIOUS
<1>1. /\ refcnt = [s \in Svs |-> 0] /\ alive = {} /\ weak = {} /\ pad = {}
      /\ rv = [s \in Svs |-> NoSv] /\ backrefs = [s \in Svs |-> {}]
      /\ stash = [s \in Svs |-> NoPackage] /\ mortals = <<>> /\ frames = <<>>
    BY DEF SvInit
<1>2. SvTypes /\ SvWeakCoherent /\ Nests(frames)
    BY <1>1 DEF SvTypes, SvWeakCoherent, Nests
<1>3. ASSUME NEW s \in Svs PROVE Holders(s) = 0 /\ \A what : Waiting(what, s) = 0
  <2>1. Where(mortals, {s}) = {} /\ \A what : Where(frames, Kind(what, s)) = {}
      BY <1>1 DEF Where
  <2>2. Refs(s) = {} /\ One(s \in pad) = 0
      BY <1>1, SvAssumption DEF Refs, One
  <2>3. Times(mortals, {s}) = 0 /\ \A what : Waiting(what, s) = 0
      BY <2>1, FS_EmptySet DEF Times, Waiting
  <2> QED
      BY <2>2, <2>3, FS_EmptySet DEF Holders
<1>4. Counted /\ Once
    BY <1>1, <1>3 DEF Counted, Once
<1> QED
    BY <1>2, <1>4 DEF SvInvariant

LEMMA SvStep == SvInvariant /\ [SvNext]_SvVars => SvInvariant'
<1> SUFFICES ASSUME SvInvariant, [SvNext]_SvVars PROVE SvInvariant'
    OBVIOUS
<1>1. ASSUME NEW s \in Svs,
             \/ NewSv(s) \/ Undef(s) \/ Weaken(s) \/ Unweaken(s) \/ ClearInPlace(s) \/ Abandon(s)
      PROVE  SvInvariant'
    BY <1>1, NewSvKeeps, UndefKeeps, WeakenKeeps, UnweakenKeeps, ClearInPlaceKeeps, AbandonKeeps
<1>2. ASSUME NEW s \in Svs, NEW t \in Svs, AssignRef(s, t) \/ AssignBodyless(s, t)
      PROVE  SvInvariant'
    BY <1>2, AssignRefKeeps, AssignBodylessKeeps
<1>3. ASSUME NEW s \in Svs, NEW class \in Into[s], Bless(s, class)
      PROVE  SvInvariant'
  <2>1. class \in Packages
      BY SvAssumption
  <2> QED
      BY <1>3, <2>1, QuietKeeps
<1>4. CASE Exits \/ FreeTmps \/ UNCHANGED SvVars
    BY <1>4, QuietKeeps
<1>5. CASE TmpsStep \/ DecStep \/ CallDestroy \/ DestroyReturns \/ Resurrect \/ FreeSv
    BY <1>5, TmpsKeeps, DecKeeps, CallKeeps, ReturnKeeps, ResurrectKeeps, FreeSvKeeps
<1> QED
    BY <1>1, <1>2, <1>3, <1>4, <1>5 DEF SvNext

\* The inductive invariant: counts are holders, back-references are the weak
\* references, what is being freed is being freed in one place only, and the
\* frames of nested frees stand in the order in which sv_clear can leave them.
THEOREM SvInvariantHolds == SvSpec => []SvInvariant
    BY SvInitInvariant, SvStep, PTL DEF SvSpec

\* What the properties count is what the invariant counts.
LEMMA FramesAre ==
    ASSUME SvInvariant, NEW what, NEW s \in Svs
    PROVE  Cardinality(Frames(what, s)) = Waiting(what, s)
<1>1. frames \in Seq(FrameSet)
    BY DEF SvInvariant, SvTypes
<1>2. DOMAIN frames = 1..Len(frames) /\ \A n \in 1..Len(frames) : frames[n] \in FrameSet
    BY <1>1
<1>3. Frames(what, s) = Where(frames, Kind(what, s))
    BY <1>2 DEF Frames, Where, Kind
<1> QED
    BY <1>3 DEF Waiting, Times

\* SvREFCNT is the number of holders: variables, strong references, mortals,
\* decrements still to come and the DESTROYs that run, at every step.
THEOREM CountIsHolders == SvSpec => []SvCounted
<1>1. SvInvariant => SvCounted
  <2> SUFFICES ASSUME SvInvariant, NEW s \in alive
               PROVE  refcnt[s] = Cardinality({p \in pad : p = s})
                                  + Cardinality({r \in alive : rv[r] = s /\ r \notin weak})
                                  + Cardinality({n \in DOMAIN mortals : mortals[n] = s})
                                  + Cardinality(Frames("dec", s)) + Cardinality(Frames("DESTROY", s))
      BY DEF SvCounted
  <2>1. s \in Svs /\ s # NoSv
      BY SvAssumption DEF SvInvariant, SvTypes
  <2>2. refcnt[s] = Holders(s)
      BY <2>1 DEF SvInvariant, Counted
  <2>3. Cardinality({p \in pad : p = s}) = One(s \in pad)
    <3>1. CASE s \in pad
      <4>1. {p \in pad : p = s} = {s}
          BY <3>1
      <4> QED
          BY <3>1, <4>1, FS_Singleton DEF One
    <3>2. CASE s \notin pad
      <4>1. {p \in pad : p = s} = {}
          BY <3>2
      <4> QED
          BY <3>2, <4>1, FS_EmptySet DEF One
    <3> QED
        BY <3>1, <3>2
  <2>4. {r \in alive : rv[r] = s /\ r \notin weak} = Refs(s)
      BY <2>1 DEF Refs, SvInvariant, SvTypes, SvWeakCoherent
  <2>5. {n \in DOMAIN mortals : mortals[n] = s} = Where(mortals, {s})
    <3>1. DOMAIN mortals = 1..Len(mortals)
        BY DEF SvInvariant, SvTypes
    <3> QED
        BY <3>1 DEF Where
  <2>6. /\ Cardinality(Frames("dec", s)) = Waiting("dec", s)
        /\ Cardinality(Frames("DESTROY", s)) = Waiting("DESTROY", s)
      BY <2>1, FramesAre
  <2> QED
      BY <2>2, <2>3, <2>4, <2>5, <2>6, Zenon DEF Holders, Times
<1> QED
    BY <1>1, SvInvariantHolds, PTL

\* A reference, strong or weak, is a live SV's to a live SV, and the
\* back-references of an SV are the weak references to it.
THEOREM WeakRefsKnown == SvSpec => []SvWeakCoherent
<1>1. SvInvariant => SvWeakCoherent
    BY DEF SvInvariant
<1> QED
    BY <1>1, SvInvariantHolds, PTL

\* sv_clear is at an SV once, and at each that is left without a count.
THEOREM FreedOnlyOnce == SvSpec => []SvFreedOnce
<1>1. SvInvariant => SvFreedOnce
  <2> SUFFICES ASSUME SvInvariant, NEW s \in Svs
               PROVE  /\ Cardinality(Frames("clear", s)) <= 1
                      /\ Frames("clear", s) # {} => s \in alive
                      /\ s \in alive /\ refcnt[s] = 0 => Frames("clear", s) # {}
      BY DEF SvFreedOnce
  <2>1. Cardinality(Frames("clear", s)) = Waiting("clear", s)
      BY FramesAre
  <2>2. Waiting("clear", s) <= 1 /\ (s \in alive /\ refcnt[s] = 0 => Waiting("clear", s) > 0)
      BY DEF SvInvariant, Once
  <2>3. s \notin alive => Waiting("clear", s) = 0
      BY DEF SvInvariant, Counted
  <2>4. Frames("clear", s) = {} <=> Waiting("clear", s) = 0
    <3>1. frames \in Seq(FrameSet)
        BY DEF SvInvariant, SvTypes
    <3>2. DOMAIN frames = 1..Len(frames) /\ \A n \in 1..Len(frames) : frames[n] \in FrameSet
        BY <3>1
    <3>3. Frames("clear", s) = Where(frames, Kind("clear", s))
        BY <3>2 DEF Frames, Where, Kind
    <3> QED
        BY <3>1, <3>3, WhereFinite DEF Waiting
  <2>5. Waiting("clear", s) \in Nat
      BY HolderTypes DEF SvInvariant
  <2> QED
      BY <2>1, <2>2, <2>3, <2>4, <2>5
<1> QED
    BY <1>1, SvInvariantHolds, PTL

-----------------------------------------------------------------------------
(* Hashes and their iterators: numbers *)

Lesser == {ss \in Nat \X Nat : ss[1] < ss[2]}

\* A set of naturals with an element has a least one.
LEMMA MinIsLeast ==
    ASSUME NEW S \in SUBSET Nat, S # {}
    PROVE  Min(S) \in S /\ \A m \in S : Min(S) <= m
<1>1. IsWellFoundedOn(Lesser, Nat)
    BY NatLessThanWellFounded, Zenon DEF OpToRel, Lesser
<1>2. PICK n \in S : \A m \in S : ~(<<m, n>> \in Lesser)
    BY <1>1, WFMin, Zenon
<1>3. \A m \in S : n <= m
  <2> SUFFICES ASSUME NEW m \in S PROVE n <= m
      OBVIOUS
  <2>1. m \in Nat /\ n \in Nat /\ ~(<<m, n>> \in Lesser)
      BY <1>2
  <2>2. ~(m < n)
      BY <2>1 DEF Lesser
  <2> QED
      BY <2>1, <2>2
<1> QED
    BY <1>2, <1>3, Zenon DEF Min

\* A set that holds 0 and every number's successor has all numbers.
LEMMA EveryNumber ==
    ASSUME NEW S, 0 \in S, \A n \in Nat : n \in S => n + 1 \in S
    PROVE  \A n \in Nat : n \in S
<1> DEFINE T == Nat \ S
<1>1. SUFFICES ASSUME T # {} PROVE FALSE
    OBVIOUS
<1>2. PICK n \in T : \A m \in T : n <= m
  <2> HIDE DEF T
  <2>1. T \in SUBSET Nat
      BY DEF T
  <2> QED
      BY <1>1, <2>1, MinIsLeast, Zenon
<1>3. n \in Nat /\ n # 0 /\ n \notin S
    OBVIOUS
<1>4. n - 1 \in Nat /\ ~(n <= n - 1) /\ (n - 1) + 1 = n
    BY <1>3
<1>5. n - 1 \in S
    BY <1>2, <1>4, Zenon
<1> QED
    BY <1>3, <1>4, <1>5, Zenon

\* g is defined by recursion from a to n.
Recursion(g, a, n, base, F) == \A i \in a..n : g[i] = IF i = a THEN base ELSE F[<<g[i-1], i>>]

\* A function that steps from a to n, each value from the one before, exists.
LEMMA RecursionIs ==
    ASSUME NEW T, NEW a \in Nat, NEW n \in Nat, NEW base \in T, NEW F \in [T \X (a..n) -> T]
    PROVE  \E g \in [a..n -> T] : Recursion(g, a, n, base, F)
<1> DEFINE Steps(g, k) == Recursion(g, a, k, base, F)
           S == {k \in Nat : k <= n => \E g \in [a..k -> T] : Steps(g, k)}
<1>1. 0 \in S
  <2>1. [i \in a..0 |-> base] \in [a..0 -> T] /\ Steps([i \in a..0 |-> base], 0)
      BY DEF Recursion
  <2> QED
      BY <2>1
<1>2. ASSUME NEW k \in Nat, k \in S PROVE k + 1 \in S
  <2> SUFFICES ASSUME k + 1 <= n PROVE \E g \in [a..k+1 -> T] : Steps(g, k+1)
      OBVIOUS
  <2>1. PICK g \in [a..k -> T] : Steps(g, k)
      BY <1>2
  <2> DEFINE h == [i \in a..k+1 |-> IF i = a THEN base ELSE IF i <= k THEN g[i]
                                    ELSE F[<<g[k], i>>]]
  <2>2. ASSUME NEW i \in a..k+1 PROVE h[i] \in T
    <3>1. CASE i = a \/ i <= k
        BY <3>1
    <3>2. CASE i # a /\ ~(i <= k)
      <4>1. k \in a..k /\ i \in a..n /\ g[k] \in T
          BY <3>2
      <4> QED
          BY <3>2, <4>1
    <3> QED
        BY <3>1, <3>2
  <2>3. ASSUME NEW i \in a..k+1 PROVE h[i] = IF i = a THEN base ELSE F[<<h[i-1], i>>]
    <3>1. CASE i = a
        BY <3>1
    <3>2. CASE i # a /\ i <= k
      <4>1. i \in a..k /\ i-1 \in a..k /\ i-1 \in a..k+1 /\ i-1 <= k
          BY <3>2
      <4>2. h[i-1] = g[i-1]
        <5>0. a \in a..k
            BY <4>1
        <5>1. g[a] = base
            BY <5>0, <2>1 DEF Recursion
        <5>2. CASE i-1 = a
            BY <4>1, <5>1, <5>2
        <5>3. CASE i-1 # a
            BY <4>1, <5>3
        <5> QED
            BY <5>2, <5>3
      <4> QED
          BY <2>1, <3>2, <4>1, <4>2 DEF Recursion
    <3>3. CASE i # a /\ ~(i <= k)
      <4>1. i-1 = k /\ k \in a..k /\ k \in a..k+1
          BY <3>3
      <4>2. h[k] = g[k]
        <5>1. a \in a..k /\ k \in a..k+1
            BY <4>1
        <5>2. g[a] = base
            BY <5>1, <2>1 DEF Recursion
        <5>3. CASE k = a
            BY <5>1, <5>2, <5>3
        <5>4. CASE k # a
            BY <5>1, <5>4
        <5> QED
            BY <5>3, <5>4
      <4> QED
          BY <3>3, <4>1, <4>2
    <3> QED
        BY <3>1, <3>2, <3>3
  <2>4. h \in [a..k+1 -> T]
      BY <2>2
  <2>5. Steps(h, k+1)
      BY <2>3 DEF Recursion
  <2> QED
      BY <2>4, <2>5
<1>3. n \in S
  <2> HIDE DEF S
  <2> QED
      BY <1>1, <1>2, EveryNumber
<1> QED
    BY <1>3

-----------------------------------------------------------------------------
(* Sequences: their members, and whether a member occurs once *)

\* What ToSet has, by index.
LEMMA SetIs ==
    ASSUME NEW E, NEW s \in Seq(E)
    PROVE  /\ \A x : x \in ToSet(s) <=> \E i \in 1..Len(s) : x = s[i]
           /\ ToSet(s) \subseteq E /\ Len(s) \in Nat /\ DOMAIN s = 1..Len(s)
           /\ \A i \in 1..Len(s) : s[i] \in E
    BY DEF ToSet

\* No member of s occurs twice when no two indices have the same one.
LEMMA OnceIs ==
    ASSUME NEW E, NEW s \in Seq(E)
    PROVE  IsInjective(s) <=> \A i, j \in 1..Len(s) : s[i] = s[j] => i = j
    BY DEF IsInjective

\* The empty sequence.
LEMMA NoneIs == \A E : <<>> \in Seq(E) /\ ToSet(<<>>) = {} /\ IsInjective(<<>>)
    BY DEF ToSet, IsInjective

\* The sequence of one member.
LEMMA SingleIs ==
    ASSUME NEW E, NEW x \in E
    PROVE  <<x>> \in Seq(E) /\ ToSet(<<x>>) = {x} /\ IsInjective(<<x>>)
<1>1. <<x>> \in Seq(E) /\ Len(<<x>>) = 1 /\ <<x>>[1] = x
    OBVIOUS
<1> DEFINE s == <<x>>
<1> HIDE DEF s
<1>2. s \in Seq(E) /\ Len(s) = 1 /\ s[1] = x
    BY <1>1 DEF s
<1>3. ToSet(s) = {x} /\ IsInjective(s)
  <2>1. \A y : y \in ToSet(s) <=> \E i \in 1..Len(s) : y = s[i]
      BY <1>2, SetIs, Zenon
  <2>2. \A i \in 1..Len(s) : i = 1
      BY <1>2
  <2>3. 1 \in 1..Len(s)
      BY <1>2
  <2>4. IsInjective(s)
      BY <1>2, <2>2, OnceIs
  <2> QED
      BY <1>2, <2>1, <2>2, <2>3, <2>4, Zenon
<1> QED
    BY <1>2, <1>3 DEF s

\* What \o gives at each index.
LEMMA JoinedIs ==
    ASSUME NEW E, NEW s \in Seq(E), NEW t \in Seq(E)
    PROVE  /\ s \o t \in Seq(E) /\ Len(s \o t) = Len(s) + Len(t)
           /\ Len(s) \in Nat /\ Len(t) \in Nat
           /\ \A i \in 1..Len(s) : (s \o t)[i] = s[i]
           /\ \A i \in 1..Len(t) : (s \o t)[Len(s) + i] = t[i]
    OBVIOUS

\* The members of s \o t, none twice where none of s or t is and they share none.
LEMMA BothIs ==
    ASSUME NEW E, NEW s \in Seq(E), NEW t \in Seq(E)
    PROVE  /\ s \o t \in Seq(E) /\ ToSet(s \o t) = ToSet(s) \cup ToSet(t)
           /\ IsInjective(s) /\ IsInjective(t) /\ ToSet(s) \cap ToSet(t) = {} => IsInjective(s \o t)
<1> DEFINE u == s \o t
<1>1. /\ u \in Seq(E) /\ Len(u) = Len(s) + Len(t) /\ Len(s) \in Nat /\ Len(t) \in Nat
      /\ \A i \in 1..Len(s) : u[i] = s[i]
      /\ \A i \in 1..Len(t) : u[Len(s) + i] = t[i]
    BY JoinedIs
<1> HIDE DEF u
<1>2. Len(s) \in Nat /\ Len(t) \in Nat /\ Len(u) = Len(s) + Len(t)
    BY <1>1
<1>3. \A i \in 1..Len(s) : i \in 1..Len(u) /\ u[i] = s[i]
    BY <1>1, <1>2
<1>4. ASSUME NEW i \in 1..Len(t) PROVE Len(s) + i \in 1..Len(u) /\ u[Len(s) + i] = t[i]
  <2>1. u[Len(s) + i] = t[i]
      BY <1>1, Zenon
  <2>2. Len(s) + i \in 1..Len(u)
      BY <1>2
  <2> QED
      BY <2>1, <2>2
<1>5. \A i \in 1..Len(u) : \/ i \in 1..Len(s) /\ u[i] = s[i] /\ s[i] \in ToSet(s)
                           \/ /\ i - Len(s) \in 1..Len(t) /\ u[i] = t[i - Len(s)]
                              /\ t[i - Len(s)] \in ToSet(t)
  <2> SUFFICES ASSUME NEW i \in 1..Len(u)
               PROVE  \/ i \in 1..Len(s) /\ u[i] = s[i] /\ s[i] \in ToSet(s)
                      \/ /\ i - Len(s) \in 1..Len(t) /\ u[i] = t[i - Len(s)]
                         /\ t[i - Len(s)] \in ToSet(t)
      OBVIOUS
  <2>1. CASE i <= Len(s)
    <3>1. i \in 1..Len(s)
        BY <2>1, <1>2
    <3> QED
        BY <3>1, <1>1, <1>3, SetIs
  <2>2. CASE ~(i <= Len(s))
    <3>1. i - Len(s) \in 1..Len(t) /\ Len(s) + (i - Len(s)) = i
        BY <2>2, <1>2
    <3> QED
        BY <3>1, <1>1, <1>4, SetIs
  <2> QED
      BY <2>1, <2>2
<1>6. ToSet(u) = ToSet(s) \cup ToSet(t)
  <2>1. ASSUME NEW x \in ToSet(u) PROVE x \in ToSet(s) \cup ToSet(t)
    <3>1. PICK i \in 1..Len(u) : x = u[i]
        BY <1>1, SetIs
    <3> QED
        BY <3>1, <1>5
  <2>2. ASSUME NEW x \in ToSet(s) PROVE x \in ToSet(u)
    <3>1. PICK i \in 1..Len(s) : x = s[i]
        BY SetIs
    <3> QED
        BY <3>1, <1>1, <1>3, SetIs
  <2>3. ASSUME NEW x \in ToSet(t) PROVE x \in ToSet(u)
    <3>1. PICK i \in 1..Len(t) : x = t[i]
        BY SetIs
    <3> QED
        BY <3>1, <1>1, <1>4, SetIs
  <2> QED
      BY <2>1, <2>2, <2>3
<1>7. ASSUME IsInjective(s), IsInjective(t), ToSet(s) \cap ToSet(t) = {} PROVE IsInjective(u)
  <2> SUFFICES ASSUME NEW i \in 1..Len(u), NEW j \in 1..Len(u), u[i] = u[j] PROVE i = j
      BY <1>1, OnceIs
  <2>1. CASE i \in 1..Len(s) /\ j \in 1..Len(s)
      BY <2>1, <1>3, <1>7, OnceIs
  <2>2. CASE i - Len(s) \in 1..Len(t) /\ j - Len(s) \in 1..Len(t)
    <3>1. /\ Len(s) + (i - Len(s)) = i /\ Len(s) + (j - Len(s)) = j
        BY <2>2, <1>2
    <3>2. u[i] = t[i - Len(s)] /\ u[j] = t[j - Len(s)]
        BY <2>2, <3>1, <1>4
    <3>3. i - Len(s) = j - Len(s)
        BY <2>2, <3>2, <1>7, OnceIs
    <3> QED
        BY <3>1, <3>3, <1>2
  <2> QED
      BY <2>1, <2>2, <1>5, <1>7
<1> QED
    BY <1>1, <1>6, <1>7 DEF u

Flattening(g, q, n) == /\ g[0] = <<>> /\ FlattenSeq(q) = g[n]
                       /\ \A i \in 1..n : g[i] = g[i-1] \o q[i]

\* The function that FlattenSeq chooses exists.
LEMMA FlattenedBy ==
    ASSUME NEW E, NEW n \in Nat, NEW q \in [1..n -> Seq(E)]
    PROVE  \E g \in [0..n -> Seq(E)] : Flattening(g, q, n)
<1>1. Len(q) = n
    OBVIOUS
<1>2. CASE n = 0
  <2>1. q = <<>>
      BY <1>2
  <2>2. FlattenSeq(q) = q
      BY <1>1, <1>2 DEF FlattenSeq
  <2>3. PICK g \in [0..n -> Seq(E)] : g[0] = <<>> /\ g[n] = <<>>
    <3>1. <<>> \in Seq(E) /\ n \in 0..n /\ 0 \in 0..n
        BY <1>2
    <3>2. [i \in 0..n |-> <<>>] \in [0..n -> Seq(E)]
        BY <3>1
    <3> QED
        BY <3>1, <3>2
  <2>4. \A i \in 1..n : g[i] = g[i-1] \o q[i]
      BY <1>2
  <2>5. FlattenSeq(q) = g[n]
      BY <2>1, <2>2, <2>3
  <2> QED
      BY <2>3, <2>4, <2>5 DEF Flattening
<1>3. CASE n # 0
  <2> DEFINE F == [p \in Seq(E) \X (1..n) |-> p[1] \o q[p[2]]]
  <2>1. 1 \in Nat /\ 1 \in 1..n /\ n \in 1..n /\ q[1] \in Seq(E) /\ q[1] = <<>> \o q[1]
      BY <1>3
  <2>2. F \in [Seq(E) \X (1..n) -> Seq(E)]
    <3> SUFFICES ASSUME NEW p \in Seq(E) \X (1..n) PROVE p[1] \o q[p[2]] \in Seq(E)
        OBVIOUS
    <3>1. p[1] \in Seq(E) /\ p[2] \in 1..n /\ q[p[2]] \in Seq(E)
        OBVIOUS
    <3> QED
        BY <3>1
  <2>3. PICK f \in [1..n -> Seq(E)] :
            Recursion(f, 1, n, q[1], F)
    <3> HIDE DEF F
    <3> QED
        BY <2>1, <2>2, RecursionIs, Zenon
  <2>4. ASSUME NEW i \in 1..n, i # 1 PROVE i-1 \in 1..n /\ F[<<f[i-1], i>>] = f[i-1] \o q[i]
    <3>1. i-1 \in 1..n
        BY <2>4
    <3>2. <<f[i-1], i>> \in Seq(E) \X (1..n)
        BY <3>1
    <3> QED
        BY <3>1, <3>2
  <2>5. f = [i \in 1..n |-> IF i = 1 THEN q[i] ELSE f[i-1] \o q[i]]
    <3> HIDE DEF F
    <3>1. ASSUME NEW i \in 1..n PROVE f[i] = IF i = 1 THEN q[i] ELSE f[i-1] \o q[i]
        BY <2>3, <2>4 DEF Recursion
    <3> QED
        BY <3>1
  <2>6. FlattenSeq(q) = (CHOOSE it : it = [i \in 1..Len(q) |->
                              IF i = 1 THEN q[i] ELSE it[i-1] \o q[i]])[Len(q)]
      BY <1>1, <1>3, Zenon DEF FlattenSeq
  <2>7. PICK it : /\ it = [i \in 1..n |-> IF i = 1 THEN q[i] ELSE it[i-1] \o q[i]]
                  /\ FlattenSeq(q) = it[n]
      BY <1>1, <2>5, <2>6, Zenon
  <2> DEFINE g == [i \in 0..n |-> IF i = 0 THEN <<>> ELSE it[i]]
             S == {k \in Nat : k <= n => g[k] \in Seq(E)}
  <2>8. g[0] = <<>> /\ FlattenSeq(q) = g[n]
      BY <1>3, <2>7
  <2>9. ASSUME NEW i \in 1..n, g[i-1] \in Seq(E) PROVE g[i] = g[i-1] \o q[i]
    <3>1. it[i] = IF i = 1 THEN q[i] ELSE it[i-1] \o q[i]
        BY <2>7
    <3>2. g[i] = it[i]
        OBVIOUS
    <3>3. CASE i = 1
        BY <2>1, <2>8, <3>1, <3>2, <3>3
    <3>4. CASE i # 1
      <4>1. i-1 \in 0..n /\ i-1 # 0
          BY <3>4
      <4> QED
          BY <3>1, <3>2, <3>4, <4>1
    <3> QED
        BY <3>3, <3>4
  <2>10. 0 \in S
      BY <2>8
  <2>11. ASSUME NEW k \in Nat, k \in S PROVE k + 1 \in S
    <3> HIDE DEF g
    <3> SUFFICES ASSUME k + 1 <= n PROVE g[k + 1] \in Seq(E)
        OBVIOUS
    <3>1. g[k] \in Seq(E) /\ k + 1 \in 1..n /\ (k + 1) - 1 = k /\ q[k+1] \in Seq(E)
        BY <2>11
    <3>2. g[k + 1] = g[k] \o q[k + 1]
        BY <2>9, <3>1
    <3> QED
        BY <3>1, <3>2
  <2>12. \A k \in Nat : k \in S
    <3> HIDE DEF S
    <3> QED
        BY <2>10, <2>11, EveryNumber
  <2>13. \A k \in 0..n : g[k] \in Seq(E)
    <3> HIDE DEF g
    <3> QED
        BY <2>12
  <2>14. \A i \in 1..n : g[i] = g[i-1] \o q[i]
    <3> HIDE DEF g
    <3> SUFFICES ASSUME NEW i \in 1..n PROVE g[i] = g[i-1] \o q[i]
        OBVIOUS
    <3>1. i-1 \in 0..n
        OBVIOUS
    <3> QED
        BY <3>1, <2>9, <2>13
  <2>15. g \in [0..n -> Seq(E)]
    <3>1. \A k \in 0..n : (IF k = 0 THEN <<>> ELSE it[k]) \in Seq(E)
        BY <2>13
    <3> QED
        BY <3>1
  <2> HIDE DEF g
  <2> QED
      BY <2>8, <2>14, <2>15 DEF Flattening
<1> QED
    BY <1>2, <1>3

\* The members of a flattened sequence are those of its parts; if no part has
\* one twice and no two parts share one, it occurs once.
LEMMA FlattenIs ==
    ASSUME NEW E, NEW n \in Nat, NEW q \in [1..n -> Seq(E)]
    PROVE  /\ FlattenSeq(q) \in Seq(E)
           /\ \A x : x \in ToSet(FlattenSeq(q)) <=> \E i \in 1..n : x \in ToSet(q[i])
           /\ /\ \A i \in 1..n : IsInjective(q[i])
              /\ \A i, j \in 1..n : i # j => ToSet(q[i]) \cap ToSet(q[j]) = {}
              => IsInjective(FlattenSeq(q))
<1>0. PICK g \in [0..n -> Seq(E)] : Flattening(g, q, n)
    BY FlattenedBy, Zenon
<1>1. /\ g[0] = <<>> /\ FlattenSeq(q) = g[n]
      /\ \A i \in 1..n : g[i] = g[i-1] \o q[i]
    BY <1>0, Zenon DEF Flattening
<1>2. \A k \in 0..n : g[k] \in Seq(E)
    BY <1>0
<1>3. ASSUME NEW k \in Nat, k + 1 <= n
      PROVE  /\ k \in 0..n /\ k + 1 \in 1..n /\ g[k] \in Seq(E) /\ q[k+1] \in Seq(E)
             /\ g[k+1] = g[k] \o q[k+1]
  <2>1. k \in 0..n /\ k + 1 \in 1..n /\ (k + 1) - 1 = k
      BY <1>3
  <2> QED
      BY <1>1, <1>2, <2>1
<1> DEFINE Members(k) == \A x : x \in ToSet(g[k]) <=> \E i \in 1..k : x \in ToSet(q[i])
           M == {k \in Nat : k <= n => Members(k)}
<1>4. \A k \in Nat : k \in M
  <2>1. 0 \in M
      BY <1>1, NoneIs
  <2>2. ASSUME NEW k \in Nat, k \in M PROVE k + 1 \in M
    <3> SUFFICES ASSUME k + 1 <= n, NEW x
                 PROVE  x \in ToSet(g[k+1]) <=> \E i \in 1..k+1 : x \in ToSet(q[i])
        OBVIOUS
    <3>1. g[k] \in Seq(E) /\ q[k+1] \in Seq(E) /\ g[k+1] = g[k] \o q[k+1]
        BY <1>3
    <3>2. x \in ToSet(g[k+1]) <=> x \in ToSet(g[k]) \/ x \in ToSet(q[k+1])
        BY <3>1, BothIs
    <3>3. x \in ToSet(g[k]) <=> \E i \in 1..k : x \in ToSet(q[i])
      <4>1. k <= n
          OBVIOUS
      <4> QED
          BY <2>2, <4>1, Zenon
    <3>4. \A i : i \in 1..k+1 <=> i \in 1..k \/ i = k+1
        OBVIOUS
    <3> QED
        BY <3>2, <3>3, <3>4, Zenon
  <2> HIDE DEF M
  <2> QED
      BY <2>1, <2>2, EveryNumber, Zenon
<1>5. ASSUME NEW k \in 0..n PROVE Members(k)
  <2> HIDE DEF Members
  <2>1. k \in Nat /\ k <= n
      OBVIOUS
  <2> QED
      BY <1>4, <2>1
<1>6. ASSUME \A i \in 1..n : IsInjective(q[i]),
             \A i, j \in 1..n : i # j => ToSet(q[i]) \cap ToSet(q[j]) = {}
      PROVE  IsInjective(g[n])
  <2> DEFINE S == {k \in Nat : k <= n => IsInjective(g[k])}
  <2>1. 0 \in S
      BY <1>1, NoneIs
  <2>2. ASSUME NEW k \in Nat, k \in S PROVE k + 1 \in S
    <3> SUFFICES ASSUME k + 1 <= n PROVE IsInjective(g[k+1])
        OBVIOUS
    <3>1. /\ k \in 0..n /\ k + 1 \in 1..n /\ g[k] \in Seq(E) /\ q[k+1] \in Seq(E)
          /\ g[k+1] = g[k] \o q[k+1]
        BY <1>3
    <3>2. ToSet(g[k]) \cap ToSet(q[k+1]) = {}
      <4> SUFFICES ASSUME NEW x, x \in ToSet(g[k]), x \in ToSet(q[k+1]) PROVE FALSE
          OBVIOUS
      <4>1. PICK i \in 1..k : x \in ToSet(q[i])
          BY <1>5, <3>1
      <4>2. i \in 1..n /\ i # k + 1
          BY <3>1
      <4> QED
          BY <1>6, <3>1, <4>1, <4>2
    <3>3. IsInjective(g[k]) /\ IsInjective(q[k+1])
        BY <2>2, <1>6, <3>1
    <3> QED
        BY <3>1, <3>2, <3>3, BothIs
  <2>3. n \in S
    <3> HIDE DEF S
    <3> QED
        BY <2>1, <2>2, EveryNumber
  <2> QED
      BY <2>3
<1>7. n \in 0..n
    OBVIOUS
<1> QED
    BY <1>1, <1>2, <1>5, <1>6, <1>7

\* Drop leaves the members that are not in S, each as often as before.
LEMMA DropIs ==
    ASSUME NEW E, NEW s \in Seq(E), NEW S
    PROVE  /\ Drop(s, S) \in Seq(E) /\ ToSet(Drop(s, S)) = ToSet(s) \ S
           /\ IsInjective(s) => IsInjective(Drop(s, S))
<1> DEFINE n == Len(s)
           q == [i \in 1..n |-> IF s[i] \in S THEN <<>> ELSE <<s[i]>>]
<1>1. n \in Nat /\ \A i \in 1..n : s[i] \in E
    BY SetIs
<1>2. ASSUME NEW i \in 1..n
      PROVE  q[i] \in Seq(E) /\ IsInjective(q[i]) /\ \A x : x \in ToSet(q[i]) <=> x = s[i] /\ x \notin S
  <2>1. CASE s[i] \in S
      BY <2>1, NoneIs
  <2>2. CASE s[i] \notin S
      BY <2>2, <1>1, SingleIs
  <2> QED
      BY <2>1, <2>2
<1>3. q \in [1..n -> Seq(E)]
    BY <1>2
<1>4. Drop(s, S) = FlattenSeq(q)
    BY DEF Drop
<1> HIDE DEF q
<1>5. /\ FlattenSeq(q) \in Seq(E)
      /\ \A x : x \in ToSet(FlattenSeq(q)) <=> \E i \in 1..n : x \in ToSet(q[i])
    BY <1>1, <1>3, FlattenIs
<1>6. ASSUME NEW x PROVE x \in ToSet(FlattenSeq(q)) <=> x \in ToSet(s) /\ x \notin S
  <2>1. x \in ToSet(FlattenSeq(q)) <=> \E i \in 1..n : x = s[i] /\ x \notin S
      BY <1>2, <1>5
  <2>2. x \in ToSet(s) <=> \E i \in 1..n : x = s[i]
      BY SetIs
  <2> QED
      BY <2>1, <2>2
<1>7. ASSUME IsInjective(s) PROVE IsInjective(FlattenSeq(q))
  <2>1. ASSUME NEW i \in 1..n, NEW j \in 1..n, i # j PROVE ToSet(q[i]) \cap ToSet(q[j]) = {}
    <3> SUFFICES ASSUME NEW x, x \in ToSet(q[i]), x \in ToSet(q[j]) PROVE FALSE
        OBVIOUS
    <3>1. x = s[i] /\ x = s[j]
        BY <1>2
    <3> QED
        BY <3>1, <2>1, <1>7, OnceIs
  <2>2. \A i, j \in 1..n : i # j => ToSet(q[i]) \cap ToSet(q[j]) = {}
      BY <2>1
  <2>3. \A i \in 1..n : IsInjective(q[i])
      BY <1>2
  <2> QED
      BY <1>1, <1>3, <2>2, <2>3, FlattenIs
<1> QED
    BY <1>4, <1>5, <1>6, <1>7

\* Reverse keeps the members, each as often as before.
LEMMA ReverseIs ==
    ASSUME NEW E, NEW s \in Seq(E)
    PROVE  /\ Reverse(s) \in Seq(E) /\ ToSet(Reverse(s)) = ToSet(s)
           /\ IsInjective(s) => IsInjective(Reverse(s))
<1> DEFINE r == Reverse(s)
<1>1. Len(s) \in Nat /\ \A i \in 1..Len(s) : s[i] \in E
    BY SetIs
<1>2. \A i \in 1..Len(s) : Len(s) - i + 1 \in 1..Len(s) /\ Len(s) - (Len(s) - i + 1) + 1 = i
    BY <1>1
<1>3. /\ r \in Seq(E) /\ Len(r) = Len(s)
      /\ \A i \in 1..Len(s) : r[i] = s[Len(s) - i + 1]
    BY <1>1, <1>2 DEF Reverse
<1> HIDE DEF r
<1>4. \A i \in 1..Len(s) : s[i] = r[Len(s) - i + 1]
    BY <1>2, <1>3
<1>5. ASSUME NEW x PROVE x \in ToSet(r) <=> x \in ToSet(s)
    BY <1>2, <1>3, <1>4, SetIs
<1>6. ASSUME IsInjective(s) PROVE IsInjective(r)
  <2> SUFFICES ASSUME NEW i \in 1..Len(s), NEW j \in 1..Len(s), r[i] = r[j] PROVE i = j
      BY <1>3, OnceIs
  <2>0. /\ s[Len(s) - i + 1] = s[Len(s) - j + 1]
        /\ Len(s) - i + 1 \in 1..Len(s) /\ Len(s) - j + 1 \in 1..Len(s)
      BY <1>2, <1>3
  <2>1. Len(s) - i + 1 = Len(s) - j + 1
      BY <2>0, <1>6, OnceIs
  <2> QED
      BY <2>1, <1>1
<1> QED
    BY <1>3, <1>5, <1>6 DEF r

\* The tail has every member but the head, of a sequence that has none twice.
LEMMA TailIs ==
    ASSUME NEW E, NEW s \in Seq(E), s # <<>>, IsInjective(s)
    PROVE  /\ Head(s) \in ToSet(s) /\ Tail(s) \in Seq(E) /\ IsInjective(Tail(s))
           /\ ToSet(Tail(s)) = ToSet(s) \ {Head(s)}
<1>1. /\ Len(s) \in Nat \ {0} /\ Head(s) = s[1] /\ s[1] \in E
      /\ Tail(s) \in Seq(E) /\ Len(Tail(s)) = Len(s) - 1
      /\ \A i \in 1..Len(s) - 1 : Tail(s)[i] = s[i + 1]
    OBVIOUS
<1> DEFINE t == Tail(s)
           h == Head(s)
<1>2. /\ Len(s) \in Nat \ {0} /\ h = s[1] /\ t \in Seq(E) /\ Len(t) = Len(s) - 1
      /\ \A i \in 1..Len(t) : i + 1 \in 1..Len(s) /\ i + 1 # 1 /\ t[i] = s[i + 1]
      /\ \A i \in 1..Len(s) : i # 1 => i - 1 \in 1..Len(t) /\ (i - 1) + 1 = i
      /\ 1 \in 1..Len(s)
    BY <1>1
<1> HIDE DEF t, h
<1>3. \A i, j \in 1..Len(s) : s[i] = s[j] => i = j
    BY OnceIs
<1>4. ASSUME NEW x \in ToSet(t) PROVE x \in ToSet(s) /\ x # h
  <2>1. PICK i \in 1..Len(t) : x = t[i]
      BY <1>2, SetIs
  <2>2. x = s[i + 1] /\ i + 1 \in 1..Len(s) /\ i + 1 # 1
      BY <1>2, <2>1
  <2> QED
      BY <1>2, <1>3, <2>2, SetIs
<1>5. ASSUME NEW x \in ToSet(s), x # h PROVE x \in ToSet(t)
  <2>1. PICK i \in 1..Len(s) : x = s[i]
      BY SetIs
  <2>2. i - 1 \in 1..Len(t) /\ (i - 1) + 1 = i
      BY <1>2, <1>5, <2>1
  <2>3. x = t[i - 1]
      BY <1>2, <2>1, <2>2
  <2> QED
      BY <1>2, <2>2, <2>3, SetIs
<1>6. IsInjective(t)
  <2> SUFFICES ASSUME NEW i \in 1..Len(t), NEW j \in 1..Len(t), t[i] = t[j] PROVE i = j
      BY <1>2, OnceIs
  <2>1. s[i + 1] = s[j + 1] /\ i + 1 \in 1..Len(s) /\ j + 1 \in 1..Len(s)
      BY <1>2
  <2>2. i + 1 = j + 1
      BY <1>3, <2>1
  <2> QED
      BY <2>2
<1>7. h \in ToSet(s)
    BY <1>2, SetIs
<1> QED
    BY <1>2, <1>4, <1>5, <1>6, <1>7 DEF t, h

\* The first member in S, if there is one.
LEMMA FirstIs ==
    ASSUME NEW E, NEW s \in Seq(E), NEW S, NoEntry \notin S
    PROVE  /\ FirstOf(s, S) \in (S \cap ToSet(s)) \cup {NoEntry}
           /\ FirstOf(s, S) = NoEntry => ToSet(s) \cap S = {}
<1> DEFINE I == {i \in 1..Len(s) : s[i] \in S}
<1>1. I \in SUBSET Nat
    BY SetIs
<1>2. CASE I = {}
  <2>1. FirstOf(s, S) = NoEntry
      BY <1>2 DEF FirstOf, SelectInSeq
  <2>2. ToSet(s) \cap S = {}
      BY <1>2, SetIs
  <2> QED
      BY <2>1, <2>2
<1>3. CASE I # {}
  <2>1. Min(I) \in I
      BY <1>1, <1>3, MinIsLeast
  <2>2. Min(I) # 0
      BY <2>1, SetIs
  <2>3. FirstOf(s, S) = s[Min(I)]
      BY <1>3, <2>2, Zenon DEF FirstOf, SelectInSeq
  <2> HIDE DEF I
  <2>4. s[Min(I)] \in S /\ s[Min(I)] \in ToSet(s)
      BY <2>1, SetIs DEF I
  <2> QED
      BY <2>3, <2>4
<1> QED
    BY <1>2, <1>3

\* What follows the k-th member is a sequence of entries as well.
LEMMA AfterIs ==
    ASSUME NEW E, NEW s \in Seq(E), NEW k \in Nat
    PROVE  SubSeq(s, k + 1, Len(s)) \in Seq(E)
    OBVIOUS

-----------------------------------------------------------------------------
(* Bucket arrays *)

Home(e, n) == HashOf[KeyOf(e)] % n

InChains(c) == UNION {ToSet(c[b]) : b \in DOMAIN c}

\* n buckets of entries: each entry where its hash says, and once.
Chains(c, n) == /\ c \in [0..n-1 -> Seq(Entries)]
                /\ \A b \in 0..n-1 : IsInjective(c[b]) /\ \A e \in ToSet(c[b]) : Home(e, n) = b

\* Every entry has a bucket among n.
LEMMA HomeIs ==
    ASSUME NEW n \in Nat \ {0}, NEW e \in Entries
    PROVE  Home(e, n) \in 0..n-1 /\ KeyOf(e) \in Keys
<1>1. KeyOf(e) \in Keys
    BY DEF Entries, KeyOf
<1>2. PICK h \in Nat : h = HashOf[KeyOf(e)]
    BY <1>1, HashAssumption
<1>3. h % n \in 0..n-1
    OBVIOUS
<1> QED
    BY <1>1, <1>2, <1>3 DEF Home

\* There are n buckets.
LEMMA BucketsAre ==
    ASSUME NEW n \in Nat
    PROVE  IsFiniteSet(0..n-1) /\ Cardinality(0..n-1) = n
<1>1. 0 \in Int /\ n-1 \in Int
    OBVIOUS
<1>2. IsFiniteSet(0..n-1) /\ Cardinality(0..n-1) = IF 0 > n-1 THEN 0 ELSE (n-1)-0+1
    BY <1>1, FS_Interval, Zenon
<1> QED
    BY <1>2

\* A bucket array has n buckets, and an entry that is in it is in its home.
LEMMA ChainsAre ==
    ASSUME NEW n \in Nat \ {0}, NEW c, Chains(c, n)
    PROVE  /\ DOMAIN c = 0..n-1 /\ Cardinality(DOMAIN c) = n
           /\ \A b \in 0..n-1 : c[b] \in Seq(Entries) /\ ToSet(c[b]) \subseteq Entries
           /\ InChains(c) \subseteq Entries
           /\ \A e : e \in InChains(c) <=> \E b \in 0..n-1 : e \in ToSet(c[b])
           /\ \A e : e \in InChains(c) <=> e \in Entries /\ e \in ToSet(c[Home(e, n)])
<1>1. DOMAIN c = 0..n-1 /\ \A b \in 0..n-1 : c[b] \in Seq(Entries)
    BY DEF Chains
<1>2. Cardinality(DOMAIN c) = n
    BY <1>1, BucketsAre
<1>3. \A b \in 0..n-1 : ToSet(c[b]) \subseteq Entries
    BY <1>1, SetIs
<1>4. \A e : e \in InChains(c) <=> \E b \in 0..n-1 : e \in ToSet(c[b])
    BY <1>1 DEF InChains
<1>5. InChains(c) \subseteq Entries
    BY <1>3, <1>4
<1>6. ASSUME NEW e \in InChains(c) PROVE e \in ToSet(c[Home(e, n)])
    BY <1>4 DEF Chains
<1>7. ASSUME NEW e \in Entries, e \in ToSet(c[Home(e, n)]) PROVE e \in InChains(c)
  <2>1. Home(e, n) \in 0..n-1
      BY HomeIs
  <2> QED
      BY <1>4, <1>7, <2>1
<1> QED
    BY <1>1, <1>2, <1>3, <1>4, <1>5, <1>6, <1>7

\* A sequence has finitely many members.
LEMMA MembersFinite ==
    ASSUME NEW E, NEW s \in Seq(E)
    PROVE  IsFiniteSet(ToSet(s))
<1>1. IsFiniteSet(1..Len(s))
  <2>1. Len(s) \in Nat
      BY SetIs
  <2> QED
      BY <2>1, FS_Interval
<1> DEFINE f == [i \in 1..Len(s) |-> s[i]]
<1>2. f \in Surjection(1..Len(s), ToSet(s))
  <2>1. \A i \in 1..Len(s) : s[i] \in ToSet(s)
      BY SetIs
  <2>2. f \in [1..Len(s) -> ToSet(s)]
      BY <2>1
  <2>3. \A x \in ToSet(s) : \E i \in 1..Len(s) : f[i] = x
      BY SetIs
  <2> QED
      BY <2>2, <2>3 DEF Surjection
<1> HIDE DEF f
<1> QED
    BY <1>1, <1>2, FS_Surjection

\* A bucket array links finitely many entries.
LEMMA ChainsFinite ==
    ASSUME NEW n \in Nat \ {0}, NEW c, Chains(c, n)
    PROVE  IsFiniteSet(InChains(c))
<1> DEFINE parts == {ToSet(c[b]) : b \in 0..n-1}
           f == [b \in 0..n-1 |-> ToSet(c[b])]
<1>1. IsFiniteSet(0..n-1)
    BY BucketsAre
<1>2. f \in Surjection(0..n-1, parts)
    BY DEF Surjection
<1>3. IsFiniteSet(parts)
  <2> HIDE DEF f, parts
  <2> QED
      BY <1>1, <1>2, FS_Surjection
<1>4. \A s \in parts : IsFiniteSet(s)
    BY ChainsAre, MembersFinite
<1>5. InChains(c) = UNION parts
    BY ChainsAre DEF InChains
<1> HIDE DEF parts
<1> QED
    BY <1>3, <1>4, <1>5, FS_UNION

\* Taking entries out leaves a bucket array with the others.
LEMMA WithoutIs ==
    ASSUME NEW n \in Nat \ {0}, NEW c, Chains(c, n), NEW S
    PROVE  Chains(Without(c, S), n) /\ InChains(Without(c, S)) = InChains(c) \ S
<1> DEFINE d == Without(c, S)
<1>1. d = [b \in 0..n-1 |-> Drop(c[b], S)]
    BY ChainsAre, Zenon DEF Without
<1>2. ASSUME NEW b \in 0..n-1
      PROVE  /\ Drop(c[b], S) \in Seq(Entries) /\ ToSet(Drop(c[b], S)) = ToSet(c[b]) \ S
             /\ IsInjective(Drop(c[b], S))
  <2>1. c[b] \in Seq(Entries) /\ IsInjective(c[b])
      BY DEF Chains
  <2> QED
      BY <2>1, DropIs
<1>3. DOMAIN d = 0..n-1 /\ \A b \in 0..n-1 : d[b] = Drop(c[b], S)
    BY <1>1
<1>4. d \in [0..n-1 -> Seq(Entries)]
    BY <1>1, <1>2
<1> HIDE DEF d
<1>5. Chains(d, n)
    BY <1>2, <1>3, <1>4 DEF Chains
<1>6. ASSUME NEW e PROVE e \in InChains(d) <=> e \in InChains(c) /\ e \notin S
  <2>1. e \in InChains(d) <=> \E b \in 0..n-1 : e \in ToSet(d[b])
      BY <1>5, ChainsAre
  <2>2. e \in InChains(c) <=> \E b \in 0..n-1 : e \in ToSet(c[b])
      BY ChainsAre
  <2> QED
      BY <1>2, <1>3, <2>1, <2>2
<1> QED
    BY <1>5, <1>6 DEF d

Put(c, b, s) == [c EXCEPT ![b] = s]

\* One bucket is changed to the sequence s of entries that belong there.
LEMMA ExceptIs ==
    ASSUME NEW n \in Nat \ {0}, NEW c, Chains(c, n), NEW b \in 0..n-1, NEW s \in Seq(Entries),
           IsInjective(s), \A e \in ToSet(s) : Home(e, n) = b
    PROVE  /\ Chains(Put(c, b, s), n)
           /\ InChains(Put(c, b, s)) = (InChains(c) \ ToSet(c[b])) \cup ToSet(s)
<1> DEFINE d == Put(c, b, s)
<1>1. c \in [0..n-1 -> Seq(Entries)]
    BY DEF Chains
<1>2. /\ d \in [0..n-1 -> Seq(Entries)] /\ d[b] = s
      /\ \A a \in 0..n-1 : a # b => d[a] = c[a]
    BY <1>1 DEF Put
<1> HIDE DEF d
<1>3. Chains(d, n)
    BY <1>2 DEF Chains
<1>4. ASSUME NEW e
      PROVE  e \in InChains(d) <=> (e \in InChains(c) /\ e \notin ToSet(c[b])) \/ e \in ToSet(s)
  <2>1. e \in InChains(d) <=> \E a \in 0..n-1 : e \in ToSet(d[a])
      BY <1>3, ChainsAre
  <2>2. e \in InChains(c) <=> \E a \in 0..n-1 : e \in ToSet(c[a])
      BY ChainsAre
  <2>3. \A a \in 0..n-1 : e \in ToSet(c[a]) => Home(e, n) = a
      BY DEF Chains
  <2> QED
      BY <1>2, <2>1, <2>2, <2>3
<1> QED
    BY <1>3, <1>4 DEF d

\* What a bucket sends to bucket j of n, is those of its entries whose home is j.
LEMMA FitIs ==
    ASSUME NEW m \in Nat \ {0}, NEW c, Chains(c, m), NEW n \in Nat \ {0}, NEW i \in 0..m-1, NEW j
    PROVE  /\ Fit(c, i, j, n) \in Seq(Entries) /\ IsInjective(Fit(c, i, j, n))
           /\ \A e : e \in ToSet(Fit(c, i, j, n)) <=> e \in ToSet(c[i]) /\ Home(e, n) = j
<1> DEFINE S == {e \in ToSet(c[i]) : HashOf[KeyOf(e)] % n # j}
<1>1. c[i] \in Seq(Entries) /\ IsInjective(c[i])
    BY DEF Chains
<1>2. Fit(c, i, j, n) = Drop(c[i], S)
    BY DEF Fit
<1>3. \A e \in ToSet(c[i]) : e \in S <=> Home(e, n) # j
    BY DEF Home
<1> HIDE DEF S
<1>4. /\ Drop(c[i], S) \in Seq(Entries) /\ ToSet(Drop(c[i], S)) = ToSet(c[i]) \ S
      /\ IsInjective(Drop(c[i], S))
    BY <1>1, DropIs
<1> QED
    BY <1>2, <1>3, <1>4

\* hsplit and hv_study neither lose nor double an entry, and put each into its home.
LEMMA RehashIs ==
    ASSUME NEW m \in Nat \ {0}, NEW c, Chains(c, m), NEW n \in Nat \ {0}
    PROVE  Chains(Rehash(c, n), n) /\ InChains(Rehash(c, n)) = InChains(c)
<1> DEFINE q(j) == [i \in 1..m |-> IF i - 1 = j THEN <<>> ELSE Fit(c, i - 1, j, n)]
           top(j) == Reverse(FlattenSeq(q(j)))
           rest(j) == IF j < m THEN Fit(c, j, j, n) ELSE <<>>
           d == Rehash(c, n)
<1>1. d = [j \in 0..n-1 |-> top(j) \o rest(j)]
  <2>1. Cardinality(DOMAIN c) = m
      BY ChainsAre
  <2> QED
      BY <2>1 DEF Rehash
<1>2. \A i \in 1..m : i - 1 \in 0..m-1
    OBVIOUS
<1>3. ASSUME NEW j \in 0..n-1
      PROVE  /\ top(j) \in Seq(Entries) /\ IsInjective(top(j))
             /\ \A e : e \in ToSet(top(j)) <=>
                         Home(e, n) = j /\ \E i \in 1..m : i - 1 # j /\ e \in ToSet(c[i - 1])
  <2>1. ASSUME NEW i \in 1..m
        PROVE  /\ q(j)[i] \in Seq(Entries) /\ IsInjective(q(j)[i])
               /\ \A e : e \in ToSet(q(j)[i]) <=>
                           i - 1 # j /\ e \in ToSet(c[i - 1]) /\ Home(e, n) = j
    <3>1. CASE i - 1 = j
        BY <3>1, NoneIs
    <3>2. CASE i - 1 # j
        BY <3>2, <1>2, FitIs
    <3> QED
        BY <3>1, <3>2
  <2>2. q(j) \in [1..m -> Seq(Entries)]
      BY <2>1
  <2> HIDE DEF q
  <2>3. \A i, k \in 1..m : i # k => ToSet(q(j)[i]) \cap ToSet(q(j)[k]) = {}
    <3> SUFFICES ASSUME NEW i \in 1..m, NEW k \in 1..m, i # k, NEW e,
                        e \in ToSet(q(j)[i]), e \in ToSet(q(j)[k])
                 PROVE  FALSE
        OBVIOUS
    <3>1. e \in ToSet(c[i - 1]) /\ e \in ToSet(c[k - 1])
        BY <2>1, Zenon
    <3>2. i - 1 # k - 1 /\ i - 1 \in 0..m-1 /\ k - 1 \in 0..m-1
        OBVIOUS
    <3>3. Home(e, m) = i - 1 /\ Home(e, m) = k - 1
        BY <3>1, <3>2 DEF Chains
    <3> QED
        BY <3>2, <3>3
  <2>4. \A i \in 1..m : IsInjective(q(j)[i])
      BY <2>1
  <2> DEFINE f == FlattenSeq(q(j))
  <2>5. /\ f \in Seq(Entries) /\ IsInjective(f)
        /\ \A e : e \in ToSet(f) <=> \E i \in 1..m : e \in ToSet(q(j)[i])
      BY <2>2, <2>3, <2>4, FlattenIs
  <2> HIDE DEF f
  <2>6. /\ Reverse(f) \in Seq(Entries) /\ IsInjective(Reverse(f))
        /\ ToSet(Reverse(f)) = ToSet(f)
      BY <2>5, ReverseIs
  <2>7. top(j) = Reverse(f)
      BY DEF f
  <2> HIDE DEF top
  <2> QED
      BY <2>1, <2>5, <2>6, <2>7
<1>4. ASSUME NEW j \in 0..n-1
      PROVE  /\ rest(j) \in Seq(Entries) /\ IsInjective(rest(j))
             /\ \A e : e \in ToSet(rest(j)) <=>
                         Home(e, n) = j /\ j < m /\ e \in ToSet(c[j])
  <2>1. CASE j < m
    <3>1. j \in 0..m-1
        BY <2>1
    <3> QED
        BY <2>1, <3>1, FitIs
  <2>2. CASE ~(j < m)
      BY <2>2, NoneIs
  <2> QED
      BY <2>1, <2>2
<1> HIDE DEF top, rest
<1>5. ASSUME NEW j \in 0..n-1
      PROVE  /\ top(j) \o rest(j) \in Seq(Entries) /\ IsInjective(top(j) \o rest(j))
             /\ \A e : e \in ToSet(top(j) \o rest(j)) <=> Home(e, n) = j /\ e \in InChains(c)
  <2>1. ToSet(top(j)) \cap ToSet(rest(j)) = {}
    <3> SUFFICES ASSUME NEW e, e \in ToSet(top(j)), e \in ToSet(rest(j)) PROVE FALSE
        OBVIOUS
    <3>1. PICK i \in 1..m : i - 1 # j /\ e \in ToSet(c[i - 1])
        BY <1>3
    <3>2. j \in 0..m-1 /\ e \in ToSet(c[j])
        BY <1>4
    <3> QED
        BY <3>1, <3>2, <1>2 DEF Chains
  <2>2. /\ top(j) \o rest(j) \in Seq(Entries) /\ IsInjective(top(j) \o rest(j))
        /\ ToSet(top(j) \o rest(j)) = ToSet(top(j)) \cup ToSet(rest(j))
      BY <1>3, <1>4, <2>1, BothIs
  <2>3. ASSUME NEW e PROVE e \in ToSet(top(j) \o rest(j)) <=> Home(e, n) = j /\ e \in InChains(c)
    <3> DEFINE A == \E i \in 1..m : i - 1 # j /\ e \in ToSet(c[i - 1])
               B == j < m /\ e \in ToSet(c[j])
    <3>1. e \in InChains(c) <=> \E b \in 0..m-1 : e \in ToSet(c[b])
        BY ChainsAre
    <3>2. e \in ToSet(top(j)) <=> Home(e, n) = j /\ A
        BY <1>3
    <3>3. e \in ToSet(rest(j)) <=> Home(e, n) = j /\ B
        BY <1>4
    <3>4. e \in ToSet(top(j) \o rest(j)) <=> e \in ToSet(top(j)) \/ e \in ToSet(rest(j))
        BY <2>2, Zenon
    <3>5. ASSUME NEW b \in 0..m-1, e \in ToSet(c[b]) PROVE A \/ B
      <4>1. CASE b = j
          BY <3>5, <4>1
      <4>2. CASE b # j
        <5>1. b + 1 \in 1..m /\ (b + 1) - 1 = b
            OBVIOUS
        <5>2. e \in ToSet(c[(b + 1) - 1])
            BY <3>5, <5>1
        <5> QED
            BY <4>2, <5>1, <5>2
      <4> QED
          BY <4>1, <4>2
    <3>6. B => \E b \in 0..m-1 : e \in ToSet(c[b])
        OBVIOUS
    <3>7. ASSUME NEW i \in 1..m, e \in ToSet(c[i - 1]) PROVE \E b \in 0..m-1 : e \in ToSet(c[b])
      <4>1. i - 1 \in 0..m-1
          BY <1>2
      <4> QED
          BY <3>7, <4>1, Zenon
    <3>8. A => \E b \in 0..m-1 : e \in ToSet(c[b])
        BY <3>7, Zenon
    <3>9. e \in InChains(c) => A \/ B
      <4> HIDE DEF A, B
      <4> QED
          BY <3>1, <3>5
    <3> HIDE DEF A, B
    <3> QED
        BY <3>1, <3>2, <3>3, <3>4, <3>6, <3>8, <3>9, Zenon
  <2> QED
      BY <2>2, <2>3
<1>6. /\ d \in [0..n-1 -> Seq(Entries)] /\ DOMAIN d = 0..n-1
      /\ \A j \in 0..n-1 : d[j] = top(j) \o rest(j)
    BY <1>1, <1>5
<1> HIDE DEF d
<1>7. Chains(d, n)
  <2>1. ASSUME NEW j \in 0..n-1 PROVE IsInjective(d[j]) /\ \A e \in ToSet(d[j]) : Home(e, n) = j
    <3>1. d[j] = top(j) \o rest(j)
        BY <1>6
    <3> QED
        BY <1>5, <3>1, Zenon
  <2> QED
      BY <1>6, <2>1 DEF Chains
<1>8. ASSUME NEW e PROVE e \in InChains(d) <=> e \in InChains(c)
  <2>1. e \in InChains(d) <=> \E j \in 0..n-1 : e \in ToSet(d[j])
      BY <1>7, ChainsAre
  <2>2. e \in InChains(c) => e \in Entries /\ Home(e, n) \in 0..n-1
      BY ChainsAre, HomeIs
  <2> QED
      BY <1>5, <1>6, <2>1, <2>2
<1> QED
    BY <1>7, <1>8 DEF d

\* A new entry on top of its bucket.
LEMMA PushedIs ==
    ASSUME NEW n \in Nat \ {0}, NEW c, Chains(c, n), NEW e \in Entries, e \notin InChains(c)
    PROVE  /\ Chains([c EXCEPT ![Home(e, n)] = <<e>> \o @], n)
           /\ InChains([c EXCEPT ![Home(e, n)] = <<e>> \o @]) = InChains(c) \cup {e}
<1>1. PICK b \in 0..n-1 : b = Home(e, n)
    BY HomeIs
<1>2. c[b] \in Seq(Entries) /\ IsInjective(c[b]) /\ ToSet(c[b]) \subseteq InChains(c)
    BY ChainsAre DEF Chains
<1> DEFINE o == <<e>>
           s == o \o c[b]
<1>3. o \in Seq(Entries) /\ ToSet(o) = {e} /\ IsInjective(o)
    BY SingleIs
<1>4. s \in Seq(Entries) /\ IsInjective(s) /\ ToSet(s) = {e} \cup ToSet(c[b])
  <2> HIDE DEF o
  <2>1. ToSet(o) \cap ToSet(c[b]) = {}
      BY <1>2, <1>3
  <2>2. s \in Seq(Entries) /\ IsInjective(s) /\ ToSet(s) = ToSet(o) \cup ToSet(c[b])
      BY <1>2, <1>3, <2>1, BothIs
  <2> QED
      BY <1>3, <2>2
<1>5. [c EXCEPT ![Home(e, n)] = <<e>> \o @] = Put(c, b, s)
    BY <1>1 DEF Put
<1>6. \A x \in ToSet(s) : Home(x, n) = b
    BY <1>1, <1>4 DEF Chains
<1> HIDE DEF s
<1>7. /\ Chains(Put(c, b, s), n)
      /\ InChains(Put(c, b, s)) = (InChains(c) \ ToSet(c[b])) \cup ToSet(s)
    BY <1>1, <1>4, <1>6, ExceptIs
<1> QED
    BY <1>2, <1>4, <1>5, <1>7

\* An entry goes to the front of its bucket.
LEMMA FrontIs ==
    ASSUME NEW n \in Nat \ {0}, NEW c, Chains(c, n), NEW e \in InChains(c)
    PROVE  /\ Chains([c EXCEPT ![Home(e, n)] = <<e>> \o Drop(@, {e})], n)
           /\ InChains([c EXCEPT ![Home(e, n)] = <<e>> \o Drop(@, {e})]) = InChains(c)
<1>0. e \in Entries
    BY ChainsAre
<1>1. PICK b \in 0..n-1 : b = Home(e, n)
    BY <1>0, HomeIs
<1>2. /\ c[b] \in Seq(Entries) /\ IsInjective(c[b]) /\ ToSet(c[b]) \subseteq InChains(c)
      /\ e \in ToSet(c[b])
    BY <1>1, ChainsAre DEF Chains
<1> DEFINE t == Drop(c[b], {e})
           o == <<e>>
           s == o \o t
<1>3. o \in Seq(Entries) /\ ToSet(o) = {e} /\ IsInjective(o)
    BY <1>0, SingleIs
<1>4. t \in Seq(Entries) /\ IsInjective(t) /\ ToSet(t) = ToSet(c[b]) \ {e}
    BY <1>2, DropIs
<1>5. [c EXCEPT ![Home(e, n)] = <<e>> \o Drop(@, {e})] = Put(c, b, s)
    BY <1>1 DEF Put
<1> HIDE DEF t
<1>6. s \in Seq(Entries) /\ IsInjective(s) /\ ToSet(s) = ToSet(c[b])
  <2> HIDE DEF o
  <2>1. ToSet(o) \cap ToSet(t) = {}
      BY <1>3, <1>4
  <2>2. s \in Seq(Entries) /\ IsInjective(s) /\ ToSet(s) = ToSet(o) \cup ToSet(t)
      BY <1>3, <1>4, <2>1, BothIs
  <2> QED
      BY <1>2, <1>3, <1>4, <2>2
<1>7. \A x \in ToSet(s) : Home(x, n) = b
    BY <1>6 DEF Chains
<1> HIDE DEF s
<1>8. /\ Chains(Put(c, b, s), n)
      /\ InChains(Put(c, b, s)) = (InChains(c) \ ToSet(c[b])) \cup ToSet(s)
    BY <1>1, <1>6, <1>7, ExceptIs
<1> QED
    BY <1>2, <1>5, <1>6, <1>8

\* The first entry of a bucket is taken off.
LEMMA OffIs ==
    ASSUME NEW n \in Nat \ {0}, NEW c, Chains(c, n), NEW b \in 0..n-1, c[b] # <<>>
    PROVE  /\ Chains([c EXCEPT ![b] = Tail(@)], n) /\ Head(c[b]) \in InChains(c)
           /\ InChains([c EXCEPT ![b] = Tail(@)]) = InChains(c) \ {Head(c[b])}
<1>1. /\ c[b] \in Seq(Entries) /\ IsInjective(c[b]) /\ ToSet(c[b]) \subseteq InChains(c)
      /\ \A x \in ToSet(c[b]) : Home(x, n) = b
    BY ChainsAre DEF Chains
<1>2. PICK s \in Seq(Entries) : s = Tail(c[b]) /\ IsInjective(s) /\ ToSet(s) = ToSet(c[b]) \ {Head(c[b])}
    BY <1>1, TailIs
<1>3. Head(c[b]) \in ToSet(c[b])
    BY <1>1, TailIs
<1>4. [c EXCEPT ![b] = Tail(@)] = Put(c, b, s)
    BY <1>2 DEF Put
<1>5. /\ Chains(Put(c, b, s), n)
      /\ InChains(Put(c, b, s)) = (InChains(c) \ ToSet(c[b])) \cup ToSet(s)
  <2>1. s \in Seq(Entries) /\ IsInjective(s) /\ \A x \in ToSet(s) : Home(x, n) = b
      BY <1>1, <1>2
  <2> QED
      BY <2>1, ExceptIs
<1> QED
    BY <1>1, <1>2, <1>3, <1>4, <1>5

\* The bucket array of an empty hash.
LEMMA NewIs ==
    ASSUME NEW n \in Nat \ {0}
    PROVE  Chains([b \in 0..n-1 |-> <<>>], n) /\ InChains([b \in 0..n-1 |-> <<>>]) = {}
<1> DEFINE c == [b \in 0..n-1 |-> <<>>]
<1>1. c \in [0..n-1 -> Seq(Entries)] /\ \A b \in 0..n-1 : c[b] = <<>>
    BY NoneIs
<1> HIDE DEF c
<1>2. Chains(c, n)
    BY <1>1, NoneIs DEF Chains
<1>3. InChains(c) = {}
    BY <1>1, <1>2, NoneIs, ChainsAre
<1> QED
    BY <1>2, <1>3 DEF c

\* hv_study shrinks to an array of at least one bucket.
LEMMA StudiedIs ==
    ASSUME NEW keys \in Nat
    PROVE  StudiedSize(keys) \in Nat \ {0}
<1> DEFINE F == [p \in Nat \X (0..keys) |-> 2 * p[1]]
<1>1. F \in [Nat \X (0..keys) -> Nat]
    OBVIOUS
<1>2. PICK f \in [0..keys -> Nat] : Recursion(f, 0, keys, 1, F)
  <2> HIDE DEF F
  <2>1. 0 \in Nat /\ 1 \in Nat
      OBVIOUS
  <2> QED
      BY <1>1, <2>1, RecursionIs, Zenon
<1>3. ASSUME NEW i \in 0..keys PROVE f[i] = IF i = 0 THEN 1 ELSE 2 * f[i-1]
  <2>1. CASE i = 0
      BY <2>1, <1>2 DEF Recursion
  <2>2. CASE i # 0
    <3>1. i-1 \in 0..keys
        BY <2>2
    <3>2. <<f[i-1], i>> \in Nat \X (0..keys)
        BY <3>1
    <3>3. F[<<f[i-1], i>>] = 2 * f[i-1]
        BY <3>2
    <3> HIDE DEF F
    <3>4. f[i] = F[<<f[i-1], i>>]
        BY <2>2, <1>2 DEF Recursion
    <3> QED
        BY <2>2, <3>3, <3>4
  <2> QED
      BY <2>1, <2>2
<1>4. f = [i \in 0..keys |-> IF i = 0 THEN 1 ELSE 2 * f[i-1]]
    BY <1>3
<1> DEFINE Size2(p) == LET n == Min({m \in {p[i] : i \in 0..keys} : m >= keys})
                       IN IF Crowded(keys, n) THEN 2 * n ELSE n
<1>5. StudiedSize(keys) = Size2(CHOOSE p : p = [i \in 0..keys |-> IF i = 0 THEN 1 ELSE 2 * p[i-1]])
    BY Zenon DEF StudiedSize
<1>6. PICK p : /\ p = [i \in 0..keys |-> IF i = 0 THEN 1 ELSE 2 * p[i-1]]
               /\ StudiedSize(keys) = Size2(p)
  <2> HIDE DEF Size2
  <2> QED
      BY <1>4, <1>5, Zenon
<1>7. \A i \in 0..keys : p[i] = IF i = 0 THEN 1 ELSE 2 * p[i-1]
    BY <1>6
<1> DEFINE S == {k \in Nat : k <= keys => p[k] \in Nat \ {0} /\ p[k] >= k}
<1>8. 0 \in S
    BY <1>7
<1>9. ASSUME NEW k \in Nat, k \in S PROVE k + 1 \in S
  <2> SUFFICES ASSUME k + 1 <= keys PROVE p[k + 1] \in Nat \ {0} /\ p[k + 1] >= k + 1
      OBVIOUS
  <2>1. p[k] \in Nat \ {0} /\ p[k] >= k
      BY <1>9
  <2>2. p[k + 1] = 2 * p[k]
    <3>1. k + 1 \in 0..keys /\ k + 1 # 0 /\ (k + 1) - 1 = k
        OBVIOUS
    <3> QED
        BY <3>1, <1>7
  <2> QED
      BY <2>1, <2>2
<1>10. \A k \in Nat : k \in S
  <2> HIDE DEF S
  <2> QED
      BY <1>8, <1>9, EveryNumber
<1>11. \A k \in 0..keys : p[k] \in Nat \ {0} /\ p[k] >= k
    BY <1>10
<1> DEFINE M == {m \in {p[i] : i \in 0..keys} : m >= keys}
<1>12. M \in SUBSET (Nat \ {0}) /\ M # {}
    BY <1>11
<1>13. PICK n \in Nat \ {0} : n = Min(M)
  <2> HIDE DEF M
  <2>1. M \in SUBSET Nat
      BY <1>12
  <2>2. Min(M) \in M
      BY <1>12, <2>1, MinIsLeast
  <2> QED
      BY <1>12, <2>2
<1>14. Size2(p) = IF Crowded(keys, n) THEN 2 * n ELSE n
    BY <1>13, Zenon
<1> QED
    BY <1>6, <1>13, <1>14

-----------------------------------------------------------------------------
(* The hash and its iterator *)

Ranges == /\ riter \in -1..MaxSize-1 /\ clearing \in -1..MaxSize-1
          /\ eiter \in Entries \cup {NoEntry} /\ lazynext \in Entries \cup {NoEntry}
          /\ restricted \in BOOLEAN /\ lazydel \in BOOLEAN /\ changed \in BOOLEAN
          /\ whole \in BOOLEAN /\ ended \in BOOLEAN

\* What the assumption on the constants gives.
LEMMA BoundsAre == /\ FirstSize \in Nat \ {0} /\ FirstSize \in 1..MaxSize /\ MaxSize \in Nat \ {0}
                   /\ NoEntry \notin Entries
    BY HashAssumption DEF Entries

\* What HashCoherent gives, in the terms of Chains.
LEMMA StateIs ==
    ASSUME HashCoherent
    PROVE  /\ Size \in Nat \ {0} /\ Size \in 1..MaxSize /\ Chains(chain, Size) /\ InChains(chain) = Linked
           /\ DOMAIN chain = 0..Size-1 /\ Linked \subseteq Entries /\ IsFiniteSet(Linked)
           /\ NoEntry \notin Linked /\ keycount = Cardinality(Linked) /\ keycount \in Nat
           /\ placeholder \subseteq Linked /\ IsFiniteSet(placeholder)
           /\ frozen \subseteq Linked /\ frozen \cap placeholder = {}
           /\ \A d, e \in Linked : KeyOf(d) = KeyOf(e) => d = e
           /\ clearing = NoRiter => placecount = Cardinality(placeholder)
           /\ Ranges
<1>1. Size \in Nat \ {0} /\ Size \in 1..MaxSize
    BY BoundsAre DEF HashCoherent, HashTypeOK
<1>2. Linked = InChains(chain)
    BY DEF Linked, InChains
<1>3. \A e : BucketOf(e) = Home(e, Size)
    BY DEF BucketOf, Bucket, Home
<1>4. Chains(chain, Size)
  <2>1. chain \in [0..Size-1 -> Seq(Entries)] /\ DOMAIN chain = 0..Size-1
      BY DEF HashCoherent, HashTypeOK
  <2>2. \A b \in 0..Size-1 : IsInjective(chain[b]) /\ \A e \in ToSet(chain[b]) : BucketOf(e) = b
      BY <2>1, Zenon DEF HashCoherent
  <2> QED
      BY <1>3, <2>1, <2>2, Zenon DEF Chains
<1>5. /\ DOMAIN chain = 0..Size-1 /\ Linked \subseteq Entries /\ IsFiniteSet(Linked)
    BY <1>1, <1>2, <1>4, ChainsAre, ChainsFinite, Zenon
<1>6. NoEntry \notin Linked
    BY <1>5, BoundsAre
<1>7. placeholder \subseteq Linked /\ frozen \subseteq Linked /\ frozen \cap placeholder = {}
    BY DEF HashCoherent, HashTypeOK, Valued
<1>8. keycount = Cardinality(Linked) /\ keycount \in Nat /\ IsFiniteSet(placeholder)
    BY <1>5, <1>7, FS_CardinalityType, FS_Subset DEF HashCoherent
<1>9. /\ \A d, e \in Linked : KeyOf(d) = KeyOf(e) => d = e
      /\ clearing = NoRiter => placecount = Cardinality(placeholder)
    BY Zenon DEF HashCoherent
<1>10. Ranges
    BY DEF HashCoherent, HashTypeOK, Ranges
<1> QED
    BY <1>1, <1>2, <1>4, <1>5, <1>6, <1>7, <1>8, <1>9, <1>10

\* The hash is coherent again, with the entries L in n buckets.
LEMMA Rebuilt ==
    ASSUME NEW n \in 1..MaxSize, NEW L, Chains(chain', n), InChains(chain') = L,
           placeholder' \subseteq L, frozen' \subseteq L, frozen' \cap placeholder' = {},
           \A d, e \in L : KeyOf(d) = KeyOf(e) => d = e,
           keycount' = Cardinality(L),
           clearing' = NoRiter => placecount' = Cardinality(placeholder'),
           Ranges'
    PROVE  HashCoherent' /\ Linked' = L
<1>1. n \in Nat \ {0}
    BY BoundsAre
<1>2. DOMAIN chain' = 0..n-1 /\ Cardinality(DOMAIN chain') = n
    BY <1>1, ChainsAre, Zenon
<1>3. Size' = n /\ Linked' = L
    BY <1>2 DEF Size, Linked, InChains
<1>4. \A e : BucketOf(e)' = Home(e, n)
    BY <1>3 DEF BucketOf, Bucket, Home
<1>5. \A b \in DOMAIN chain' : /\ IsInjective(chain'[b])
                              /\ \A e \in ToSet(chain'[b]) : BucketOf(e)' = b
    BY <1>2, <1>4, Zenon DEF Chains
<1>6. chain' \in [0..n-1 -> Seq(Entries)]
    BY DEF Chains
<1>7. HashTypeOK'
    BY <1>3, <1>6, Zenon DEF HashTypeOK, Valued, Ranges
<1> QED
    BY <1>3, <1>5, <1>7, Zenon DEF HashCoherent

\* Counting a set and its parts.
LEMMA CountIs ==
    ASSUME NEW L, IsFiniteSet(L), NEW P \in SUBSET L
    PROVE  /\ Cardinality(L) \in Nat /\ Cardinality(P) \in Nat /\ IsFiniteSet(P)
           /\ Cardinality(L \ P) = Cardinality(L) - Cardinality(P)
<1>1. IsFiniteSet(P) /\ Cardinality(L) \in Nat /\ Cardinality(P) \in Nat
    BY FS_Subset, FS_CardinalityType
<1>2. L \cap P = P
    OBVIOUS
<1>3. Cardinality(L \ P) = Cardinality(L) - Cardinality(L \cap P)
    BY FS_Difference
<1> QED
    BY <1>1, <1>2, <1>3

\* Counting one entry more.
LEMMA CountMore ==
    ASSUME NEW L, IsFiniteSet(L), NEW e, e \notin L
    PROVE  IsFiniteSet(L \cup {e}) /\ Cardinality(L \cup {e}) = Cardinality(L) + 1
    BY FS_AddElement

\* Counting one entry less.
LEMMA CountLess ==
    ASSUME NEW L, IsFiniteSet(L), NEW e \in L
    PROVE  IsFiniteSet(L \ {e}) /\ Cardinality(L \ {e}) = Cardinality(L) - 1
    BY FS_RemoveElement

\* Looking in its bucket finds the entry of a key, if one is linked.
LEMMA FoundIs ==
    ASSUME HashCoherent, NEW k \in Keys
    PROVE  EntriesOf(k) = {e \in Linked : KeyOf(e) = k}
<1>1. PICK n \in Nat \ {0} : n = Size
    BY StateIs
<1>2. Chains(chain, n) /\ InChains(chain) = Linked
    BY <1>1, StateIs
<1>3. PICK h \in Nat : h = HashOf[k]
    BY HashAssumption
<1>4. Bucket(k) = h % n /\ h % n \in 0..n-1
    BY <1>1, <1>3 DEF Bucket
<1>5. \A e : KeyOf(e) = k => Home(e, n) = Bucket(k)
    BY <1>1 DEF Home, Bucket
<1>6. ASSUME NEW e PROVE e \in EntriesOf(k) <=> e \in Linked /\ KeyOf(e) = k
  <2>1. e \in EntriesOf(k) <=> e \in ToSet(chain[Bucket(k)]) /\ KeyOf(e) = k
      BY DEF EntriesOf
  <2>2. e \in Linked <=> e \in Entries /\ e \in ToSet(chain[Home(e, n)])
      BY <1>2, ChainsAre
  <2>3. e \in ToSet(chain[Bucket(k)]) => e \in Linked
      BY <1>2, <1>4, ChainsAre
  <2> QED
      BY <1>5, <2>1, <2>2, <2>3
<1> QED
    BY <1>6 DEF EntriesOf

\* What the iterator has still to visit in its bucket, is entries.
LEMMA InOrder ==
    ASSUME HashCoherent, NEW e \in Entries
    PROVE  After(e) \in Seq(Entries)
<1>1. BucketOf(e) \in 0..Size-1
    BY StateIs, HomeIs DEF BucketOf, Bucket, Home
<1>2. PICK c \in Seq(Entries) : c = chain[BucketOf(e)]
    BY <1>1, StateIs DEF Chains
<1> DEFINE I == {i \in 1..Len(c) : c[i] = e}
           k == SelectInSeq(c, LAMBDA d : d = e)
<1>3. k \in Nat
  <2>1. I \in SUBSET Nat
      BY SetIs
  <2>2. CASE I = {}
      BY <2>2 DEF SelectInSeq
  <2>3. CASE I # {}
    <3>1. k = Min(I)
        BY <2>3, Zenon DEF SelectInSeq
    <3> HIDE DEF I, k
    <3> QED
        BY <2>1, <2>3, <3>1, MinIsLeast
  <2> QED
      BY <2>2, <2>3
<1>4. After(e) = SubSeq(c, k + 1, Len(c))
    BY <1>2, Zenon DEF After
<1> HIDE DEF k
<1> QED
    BY <1>3, <1>4, AfterIs

\* Whatever is unlinked, the iterator's fields stay what they should be.
LEMMA UnlinkedIs ==
    ASSUME HashCoherent, NEW S \in SUBSET Linked, Unlinks(S)
    PROVE  /\ lazynext' \in Entries \cup {NoEntry} /\ lazydel' \in BOOLEAN
           /\ ~lazydel' => ~lazydel /\ eiter \notin S
           /\ lazydel' => lazydel \/ eiter \in S
           /\ HashIterSafe => (lazydel' => lazynext' \in (Linked \ S) \cup {NoEntry})
<1>0. Linked \subseteq Entries /\ NoEntry \notin Linked /\ Ranges
    BY StateIs, Zenon
<1>1. /\ lazydel' = (lazydel \/ eiter \in S)
      /\ lazynext' = IF eiter \in S THEN FirstOf(After(eiter), Linked \ S)
                     ELSE IF lazydel /\ lazynext \in S THEN FirstOf(After(lazynext), Linked \ S)
                     ELSE lazynext
    BY Zenon DEF Unlinks
<1>2. ASSUME NEW e \in S PROVE FirstOf(After(e), Linked \ S) \in (Linked \ S) \cup {NoEntry}
  <2>1. e \in Entries /\ NoEntry \notin Linked \ S
      BY <1>0
  <2>2. PICK s \in Seq(Entries) : s = After(e)
      BY <2>1, InOrder
  <2>3. FirstOf(s, Linked \ S) \in ((Linked \ S) \cap ToSet(s)) \cup {NoEntry}
      BY <2>1, <2>2, FirstIs, Zenon
  <2> QED
      BY <2>2, <2>3
<1>3. /\ lazydel' \in BOOLEAN /\ (~lazydel' => ~lazydel /\ eiter \notin S)
      /\ (lazydel' => lazydel \/ eiter \in S)
    BY <1>1, Zenon
<1>4. CASE eiter \in S
    BY <1>0, <1>1, <1>2, <1>3, <1>4, Zenon
<1>5. CASE eiter \notin S /\ lazydel /\ lazynext \in S
    BY <1>0, <1>1, <1>2, <1>3, <1>5
<1>6. CASE eiter \notin S /\ ~(lazydel /\ lazynext \in S)
  <2>1. lazynext' = lazynext
      BY <1>1, <1>6, Zenon
  <2>2. lazynext' \in Entries \cup {NoEntry}
      BY <2>1, <1>0 DEF Ranges
  <2>3. ASSUME HashIterSafe, lazydel' PROVE lazynext' \in (Linked \ S) \cup {NoEntry}
    <3>1. lazydel
        BY <1>3, <1>6, <2>3, Zenon
    <3>2. lazynext \in Linked \cup {NoEntry} /\ lazynext \notin S
        BY <3>1, <1>6, <2>3, Zenon DEF HashIterSafe
    <3> QED
        BY <2>1, <3>2
  <2> QED
      BY <1>3, <2>2, <2>3
<1> QED
    BY <1>4, <1>5, <1>6, Zenon

\* A step that would corrupt the hash is not taken while its hole is closed.
LEMMA HoleIs ==
    ASSUME NEW name, NEW corrupts, Hole(name, corrupts), name \notin Holes
    PROVE  ~corrupts
    BY Zenon DEF Hole

\* Where the iterator stays as it is and no entry comes or goes.
LEMMA SafeStill ==
    ASSUME HashIterSafe, Linked' = Linked, UNCHANGED <<iterVars, whole>>
    PROVE  HashIterSafe'
<1>1. /\ riter' = riter /\ eiter' = eiter /\ lazydel' = lazydel /\ lazynext' = lazynext
      /\ changed' = changed /\ whole' = whole
    BY DEF iterVars
<1>2. /\ lazynext' \in Linked' \cup {NoEntry} <=> lazynext \in Linked \cup {NoEntry}
      /\ eiter' \in Linked' \cup {NoEntry} <=> eiter \in Linked \cup {NoEntry}
    BY <1>1
<1>3. /\ lazydel => lazynext \in Linked \cup {NoEntry}
      /\ ~lazydel /\ eiter \notin Linked \cup {NoEntry} => changed /\ ~whole
    BY DEF HashIterSafe
<1>4. (lazydel' <=> lazydel) /\ (changed' <=> changed) /\ (whole' <=> whole)
    BY <1>1
<1>5. lazydel' => eiter' # NoEntry
    BY <1>1, Zenon DEF HashIterSafe
<1>6. lazydel' => lazynext' \in Linked' \cup {NoEntry}
    BY <1>2, <1>3, <1>4
<1>7. ~lazydel' /\ eiter' \notin Linked' \cup {NoEntry} => changed' /\ ~whole'
  <2> SUFFICES ASSUME ~lazydel', ~(eiter' \in Linked' \cup {NoEntry}) PROVE changed' /\ ~whole'
      OBVIOUS
  <2>1. ~(eiter \in Linked \cup {NoEntry})
      BY <1>2
  <2> QED
      BY <1>3, <1>4, <2>1
<1>8. eiter' = NoEntry /\ whole' => riter' = NoRiter
    BY <1>1, <1>4 DEF HashIterSafe
<1> QED
    BY <1>5, <1>6, <1>7, <1>8, Zenon DEF HashIterSafe

\* Where the entries S are unlinked, and the iterator stands where it stood.
LEMMA SafeUnlinked ==
    ASSUME HashCoherent, HashIterSafe, NEW S \in SUBSET Linked, Unlinks(S), Linked \ S \subseteq Linked',
           eiter' = eiter, riter' = riter, changed => changed', whole' => whole
    PROVE  HashIterSafe'
<1>1. /\ ~lazydel' => ~lazydel /\ eiter \notin S
      /\ lazydel' => lazydel \/ eiter \in S
      /\ lazydel' => lazynext' \in (Linked \ S) \cup {NoEntry}
    BY UnlinkedIs, Zenon
<1>2. lazydel' => eiter' # NoEntry
    BY <1>1, StateIs DEF HashIterSafe
<1>3. lazydel' => lazynext' \in Linked' \cup {NoEntry}
    BY <1>1
<1>4. ~lazydel' /\ eiter' \notin Linked' \cup {NoEntry} => changed' /\ ~whole'
  <2> SUFFICES ASSUME ~lazydel', eiter' \notin Linked' \cup {NoEntry} PROVE changed' /\ ~whole'
      OBVIOUS
  <2>1. ~lazydel /\ eiter \notin S
      BY <1>1, Zenon
  <2>2. eiter \notin Linked \cup {NoEntry}
      BY <2>1
  <2>3. changed /\ ~whole
      BY <2>1, <2>2, Zenon DEF HashIterSafe
  <2> QED
      BY <2>3, Zenon
<1>5. eiter' = NoEntry /\ whole' => riter' = NoRiter
    BY DEF HashIterSafe
<1> QED
    BY <1>2, <1>3, <1>4, <1>5, Zenon DEF HashIterSafe

\* Bringing an entry to the front of its bucket keeps the bucket array.
LEMMA InFront ==
    ASSUME HashCoherent, NEW e \in Linked, ToFront(e)
    PROVE  Chains(chain', Size) /\ InChains(chain') = Linked
<1>1. PICK n \in Nat \ {0} : n = Size
    BY StateIs
<1>2. Chains(chain, n) /\ InChains(chain) = Linked
    BY <1>1, StateIs
<1>3. BucketOf(e) = Home(e, n)
    BY <1>1 DEF BucketOf, Bucket, Home
<1>4. CASE eiter # NoEntry
    BY <1>1, <1>2, <1>4 DEF ToFront
<1>5. CASE eiter = NoEntry
  <2>1. chain' = [chain EXCEPT ![Home(e, n)] = <<e>> \o Drop(@, {e})]
      BY <1>3, <1>5, Zenon DEF ToFront
  <2>2. /\ Chains([chain EXCEPT ![Home(e, n)] = <<e>> \o Drop(@, {e})], n)
        /\ InChains([chain EXCEPT ![Home(e, n)] = <<e>> \o Drop(@, {e})]) = InChains(chain)
      BY <1>2, FrontIs, Zenon
  <2> QED
      BY <1>1, <1>2, <2>1, <2>2, Zenon
<1> QED
    BY <1>4, <1>5

\* One lemma for each action.  hv_common, a fetch.
LEMMA FindKeeps ==
    ASSUME HashCoherent, NEW k \in Keys, HashFind(k)
    PROVE  HashCoherent' /\ (HashIterSafe => HashIterSafe')
<1>1. PICK e \in EntriesOf(k) \ placeholder :
          /\ ToFront(e)
          /\ UNCHANGED <<placeholder, frozen, keycount, placecount,
                         iterVars, restricted, clearing, historyVars>>
    BY Zenon DEF HashFind
<1>2. e \in Linked
    BY <1>1, FoundIs
<1>3. /\ placeholder' = placeholder /\ frozen' = frozen /\ keycount' = keycount
      /\ placecount' = placecount /\ clearing' = clearing /\ UNCHANGED <<iterVars, whole>>
      /\ (Ranges => Ranges')
    BY <1>1 DEF iterVars, historyVars, Ranges
<1>4. Chains(chain', Size) /\ InChains(chain') = Linked
    BY <1>1, <1>2, InFront, Zenon
<1>5. HashCoherent' /\ Linked' = Linked
    BY <1>3, <1>4, StateIs, Rebuilt
<1> QED
    BY <1>3, <1>5, SafeStill, Zenon

\* A store into a placeholder.
LEMMA RefillKeeps ==
    ASSUME HashCoherent, NEW k \in Keys, HashRefill(k)
    PROVE  HashCoherent' /\ (HashIterSafe => HashIterSafe')
<1>1. PICK e \in EntriesOf(k) \cap placeholder :
          /\ ToFront(e)
          /\ placeholder' = placeholder \ {e} /\ placecount' = placecount - 1
          /\ UNCHANGED <<frozen, keycount, iterVars, restricted, clearing, historyVars>>
    BY Zenon DEF HashRefill
<1>2. e \in Linked /\ e \in placeholder
    BY <1>1, FoundIs
<1>3. /\ frozen' = frozen /\ keycount' = keycount /\ clearing' = clearing
      /\ UNCHANGED <<iterVars, whole>> /\ (Ranges => Ranges')
    BY <1>1 DEF iterVars, historyVars, Ranges
<1>4. Chains(chain', Size) /\ InChains(chain') = Linked
    BY <1>1, <1>2, InFront, Zenon
<1>5. clearing' = NoRiter => placecount' = Cardinality(placeholder')
  <2>1. Cardinality(placeholder \ {e}) = Cardinality(placeholder) - 1
      BY <1>2, StateIs, CountLess
  <2> QED
      BY <1>1, <1>3, <2>1, StateIs
<1>6. /\ placeholder' \subseteq Linked /\ frozen' \subseteq Linked /\ frozen' \cap placeholder' = {}
      /\ keycount' = Cardinality(Linked) /\ Ranges' /\ Size \in 1..MaxSize
      /\ \A c, d \in Linked : KeyOf(c) = KeyOf(d) => c = d
    BY <1>1, <1>3, StateIs
<1>7. HashCoherent' /\ Linked' = Linked
    BY <1>4, <1>5, <1>6, Rebuilt
<1> QED
    BY <1>3, <1>7, SafeStill, Zenon

\* A store that links a new entry, and may split the hash.
LEMMA InsertKeeps ==
    ASSUME HashCoherent, "destroy" \notin Holes, NEW e \in Entries, HashInsert(e)
    PROVE  HashCoherent' /\ (HashIterSafe => HashIterSafe')
<1> DEFINE k      == KeyOf(e)
           sweeps == Crowded(keycount + 1, Size) /\ placecount > 0
           swept  == IF sweeps THEN placeholder ELSE {}
           left   == keycount + 1 - (IF sweeps THEN placecount ELSE 0)
           splits == Crowded(left, Size)
           L      == (Linked \cup {e}) \ swept
<1>1. /\ EntriesOf(k) = {} /\ (splits => 2 * Size <= MaxSize)
      /\ Hole("destroy", sweeps /\ clearing # NoRiter)
      /\ chain' = IF splits
                  THEN Rehash(Without([chain EXCEPT ![Bucket(k)] = <<e>> \o @], swept), 2 * Size)
                  ELSE Without([chain EXCEPT ![Bucket(k)] = <<e>> \o @], swept)
      /\ keycount' = left
      /\ placeholder' = placeholder \ swept
      /\ placecount' = (IF sweeps THEN 0 ELSE placecount)
      /\ Unlinks(swept)
      /\ changed' = TRUE
      /\ whole' = (whole /\ ~splits)
      /\ UNCHANGED <<frozen, riter, eiter, restricted, clearing, owed, visited, ended>>
    BY Zenon DEF HashInsert
<1> HIDE DEF sweeps, splits
<1>2. k \in Keys
    BY DEF Entries, KeyOf
<1>3. e \notin Linked /\ \A d \in Linked : KeyOf(d) # k
    BY <1>1, <1>2, FoundIs
<1>4. sweeps => clearing = NoRiter
    BY <1>1, HoleIs
<1>5. PICK n \in Nat \ {0} : n = Size
    BY StateIs
<1>6. /\ Chains(chain, n) /\ InChains(chain) = Linked /\ n \in 1..MaxSize /\ Bucket(k) = Home(e, n)
    BY <1>5, StateIs DEF Bucket, Home
<1>7. PICK c : /\ c = Without([chain EXCEPT ![Bucket(k)] = <<e>> \o @], swept)
               /\ Chains(c, n) /\ InChains(c) = L
  <2> HIDE DEF k, swept
  <2>1. PICK d : d = [chain EXCEPT ![Home(e, n)] = <<e>> \o @]
      OBVIOUS
  <2>2. Chains(d, n) /\ InChains(d) = Linked \cup {e}
      BY <1>3, <1>6, <2>1, PushedIs, Zenon
  <2>3. Chains(Without(d, swept), n) /\ InChains(Without(d, swept)) = InChains(d) \ swept
      BY <2>2, WithoutIs
  <2>4. Without([chain EXCEPT ![Bucket(k)] = <<e>> \o @], swept) = Without(d, swept)
      BY <1>6, <2>1, Zenon
  <2> QED
      BY <2>2, <2>3, <2>4
<1>8. PICK m \in 1..MaxSize : Chains(chain', m) /\ InChains(chain') = L
  <2>1. CASE splits
    <3>1. 2 * n \in Nat \ {0} /\ 2 * n \in 1..MaxSize
        BY <1>1, <1>5, <2>1, BoundsAre
    <3>2. chain' = Rehash(c, 2 * n)
        BY <1>1, <1>5, <1>7, <2>1, Zenon
    <3>3. Chains(Rehash(c, 2 * n), 2 * n) /\ InChains(Rehash(c, 2 * n)) = InChains(c)
        BY <1>7, <3>1, RehashIs
    <3> HIDE DEF swept
    <3> QED
        BY <1>7, <3>1, <3>2, <3>3
  <2>2. CASE ~splits
    <3>1. chain' = c
        BY <1>1, <1>7, <2>2, Zenon
    <3> HIDE DEF swept
    <3> QED
        BY <1>6, <1>7, <3>1
  <2> QED
      BY <2>1, <2>2
<1>9. swept \subseteq placeholder /\ placeholder \subseteq Linked /\ frozen \cap swept = {} /\ frozen \subseteq Linked
    BY StateIs
<1>10. IsFiniteSet(Linked \cup {e}) /\ Cardinality(Linked \cup {e}) = keycount + 1
    BY <1>3, StateIs, CountMore
<1>11. keycount' = Cardinality(L)
  <2>1. CASE sweeps
    <3>1. swept = placeholder /\ placecount = Cardinality(placeholder)
        BY <1>4, <2>1, StateIs
    <3>2. left = keycount + 1 - placecount
        BY <2>1
    <3>3. placeholder \in SUBSET (Linked \cup {e})
        BY <1>9
    <3>4. Cardinality((Linked \cup {e}) \ placeholder)
              = Cardinality(Linked \cup {e}) - Cardinality(placeholder)
        BY <1>10, <3>3, CountIs
    <3>5. L = (Linked \cup {e}) \ placeholder
        BY <3>1
    <3> HIDE DEF swept, left, L
    <3>6. keycount' = keycount + 1 - placecount /\ keycount \in Nat /\ placecount \in Nat
        BY <1>1, <3>1, <3>2, StateIs, FS_CardinalityType
    <3> QED
        BY <1>10, <3>1, <3>4, <3>5, <3>6
  <2>2. CASE ~sweeps
    <3>1. L = Linked \cup {e} /\ left = keycount + 1
        BY <2>2, StateIs
    <3> HIDE DEF swept, left
    <3> QED
        BY <1>1, <1>10, <3>1
  <2> QED
      BY <2>1, <2>2
<1>12. clearing' = NoRiter => placecount' = Cardinality(placeholder')
  <2>1. CASE sweeps
    <3>1. placeholder' = {} /\ placecount' = 0
        BY <1>1, <2>1
    <3> QED
        BY <3>1, FS_EmptySet
  <2>2. CASE ~sweeps
      BY <1>1, <2>2, StateIs
  <2> QED
      BY <2>1, <2>2
<1> HIDE DEF swept, left
<1>13. swept \in SUBSET Linked
    BY <1>9
<1>14. lazynext' \in Entries \cup {NoEntry} /\ lazydel' \in BOOLEAN
    BY <1>1, <1>13, UnlinkedIs, Zenon
<1>15. Ranges'
  <2>1. changed' \in BOOLEAN /\ whole' \in BOOLEAN
      BY <1>1, Zenon
  <2> QED
      BY <1>1, <1>14, <2>1, StateIs DEF Ranges
<1>16. /\ placeholder' \subseteq L /\ frozen' \subseteq L /\ frozen' \cap placeholder' = {}
       /\ \A c1, d \in L : KeyOf(c1) = KeyOf(d) => c1 = d
  <2>1. \A c1, d \in Linked : KeyOf(c1) = KeyOf(d) => c1 = d
      BY StateIs
  <2>2. \A c1, d \in Linked \cup {e} : KeyOf(c1) = KeyOf(d) => c1 = d
      BY <1>3, <2>1
  <2> QED
      BY <1>1, <1>3, <1>9, <2>2, StateIs
<1>17. HashCoherent' /\ Linked' = L
  <2> HIDE DEF L
  <2> QED
      BY <1>8, <1>11, <1>12, <1>15, <1>16, Rebuilt
<1>18. ASSUME HashIterSafe PROVE HashIterSafe'
  <2>1. eiter' = eiter /\ riter' = riter /\ changed' /\ (whole' => whole)
      BY <1>1, Zenon
  <2>2. Linked \ swept \subseteq Linked'
      BY <1>17
  <2> QED
      BY <1>1, <1>13, <1>18, <2>1, <2>2, SafeUnlinked
<1> QED
    BY <1>17, <1>18

\* Some entries are gone: what is left is as coherent.
LEMMA FewerIs ==
    ASSUME HashCoherent, NEW S \in SUBSET Linked, NEW n \in 1..MaxSize,
           Chains(chain', n), InChains(chain') = Linked \ S, keycount' = keycount - Cardinality(S),
           placeholder' \subseteq placeholder \ S, frozen' = frozen \ S, Ranges',
           clearing' = NoRiter => placecount' = Cardinality(placeholder')
    PROVE  HashCoherent' /\ Linked' = Linked \ S
<1>1. keycount' = Cardinality(Linked \ S)
  <2>1. Cardinality(Linked \ S) = Cardinality(Linked) - Cardinality(S)
      BY StateIs, CountIs
  <2> QED
      BY <2>1, StateIs
<1>2. /\ placeholder' \subseteq Linked \ S /\ frozen' \subseteq Linked \ S
      /\ frozen' \cap placeholder' = {}
      /\ \A d, e \in Linked \ S : KeyOf(d) = KeyOf(e) => d = e
    BY StateIs
<1> QED
    BY <1>1, <1>2, Rebuilt

\* hv_delete_common, of a hash that is not restricted.
LEMMA DeleteKeeps ==
    ASSUME HashCoherent, NEW k \in Keys, HashDelete(k)
    PROVE  HashCoherent' /\ (HashIterSafe => HashIterSafe')
<1>1. PICK e \in EntriesOf(k) \ placeholder :
          /\ chain' = Without(chain, {e}) /\ Unlinks({e})
          /\ keycount' = keycount - 1 /\ frozen' = FrozenWithout({e}) /\ changed' = TRUE
          /\ UNCHANGED <<placeholder, placecount, riter, eiter, restricted, clearing, whole, ended>>
    BY Zenon DEF HashDelete
<1>2. e \in Linked /\ {e} \in SUBSET Linked /\ e \notin placeholder
    BY <1>1, FoundIs
<1>3. Chains(chain', Size) /\ InChains(chain') = Linked \ {e} /\ Size \in 1..MaxSize
    BY <1>1, StateIs, WithoutIs
<1>4. lazynext' \in Entries \cup {NoEntry} /\ lazydel' \in BOOLEAN
    BY <1>1, <1>2, UnlinkedIs, Zenon
<1>5. Ranges'
    BY <1>1, <1>4, StateIs DEF Ranges
<1>6. /\ placeholder' \subseteq placeholder \ {e} /\ frozen' = frozen \ {e}
      /\ clearing' = NoRiter => placecount' = Cardinality(placeholder')
    BY <1>1, <1>2, StateIs DEF FrozenWithout
<1>7. keycount' = keycount - Cardinality({e})
    BY <1>1, FS_Singleton
<1>8. HashCoherent' /\ Linked' = Linked \ {e}
    BY <1>2, <1>3, <1>5, <1>6, <1>7, FewerIs
<1>9. eiter' = eiter /\ riter' = riter /\ changed' /\ (whole' => whole)
    BY <1>1, Zenon
<1>10. HashIterSafe => HashIterSafe'
  <2>1. Linked \ {e} \subseteq Linked'
      BY <1>8
  <2> QED
      BY <1>1, <1>2, <1>9, <2>1, SafeUnlinked
<1> QED
    BY <1>8, <1>10

\* The same of a restricted hash leaves a placeholder.
LEMMA DeleteRestrictedKeeps ==
    ASSUME HashCoherent, NEW k \in Keys, HashDeleteRestricted(k)
    PROVE  HashCoherent' /\ (HashIterSafe => HashIterSafe')
<1>1. PICK e \in EntriesOf(k) \ (placeholder \cup frozen) :
          /\ placeholder' = placeholder \cup {e} /\ placecount' = placecount + 1
          /\ UNCHANGED <<chain, frozen, keycount, iterVars, restricted, clearing, whole, ended>>
    BY Zenon DEF HashDeleteRestricted
<1>2. e \in Linked /\ e \notin placeholder /\ e \notin frozen
    BY <1>1, FoundIs
<1>3. Chains(chain', Size) /\ InChains(chain') = Linked /\ Size \in 1..MaxSize
    BY <1>1, StateIs
<1>4. UNCHANGED <<iterVars, whole>> /\ Ranges'
  <2>1. Ranges
      BY StateIs, Zenon
  <2> QED
      BY <1>1, <2>1 DEF iterVars, Ranges
<1>5. clearing' = NoRiter => placecount' = Cardinality(placeholder')
  <2>1. Cardinality(placeholder \cup {e}) = Cardinality(placeholder) + 1
      BY <1>2, StateIs, CountMore
  <2> QED
      BY <1>1, <2>1, StateIs
<1>6. /\ placeholder' \subseteq Linked /\ frozen' \subseteq Linked /\ frozen' \cap placeholder' = {}
      /\ keycount' = Cardinality(Linked)
      /\ \A c, d \in Linked : KeyOf(c) = KeyOf(d) => c = d
    BY <1>1, <1>2, StateIs
<1>7. HashCoherent' /\ Linked' = Linked
    BY <1>3, <1>4, <1>5, <1>6, Rebuilt
<1> QED
    BY <1>4, <1>7, SafeStill, Zenon

\* hv_clear_placeholders.
LEMMA ClearPlaceholdersKeeps ==
    ASSUME HashCoherent, "destroy" \notin Holes, HashClearPlaceholders
    PROVE  HashCoherent' /\ (HashIterSafe => HashIterSafe')
<1>1. /\ Hole("destroy", clearing # NoRiter)
      /\ chain' = Without(chain, placeholder) /\ Unlinks(placeholder)
      /\ keycount' = keycount - placecount /\ placecount' = 0 /\ placeholder' = {}
      /\ UNCHANGED <<frozen, riter, eiter, changed, restricted, clearing, whole, ended>>
    BY Zenon DEF HashClearPlaceholders, historyVars
<1>2. placeholder \in SUBSET Linked /\ placecount = Cardinality(placeholder)
    BY <1>1, StateIs, HoleIs
<1>3. Chains(chain', Size) /\ InChains(chain') = Linked \ placeholder /\ Size \in 1..MaxSize
    BY <1>1, StateIs, WithoutIs
<1>4. lazynext' \in Entries \cup {NoEntry} /\ lazydel' \in BOOLEAN
    BY <1>1, <1>2, UnlinkedIs, Zenon
<1>5. Ranges'
    BY <1>1, <1>4, StateIs DEF Ranges
<1>6. /\ placeholder' \subseteq placeholder \ placeholder /\ frozen' = frozen \ placeholder
      /\ clearing' = NoRiter => placecount' = Cardinality(placeholder')
    BY <1>1, <1>2, StateIs, FS_EmptySet
<1>7. HashCoherent' /\ Linked' = Linked \ placeholder
    BY <1>1, <1>2, <1>3, <1>5, <1>6, FewerIs
<1>8. eiter' = eiter /\ riter' = riter /\ (changed => changed') /\ (whole' => whole)
    BY <1>1
<1>9. HashIterSafe => HashIterSafe'
  <2>1. Linked \ placeholder \subseteq Linked'
      BY <1>7
  <2> QED
      BY <1>1, <1>2, <1>8, <2>1, SafeUnlinked
<1> QED
    BY <1>7, <1>9

\* Internals::SvREADONLY, of the hash.
LEMMA RestrictKeeps ==
    ASSUME HashCoherent, HashRestrict
    PROVE  HashCoherent' /\ (HashIterSafe => HashIterSafe')
<1>1. /\ chain' = chain /\ placeholder' = placeholder /\ frozen' = frozen /\ keycount' = keycount
      /\ placecount' = placecount /\ clearing' = clearing /\ UNCHANGED <<iterVars, whole>>
    BY DEF HashRestrict, chainVars, historyVars
<1>2. restricted' \in BOOLEAN
    BY Zenon DEF HashRestrict
<1>3. Ranges'
  <2>1. Ranges /\ ended' = ended
      BY StateIs DEF HashRestrict, historyVars
  <2> QED
      BY <1>1, <1>2, <2>1 DEF iterVars, Ranges
<1>4. HashCoherent' /\ Linked' = Linked
    BY <1>1, <1>3, StateIs, Rebuilt
<1> QED
    BY <1>1, <1>4, SafeStill, Zenon

\* The same, of one of its values.
LEMMA FreezeKeeps ==
    ASSUME HashCoherent, NEW k \in Keys, HashFreeze(k)
    PROVE  HashCoherent' /\ (HashIterSafe => HashIterSafe')
<1>1. PICK e \in EntriesOf(k) \ placeholder :
          /\ frozen' = (IF e \in frozen THEN frozen \ {e} ELSE frozen \cup {e})
          /\ UNCHANGED <<chain, placeholder, keycount, placecount, iterVars, restricted,
                         clearing, historyVars>>
    BY Zenon DEF HashFreeze
<1>2. e \in Linked /\ e \notin placeholder
    BY <1>1, FoundIs
<1>3. /\ chain' = chain /\ placeholder' = placeholder /\ keycount' = keycount
      /\ placecount' = placecount /\ clearing' = clearing /\ UNCHANGED <<iterVars, whole>>
      /\ (Ranges => Ranges')
    BY <1>1 DEF iterVars, historyVars, Ranges
<1>4. frozen' \subseteq Linked /\ frozen' \cap placeholder' = {}
    BY <1>1, <1>2, <1>3, StateIs
<1>5. HashCoherent' /\ Linked' = Linked
    BY <1>3, <1>4, StateIs, Rebuilt
<1> QED
    BY <1>3, <1>5, SafeStill, Zenon

\* Where the iterator is at its beginning again.
LEMMA SafeReset ==
    ASSUME eiter' = NoEntry, ~lazydel', whole' => riter' = NoRiter
    PROVE  HashIterSafe'
<1>1. eiter' \in Linked' \cup {NoEntry}
    OBVIOUS
<1> QED
    BY <1>1, Zenon DEF HashIterSafe

\* The buckets one after the other list the linked entries.
LEMMA OrderIs ==
    ASSUME HashCoherent
    PROVE  LET order == FlattenSeq([i \in 1..Size |-> chain[i-1]])
           IN  order \in Seq(Entries) /\ ToSet(order) = Linked
<1>1. PICK n \in Nat \ {0} : n = Size
    BY StateIs
<1> DEFINE q == [i \in 1..n |-> chain[i-1]]
<1>2. \A i \in 1..n : i - 1 \in 0..n-1 /\ chain[i-1] \in Seq(Entries)
    BY <1>1, StateIs DEF Chains
<1>3. q \in [1..n -> Seq(Entries)] /\ \A i \in 1..n : q[i] = chain[i-1]
    BY <1>2
<1> HIDE DEF q
<1>4. /\ FlattenSeq(q) \in Seq(Entries)
      /\ \A x : x \in ToSet(FlattenSeq(q)) <=> \E i \in 1..n : x \in ToSet(q[i])
    BY <1>3, FlattenIs
<1>5. \A e : e \in Linked <=> \E b \in 0..n-1 : e \in ToSet(chain[b])
    BY <1>1, StateIs, ChainsAre
<1>6. ASSUME NEW e \in Linked PROVE e \in ToSet(FlattenSeq(q))
  <2>1. PICK b \in 0..n-1 : e \in ToSet(chain[b])
      BY <1>5
  <2>2. b + 1 \in 1..n /\ (b + 1) - 1 = b
      BY <2>1
  <2>3. e \in ToSet(q[b + 1])
      BY <1>3, <2>1, <2>2
  <2> QED
      BY <1>4, <2>2, <2>3
<1>7. ASSUME NEW e \in ToSet(FlattenSeq(q)) PROVE e \in Linked
  <2>1. PICK i \in 1..n : e \in ToSet(q[i])
      BY <1>4
  <2>2. i - 1 \in 0..n-1 /\ e \in ToSet(chain[i - 1])
      BY <1>2, <1>3, <2>1
  <2> QED
      BY <1>5, <2>2
<1> QED
    BY <1>1, <1>4, <1>6, <1>7 DEF q

\* The entries up to the first one in S, or all of them.
LEMMA StopIs ==
    ASSUME NEW E, NEW s \in Seq(E), NEW S
    PROVE  LET stop == SelectInSeq(s, LAMBDA e : e \in S)
               done == ToSet(IF stop = 0 THEN s ELSE SubSeq(s, 1, stop - 1))
           IN  done \subseteq ToSet(s) /\ done \cap S = {}
<1> DEFINE I == {i \in 1..Len(s) : s[i] \in S}
           stop == SelectInSeq(s, LAMBDA e : e \in S)
           part == IF stop = 0 THEN s ELSE SubSeq(s, 1, stop - 1)
<1>1. I \in SUBSET Nat /\ Len(s) \in Nat
    BY SetIs
<1>2. CASE I = {}
  <2>1. stop = 0
      BY <1>2 DEF SelectInSeq
  <2>2. part = s
      BY <2>1, Zenon
  <2>3. ToSet(s) \cap S = {}
      BY <1>2, SetIs
  <2> QED
      BY <2>2, <2>3
<1>3. CASE I # {}
  <2>1. PICK m : m = Min(I) /\ m \in I /\ \A i \in I : m <= i
      BY <1>1, <1>3, MinIsLeast
  <2>2. m \in 1..Len(s) /\ m # 0
      BY <1>1, <2>1
  <2>3. stop = m
      BY <1>3, <2>1, Zenon DEF SelectInSeq
  <2> HIDE DEF stop
  <2>4. part = SubSeq(s, 1, m - 1)
      BY <2>2, <2>3, Zenon
  <2>5. PICK t \in Seq(E) : t = SubSeq(s, 1, m - 1) /\ Len(t) = m - 1 /\ \A i \in 1..m-1 : t[i] = s[i]
    <3>1. /\ SubSeq(s, 1, m - 1) \in Seq(E) /\ Len(SubSeq(s, 1, m - 1)) = m - 1
          /\ \A i \in 1..m-1 : SubSeq(s, 1, m - 1)[i] = s[i]
        BY <1>1, <2>2
    <3> QED
        BY <3>1
  <2>6. ASSUME NEW x \in ToSet(t) PROVE x \in ToSet(s) /\ x \notin S
    <3>0. t \in Seq(E) /\ Len(t) = m - 1
        BY <2>5
    <3>1. PICK i \in 1..m-1 : x = t[i]
        BY <3>0, SetIs
    <3>2. x = s[i]
        BY <2>5, <3>1
    <3>3. i \in 1..Len(s) /\ ~(m <= i)
        BY <1>1, <2>2, <3>1
    <3>4. i \notin I
        BY <2>1, <3>3
    <3> QED
        BY <3>2, <3>3, <3>4, SetIs
  <2> HIDE DEF part
  <2>7. ToSet(part) \subseteq ToSet(s) /\ ToSet(part) \cap S = {}
      BY <2>4, <2>5, <2>6
  <2> QED
      BY <2>7 DEF part, stop
<1> QED
    BY <1>2, <1>3

\* hv_clear of a restricted hash.
LEMMA EmptyRestrictedKeeps ==
    ASSUME HashCoherent, HashEmptyRestricted
    PROVE  HashCoherent' /\ (Holes = {} /\ HashIterSafe => HashIterSafe')
<1> DEFINE order == FlattenSeq([i \in 1..Size |-> chain[i-1]])
           stop  == SelectInSeq(order, LAMBDA e : e \in frozen \ placeholder)
           done  == ToSet(IF stop = 0 THEN order ELSE SubSeq(order, 1, stop - 1))
<1>1. /\ Hole("clear", stop = 0 /\ lazydel)
      /\ placeholder' = placeholder \cup done
      /\ placecount' = placecount + Cardinality(done \ placeholder)
      /\ eiter' = (IF stop = 0 THEN NoEntry ELSE eiter)
      /\ whole' = (whole /\ stop # 0)
      /\ UNCHANGED <<chain, frozen, keycount, riter, lazydel, lazynext, changed,
                     restricted, clearing, ended>>
    BY Zenon DEF HashEmptyRestricted
<1>2. done \subseteq Linked /\ done \cap (frozen \ placeholder) = {}
  <2>1. order \in Seq(Entries) /\ ToSet(order) = Linked
      BY OrderIs, Zenon
  <2> HIDE DEF order
  <2>2. done \subseteq ToSet(order) /\ done \cap (frozen \ placeholder) = {}
      BY <2>1, StopIs, Zenon
  <2> QED
      BY <2>1, <2>2
<1> HIDE DEF done, stop
<1>3. Chains(chain', Size) /\ InChains(chain') = Linked /\ Size \in 1..MaxSize
    BY <1>1, StateIs
<1>4. clearing' = NoRiter => placecount' = Cardinality(placeholder')
  <2>1. placeholder' \subseteq Linked /\ IsFiniteSet(placeholder')
      BY <1>1, <1>2, StateIs, FS_Subset
  <2>2. placeholder \in SUBSET placeholder' /\ placeholder' \ placeholder = done \ placeholder
      BY <1>1
  <2>3. /\ Cardinality(placeholder') \in Nat /\ Cardinality(placeholder) \in Nat
        /\ Cardinality(placeholder' \ placeholder) = Cardinality(placeholder') - Cardinality(placeholder)
      BY <2>1, <2>2, CountIs
  <2>4. SUFFICES ASSUME clearing = NoRiter PROVE placecount' = Cardinality(placeholder')
      BY <1>1
  <2>5. placecount = Cardinality(placeholder)
      BY <2>4, StateIs
  <2> QED
      BY <1>1, <2>2, <2>3, <2>5
<1>5. Ranges'
  <2>1. whole' \in BOOLEAN
      BY <1>1, Zenon
  <2> QED
      BY <1>1, <2>1, StateIs DEF Ranges
<1>6. /\ placeholder' \subseteq Linked /\ frozen' \subseteq Linked /\ frozen' \cap placeholder' = {}
      /\ keycount' = Cardinality(Linked)
      /\ \A c, d \in Linked : KeyOf(c) = KeyOf(d) => c = d
    BY <1>1, <1>2, StateIs
<1>7. HashCoherent' /\ Linked' = Linked
    BY <1>3, <1>4, <1>5, <1>6, Rebuilt
<1>8. ASSUME Holes = {}, HashIterSafe PROVE HashIterSafe'
  <2>1. CASE stop = 0
    <3>1. ~lazydel
        BY <1>1, <1>8, <2>1, HoleIs
    <3>2. eiter' = NoEntry /\ ~lazydel' /\ ~whole'
        BY <1>1, <2>1, <3>1
    <3> QED
        BY <3>2, SafeReset
  <2>2. CASE stop # 0
    <3>1. whole' = whole
        BY <1>1, <2>2, StateIs DEF Ranges
    <3>2. UNCHANGED <<iterVars, whole>>
        BY <1>1, <2>2, <3>1 DEF iterVars
    <3> QED
        BY <1>7, <1>8, <3>2, SafeStill
  <2> QED
      BY <2>1, <2>2
<1> QED
    BY <1>7, <1>8

\* hv_clear of another: taking the buckets away,
LEMMA ClearBeginsKeeps ==
    ASSUME HashCoherent, HashClearBegins
    PROVE  HashCoherent' /\ (HashIterSafe => HashIterSafe')
<1>1. /\ chain' = chain /\ placeholder' = placeholder /\ frozen' = frozen /\ keycount' = keycount
      /\ placecount' = placecount /\ clearing' = 0 /\ UNCHANGED <<iterVars, whole>>
      /\ restricted' = restricted /\ ended' = ended
    BY DEF HashClearBegins, chainVars, historyVars
<1>2. clearing' # NoRiter /\ clearing' \in -1..MaxSize-1
    BY <1>1, BoundsAre DEF NoRiter
<1>3. Ranges'
    BY <1>1, <1>2, StateIs DEF iterVars, Ranges
<1>4. HashCoherent' /\ Linked' = Linked
    BY <1>1, <1>2, <1>3, StateIs, Rebuilt
<1> QED
    BY <1>1, <1>4, SafeStill, Zenon

\* What is left of the iterator when hv_clear has reset it.
LEMMA ResetsIs ==
    ASSUME HashCoherent, ClearResetsIterator
    PROVE  /\ riter' \in -1..MaxSize-1 /\ eiter' = NoEntry /\ lazydel' \in BOOLEAN
           /\ lazynext' \in Entries \cup {NoEntry}
           /\ HashIterSafe => ~lazydel' /\ (whole => riter' = NoRiter)
<1>1. /\ riter' = (IF eiter = NoEntry THEN riter ELSE NoRiter) /\ eiter' = NoEntry
      /\ lazydel' = (lazydel /\ eiter = NoEntry)
      /\ lazynext' = (IF eiter = NoEntry THEN lazynext ELSE NoEntry)
    BY Zenon DEF ClearResetsIterator
<1>2. riter' \in -1..MaxSize-1 /\ lazynext' \in Entries \cup {NoEntry}
    BY <1>1, StateIs, BoundsAre DEF Ranges, NoRiter
<1>3. lazydel' \in BOOLEAN
    BY <1>1, Zenon
<1>4. ASSUME HashIterSafe PROVE ~lazydel' /\ (whole => riter' = NoRiter)
  <2>1. (lazydel => eiter # NoEntry) /\ (eiter = NoEntry /\ whole => riter = NoRiter)
      BY <1>4, Zenon DEF HashIterSafe
  <2>2. ~lazydel'
      BY <1>1, <2>1, Zenon
  <2> QED
      BY <1>1, <2>1, <2>2
<1> QED
    BY <1>1, <1>2, <1>3, <1>4

\* freeing entry by entry,
LEMMA ClearStepKeeps ==
    ASSUME HashCoherent, HashClearStep
    PROVE  HashCoherent' /\ (HashIterSafe => HashIterSafe')
<1> DEFINE from == {b \in DOMAIN chain : b >= clearing /\ chain[b] # <<>>}
           all  == {b \in DOMAIN chain : chain[b] # <<>>}
           at   == Min(IF from # {} THEN from ELSE all)
<1>1. /\ clearing # NoRiter /\ keycount > 0 /\ ClearResetsIterator
      /\ clearing' = at /\ chain' = [chain EXCEPT ![at] = Tail(@)]
      /\ keycount' = keycount - 1
      /\ placeholder' = placeholder \ {Head(chain[at])}
      /\ frozen' = FrozenWithout({Head(chain[at])})
      /\ UNCHANGED <<placecount, changed, restricted, whole, ended>>
    BY Zenon DEF HashClearStep
<1>2. PICK n \in Nat \ {0} : n = Size
    BY StateIs
<1>3. /\ Chains(chain, n) /\ InChains(chain) = Linked /\ DOMAIN chain = 0..n-1 /\ n \in 1..MaxSize
    BY <1>2, StateIs
<1>4. all # {}
  <2>1. Linked # {}
    <3>1. keycount = Cardinality(Linked) /\ keycount # 0
        BY <1>1, StateIs
    <3> QED
        BY <3>1, FS_EmptySet
  <2>2. PICK e : e \in Linked
      BY <2>1
  <2>3. PICK b \in 0..n-1 : e \in ToSet(chain[b])
      BY <1>3, <2>2, ChainsAre
  <2>4. chain[b] # <<>>
      BY <2>3, NoneIs
  <2> QED
      BY <1>3, <2>3, <2>4
<1>5. PICK b \in 0..n-1 : b = at /\ chain[b] # <<>>
  <2> DEFINE choice == IF from # {} THEN from ELSE all
  <2>1. choice \in SUBSET Nat /\ choice # {} /\ choice \subseteq all
      BY <1>3, <1>4
  <2> HIDE DEF choice
  <2>2. Min(choice) \in choice
      BY <2>1, MinIsLeast
  <2>3. Min(choice) \in all
      BY <2>1, <2>2
  <2> QED
      BY <1>3, <2>3 DEF choice
<1> HIDE DEF at
<1>6. PICK e : e = Head(chain[b])
    OBVIOUS
<1>7. Chains(chain', n) /\ InChains(chain') = Linked \ {e} /\ e \in Linked
  <2>1. chain' = [chain EXCEPT ![b] = Tail(@)]
      BY <1>1, <1>5
  <2>2. /\ Chains([chain EXCEPT ![b] = Tail(@)], n) /\ Head(chain[b]) \in InChains(chain)
        /\ InChains([chain EXCEPT ![b] = Tail(@)]) = InChains(chain) \ {Head(chain[b])}
      BY <1>3, <1>5, OffIs, Zenon
  <2> QED
      BY <1>3, <1>6, <2>1, <2>2, Zenon
<1>8. /\ riter' \in -1..MaxSize-1 /\ eiter' = NoEntry /\ lazydel' \in BOOLEAN
      /\ lazynext' \in Entries \cup {NoEntry}
      /\ HashIterSafe => ~lazydel' /\ (whole => riter' = NoRiter)
    BY <1>1, ResetsIs, Zenon
<1>9. clearing' \in -1..MaxSize-1 /\ clearing' # NoRiter
    BY <1>1, <1>3, <1>5, BoundsAre DEF NoRiter
<1>10. Ranges'
    BY <1>1, <1>8, <1>9, StateIs DEF Ranges
<1>11. /\ placeholder' \subseteq placeholder \ {e} /\ frozen' = frozen \ {e}
       /\ {e} \in SUBSET Linked
    BY <1>1, <1>5, <1>6, <1>7 DEF FrozenWithout
<1>12. keycount' = keycount - Cardinality({e})
    BY <1>1, FS_Singleton
<1>13. HashCoherent'
    BY <1>3, <1>7, <1>9, <1>10, <1>11, <1>12, FewerIs
<1>14. HashIterSafe => HashIterSafe'
  <2>1. whole' => whole
      BY <1>1
  <2> QED
      BY <1>8, <2>1, SafeReset
<1> QED
    BY <1>13, <1>14

\* and the end of it.
LEMMA ClearEndsKeeps ==
    ASSUME HashCoherent, HashClearEnds
    PROVE  HashCoherent' /\ (HashIterSafe => HashIterSafe')
<1>1. /\ keycount = 0 /\ clearing' = NoRiter /\ placecount' = 0
      /\ placeholder' = placeholder /\ frozen' = frozen /\ keycount' = keycount
      /\ restricted' = restricted /\ whole' = whole /\ ended' = ended
    BY DEF HashClearEnds, historyVars
<1>2. Linked = {} /\ placeholder = {} /\ frozen = {} /\ Cardinality({}) = 0
  <2>1. Linked = {}
      BY <1>1, StateIs, FS_EmptySet
  <2> QED
      BY <2>1, StateIs, FS_EmptySet
<1>3. clearing' \in -1..MaxSize-1
    BY <1>1, BoundsAre DEF NoRiter
<1>4. CASE ClearResetsIterator /\ UNCHANGED <<chain, changed>>
  <2>1. /\ riter' \in -1..MaxSize-1 /\ eiter' = NoEntry /\ lazydel' \in BOOLEAN
        /\ lazynext' \in Entries \cup {NoEntry}
        /\ HashIterSafe => ~lazydel' /\ (whole => riter' = NoRiter)
      BY <1>4, ResetsIs, Zenon
  <2>2. Ranges'
      BY <1>1, <1>3, <1>4, <2>1, StateIs DEF Ranges
  <2>3. HashCoherent'
      BY <1>1, <1>2, <1>4, <2>2, StateIs, Rebuilt
  <2>4. HashIterSafe => HashIterSafe'
      BY <1>1, <2>1, SafeReset
  <2> QED
      BY <2>3, <2>4
<1>5. CASE /\ chain' = [b \in 0..FirstSize-1 |-> <<>>]
           /\ riter' = NoRiter /\ eiter' = NoEntry /\ lazydel' = FALSE /\ lazynext' = NoEntry
           /\ changed' = FALSE
  <2>1. Chains(chain', FirstSize) /\ InChains(chain') = {} /\ FirstSize \in 1..MaxSize
      BY <1>5, BoundsAre, NewIs
  <2>2. Ranges'
      BY <1>1, <1>3, <1>5, StateIs, BoundsAre DEF Ranges, NoRiter
  <2>3. HashCoherent'
      BY <1>1, <1>2, <2>1, <2>2, Rebuilt
  <2>4. HashIterSafe'
      BY <1>5, SafeReset
  <2> QED
      BY <2>3, <2>4
<1> QED
    BY <1>4, <1>5 DEF HashClearEnds

\* hv_ksplit, keys(%h) = N.
LEMMA KsplitKeeps ==
    ASSUME HashCoherent, HashKsplit
    PROVE  HashCoherent' /\ (HashIterSafe => HashIterSafe')
<1>1. /\ 2 * Size <= MaxSize /\ chain' = Rehash(chain, 2 * Size)
      /\ changed' = TRUE /\ whole' = FALSE
      /\ UNCHANGED <<placeholder, frozen, keycount, placecount, riter, eiter,
                     lazydel, lazynext, restricted, clearing, ended>>
    BY DEF HashKsplit
<1>2. PICK n \in Nat \ {0} : n = Size
    BY StateIs
<1>3. 2 * n \in Nat \ {0} /\ 2 * n \in 1..MaxSize
    BY <1>1, <1>2, BoundsAre
<1>4. Chains(chain', 2 * n) /\ InChains(chain') = Linked
  <2>1. Chains(chain, n) /\ InChains(chain) = Linked
      BY <1>2, StateIs
  <2> QED
      BY <1>1, <1>2, <1>3, <2>1, RehashIs
<1>5. Ranges'
    BY <1>1, StateIs DEF Ranges
<1>6. HashCoherent' /\ Linked' = Linked
    BY <1>1, <1>3, <1>4, <1>5, StateIs, Rebuilt
<1>7. ASSUME HashIterSafe PROVE HashIterSafe'
  <2>1. (lazydel => eiter # NoEntry) /\ (lazydel => lazynext \in Linked \cup {NoEntry})
      BY <1>7, Zenon DEF HashIterSafe
  <2>2. (lazydel' => eiter' # NoEntry) /\ (lazydel' => lazynext' \in Linked' \cup {NoEntry})
      BY <1>1, <1>6, <2>1
  <2> QED
      BY <1>1, <2>2, Zenon DEF HashIterSafe
<1> QED
    BY <1>6, <1>7

\* hv_study.
LEMMA StudyKeeps ==
    ASSUME HashCoherent, HashStudy
    PROVE  HashCoherent' /\ (Holes = {} /\ HashIterSafe => HashIterSafe')
<1> DEFINE size  == StudiedSize(keycount)
           roomy == Size >= StudySize /\ keycount < Size \div 2 /\ size < Size
           lost  == roomy /\ Valued = {}
<1>1. /\ clearing = NoRiter /\ Hole("study", lost)
      /\ chain' = IF roomy THEN Rehash(Without(chain, placeholder), size)
                  ELSE Without(chain, placeholder)
      /\ keycount' = keycount - placecount /\ placecount' = 0 /\ placeholder' = {}
      /\ Unlinks(placeholder)
      /\ riter' = (IF lost THEN 0 ELSE riter) /\ eiter' = (IF lost THEN NoEntry ELSE eiter)
      /\ changed' = (changed \/ roomy) /\ whole' = FALSE
      /\ UNCHANGED <<frozen, restricted, clearing, ended>>
    BY Zenon DEF HashStudy
<1>2. size \in Nat \ {0} /\ (roomy => size < Size)
    BY StateIs, StudiedIs
<1> HIDE DEF size, roomy, lost
<1>3. PICK n \in Nat \ {0} : n = Size
    BY StateIs
<1>4. n \in 1..MaxSize /\ Chains(chain, n) /\ InChains(chain) = Linked
    BY <1>3, StateIs
<1>5. PICK c : /\ c = Without(chain, placeholder)
               /\ Chains(c, n) /\ InChains(c) = Linked \ placeholder
    BY <1>4, WithoutIs
<1>6. PICK m \in 1..MaxSize : Chains(chain', m) /\ InChains(chain') = Linked \ placeholder
  <2>1. CASE roomy
    <3>1. size \in 1..MaxSize
        BY <1>2, <1>3, <1>4, <2>1, BoundsAre
    <3>2. Chains(Rehash(c, size), size) /\ InChains(Rehash(c, size)) = InChains(c)
        BY <1>2, <1>5, RehashIs
    <3>3. chain' = Rehash(c, size)
        BY <1>1, <1>5, <2>1, Zenon
    <3> QED
        BY <1>5, <3>1, <3>2, <3>3
  <2>2. CASE ~roomy
    <3>1. chain' = c
        BY <1>1, <1>5, <2>2, Zenon
    <3> QED
        BY <1>4, <1>5, <3>1
  <2> QED
      BY <2>1, <2>2
<1>7. placeholder \in SUBSET Linked /\ placecount = Cardinality(placeholder)
    BY <1>1, StateIs
<1>8. lazynext' \in Entries \cup {NoEntry} /\ lazydel' \in BOOLEAN
    BY <1>1, <1>7, UnlinkedIs, Zenon
<1>9. Ranges'
  <2>1. riter' \in -1..MaxSize-1 /\ eiter' \in Entries \cup {NoEntry}
    <3>1. riter \in -1..MaxSize-1 /\ eiter \in Entries \cup {NoEntry}
        BY StateIs DEF Ranges
    <3>2. riter' \in {0, riter} /\ eiter' \in {NoEntry, eiter}
        BY <1>1
    <3> QED
        BY <3>1, <3>2, BoundsAre
  <2>2. changed' \in BOOLEAN /\ whole' \in BOOLEAN
      BY <1>1, Zenon
  <2> QED
      BY <1>1, <1>8, <2>1, <2>2, StateIs DEF Ranges
<1>10. /\ placeholder' \subseteq placeholder \ placeholder /\ frozen' = frozen \ placeholder
       /\ clearing' = NoRiter => placecount' = Cardinality(placeholder')
    BY <1>1, StateIs, FS_EmptySet
<1>11. HashCoherent' /\ Linked' = Linked \ placeholder
    BY <1>1, <1>6, <1>7, <1>9, <1>10, FewerIs
<1>12. ASSUME Holes = {}, HashIterSafe PROVE HashIterSafe'
  <2>1. ~lost
      BY <1>1, <1>12, HoleIs
  <2>2. eiter' = eiter /\ riter' = riter /\ (changed => changed') /\ ~whole'
      BY <1>1, <2>1
  <2>3. Linked \ placeholder \subseteq Linked'
      BY <1>11
  <2> QED
      BY <1>1, <1>7, <1>12, <2>2, <2>3, SafeUnlinked
<1> QED
    BY <1>11, <1>12

\* hv_iterinit.
LEMMA IterInitKeeps ==
    ASSUME HashCoherent, HashIterInit
    PROVE  HashCoherent' /\ (HashIterSafe => HashIterSafe')
<1>1. /\ riter' = NoRiter /\ eiter' = NoEntry
      /\ lazydel' = (lazydel /\ eiter = NoEntry)
      /\ lazynext' = (IF eiter = NoEntry THEN lazynext ELSE NoEntry)
      /\ changed' = FALSE /\ whole' = TRUE /\ ended' = FALSE
      /\ UNCHANGED <<chain, placeholder, frozen, keycount, placecount, restricted, clearing>>
    BY DEF HashIterInit, chainVars
<1>2. Ranges'
  <2>1. lazydel' \in BOOLEAN
      BY <1>1, Zenon
  <2>2. riter' \in -1..MaxSize-1
      BY <1>1, BoundsAre DEF NoRiter
  <2> QED
      BY <1>1, <2>1, <2>2, StateIs DEF Ranges
<1>3. HashCoherent'
    BY <1>1, <1>2, StateIs, Rebuilt
<1>4. HashIterSafe => ~lazydel'
    BY <1>1, Zenon DEF HashIterSafe
<1> QED
    BY <1>1, <1>3, <1>4, SafeReset

\* hv_iternext, to the end of the hash as well.
LEMMA IterNextKeeps ==
    ASSUME HashCoherent, HashIterNext
    PROVE  HashCoherent' /\ (HashIterSafe => HashIterSafe')
<1> DEFINE fresh  == eiter = NoEntry /\ riter = NoRiter
           rest   == IF eiter = NoEntry THEN <<>>
                     ELSE IF ~lazydel THEN After(eiter)
                     ELSE IF lazynext = NoEntry THEN <<>> ELSE <<lazynext>> \o After(lazynext)
           here   == FirstOf(rest, Valued)
           later  == {b \in DOMAIN chain : b > riter /\ ToSet(chain[b]) \cap Valued # {}}
           scans  == here = NoEntry /\ keycount # placecount /\ later # {}
           result == IF scans THEN FirstOf(chain[Min(later)], Valued) ELSE here
           stale  == changed /\ eiter # NoEntry
<1>1. PICK croaks \in {stale, FALSE} :
          /\ riter' = (IF keycount = placecount THEN NoRiter
                       ELSE IF here # NoEntry THEN riter
                       ELSE IF scans THEN Min(later) ELSE NoRiter)
          /\ lazydel' = (lazydel /\ eiter = NoEntry)
          /\ lazynext' = (IF eiter = NoEntry THEN lazynext ELSE NoEntry)
          /\ changed' = stale
          /\ eiter' = (IF croaks THEN eiter ELSE result)
          /\ whole' = (IF fresh THEN clearing = NoRiter ELSE whole /\ ~croaks /\ eiter # NoEntry)
          /\ ended' = (~croaks /\ result = NoEntry)
          /\ UNCHANGED <<chainVars, restricted, clearing>>
    BY Zenon DEF HashIterNext
<1>2. /\ Linked \subseteq Entries /\ NoEntry \notin Valued /\ Valued \subseteq Linked
      /\ eiter \in Entries \cup {NoEntry} /\ lazynext \in Entries \cup {NoEntry}
    BY StateIs DEF Valued, Ranges
<1>3. rest \in Seq(Entries)
  <2>1. <<>> \in Seq(Entries)
      BY NoneIs
  <2>2. eiter # NoEntry => After(eiter) \in Seq(Entries)
      BY <1>2, InOrder
  <2>3. lazynext # NoEntry => <<lazynext>> \o After(lazynext) \in Seq(Entries)
    <3> SUFFICES ASSUME lazynext # NoEntry PROVE <<lazynext>> \o After(lazynext) \in Seq(Entries)
        OBVIOUS
    <3>1. lazynext \in Entries /\ After(lazynext) \in Seq(Entries)
        BY <1>2, InOrder
    <3>2. <<lazynext>> \in Seq(Entries)
        BY <3>1, SingleIs
    <3> QED
        BY <3>1, <3>2, BothIs, Zenon
  <2> QED
      BY <2>1, <2>2, <2>3, Zenon
<1> HIDE DEF rest
<1>4. here \in Valued \cup {NoEntry}
  <2>1. here \in (Valued \cap ToSet(rest)) \cup {NoEntry}
      BY <1>2, <1>3, FirstIs, Zenon
  <2> QED
      BY <2>1
<1> HIDE DEF here
<1>5. later \subseteq 0..Size-1 /\ Size \in 1..MaxSize
    BY StateIs
<1>6. later # {} => /\ Min(later) \in 0..Size-1 /\ FirstOf(chain[Min(later)], Valued) \in Valued
  <2> SUFFICES ASSUME later # {}
               PROVE  Min(later) \in 0..Size-1 /\ FirstOf(chain[Min(later)], Valued) \in Valued
      OBVIOUS
  <2>1. Min(later) \in later
    <3>1. later \in SUBSET Nat
        BY <1>5, BoundsAre
    <3> HIDE DEF later
    <3> QED
        BY <3>1, MinIsLeast
  <2>2. PICK b \in 0..Size-1 : b = Min(later) /\ ToSet(chain[b]) \cap Valued # {}
      BY <1>5, <2>1
  <2>3. chain[b] \in Seq(Entries)
      BY <2>2, StateIs DEF Chains
  <2>4. /\ FirstOf(chain[b], Valued) \in (Valued \cap ToSet(chain[b])) \cup {NoEntry}
        /\ FirstOf(chain[b], Valued) = NoEntry => ToSet(chain[b]) \cap Valued = {}
      BY <1>2, <2>3, FirstIs, Zenon
  <2>5. FirstOf(chain[b], Valued) \in Valued
      BY <2>2, <2>4
  <2> HIDE DEF later
  <2> QED
      BY <2>2, <2>5
<1> HIDE DEF later
<1>7. result \in Valued \cup {NoEntry} /\ (result = NoEntry => here = NoEntry /\ ~scans)
    BY <1>2, <1>4, <1>6
<1> HIDE DEF result
<1>8. riter' \in -1..MaxSize-1
  <2>1. riter' \in {NoRiter, riter} \/ (scans /\ riter' = Min(later))
      BY <1>1
  <2>2. riter \in -1..MaxSize-1 /\ NoRiter \in -1..MaxSize-1
      BY StateIs, BoundsAre DEF Ranges, NoRiter
  <2>3. scans => Min(later) \in -1..MaxSize-1
      BY <1>5, <1>6, BoundsAre
  <2> QED
      BY <2>1, <2>2, <2>3
<1>9. Ranges'
  <2>1. /\ changed' \in BOOLEAN /\ ended' \in BOOLEAN /\ lazydel' \in BOOLEAN
      BY <1>1, Zenon
  <2>2. whole' \in BOOLEAN
    <3>1. CASE fresh
        BY <1>1, <3>1, Zenon
    <3>2. CASE ~fresh
        BY <1>1, <3>2, Zenon
    <3> QED
        BY <3>1, <3>2
  <2>3. eiter' \in {eiter, result}
      BY <1>1
  <2>4. lazynext' \in Entries \cup {NoEntry} /\ eiter' \in Entries \cup {NoEntry}
      BY <1>1, <1>2, <1>7, <2>3
  <2>5. restricted' \in BOOLEAN /\ clearing' \in -1..MaxSize-1
      BY <1>1, StateIs DEF Ranges
  <2> QED
      BY <1>8, <2>1, <2>2, <2>4, <2>5, Zenon DEF Ranges
<1>10. HashCoherent' /\ Linked' = Linked
  <2>1. /\ chain' = chain /\ placeholder' = placeholder /\ frozen' = frozen /\ keycount' = keycount
        /\ placecount' = placecount /\ clearing' = clearing
      BY <1>1 DEF chainVars
  <2> QED
      BY <1>9, <2>1, StateIs, Rebuilt
<1>11. ASSUME HashIterSafe PROVE HashIterSafe'
  <2>1. ~lazydel'
      BY <1>1, <1>11, Zenon DEF HashIterSafe
  <2>2. CASE croaks
    <3>1. stale /\ eiter # NoEntry
        BY <1>1, <2>2, Zenon
    <3>2. eiter' = eiter /\ changed' /\ ~whole'
        BY <1>1, <2>2, <3>1, Zenon
    <3> QED
        BY <2>1, <3>1, <3>2, Zenon DEF HashIterSafe
  <2>3. CASE ~croaks
    <3>1. eiter' = result
        BY <1>1, <2>3, Zenon
    <3>2. eiter' \in Linked' \cup {NoEntry}
        BY <1>2, <1>7, <1>10, <3>1
    <3>3. eiter' = NoEntry => riter' = NoRiter
        BY <1>1, <1>7, <3>1
    <3> QED
        BY <2>1, <3>2, <3>3, Zenon DEF HashIterSafe
  <2> QED
      BY <2>2, <2>3
<1> QED
    BY <1>10, <1>11

-----------------------------------------------------------------------------

\* A new hash satisfies both invariants.
LEMMA StartIs == HashInit => HashCoherent /\ HashIterSafe
<1> SUFFICES ASSUME HashInit PROVE HashCoherent /\ HashIterSafe
    OBVIOUS
<1>1. Chains(chain, FirstSize) /\ InChains(chain) = {}
    BY BoundsAre, NewIs DEF HashInit
<1>2. /\ DOMAIN chain = 0..FirstSize-1 /\ Size = FirstSize /\ Linked = {}
    BY <1>1, BoundsAre, ChainsAre DEF Size, Linked, InChains
<1>3. HashTypeOK
  <2>1. chain \in [0..Size-1 -> Seq(Entries)] /\ Size \in 1..MaxSize
      BY <1>1, <1>2, BoundsAre DEF Chains
  <2>2. placeholder = {} /\ frozen = {}
      BY DEF HashInit
  <2>3. riter \in -1..MaxSize-1 /\ clearing \in -1..MaxSize-1
      BY BoundsAre DEF HashInit, NoRiter
  <2>4. {eiter, lazynext} \subseteq Entries \cup {NoEntry}
      BY DEF HashInit
  <2>5. {restricted, lazydel, changed, whole, ended} \subseteq BOOLEAN
      BY Zenon DEF HashInit
  <2> QED
      BY <1>2, <2>1, <2>2, <2>3, <2>4, <2>5 DEF HashTypeOK
<1>4. \A b \in DOMAIN chain : /\ IsInjective(chain[b]) /\ \A e \in ToSet(chain[b]) : BucketOf(e) = b
  <2> SUFFICES ASSUME NEW b \in 0..FirstSize-1
               PROVE  IsInjective(chain[b]) /\ \A e \in ToSet(chain[b]) : BucketOf(e) = b
      BY <1>2
  <2>1. chain[b] = <<>>
      BY DEF HashInit
  <2> QED
      BY <2>1, NoneIs
<1>5. keycount = Cardinality(Linked) /\ placecount = Cardinality(placeholder)
    BY <1>2, FS_EmptySet DEF HashInit
<1>6. \A d, e \in Linked : KeyOf(d) = KeyOf(e) => d = e
    BY <1>2
<1>7. HashCoherent
    BY <1>3, <1>4, <1>5, <1>6, Zenon DEF HashCoherent
<1>8. HashIterSafe
    BY DEF HashInit, HashIterSafe
<1> QED
    BY <1>7, <1>8

\* Every step keeps both.
LEMMA StepKeeps ==
    ASSUME HashCoherent, "destroy" \notin Holes, [HashNext]_HashVars
    PROVE  HashCoherent' /\ (Holes = {} /\ HashIterSafe => HashIterSafe')
<1>1. ASSUME NEW k \in Keys, HashFind(k) PROVE HashCoherent' /\ (HashIterSafe => HashIterSafe')
    BY <1>1, FindKeeps
<1>2. ASSUME NEW k \in Keys, HashRefill(k) PROVE HashCoherent' /\ (HashIterSafe => HashIterSafe')
    BY <1>2, RefillKeeps
<1>3. ASSUME NEW k \in Keys, HashDelete(k) PROVE HashCoherent' /\ (HashIterSafe => HashIterSafe')
    BY <1>3, DeleteKeeps
<1>4. ASSUME NEW k \in Keys, HashDeleteRestricted(k)
      PROVE  HashCoherent' /\ (HashIterSafe => HashIterSafe')
    BY <1>4, DeleteRestrictedKeeps
<1>5. ASSUME NEW k \in Keys, NEW i \in Cells, HashInsert(<<k, i>>)
      PROVE  HashCoherent' /\ (HashIterSafe => HashIterSafe')
  <2>1. <<k, i>> \in Entries
      BY DEF Entries
  <2> QED
      BY <1>5, <2>1, InsertKeeps, Zenon
<1>6. ASSUME NEW k \in ReadOnly, HashFreeze(k) PROVE HashCoherent' /\ (HashIterSafe => HashIterSafe')
  <2>1. k \in Keys
      BY HashAssumption
  <2> QED
      BY <1>6, <2>1, FreezeKeeps, Zenon
<1>7. CASE HashClearPlaceholders
    BY <1>7, ClearPlaceholdersKeeps
<1>8. CASE HashRestrict
    BY <1>8, RestrictKeeps
<1>9. CASE HashEmptyRestricted
    BY <1>9, EmptyRestrictedKeeps
<1>10. CASE HashClearBegins
    BY <1>10, ClearBeginsKeeps
<1>11. CASE HashClearStep
    BY <1>11, ClearStepKeeps
<1>12. CASE HashClearEnds
    BY <1>12, ClearEndsKeeps
<1>13. CASE HashKsplit
    BY <1>13, KsplitKeeps
<1>14. CASE HashStudy
    BY <1>14, StudyKeeps
<1>15. CASE HashIterInit
    BY <1>15, IterInitKeeps
<1>16. CASE HashIterNext
    BY <1>16, IterNextKeeps
<1>17. CASE UNCHANGED HashVars
  <2>1. /\ chain' = chain /\ placeholder' = placeholder /\ frozen' = frozen /\ keycount' = keycount
        /\ placecount' = placecount /\ clearing' = clearing /\ UNCHANGED <<iterVars, whole>>
        /\ (Ranges => Ranges')
      BY <1>17 DEF HashVars, chainVars, iterVars, historyVars, Ranges
  <2>2. HashCoherent' /\ Linked' = Linked
      BY <2>1, StateIs, Rebuilt
  <2> QED
      BY <2>1, <2>2, SafeStill, Zenon
<1> QED
    BY <1>1, <1>2, <1>3, <1>4, <1>5, <1>6, <1>7, <1>8, <1>9, <1>10, <1>11, <1>12, <1>13, <1>14,
       <1>15, <1>16, <1>17, Zenon DEF HashNext

\* hv.c: every operation finds every key in its bucket, once, and the counters
\* are right - in any hash, of any size, that no DESTROY clears of its
\* placeholders while hv_clear runs (the hole "destroy").
THEOREM HashCoherentHolds == ("destroy" \notin Holes) => (HashSpec => []HashCoherent)
<1> SUFFICES ASSUME "destroy" \notin Holes PROVE HashSpec => []HashCoherent
    OBVIOUS
<1>1. HashInit => HashCoherent
    BY StartIs
<1>2. HashCoherent /\ [HashNext]_HashVars => HashCoherent'
    BY StepKeeps
<1> QED
    BY <1>1, <1>2, PTL DEF HashSpec

\* hv_iternext_flags, hfree_next_entry: each() is never led to freed memory,
\* and what was deleted under it is freed - in any hash, of any size, whose
\* program keeps clear of the three holes.
THEOREM HashIterSafeHolds == Holes = {} => (HashSpec => []HashIterSafe)
<1> SUFFICES ASSUME Holes = {} PROVE HashSpec => []HashIterSafe
    OBVIOUS
<1>1. HashInit => HashCoherent /\ HashIterSafe
    BY StartIs
<1>2. HashCoherent /\ HashIterSafe /\ [HashNext]_HashVars => HashCoherent' /\ HashIterSafe'
    BY StepKeeps
<1> QED
    BY <1>1, <1>2, PTL DEF HashSpec

-----------------------------------------------------------------------------
(* The order of the entries *)

\* s has d before e.
Precedes(s, d, e) == \E i, j \in 1..Len(s) : i < j /\ s[i] = d /\ s[j] = e

\* What comes after the i-th member, of a sequence that has none twice.
LEMMA PrecedesAt ==
    ASSUME NEW E, NEW s \in Seq(E), IsInjective(s), NEW i \in 1..Len(s), NEW d, s[i] = d, NEW e
    PROVE  Precedes(s, d, e) <=> \E j \in 1..Len(s) : i < j /\ s[j] = e
<1>1. \A h, j \in 1..Len(s) : s[h] = s[j] => h = j
    BY OnceIs
<1> QED
    BY <1>1 DEF Precedes

\* The order in s \o t.
LEMMA JoinedOrder ==
    ASSUME NEW E, NEW s \in Seq(E), NEW t \in Seq(E), NEW d, NEW e
    PROVE  Precedes(s \o t, d, e) <=> \/ Precedes(s, d, e) \/ Precedes(t, d, e)
                                      \/ d \in ToSet(s) /\ e \in ToSet(t)
<1> DEFINE u == s \o t
<1>1. /\ Len(u) = Len(s) + Len(t) /\ Len(s) \in Nat /\ Len(t) \in Nat
      /\ \A i \in 1..Len(s) : u[i] = s[i]
      /\ \A i \in 1..Len(t) : u[Len(s) + i] = t[i]
    BY JoinedIs
<1>2. /\ d \in ToSet(s) <=> \E i \in 1..Len(s) : d = s[i]
      /\ e \in ToSet(t) <=> \E i \in 1..Len(t) : e = t[i]
    BY SetIs
<1> HIDE DEF u
<1>3. ASSUME Precedes(u, d, e)
      PROVE  Precedes(s, d, e) \/ Precedes(t, d, e) \/ (d \in ToSet(s) /\ e \in ToSet(t))
  <2>1. PICK i \in 1..Len(u), j \in 1..Len(u) : i < j /\ u[i] = d /\ u[j] = e
      BY <1>3 DEF Precedes
  <2>2. CASE j <= Len(s)
    <3>1. i \in 1..Len(s) /\ j \in 1..Len(s)
        BY <1>1, <2>1, <2>2
    <3> QED
        BY <1>1, <2>1, <3>1 DEF Precedes
  <2>3. CASE i <= Len(s) /\ j > Len(s)
    <3>1. i \in 1..Len(s) /\ j - Len(s) \in 1..Len(t) /\ j = Len(s) + (j - Len(s))
        BY <1>1, <2>1, <2>3
    <3>2. d = s[i] /\ e = t[j - Len(s)]
        BY <1>1, <2>1, <3>1
    <3> QED
        BY <1>2, <3>1, <3>2
  <2>4. CASE i > Len(s)
    <3>1. /\ i - Len(s) \in 1..Len(t) /\ i = Len(s) + (i - Len(s))
          /\ j - Len(s) \in 1..Len(t) /\ j = Len(s) + (j - Len(s))
          /\ i - Len(s) < j - Len(s)
        BY <1>1, <2>1, <2>4
    <3>2. d = t[i - Len(s)] /\ e = t[j - Len(s)]
        BY <1>1, <2>1, <3>1
    <3> QED
        BY <3>1, <3>2 DEF Precedes
  <2> QED
      BY <1>1, <2>1, <2>2, <2>3, <2>4
<1>4. ASSUME Precedes(s, d, e) PROVE Precedes(u, d, e)
  <2>1. PICK i \in 1..Len(s), j \in 1..Len(s) : i < j /\ s[i] = d /\ s[j] = e
      BY <1>4 DEF Precedes
  <2>2. i \in 1..Len(u) /\ j \in 1..Len(u)
      BY <1>1, <2>1
  <2> QED
      BY <1>1, <2>1, <2>2 DEF Precedes
<1>5. ASSUME Precedes(t, d, e) PROVE Precedes(u, d, e)
  <2>1. PICK i \in 1..Len(t), j \in 1..Len(t) : i < j /\ t[i] = d /\ t[j] = e
      BY <1>5 DEF Precedes
  <2>2. Len(s) + i \in 1..Len(u) /\ Len(s) + j \in 1..Len(u) /\ Len(s) + i < Len(s) + j
      BY <1>1, <2>1
  <2>3. u[Len(s) + i] = d /\ u[Len(s) + j] = e
      BY <1>1, <2>1
  <2> QED
      BY <2>2, <2>3 DEF Precedes
<1>6. ASSUME d \in ToSet(s), e \in ToSet(t) PROVE Precedes(u, d, e)
  <2>1. PICK i \in 1..Len(s) : d = s[i]
      BY <1>2, <1>6
  <2>2. PICK j \in 1..Len(t) : e = t[j]
      BY <1>2, <1>6
  <2>3. i \in 1..Len(u) /\ Len(s) + j \in 1..Len(u) /\ i < Len(s) + j
      BY <1>1, <2>1, <2>2
  <2>4. u[i] = d /\ u[Len(s) + j] = e
      BY <1>1, <2>1, <2>2
  <2> QED
      BY <2>3, <2>4 DEF Precedes
<1> QED
    BY <1>3, <1>4, <1>5, <1>6 DEF u

\* Drop leaves the others in their order.
LEMMA DropOrder ==
    ASSUME NEW E, NEW s \in Seq(E), NEW S, NEW d, d \notin S, NEW e, e \notin S
    PROVE  Precedes(Drop(s, S), d, e) <=> Precedes(s, d, e)
<1> DEFINE n == Len(s)
           q == [i \in 1..n |-> IF s[i] \in S THEN <<>> ELSE <<s[i]>>]
<1>1. n \in Nat /\ \A i \in 1..n : s[i] \in E
    BY SetIs
<1>2. ASSUME NEW i \in 1..n
      PROVE  /\ q[i] \in Seq(E) /\ ~Precedes(q[i], d, e)
             /\ d \in ToSet(q[i]) <=> s[i] = d
             /\ e \in ToSet(q[i]) <=> s[i] = e
  <2>1. CASE s[i] \in S
    <3>1. q[i] = <<>>
        BY <2>1
    <3> HIDE DEF q
    <3>2. ~Precedes(q[i], d, e)
        BY <3>1 DEF Precedes
    <3> QED
        BY <2>1, <3>1, <3>2, NoneIs
  <2>2. CASE s[i] \notin S
    <3>1. q[i] = <<s[i]>>
        BY <2>2
    <3> HIDE DEF q
    <3>2. ~Precedes(q[i], d, e)
        BY <3>1 DEF Precedes
    <3>3. q[i] \in Seq(E) /\ ToSet(q[i]) = {s[i]}
        BY <1>1, <3>1, SingleIs
    <3> QED
        BY <3>2, <3>3
  <2> QED
      BY <2>1, <2>2
<1>3. q \in [1..n -> Seq(E)]
    BY <1>2
<1>4. Drop(s, S) = FlattenSeq(q)
    BY DEF Drop
<1> HIDE DEF q
<1>5. PICK g \in [0..n -> Seq(E)] : Flattening(g, q, n)
    BY <1>1, <1>3, FlattenedBy, Zenon
<1>6. /\ g[0] = <<>> /\ FlattenSeq(q) = g[n]
      /\ \A i \in 1..n : g[i] = g[i-1] \o q[i]
    BY <1>5, Zenon DEF Flattening
<1> DEFINE Right(k) == /\ d \in ToSet(g[k]) <=> \E i \in 1..k : s[i] = d
                       /\ Precedes(g[k], d, e) <=> \E i, j \in 1..k : i < j /\ s[i] = d /\ s[j] = e
           M == {k \in Nat : k <= n => Right(k)}
<1>7. \A k \in Nat : k \in M
  <2>1. 0 \in M
    <3>1. ~Precedes(<<>>, d, e)
        BY DEF Precedes
    <3> QED
        BY <1>6, <3>1, NoneIs
  <2>2. ASSUME NEW k \in Nat, k \in M PROVE k + 1 \in M
    <3> SUFFICES ASSUME k + 1 <= n PROVE Right(k + 1)
        OBVIOUS
    <3>1. k \in 0..n /\ k + 1 \in 1..n /\ (k + 1) - 1 = k /\ k <= n
        BY <1>1
    <3>2. g[k] \in Seq(E) /\ q[k+1] \in Seq(E) /\ g[k+1] = g[k] \o q[k+1]
        BY <1>3, <1>5, <1>6, <3>1
    <3>3. Right(k)
        BY <2>2, <3>1
    <3>4. d \in ToSet(g[k+1]) <=> d \in ToSet(g[k]) \/ d \in ToSet(q[k+1])
        BY <3>2, BothIs
    <3>5. Precedes(g[k+1], d, e) <=> \/ Precedes(g[k], d, e) \/ Precedes(q[k+1], d, e)
                                     \/ d \in ToSet(g[k]) /\ e \in ToSet(q[k+1])
        BY <3>2, JoinedOrder
    <3>6. \A i : i \in 1..k+1 <=> i \in 1..k \/ i = k+1
        OBVIOUS
    <3>7. d \in ToSet(g[k+1]) <=> \E i \in 1..k+1 : s[i] = d
        BY <1>2, <3>1, <3>3, <3>4, <3>6, Zenon
    <3>8. Precedes(g[k+1], d, e) <=> \/ \E i, j \in 1..k : i < j /\ s[i] = d /\ s[j] = e
                                     \/ s[k+1] = e /\ \E i \in 1..k : s[i] = d
        BY <1>2, <3>1, <3>3, <3>5, Zenon
    <3>9. (\E i, j \in 1..k+1 : i < j /\ s[i] = d /\ s[j] = e)
              <=> \/ \E i, j \in 1..k : i < j /\ s[i] = d /\ s[j] = e
                  \/ s[k+1] = e /\ \E i \in 1..k : s[i] = d
      <4>1. \A i, j \in 1..k+1 : i < j => i \in 1..k /\ (j \in 1..k \/ j = k+1)
          OBVIOUS
      <4>2. \A i \in 1..k : i < k+1 /\ i \in 1..k+1 /\ k+1 \in 1..k+1
          OBVIOUS
      <4> QED
          BY <4>1, <4>2
    <3> QED
        BY <3>7, <3>8, <3>9
  <2> HIDE DEF M
  <2> QED
      BY <2>1, <2>2, EveryNumber, Zenon
<1>8. Right(n)
  <2> HIDE DEF Right
  <2> QED
      BY <1>1, <1>7
<1> QED
    BY <1>4, <1>6, <1>8 DEF Precedes

\* The first member from the k-th on that is in S.
LEMMA FirstFrom ==
    ASSUME NEW E, NEW s \in Seq(E), NEW k \in 1..Len(s)+1, NEW S, NoEntry \notin S
    PROVE  \/ /\ FirstOf(SubSeq(s, k, Len(s)), S) = NoEntry
              /\ \A i \in k..Len(s) : s[i] \notin S
           \/ \E m \in k..Len(s) : /\ FirstOf(SubSeq(s, k, Len(s)), S) = s[m] /\ s[m] \in S
                                   /\ \A i \in k..m-1 : s[i] \notin S
<1>0. PICK t : t = SubSeq(s, k, Len(s))
    OBVIOUS
<1>1. /\ Len(s) \in Nat /\ Len(t) = Len(s) - k + 1
      /\ \A i \in 1..Len(t) : t[i] = s[k + i - 1]
    BY <1>0
<1> DEFINE I == {i \in 1..Len(t) : t[i] \in S}
<1>2. I \in SUBSET Nat
    BY <1>1
<1>3. CASE I = {}
  <2>1. FirstOf(t, S) = NoEntry
      BY <1>3 DEF FirstOf, SelectInSeq
  <2>2. ASSUME NEW i \in k..Len(s) PROVE s[i] \notin S
    <3>1. i - k + 1 \in 1..Len(t) /\ k + (i - k + 1) - 1 = i
        BY <1>1
    <3> QED
        BY <1>1, <1>3, <3>1
  <2> QED
      BY <1>0, <2>1, <2>2, Zenon
<1>4. CASE I # {}
  <2>1. PICK h \in I : h = Min(I) /\ \A i \in I : h <= i
      BY <1>2, <1>4, MinIsLeast
  <2>2. FirstOf(t, S) = t[h]
    <3>1. h # 0
        BY <1>1, <2>1
    <3> QED
        BY <1>4, <2>1, <3>1, Zenon DEF FirstOf, SelectInSeq
  <2> DEFINE m == k + h - 1
  <2>3. m \in k..Len(s) /\ t[h] = s[m] /\ t[h] \in S
    <3>1. h \in 1..Len(t) /\ t[h] \in S
        BY <2>1
    <3> QED
        BY <1>1, <3>1
  <2>4. ASSUME NEW i \in k..m-1 PROVE s[i] \notin S
    <3>1. i - k + 1 \in 1..Len(t) /\ k + (i - k + 1) - 1 = i /\ i - k + 1 < h
      <4>1. h \in 1..Len(t)
          BY <2>1
      <4> QED
          BY <1>1, <4>1
    <3>2. t[i - k + 1] = s[i] /\ i - k + 1 \notin I
      <4>1. ~(h <= i - k + 1)
          BY <1>1, <2>3, <3>1
      <4> QED
          BY <1>1, <2>1, <3>1, <4>1
    <3> QED
        BY <3>1, <3>2
  <2> HIDE DEF m
  <2> QED
      BY <1>0, <2>2, <2>3, <2>4, Zenon
<1> QED
    BY <1>3, <1>4

\* e comes after d in a bucket of c.
Follows(c, d, e) == \E b \in DOMAIN c : Precedes(c[b], d, e)

\* Both are in the bucket that is d's home.
LEMMA FollowsIs ==
    ASSUME NEW n \in Nat \ {0}, NEW c, Chains(c, n), NEW d, NEW e
    PROVE  /\ Follows(c, d, e) => /\ d \in InChains(c) /\ e \in InChains(c)
                                  /\ Home(d, n) = Home(e, n)
           /\ d \in InChains(c) => (Follows(c, d, e) <=> Precedes(c[Home(d, n)], d, e))
<1>1. /\ DOMAIN c = 0..n-1
      /\ \A b \in 0..n-1 : c[b] \in Seq(Entries) /\ \A x \in ToSet(c[b]) : Home(x, n) = b
    BY ChainsAre DEF Chains
<1>2. ASSUME NEW b \in 0..n-1, Precedes(c[b], d, e)
      PROVE  /\ d \in InChains(c) /\ e \in InChains(c) /\ Home(d, n) = b /\ Home(e, n) = b
  <2>1. PICK i \in 1..Len(c[b]), j \in 1..Len(c[b]) : c[b][i] = d /\ c[b][j] = e
      BY <1>2 DEF Precedes
  <2>2. d \in ToSet(c[b]) /\ e \in ToSet(c[b])
      BY <1>1, <2>1, SetIs
  <2> QED
      BY <1>1, <2>2, ChainsAre
<1>3. Follows(c, d, e) <=> \E b \in 0..n-1 : Precedes(c[b], d, e)
    BY <1>1, Zenon DEF Follows
<1>4. d \in InChains(c) => Home(d, n) \in 0..n-1
    BY HomeIs, ChainsAre
<1> QED
    BY <1>2, <1>3, <1>4, Zenon

\* Taking entries out leaves the others in their order.
LEMMA WithoutOrder ==
    ASSUME NEW n \in Nat \ {0}, NEW c, Chains(c, n), NEW S, NEW d, d \notin S, NEW e, e \notin S
    PROVE  Follows(Without(c, S), d, e) <=> Follows(c, d, e)
<1> DEFINE w == Without(c, S)
<1>1. DOMAIN c = 0..n-1 /\ \A b \in 0..n-1 : c[b] \in Seq(Entries)
    BY ChainsAre
<1>2. w = [b \in 0..n-1 |-> Drop(c[b], S)]
    BY <1>1, Zenon DEF Without
<1>3. DOMAIN w = 0..n-1 /\ \A b \in 0..n-1 : w[b] = Drop(c[b], S)
    BY <1>2
<1> HIDE DEF w
<1>4. \A b \in 0..n-1 : Precedes(w[b], d, e) <=> Precedes(c[b], d, e)
    BY <1>1, <1>3, DropOrder
<1> QED
    BY <1>1, <1>3, <1>4, Zenon DEF Follows, w

\* A new entry on top of its bucket leaves the others in their order.
LEMMA PushedOrder ==
    ASSUME NEW n \in Nat \ {0}, NEW c, Chains(c, n), NEW e \in Entries, NEW d, d # e, NEW x, x # e
    PROVE  Follows([c EXCEPT ![Home(e, n)] = <<e>> \o @], d, x) <=> Follows(c, d, x)
<1>1. DOMAIN c = 0..n-1 /\ \A b \in 0..n-1 : c[b] \in Seq(Entries)
    BY ChainsAre
<1>2. PICK h \in 0..n-1 : h = Home(e, n)
    BY HomeIs
<1> DEFINE o == <<e>>
           s == o \o c[h]
           p == Put(c, h, s)
<1>3. o \in Seq(Entries) /\ ToSet(o) = {e}
    BY SingleIs
<1>4. ~Precedes(o, d, x)
    BY DEF Precedes
<1> HIDE DEF o
<1>5. Precedes(s, d, x) <=> Precedes(c[h], d, x)
    BY <1>1, <1>3, <1>4, JoinedOrder
<1>6. DOMAIN p = 0..n-1 /\ p[h] = s /\ \A b \in 0..n-1 : b # h => p[b] = c[b]
    BY <1>1 DEF Put
<1>7. [c EXCEPT ![Home(e, n)] = <<e>> \o @] = p
    BY <1>2 DEF Put, o
<1> HIDE DEF p, s
<1>8. Follows(p, d, x) <=> Follows(c, d, x)
    BY <1>1, <1>5, <1>6, Zenon DEF Follows
<1> QED
    BY <1>7, <1>8

-----------------------------------------------------------------------------
(* What each() has still to return *)

\* The entries from the k-th of bucket b on.
Onward(b, k) == {chain[b][i] : i \in k..Len(chain[b])}

\* Looking for the first of S from the k-th on, finds it, if there is one.
LEMMA OnwardIs ==
    ASSUME HashCoherent, NEW b \in 0..Size-1, NEW k \in 1..Len(chain[b])+1, NEW S \in SUBSET Linked,
           NEW r, r = FirstOf(SubSeq(chain[b], k, Len(chain[b])), S)
    PROVE  /\ r = NoEntry => Onward(b, k) \cap S = {}
           /\ r # NoEntry => /\ r \in S /\ r \in Onward(b, k) /\ BucketOf(r) = b
                             /\ \A x \in S : x \in Onward(b, k) <=> x = r \/ Follows(chain, r, x)
                             /\ \A x : Follows(chain, r, x) => x \in Onward(b, k)
                             /\ ~Follows(chain, r, r)
<1>1. PICK n \in Nat \ {0} : n = Size
    BY StateIs
<1>2. /\ Chains(chain, n) /\ InChains(chain) = Linked /\ b \in 0..n-1 /\ NoEntry \notin S
    BY <1>1, StateIs
<1>3. PICK c \in Seq(Entries) : c = chain[b] /\ IsInjective(c) /\ \A x \in ToSet(c) : Home(x, n) = b
    BY <1>2 DEF Chains
<1>4. k \in 1..Len(c)+1 /\ r = FirstOf(SubSeq(c, k, Len(c)), S) /\ Len(c) \in Nat
    BY <1>3
<1>5. \A x : x \in Onward(b, k) <=> \E i \in k..Len(c) : x = c[i]
    BY <1>3 DEF Onward
<1>6. CASE r = NoEntry /\ \A i \in k..Len(c) : c[i] \notin S
    BY <1>5, <1>6
<1>7. CASE \E m \in k..Len(c) : /\ r = c[m] /\ c[m] \in S
                                /\ \A i \in k..m-1 : c[i] \notin S
  <2>1. PICK m \in k..Len(c) : r = c[m] /\ c[m] \in S /\ \A i \in k..m-1 : c[i] \notin S
      BY <1>7
  <2>2. m \in 1..Len(c) /\ r \in ToSet(c) /\ r \in Onward(b, k) /\ r # NoEntry
      BY <1>2, <1>3, <1>4, <1>5, <2>1, SetIs
  <2>3. Home(r, n) = b /\ BucketOf(r) = b /\ r \in Linked
      BY <1>1, <1>3, <2>1, <2>2 DEF BucketOf, Bucket, Home
  <2>4. \A x : Follows(chain, r, x) <=> Precedes(c, r, x)
      BY <1>2, <1>3, <2>3, FollowsIs
  <2>5. \A x : Precedes(c, r, x) <=> \E j \in 1..Len(c) : m < j /\ c[j] = x
    <3>1. c \in Seq(Entries) /\ IsInjective(c) /\ m \in 1..Len(c) /\ c[m] = r
        BY <1>3, <2>1, <2>2, Zenon
    <3> QED
        BY <3>1, PrecedesAt
  <2>6. ASSUME NEW x, \E j \in 1..Len(c) : m < j /\ c[j] = x PROVE x \in Onward(b, k)
    <3>1. PICK j \in 1..Len(c) : m < j /\ c[j] = x
        BY <2>6
    <3>2. j \in k..Len(c)
        BY <1>4, <2>1, <3>1
    <3> QED
        BY <1>5, <3>1, <3>2
  <2>7. ASSUME NEW x \in S, x \in Onward(b, k), x # r
        PROVE  \E j \in 1..Len(c) : m < j /\ c[j] = x
    <3>1. PICK i \in k..Len(c) : x = c[i]
        BY <1>5, <2>7
    <3>2. i \notin k..m-1 /\ i # m
        BY <2>1, <2>7, <3>1
    <3>3. i \in 1..Len(c) /\ m < i
        BY <1>4, <2>1, <3>1, <3>2
    <3> QED
        BY <3>1, <3>3
  <2>8. ~Follows(chain, r, r)
    <3>1. \A j \in 1..Len(c) : c[j] = c[m] => j = m
        BY <1>3, <2>2, OnceIs
    <3> QED
        BY <2>1, <2>2, <2>4, <2>5, <3>1
  <2> QED
      BY <2>1, <2>2, <2>3, <2>4, <2>5, <2>6, <2>7, <2>8, Zenon
<1> QED
  <2>1. \/ r = NoEntry /\ \A i \in k..Len(c) : c[i] \notin S
        \/ \E m \in k..Len(c) : /\ r = c[m] /\ c[m] \in S
                                /\ \A i \in k..m-1 : c[i] \notin S
      BY <1>2, <1>4, FirstFrom
  <2> QED
      BY <1>6, <1>7, <2>1, Zenon

\* The entries after e are those from some place in its bucket on.
LEMMA AfterAt ==
    ASSUME HashCoherent, NEW e \in Linked
    PROVE  \E i \in 1..Len(chain[BucketOf(e)]) :
               /\ chain[BucketOf(e)][i] = e
               /\ After(e) = SubSeq(chain[BucketOf(e)], i + 1, Len(chain[BucketOf(e)]))
               /\ \A x : x \in Onward(BucketOf(e), i + 1) <=> Follows(chain, e, x)
<1>1. PICK n \in Nat \ {0} : n = Size
    BY StateIs
<1>2. Chains(chain, n) /\ InChains(chain) = Linked /\ e \in Entries
    BY <1>1, StateIs
<1>3. PICK b \in 0..n-1 : b = BucketOf(e) /\ b = Home(e, n) /\ e \in ToSet(chain[b])
    BY <1>1, <1>2, HomeIs, ChainsAre DEF BucketOf, Bucket, Home
<1>4. PICK c \in Seq(Entries) : c = chain[b] /\ IsInjective(c)
    BY <1>2, <1>3 DEF Chains
<1> DEFINE I == {i \in 1..Len(c) : c[i] = e}
<1>5. I \in SUBSET Nat /\ I # {} /\ Len(c) \in Nat
    BY <1>3, <1>4, SetIs
<1>6. PICK i \in I : i = Min(I)
    BY <1>5, MinIsLeast
<1>7. i \in 1..Len(c) /\ c[i] = e
    BY <1>6
<1>8. After(e) = SubSeq(c, i + 1, Len(c))
  <2>1. SelectInSeq(c, LAMBDA d : d = e) = i
      BY <1>5, <1>6, Zenon DEF SelectInSeq
  <2> QED
      BY <1>3, <1>4, <2>1, Zenon DEF After
<1>9. ASSUME NEW x PROVE x \in Onward(b, i + 1) <=> Follows(chain, e, x)
  <2>1. Follows(chain, e, x) <=> Precedes(c, e, x)
      BY <1>2, <1>3, <1>4, FollowsIs
  <2>2. Precedes(c, e, x) <=> \E j \in 1..Len(c) : i < j /\ c[j] = x
    <3>1. c \in Seq(Entries) /\ IsInjective(c) /\ i \in 1..Len(c) /\ c[i] = e
        BY <1>4, <1>7, Zenon
    <3> QED
        BY <3>1, PrecedesAt
  <2>3. x \in Onward(b, i + 1) <=> \E j \in i+1..Len(c) : x = c[j]
      BY <1>4 DEF Onward
  <2>4. \A j : j \in i+1..Len(c) <=> j \in 1..Len(c) /\ i < j
      BY <1>5, <1>7
  <2> QED
      BY <2>1, <2>2, <2>3, <2>4
<1> QED
    BY <1>3, <1>4, <1>7, <1>8, <1>9, Zenon

\* The next of S after d, as Unlinks looks for it.
LEMMA NextIs ==
    ASSUME HashCoherent, NEW d \in Linked, NEW S \in SUBSET Linked, NEW r, r = FirstOf(After(d), S)
    PROVE  /\ r = NoEntry => \A x \in S : ~Follows(chain, d, x)
           /\ r # NoEntry => /\ r \in S /\ BucketOf(r) = BucketOf(d)
                             /\ \A x \in S : Follows(chain, d, x) <=> x = r \/ Follows(chain, r, x)
<1>1. PICK b \in 0..Size-1 : b = BucketOf(d)
    BY StateIs, HomeIs DEF BucketOf, Bucket, Home
<1>2. PICK i \in 1..Len(chain[b]) : /\ After(d) = SubSeq(chain[b], i + 1, Len(chain[b]))
                                    /\ \A x : x \in Onward(b, i + 1) <=> Follows(chain, d, x)
    BY <1>1, AfterAt, Zenon
<1>3. PICK k \in 1..Len(chain[b])+1 : k = i + 1
  <2>1. chain[b] \in Seq(Entries)
      BY StateIs DEF Chains
  <2>2. Len(chain[b]) \in Nat
      BY <2>1, SetIs
  <2> QED
      BY <2>2
<1>4. r = FirstOf(SubSeq(chain[b], k, Len(chain[b])), S)
    BY <1>2, <1>3, Zenon
<1>5. /\ r = NoEntry => Onward(b, k) \cap S = {}
      /\ r # NoEntry => /\ r \in S /\ BucketOf(r) = b
                        /\ \A x \in S : x \in Onward(b, k) <=> x = r \/ Follows(chain, r, x)
    BY <1>4, OnwardIs, Zenon
<1>6. \A x : x \in Onward(b, k) <=> Follows(chain, d, x)
    BY <1>2, <1>3, Zenon
<1> QED
    BY <1>1, <1>5, <1>6

\* What the iteration has still before it: the later buckets and, of its own,
\* what comes after eiter or, if that was unlinked, from its HeNEXT on.
Ahead(e) == \/ BucketOf(e) > riter
            \/ /\ lazydel /\ lazynext # NoEntry
               /\ e = lazynext \/ Follows(chain, lazynext, e)
            \/ ~lazydel /\ Follows(chain, eiter, e)

\* The iterator stands in its bucket; what is owed is before it, and nothing
\* that it has returned is.
EachKept == /\ placecount = Cardinality(placeholder)
            /\ ~lazydel => eiter \in Linked /\ BucketOf(eiter) = riter
            /\ lazydel => /\ eiter \notin Linked
                          /\ lazynext # NoEntry => lazynext \in Linked /\ BucketOf(lazynext) = riter
            /\ owed \cup visited \subseteq Valued
            /\ \A e \in owed : Ahead(e)
            /\ \A e \in visited : ~Ahead(e)

EachInvariant == /\ whole /\ ended => owed = {}
                 /\ whole /\ eiter # NoEntry => EachKept

\* What HashEachOnce says of a step.
EachStep == whole /\ whole' =>
                /\ eiter' \notin {eiter, NoEntry} /\ eiter # NoEntry => eiter' \notin visited
                /\ ended' => owed' = {}

\* The step unlinks the entries S, and leaves the others in their order.
OrderKept(S) == /\ Linked \ S \subseteq Linked'
                /\ lazydel \/ eiter \in S => eiter \notin Linked'
                /\ Size' = Size
                /\ \A d, e \in Linked \ S : Follows(chain', d, e) <=> Follows(chain, d, e)

\* The step forgets at least S of what is owed or was returned.
HistoryKept(S) == /\ owed' \subseteq owed \ S /\ visited' \subseteq visited \ S
                  /\ owed' \cup visited' \subseteq Valued'

\* What is before the iterator stays before it, wherever Unlinks leaves it.
LEMMA AheadStill ==
    ASSUME HashCoherent, EachKept, NEW S \in SUBSET Linked, Unlinks(S), OrderKept(S), riter' = riter,
           eiter' = eiter
    PROVE  /\ \A x \in Linked \ S : Ahead(x)' <=> Ahead(x)
           /\ ~lazydel' => eiter' \in Linked' /\ BucketOf(eiter)' = riter'
           /\ lazydel' => /\ eiter' \notin Linked'
                          /\ lazynext' # NoEntry => /\ lazynext' \in Linked'
                                                    /\ BucketOf(lazynext)' = riter'
<1> DEFINE R == Linked \ S
<1>1. /\ lazydel' = (lazydel \/ eiter \in S)
      /\ lazynext' = IF eiter \in S THEN FirstOf(After(eiter), R)
                     ELSE IF lazydel /\ lazynext \in S THEN FirstOf(After(lazynext), R)
                     ELSE lazynext
    BY Zenon DEF Unlinks
<1>2. /\ \A d, e \in R : Follows(chain', d, e) <=> Follows(chain, d, e)
      /\ R \subseteq Linked' /\ (lazydel \/ eiter \in S => eiter \notin Linked')
    BY Zenon DEF OrderKept
<1>3. \A e : BucketOf(e)' = BucketOf(e)
    BY DEF OrderKept, BucketOf, Bucket
<1>4. PICK y, f : y = lazynext' /\ f = eiter /\ f = eiter'
    OBVIOUS
<1>5. BucketOf(lazynext)' = BucketOf(y) /\ BucketOf(eiter)' = BucketOf(f)
    BY <1>4 DEF OrderKept, BucketOf, Bucket
<1>6. ASSUME NEW x
      PROVE  /\ Ahead(x)' <=> \/ BucketOf(x) > riter
                              \/ lazydel' /\ y # NoEntry /\ (x = y \/ Follows(chain', y, x))
                              \/ ~lazydel' /\ Follows(chain', f, x)
             /\ Ahead(x) <=> \/ BucketOf(x) > riter
                             \/ /\ lazydel /\ lazynext # NoEntry
                                /\ x = lazynext \/ Follows(chain, lazynext, x)
                             \/ ~lazydel /\ Follows(chain, f, x)
    BY <1>3, <1>4 DEF Ahead
<1>7. /\ ~lazydel => f \in Linked /\ BucketOf(f) = riter
      /\ lazydel => /\ f \notin Linked
                    /\ lazynext # NoEntry => lazynext \in Linked /\ BucketOf(lazynext) = riter
    BY <1>4, Zenon DEF EachKept
<1> DEFINE Goal == /\ \A x \in R : Ahead(x)' <=> Ahead(x)
                   /\ ~lazydel' => f \in Linked' /\ BucketOf(f) = riter
                   /\ lazydel' => /\ f \notin Linked'
                                  /\ y # NoEntry => y \in Linked' /\ BucketOf(y) = riter
<1>8. ASSUME lazydel', f \notin Linked', NEW d \in Linked, BucketOf(d) = riter, y = FirstOf(After(d), R),
             \A x \in R : Ahead(x) <=> BucketOf(x) > riter \/ Follows(chain, d, x)
      PROVE  Goal
  <2>1. /\ y = NoEntry => \A x \in R : ~Follows(chain, d, x)
        /\ y # NoEntry => /\ y \in R /\ BucketOf(y) = BucketOf(d)
                          /\ \A x \in R : Follows(chain, d, x) <=> x = y \/ Follows(chain, y, x)
      BY <1>8, NextIs
  <2>2. ASSUME NEW x \in R PROVE Ahead(x)' <=> Ahead(x)
      BY <1>2, <1>6, <1>8, <2>1
  <2>3. y # NoEntry => y \in Linked' /\ BucketOf(y) = riter
      BY <1>2, <1>8, <2>1
  <2> QED
      BY <1>8, <2>2, <2>3, Zenon
<1>9. CASE eiter \in S
  <2>1. ~lazydel /\ lazydel' /\ y = FirstOf(After(f), R) /\ f \in Linked /\ f \notin Linked'
      BY <1>1, <1>2, <1>4, <1>7, <1>9
  <2>2. \A x \in R : Ahead(x) <=> BucketOf(x) > riter \/ Follows(chain, f, x)
      BY <1>6, <2>1, Zenon
  <2>3. Goal
      BY <1>7, <1>8, <2>1, <2>2
  <2> QED
      BY <1>4, <1>5, <2>3
<1>10. CASE eiter \notin S /\ lazydel /\ lazynext \in S
  <2>1. lazydel' /\ y = FirstOf(After(lazynext), R) /\ f \notin Linked'
      BY <1>1, <1>2, <1>4, <1>10
  <2>2. lazynext \in Linked /\ lazynext # NoEntry /\ BucketOf(lazynext) = riter
      BY <1>7, <1>10, StateIs
  <2>3. \A x \in R : Ahead(x) <=> BucketOf(x) > riter \/ Follows(chain, lazynext, x)
      BY <1>6, <1>10, <2>2
  <2>4. Goal
      BY <1>8, <2>1, <2>2, <2>3
  <2> QED
      BY <1>4, <1>5, <2>4
<1>11. CASE eiter \notin S /\ lazydel /\ lazynext \notin S
  <2>1. lazydel' /\ y = lazynext /\ f \notin Linked'
      BY <1>1, <1>2, <1>4, <1>11
  <2>2. y # NoEntry => y \in R /\ BucketOf(y) = riter
      BY <1>7, <1>11, <2>1
  <2>3. \A x \in R : Ahead(x)' <=> Ahead(x)
      BY <1>2, <1>6, <1>11, <2>1, <2>2
  <2> QED
      BY <1>2, <1>4, <1>5, <2>1, <2>2, <2>3
<1>12. CASE eiter \notin S /\ ~lazydel
  <2>1. ~lazydel' /\ f \in R /\ BucketOf(f) = riter
      BY <1>1, <1>4, <1>7, <1>12
  <2>2. \A x \in R : Ahead(x)' <=> Ahead(x)
      BY <1>2, <1>6, <1>12, <2>1
  <2> QED
      BY <1>2, <1>4, <1>5, <2>1, <2>2
<1> QED
    BY <1>9, <1>10, <1>11, <1>12

\* A step that leaves the iterator where it stands, whatever it unlinks.
LEMMA EachStill ==
    ASSUME HashCoherent, EachInvariant, NEW S \in SUBSET Linked, Unlinks(S), owed' \subseteq owed,
           riter' = riter, eiter' = eiter, whole' => whole, ended' => ended,
           ASSUME whole', eiter # NoEntry, EachKept
           PROVE  OrderKept(S) /\ HistoryKept(S) /\ placecount' = Cardinality(placeholder')
    PROVE  EachInvariant' /\ EachStep
<1>1. whole' /\ ended' => owed' = {}
  <2> SUFFICES ASSUME whole', ended' PROVE owed' = {}
      OBVIOUS
  <2>1. owed = {}
      BY DEF EachInvariant
  <2> QED
      BY <2>1
<1>2. ASSUME whole', eiter' # NoEntry PROVE EachKept'
  <2>0. EachKept
      BY <1>2, Zenon DEF EachInvariant
  <2>1. OrderKept(S) /\ HistoryKept(S) /\ placecount' = Cardinality(placeholder')
      BY <1>2, <2>0
  <2>2. /\ \A x \in Linked \ S : Ahead(x)' <=> Ahead(x)
        /\ ~lazydel' => eiter' \in Linked' /\ BucketOf(eiter)' = riter'
        /\ lazydel' => /\ eiter' \notin Linked'
                       /\ lazynext' # NoEntry => lazynext' \in Linked' /\ BucketOf(lazynext)' = riter'
      BY <2>0, <2>1, AheadStill, Zenon
  <2>3. owed \cup visited \subseteq Linked
      BY <2>0, StateIs DEF EachKept, Valued
  <2>4. /\ owed' \subseteq owed \ S /\ visited' \subseteq visited \ S /\ owed' \cup visited' \subseteq Valued'
      BY <2>1, Zenon DEF HistoryKept
  <2>5. /\ \A e \in owed : Ahead(e)
        /\ \A e \in visited : ~Ahead(e)
      BY <2>0, Zenon DEF EachKept
  <2>6. ASSUME NEW e \in owed' PROVE Ahead(e)'
      BY <2>2, <2>3, <2>4, <2>5
  <2>7. ASSUME NEW e \in visited' PROVE ~Ahead(e)'
      BY <2>2, <2>3, <2>4, <2>5
  <2> QED
      BY <2>1, <2>2, <2>4, <2>6, <2>7, Zenon DEF EachKept
<1> QED
    BY <1>1, <1>2, Zenon DEF EachInvariant, EachStep

\* A step that leaves the buckets as they are, at least while the iterator
\* stands in one, and the iterator, too.
LEMMA EachSame ==
    ASSUME HashCoherent, EachInvariant, UNCHANGED <<riter, eiter, lazydel, lazynext>>,
           eiter # NoEntry => chain' = chain, owed' \subseteq owed, whole' => whole, ended' => ended,
           ASSUME whole', eiter # NoEntry, EachKept
           PROVE  HistoryKept({}) /\ placecount' = Cardinality(placeholder')
    PROVE  EachInvariant' /\ EachStep
<1>1. Unlinks({})
    BY StateIs DEF Unlinks, Ranges
<1>2. ASSUME eiter # NoEntry, EachKept PROVE OrderKept({})
  <2>1. chain' = chain /\ (lazydel => eiter \notin Linked)
      BY <1>2, Zenon DEF EachKept
  <2>2. eiter \notin {} /\ Linked \ {} = Linked
      OBVIOUS
  <2> QED
      BY <2>1, <2>2 DEF OrderKept, Linked, Size
<1>3. {} \in SUBSET Linked
    OBVIOUS
<1> QED
    BY <1>1, <1>2, <1>3, EachStill

\* A step that ends the iteration, or begins another.
LEMMA EachVoid ==
    ASSUME whole' => eiter' = NoEntry, whole' /\ ended' => owed' = {}
    PROVE  EachInvariant' /\ EachStep
    BY DEF EachInvariant, EachStep

\* The number of buckets, and what they link, of the next state.
LEMMA NewChain ==
    ASSUME NEW n \in Nat \ {0}, Chains(chain', n)
    PROVE  Size' = n /\ Linked' = InChains(chain')
<1>1. DOMAIN chain' = 0..n-1 /\ Cardinality(DOMAIN chain') = n
    BY ChainsAre, Zenon
<1> QED
    BY <1>1 DEF Size, Linked, InChains

\* Unlinking S keeps the order of the others.
LEMMA EachWithout ==
    ASSUME HashCoherent, EachKept, NEW S \in SUBSET Linked, chain' = Without(chain, S)
    PROVE  OrderKept(S) /\ Linked' = Linked \ S
<1>1. PICK n \in Nat \ {0} : n = Size
    BY StateIs
<1>2. Chains(chain, n) /\ InChains(chain) = Linked
    BY <1>1, StateIs
<1>3. Chains(chain', n) /\ InChains(chain') = Linked \ S
    BY <1>2, WithoutIs
<1>4. Size' = n /\ Linked' = Linked \ S
    BY <1>3, NewChain
<1>5. ASSUME NEW d \in Linked \ S, NEW e \in Linked \ S
      PROVE  Follows(chain', d, e) <=> Follows(chain, d, e)
    BY <1>2, WithoutOrder
<1>6. lazydel \/ eiter \in S => eiter \notin Linked'
    BY <1>4 DEF EachKept
<1> QED
    BY <1>1, <1>4, <1>5, <1>6 DEF OrderKept

-----------------------------------------------------------------------------
(* The actions, and the order of each() *)

\* hv_common, a fetch, does not touch a bucket while each() is under way.
LEMMA FindEach ==
    ASSUME HashCoherent, EachInvariant, NEW k \in Keys, HashFind(k)
    PROVE  EachInvariant' /\ EachStep
<1>1. PICK e \in EntriesOf(k) \ placeholder :
          /\ ToFront(e)
          /\ UNCHANGED <<placeholder, placecount, iterVars, historyVars>>
    BY Zenon DEF HashFind
<1>2. eiter # NoEntry => chain' = chain
    BY <1>1, Zenon DEF ToFront
<1>3. ASSUME EachKept, eiter # NoEntry
      PROVE  HistoryKept({}) /\ placecount' = Cardinality(placeholder')
    BY <1>1, <1>2, <1>3 DEF EachKept, HistoryKept, historyVars, Valued, Linked
<1>4. /\ UNCHANGED <<riter, eiter, lazydel, lazynext>> /\ owed' \subseteq owed
      /\ (whole' => whole) /\ (ended' => ended)
    BY <1>1 DEF iterVars, historyVars
<1> QED
    BY <1>2, <1>3, <1>4, EachSame

\* A store into a placeholder.
LEMMA RefillEach ==
    ASSUME HashCoherent, EachInvariant, NEW k \in Keys, HashRefill(k)
    PROVE  EachInvariant' /\ EachStep
<1>1. PICK e \in EntriesOf(k) \cap placeholder :
          /\ ToFront(e)
          /\ placeholder' = placeholder \ {e} /\ placecount' = placecount - 1
          /\ UNCHANGED <<iterVars, historyVars>>
    BY Zenon DEF HashRefill
<1>2. eiter # NoEntry => chain' = chain
    BY <1>1, Zenon DEF ToFront
<1>3. ASSUME EachKept, eiter # NoEntry
      PROVE  HistoryKept({}) /\ placecount' = Cardinality(placeholder')
  <2>1. Cardinality(placeholder \ {e}) = Cardinality(placeholder) - 1
      BY <1>1, StateIs, CountLess
  <2>2. placecount' = Cardinality(placeholder')
      BY <1>1, <1>3, <2>1 DEF EachKept
  <2>3. HistoryKept({})
      BY <1>1, <1>2, <1>3 DEF EachKept, HistoryKept, historyVars, Valued, Linked
  <2> QED
      BY <2>2, <2>3
<1>4. /\ UNCHANGED <<riter, eiter, lazydel, lazynext>> /\ owed' \subseteq owed
      /\ (whole' => whole) /\ (ended' => ended)
    BY <1>1 DEF iterVars, historyVars
<1> QED
    BY <1>2, <1>3, <1>4, EachSame

\* A store that links a new entry: it lies on top of its bucket, out of the
\* way of the iterator or before it, and none that each() has returned.
LEMMA InsertEach ==
    ASSUME HashCoherent, EachInvariant, NEW e \in Entries, HashInsert(e)
    PROVE  EachInvariant' /\ EachStep
<1> DEFINE k      == KeyOf(e)
           sweeps == Crowded(keycount + 1, Size) /\ placecount > 0
           swept  == IF sweeps THEN placeholder ELSE {}
           left   == keycount + 1 - (IF sweeps THEN placecount ELSE 0)
           splits == Crowded(left, Size)
<1>1. /\ e \in FreeEntries
      /\ chain' = IF splits
                  THEN Rehash(Without([chain EXCEPT ![Bucket(k)] = <<e>> \o @], swept), 2 * Size)
                  ELSE Without([chain EXCEPT ![Bucket(k)] = <<e>> \o @], swept)
      /\ placeholder' = placeholder \ swept
      /\ placecount' = (IF sweeps THEN 0 ELSE placecount)
      /\ Unlinks(swept)
      /\ whole' = (whole /\ ~splits)
      /\ UNCHANGED <<riter, eiter, owed, visited, ended>>
    BY Zenon DEF HashInsert
<1> HIDE DEF sweeps, splits
<1>2. swept \in SUBSET Linked /\ swept \subseteq placeholder
    BY StateIs
<1>3. e \notin Linked /\ (lazydel => e # eiter)
    BY <1>1 DEF FreeEntries
<1>4. ASSUME whole', EachKept
      PROVE  OrderKept(swept) /\ HistoryKept(swept) /\ placecount' = Cardinality(placeholder')
  <2>1. PICK n \in Nat \ {0} : n = Size
      BY StateIs
  <2>2. Chains(chain, n) /\ InChains(chain) = Linked /\ Bucket(k) = Home(e, n)
      BY <2>1, StateIs DEF Bucket, Home
  <2>3. PICK c : c = [chain EXCEPT ![Home(e, n)] = <<e>> \o @]
      OBVIOUS
  <2>4. Chains(c, n) /\ InChains(c) = Linked \cup {e}
      BY <1>3, <2>2, <2>3, PushedIs, Zenon
  <2>5. chain' = Without(c, swept)
    <3>1. ~splits
        BY <1>1, <1>4, Zenon
    <3> QED
        BY <1>1, <2>2, <2>3, <3>1, Zenon
  <2>6. Chains(chain', n) /\ InChains(chain') = (Linked \cup {e}) \ swept
      BY <2>4, <2>5, WithoutIs
  <2>7. Size' = n /\ Linked' = (Linked \cup {e}) \ swept
      BY <2>6, NewChain
  <2>8. ASSUME NEW d \in Linked \ swept, NEW x \in Linked \ swept
        PROVE  Follows(chain', d, x) <=> Follows(chain, d, x)
    <3>1. d # e /\ x # e /\ d \notin swept /\ x \notin swept
        BY <1>3
    <3> HIDE DEF swept
    <3>2. Follows(chain', d, x) <=> Follows(c, d, x)
        BY <2>4, <2>5, <3>1, WithoutOrder
    <3>3. Follows(c, d, x) <=> Follows(chain, d, x)
        BY <2>2, <2>3, <3>1, PushedOrder, Zenon
    <3> QED
        BY <3>2, <3>3
  <2>9. lazydel \/ eiter \in swept => eiter \notin Linked'
    <3> HIDE DEF swept
    <3>1. lazydel => eiter \notin Linked
        BY <1>4, Zenon DEF EachKept
    <3> QED
        BY <1>2, <1>3, <2>7, <3>1
  <2>10. OrderKept(swept)
    <3> HIDE DEF swept
    <3>1. Linked \ swept \subseteq Linked'
        BY <2>7
    <3> QED
        BY <2>1, <2>7, <2>8, <2>9, <3>1, Zenon DEF OrderKept
  <2>11. placecount' = Cardinality(placeholder')
    <3>1. CASE sweeps
      <4>1. placeholder' = {} /\ placecount' = 0
          BY <1>1, <3>1
      <4> QED
          BY <4>1, FS_EmptySet
    <3>2. CASE ~sweeps
        BY <1>1, <1>4, <3>2 DEF EachKept
    <3> QED
        BY <3>1, <3>2
  <2>12. HistoryKept(swept)
    <3> HIDE DEF swept
    <3>1. owed \cup visited \subseteq Linked \ placeholder
        BY <1>4, Zenon DEF EachKept, Valued
    <3> QED
        BY <1>1, <1>2, <2>7, <3>1 DEF HistoryKept, Valued
  <2> QED
      BY <2>10, <2>11, <2>12
<1> HIDE DEF swept
<1>5. riter' = riter /\ eiter' = eiter /\ owed' \subseteq owed /\ (whole' => whole) /\ (ended' => ended)
    BY <1>1
<1> QED
    BY <1>1, <1>2, <1>4, <1>5, EachStill

\* hv_delete_common, of a hash that is not restricted.
LEMMA DeleteEach ==
    ASSUME HashCoherent, EachInvariant, NEW k \in Keys, HashDelete(k)
    PROVE  EachInvariant' /\ EachStep
<1>1. PICK e \in EntriesOf(k) \ placeholder :
          /\ chain' = Without(chain, {e}) /\ Unlinks({e})
          /\ owed' = owed \ {e} /\ visited' = visited \ {e}
          /\ UNCHANGED <<placeholder, placecount, riter, eiter, whole, ended>>
    BY Zenon DEF HashDelete
<1>2. {e} \in SUBSET Linked
    BY <1>1, FoundIs
<1>3. ASSUME EachKept
      PROVE  OrderKept({e}) /\ HistoryKept({e}) /\ placecount' = Cardinality(placeholder')
  <2>1. OrderKept({e}) /\ Linked' = Linked \ {e}
      BY <1>1, <1>2, <1>3, EachWithout
  <2> QED
      BY <1>1, <1>3, <2>1 DEF EachKept, HistoryKept, Valued
<1> QED
    BY <1>1, <1>2, <1>3, EachStill

\* The same of a restricted hash leaves a placeholder.
LEMMA DeleteRestrictedEach ==
    ASSUME HashCoherent, EachInvariant, NEW k \in Keys, HashDeleteRestricted(k)
    PROVE  EachInvariant' /\ EachStep
<1>1. PICK e \in EntriesOf(k) \ (placeholder \cup frozen) :
          /\ placeholder' = placeholder \cup {e} /\ placecount' = placecount + 1
          /\ owed' = owed \ {e} /\ visited' = visited \ {e}
          /\ UNCHANGED <<chain, iterVars, whole, ended>>
    BY Zenon DEF HashDeleteRestricted
<1>2. ASSUME EachKept PROVE HistoryKept({}) /\ placecount' = Cardinality(placeholder')
  <2>1. Cardinality(placeholder \cup {e}) = Cardinality(placeholder) + 1
      BY <1>1, StateIs, CountMore
  <2> QED
      BY <1>1, <1>2, <2>1 DEF EachKept, HistoryKept, Valued, Linked
<1>3. /\ UNCHANGED <<riter, eiter, lazydel, lazynext>> /\ owed' \subseteq owed /\ chain' = chain
      /\ (whole' => whole) /\ (ended' => ended)
    BY <1>1 DEF iterVars
<1> QED
    BY <1>2, <1>3, EachSame

\* hv_clear_placeholders.
LEMMA ClearPlaceholdersEach ==
    ASSUME HashCoherent, EachInvariant, HashClearPlaceholders
    PROVE  EachInvariant' /\ EachStep
<1>1. /\ chain' = Without(chain, placeholder) /\ Unlinks(placeholder)
      /\ placecount' = 0 /\ placeholder' = {}
      /\ UNCHANGED <<riter, eiter, historyVars>>
    BY Zenon DEF HashClearPlaceholders
<1>2. placeholder \in SUBSET Linked
    BY StateIs
<1>3. UNCHANGED <<owed, visited, whole, ended>>
    BY <1>1 DEF historyVars
<1>4. ASSUME EachKept
      PROVE  OrderKept(placeholder) /\ HistoryKept(placeholder) /\ placecount' = Cardinality(placeholder')
  <2>1. OrderKept(placeholder) /\ Linked' = Linked \ placeholder
      BY <1>1, <1>2, <1>4, EachWithout
  <2> QED
      BY <1>1, <1>3, <1>4, <2>1, FS_EmptySet DEF EachKept, HistoryKept, Valued
<1> QED
    BY <1>1, <1>2, <1>3, <1>4, EachStill

\* Steps that change nothing that the iterator reads.
LEMMA QuietEach ==
    ASSUME HashCoherent, EachInvariant, UNCHANGED <<chain, placeholder, placecount, iterVars, historyVars>>
    PROVE  EachInvariant' /\ EachStep
<1>1. /\ UNCHANGED <<riter, eiter, lazydel, lazynext, chain>> /\ owed' \subseteq owed
      /\ (whole' => whole) /\ (ended' => ended)
    BY DEF iterVars, historyVars
<1>2. ASSUME EachKept PROVE HistoryKept({}) /\ placecount' = Cardinality(placeholder')
    BY <1>2 DEF EachKept, HistoryKept, historyVars, Valued, Linked
<1> QED
    BY <1>1, <1>2, EachSame

\* hv_clear of a restricted hash.
LEMMA EmptyRestrictedEach ==
    ASSUME HashCoherent, EachInvariant, HashEmptyRestricted
    PROVE  EachInvariant' /\ EachStep
<1> DEFINE order == FlattenSeq([i \in 1..Size |-> chain[i-1]])
           stop  == SelectInSeq(order, LAMBDA e : e \in frozen \ placeholder)
           done  == ToSet(IF stop = 0 THEN order ELSE SubSeq(order, 1, stop - 1))
<1>1. /\ placeholder' = placeholder \cup done
      /\ placecount' = placecount + Cardinality(done \ placeholder)
      /\ eiter' = (IF stop = 0 THEN NoEntry ELSE eiter)
      /\ owed' = owed \ done /\ visited' = visited \ done
      /\ whole' = (whole /\ stop # 0)
      /\ UNCHANGED <<chain, riter, lazydel, lazynext, ended>>
    BY Zenon DEF HashEmptyRestricted
<1>2. done \subseteq Linked
  <2>1. order \in Seq(Entries) /\ ToSet(order) = Linked
      BY OrderIs, Zenon
  <2> HIDE DEF order
  <2>2. done \subseteq ToSet(order) /\ done \cap (frozen \ placeholder) = {}
      BY <2>1, StopIs, Zenon
  <2> QED
      BY <2>1, <2>2
<1> HIDE DEF done, stop
<1>3. CASE stop = 0
  <2>1. ~whole'
      BY <1>1, <1>3, Zenon
  <2> QED
      BY <2>1, EachVoid
<1>4. CASE stop # 0
  <2>1. ASSUME EachKept PROVE HistoryKept({}) /\ placecount' = Cardinality(placeholder')
    <3>1. placeholder' \subseteq Linked /\ IsFiniteSet(placeholder')
        BY <1>1, <1>2, StateIs, FS_Subset
    <3>2. placeholder \in SUBSET placeholder' /\ placeholder' \ placeholder = done \ placeholder
        BY <1>1
    <3>3. /\ Cardinality(placeholder') \in Nat /\ Cardinality(placeholder) \in Nat
          /\ Cardinality(placeholder' \ placeholder) = Cardinality(placeholder') - Cardinality(placeholder)
        BY <3>1, <3>2, CountIs
    <3>4. placecount' = Cardinality(placeholder')
      <4>1. placecount = Cardinality(placeholder)
          BY <2>1, Zenon DEF EachKept
      <4> QED
          BY <1>1, <3>2, <3>3, <4>1
    <3>5. HistoryKept({})
        BY <1>1, <2>1 DEF EachKept, HistoryKept, Valued, Linked
    <3> QED
        BY <3>4, <3>5
  <2>2. /\ UNCHANGED <<riter, eiter, lazydel, lazynext, chain>> /\ owed' \subseteq owed
        /\ (whole' => whole) /\ (ended' => ended)
      BY <1>1, <1>4
  <2> QED
      BY <2>1, <2>2, EachSame
<1> QED
    BY <1>3, <1>4

\* The parts of a sequence from its end, and from its i-th member on.
LEMMA PartsAre ==
    ASSUME NEW E, NEW s \in Seq(E)
    PROVE  /\ SubSeq(s, Len(s) + 1, Len(s)) = <<>>
           /\ SubSeq(s, 1, Len(s)) = s
           /\ \A i \in 1..Len(s) : <<s[i]>> \o SubSeq(s, i + 1, Len(s)) = SubSeq(s, i, Len(s))
<1>1. SubSeq(s, Len(s) + 1, Len(s)) = <<>>
    OBVIOUS
<1>2. SubSeq(s, 1, Len(s)) = s
    OBVIOUS
<1>3. ASSUME NEW i \in 1..Len(s) PROVE <<s[i]>> \o SubSeq(s, i + 1, Len(s)) = SubSeq(s, i, Len(s))
    OBVIOUS
<1> QED
    BY <1>1, <1>2, <1>3

\* Where hv_iternext looks on in the bucket.
Rest == IF eiter = NoEntry THEN <<>>
        ELSE IF ~lazydel THEN After(eiter)
        ELSE IF lazynext = NoEntry THEN <<>> ELSE <<lazynext>> \o After(lazynext)

\* It is the part of the bucket that is ahead.
LEMMA RestIs ==
    ASSUME HashCoherent, eiter # NoEntry => EachKept
    PROVE  \E b \in 0..Size-1 : \E k \in 1..Len(chain[b])+1 :
               /\ Rest = SubSeq(chain[b], k, Len(chain[b]))
               /\ Onward(b, k) # {} => b = riter /\ eiter # NoEntry
               /\ eiter # NoEntry => \A x : Ahead(x) <=> BucketOf(x) > riter \/ x \in Onward(b, k)
<1>1. \A b \in 0..Size-1 : chain[b] \in Seq(Entries) /\ Len(chain[b]) \in Nat
  <2>1. \A b \in 0..Size-1 : chain[b] \in Seq(Entries)
      BY StateIs DEF Chains
  <2> QED
      BY <2>1, SetIs
<1>2. 0 \in 0..Size-1
    BY StateIs
<1>3. CASE eiter = NoEntry \/ (lazydel /\ lazynext = NoEntry)
  <2>1. PICK k \in 1..Len(chain[0])+1 : k = Len(chain[0]) + 1
      BY <1>1, <1>2
  <2>2. SubSeq(chain[0], k, Len(chain[0])) = <<>>
      BY <1>1, <1>2, <2>1, PartsAre
  <2>3. Rest = <<>>
      BY <1>3 DEF Rest
  <2>4. Onward(0, k) = {}
      BY <1>1, <1>2, <2>1 DEF Onward
  <2>5. eiter # NoEntry => \A x : Ahead(x) <=> BucketOf(x) > riter
      BY <1>3 DEF Ahead
  <2> QED
      BY <1>2, <2>2, <2>3, <2>4, <2>5, Zenon
<1>4. CASE eiter # NoEntry /\ ~lazydel
  <2>1. eiter \in Linked /\ BucketOf(eiter) = riter
      BY <1>4, Zenon DEF EachKept
  <2>2. PICK b \in 0..Size-1 : b = BucketOf(eiter)
      BY <2>1, StateIs, HomeIs DEF BucketOf, Bucket, Home
  <2>3. PICK i \in 1..Len(chain[b]) : /\ After(eiter) = SubSeq(chain[b], i + 1, Len(chain[b]))
                                      /\ \A x : x \in Onward(b, i + 1) <=> Follows(chain, eiter, x)
      BY <2>1, <2>2, AfterAt, Zenon
  <2>4. PICK k \in 1..Len(chain[b])+1 : k = i + 1
      BY <1>1
  <2>5. Rest = SubSeq(chain[b], k, Len(chain[b]))
      BY <1>4, <2>3, <2>4, Zenon DEF Rest
  <2>6. \A x : Ahead(x) <=> BucketOf(x) > riter \/ x \in Onward(b, k)
      BY <1>4, <2>3, <2>4, Zenon DEF Ahead
  <2> QED
      BY <1>4, <2>1, <2>2, <2>5, <2>6, Zenon
<1>5. CASE eiter # NoEntry /\ lazydel /\ lazynext # NoEntry
  <2>1. lazynext \in Linked /\ BucketOf(lazynext) = riter
      BY <1>5, Zenon DEF EachKept
  <2>2. PICK b \in 0..Size-1 : b = BucketOf(lazynext)
      BY <2>1, StateIs, HomeIs DEF BucketOf, Bucket, Home
  <2>3. PICK i \in 1..Len(chain[b]) : /\ chain[b][i] = lazynext
                                      /\ After(lazynext) = SubSeq(chain[b], i + 1, Len(chain[b]))
                                      /\ \A x : x \in Onward(b, i + 1) <=> Follows(chain, lazynext, x)
      BY <2>1, <2>2, AfterAt, Zenon
  <2>4. i \in 1..Len(chain[b])+1
      BY <1>1
  <2>5. Rest = SubSeq(chain[b], i, Len(chain[b]))
    <3>1. Rest = <<chain[b][i]>> \o SubSeq(chain[b], i + 1, Len(chain[b]))
        BY <1>5, <2>3, Zenon DEF Rest
    <3> QED
        BY <1>1, <3>1, PartsAre, Zenon
  <2>6. ASSUME NEW x PROVE x \in Onward(b, i) <=> x = lazynext \/ x \in Onward(b, i + 1)
    <3>1. \A j : j \in i..Len(chain[b]) <=> j = i \/ j \in i+1..Len(chain[b])
        BY <1>1
    <3> QED
        BY <2>3, <3>1 DEF Onward
  <2>7. \A x : Ahead(x) <=> BucketOf(x) > riter \/ x \in Onward(b, i)
      BY <1>5, <2>3, <2>6, Zenon DEF Ahead
  <2> QED
      BY <1>5, <2>1, <2>2, <2>4, <2>5, <2>7, Zenon
<1>6. (eiter = NoEntry \/ (lazydel /\ lazynext = NoEntry)) \/ (eiter # NoEntry /\ ~lazydel)
      \/ (eiter # NoEntry /\ lazydel /\ lazynext # NoEntry)
    OBVIOUS
<1> QED
    BY <1>3, <1>4, <1>5, <1>6, Zenon

\* each() returns r: of O, what is left is ahead of r; V is behind it.
LEMMA ReturnedEach ==
    ASSUME HashCoherent, UNCHANGED <<chain, placeholder, placecount>>, placecount = Cardinality(placeholder),
           NEW r \in Valued, eiter' = r, riter' = BucketOf(r), ~lazydel', ~ended', r # eiter,
           NEW O \in SUBSET Valued, owed' = O \ {r},
           \A x \in O : BucketOf(x) > BucketOf(r) \/ x = r \/ Follows(chain, r, x),
           NEW V \in SUBSET Valued, visited' = V \cup {r}, eiter # NoEntry => V = visited,
           \A x \in V \cup {r} : ~(BucketOf(x) > BucketOf(r)) /\ ~Follows(chain, r, x),
           r \notin V
    PROVE  EachInvariant' /\ EachStep
<1>1. /\ Linked' = Linked /\ Valued' = Valued /\ placecount' = Cardinality(placeholder')
      /\ \A x : BucketOf(x)' = BucketOf(x)
    BY DEF Linked, Valued, BucketOf, Bucket, Size
<1>2. r \in Linked
    BY DEF Valued
<1>3. \A x : Ahead(x)' <=> BucketOf(x) > BucketOf(r) \/ Follows(chain, r, x)
    BY <1>1 DEF Ahead
<1>4. BucketOf(eiter)' = riter'
    BY DEF BucketOf, Bucket, Size
<1>5. owed' \cup visited' \subseteq Valued'
    BY <1>1
<1>6. \A x \in owed' : Ahead(x)'
    BY <1>3
<1>7. \A x \in visited' : ~Ahead(x)'
    BY <1>3
<1>8. EachKept'
    BY <1>1, <1>2, <1>4, <1>5, <1>6, <1>7 DEF EachKept
<1>9. EachInvariant'
    BY <1>8 DEF EachInvariant
<1>10. r # NoEntry
    BY <1>2, StateIs
<1> QED
    BY <1>9, <1>10 DEF EachStep

\* Nothing comes after itself.
LEMMA NotAfterItself ==
    ASSUME HashCoherent, NEW e \in Linked
    PROVE  ~Follows(chain, e, e)
<1>1. PICK i \in 1..Len(chain[BucketOf(e)]) :
          /\ chain[BucketOf(e)][i] = e
          /\ \A x : x \in Onward(BucketOf(e), i + 1) <=> Follows(chain, e, x)
    BY AfterAt, Zenon
<1>2. PICK b \in 0..Size-1 : b = BucketOf(e)
    BY StateIs, HomeIs DEF BucketOf, Bucket, Home
<1>3. chain[b] \in Seq(Entries) /\ IsInjective(chain[b])
    BY StateIs DEF Chains
<1>4. \A h, j \in 1..Len(chain[b]) : chain[b][h] = chain[b][j] => h = j
    BY <1>3, OnceIs
<1>5. e \notin Onward(b, i + 1)
  <2>1. \A j \in i+1..Len(chain[b]) : j \in 1..Len(chain[b]) /\ j # i
      BY <1>1, <1>2, <1>3
  <2> QED
      BY <1>1, <1>2, <1>4, <2>1 DEF Onward
<1> QED
    BY <1>1, <1>2, <1>5

\* The iterator is not at an entry that is ahead.
LEMMA NotAtAhead ==
    ASSUME HashCoherent, EachKept, NEW r \in Linked, Ahead(r)
    PROVE  r # eiter
<1>1. BucketOf(r) \in Int
    BY StateIs, HomeIs DEF BucketOf, Bucket, Home
<1> QED
    BY <1>1, NotAfterItself DEF Ahead, EachKept

\* The buckets that hv_iternext has still to look into.
Later == {b \in DOMAIN chain : b > riter /\ ToSet(chain[b]) \cap Valued # {}}

\* The first of them, and the first value in it.
LEMMA LaterIs ==
    ASSUME HashCoherent
    PROVE  /\ \A x \in Valued : BucketOf(x) > riter => BucketOf(x) \in Later
           /\ Later # {} => \E b \in 0..Size-1, r \in Valued :
                  /\ b = Min(Later) /\ b > riter /\ r = FirstOf(chain[b], Valued) /\ BucketOf(r) = b
                  /\ \A x \in Valued : BucketOf(x) > riter => BucketOf(x) >= b
                  /\ \A x \in Valued : BucketOf(x) = b => x = r \/ Follows(chain, r, x)
                  /\ \A x : Follows(chain, r, x) => BucketOf(x) = b
                  /\ ~Follows(chain, r, r)
<1>1. PICK n \in Nat \ {0} : n = Size
    BY StateIs
<1>2. /\ Chains(chain, n) /\ InChains(chain) = Linked /\ DOMAIN chain = 0..n-1 /\ Valued \in SUBSET Linked
      /\ NoEntry \notin Valued
    BY <1>1, StateIs DEF Valued
<1>3. \A b \in 0..n-1, x \in Linked : x \in ToSet(chain[b]) <=> BucketOf(x) = b
  <2>1. ASSUME NEW b \in 0..n-1, NEW x \in Linked, x \in ToSet(chain[b]) PROVE BucketOf(x) = b
      BY <1>1, <1>2, <2>1 DEF Chains, BucketOf, Bucket, Home
  <2>2. ASSUME NEW x \in Linked PROVE x \in ToSet(chain[BucketOf(x)])
      BY <1>1, <1>2, ChainsAre DEF BucketOf, Bucket, Home
  <2> QED
      BY <2>1, <2>2
<1>4. \A x \in Linked : BucketOf(x) \in 0..n-1
    BY <1>1, StateIs, HomeIs DEF BucketOf, Bucket, Home
<1>5. ASSUME NEW x \in Valued, BucketOf(x) > riter PROVE BucketOf(x) \in Later
    BY <1>2, <1>3, <1>4, <1>5 DEF Later
<1>6. ASSUME Later # {}
      PROVE  \E b \in 0..Size-1, r \in Valued :
                 /\ b = Min(Later) /\ b > riter /\ r = FirstOf(chain[b], Valued) /\ BucketOf(r) = b
                 /\ \A x \in Valued : BucketOf(x) > riter => BucketOf(x) >= b
                 /\ \A x \in Valued : BucketOf(x) = b => x = r \/ Follows(chain, r, x)
                 /\ \A x : Follows(chain, r, x) => BucketOf(x) = b
                 /\ ~Follows(chain, r, r)
  <2>1. Later \in SUBSET Nat
      BY <1>2 DEF Later
  <2>2. Min(Later) \in Later /\ \A m \in Later : Min(Later) <= m
      BY <1>6, <2>1, MinIsLeast
  <2>3. PICK b \in 0..Size-1 : /\ b = Min(Later) /\ b > riter /\ ToSet(chain[b]) \cap Valued # {}
                               /\ \A m \in Later : b <= m
      BY <1>1, <1>2, <2>2 DEF Later
  <2>4. PICK r : r = FirstOf(chain[b], Valued)
      OBVIOUS
  <2>5. chain[b] \in Seq(Entries) /\ Len(chain[b]) \in Nat /\ 1 \in 1..Len(chain[b])+1
    <3>1. chain[b] \in Seq(Entries)
        BY <1>1, <1>2, <2>3 DEF Chains
    <3> QED
        BY <3>1, SetIs
  <2>6. r = FirstOf(SubSeq(chain[b], 1, Len(chain[b])), Valued)
      BY <2>4, <2>5, PartsAre, Zenon
  <2>7. \A x : x \in Onward(b, 1) <=> x \in ToSet(chain[b])
      BY <2>5, SetIs DEF Onward
  <2>8. /\ r = NoEntry => Onward(b, 1) \cap Valued = {}
        /\ r # NoEntry => /\ r \in Valued /\ r \in Onward(b, 1) /\ BucketOf(r) = b
                          /\ \A x \in Valued : x \in Onward(b, 1) <=> x = r \/ Follows(chain, r, x)
                          /\ \A x : Follows(chain, r, x) => x \in Onward(b, 1)
                          /\ ~Follows(chain, r, r)
    <3>1. Valued \in SUBSET Linked /\ b \in 0..Size-1
        BY <1>2, <2>3
    <3> QED
        BY <2>5, <2>6, <3>1, OnwardIs
  <2>9. r # NoEntry
      BY <2>3, <2>7, <2>8
  <2>10. \A x \in Valued : BucketOf(x) > riter => BucketOf(x) >= b
    <3>1. b \in Int
        BY <1>1, <2>3
    <3>2. ASSUME NEW x \in Valued, BucketOf(x) > riter PROVE BucketOf(x) >= b
      <4>1. BucketOf(x) \in Int /\ b <= BucketOf(x)
          BY <1>2, <1>4, <1>5, <2>3, <3>2
      <4> QED
          BY <3>1, <4>1
    <3> QED
        BY <3>2
  <2>11. \A x : Follows(chain, r, x) => BucketOf(x) = b
    <3>1. \A x : x \in ToSet(chain[b]) => x \in Linked
        BY <1>1, <1>2, <2>3 DEF Linked
    <3> QED
        BY <1>1, <1>3, <2>3, <2>7, <2>8, <2>9, <3>1
  <2>12. \A x \in Valued : BucketOf(x) = b => x = r \/ Follows(chain, r, x)
      BY <1>1, <1>2, <1>3, <2>3, <2>7, <2>8, <2>9
  <2> QED
      BY <2>3, <2>4, <2>8, <2>9, <2>10, <2>11, <2>12, Zenon
<1> QED
    BY <1>5, <1>6, Zenon

\* each().
LEMMA IterNextEach ==
    ASSUME HashCoherent, HashIterSafe, EachInvariant, HashIterNext
    PROVE  EachInvariant' /\ EachStep
<1> DEFINE fresh  == eiter = NoEntry /\ riter = NoRiter
           here   == FirstOf(Rest, Valued)
           scans  == here = NoEntry /\ keycount # placecount /\ Later # {}
           result == IF scans THEN FirstOf(chain[Min(Later)], Valued) ELSE here
           stale  == changed /\ eiter # NoEntry
           O      == IF fresh THEN Valued ELSE owed
           V      == IF fresh THEN {} ELSE visited
<1>1. PICK croaks \in {stale, FALSE} :
          /\ riter' = (IF keycount = placecount THEN NoRiter
                       ELSE IF here # NoEntry THEN riter
                       ELSE IF scans THEN Min(Later) ELSE NoRiter)
          /\ lazydel' = (lazydel /\ eiter = NoEntry)
          /\ eiter' = (IF croaks THEN eiter ELSE result)
          /\ whole' = (IF fresh THEN clearing = NoRiter ELSE whole /\ ~croaks /\ eiter # NoEntry)
          /\ visited' = V \cup IF croaks THEN {} ELSE {result} \ {NoEntry}
          /\ owed' = O \ IF croaks THEN {} ELSE {result}
          /\ ended' = (~croaks /\ result = NoEntry)
          /\ UNCHANGED <<chain, placeholder, placecount>>
    BY Zenon DEF HashIterNext, Rest, Later, chainVars
<1>2. CASE ~whole'
    BY <1>2, EachVoid
<1>3. CASE whole'
  <2>1. ~croaks /\ placecount = Cardinality(placeholder) /\ (eiter # NoEntry => ~fresh /\ EachKept)
        /\ (eiter = NoEntry => fresh)
    <3>1. CASE fresh
      <4>1. eiter = NoEntry /\ clearing = NoRiter
          BY <1>1, <1>3, <3>1
      <4> QED
          BY <3>1, <4>1, StateIs
    <3>2. CASE ~fresh
      <4>1. whole /\ ~croaks /\ eiter # NoEntry
          BY <1>1, <1>3, <3>2, Zenon
      <4>2. EachKept
          BY <4>1 DEF EachInvariant
      <4>3. placecount = Cardinality(placeholder)
          BY <4>2, Zenon DEF EachKept
      <4> QED
          BY <3>2, <4>1, <4>2, <4>3
    <3> QED
        BY <3>1, <3>2
  <2>2. /\ ~lazydel' /\ eiter' = result /\ visited' = V \cup ({result} \ {NoEntry})
        /\ owed' = O \ {result} /\ ended' = (result = NoEntry)
        /\ UNCHANGED <<chain, placeholder, placecount>>
      BY <1>1, <2>1 DEF HashIterSafe
  <2>3. /\ O \in SUBSET Valued /\ V \in SUBSET Valued /\ (eiter # NoEntry => V = visited)
        /\ \A x \in O : fresh \/ Ahead(x)
        /\ \A x \in V : ~fresh /\ ~Ahead(x)
      BY <2>1 DEF EachKept
  <2>4. /\ Valued \in SUBSET Linked /\ NoEntry \notin Valued /\ riter \in Int
        /\ \A x \in Valued : BucketOf(x) \in Nat
    <3>1. \A x \in Linked : BucketOf(x) \in Nat
        BY StateIs, HomeIs DEF BucketOf, Bucket, Home
    <3>2. Valued \in SUBSET Linked /\ NoEntry \notin Valued
        BY StateIs DEF Valued
    <3>3. riter \in Int
        BY StateIs, BoundsAre DEF Ranges
    <3> QED
        BY <3>1, <3>2, <3>3
  <2>5. PICK b \in 0..Size-1 : \E k \in 1..Len(chain[b])+1 :
            /\ Rest = SubSeq(chain[b], k, Len(chain[b]))
            /\ Onward(b, k) # {} => b = riter /\ eiter # NoEntry
            /\ eiter # NoEntry => \A x : Ahead(x) <=> BucketOf(x) > riter \/ x \in Onward(b, k)
      BY <2>1, RestIs, Zenon
  <2>6. PICK k \in 1..Len(chain[b])+1 :
            /\ Rest = SubSeq(chain[b], k, Len(chain[b]))
            /\ Onward(b, k) # {} => b = riter /\ eiter # NoEntry
            /\ eiter # NoEntry => \A x : Ahead(x) <=> BucketOf(x) > riter \/ x \in Onward(b, k)
      BY <2>5
  <2>7. \A x \in O : BucketOf(x) > riter \/ x \in Onward(b, k)
    <3>1. ASSUME NEW x \in O PROVE BucketOf(x) > riter \/ x \in Onward(b, k)
      <4>1. CASE fresh
          BY <2>3, <2>4, <4>1 DEF NoRiter
      <4>2. CASE ~fresh
          BY <2>1, <2>3, <2>6, <4>2
      <4> QED
          BY <4>1, <4>2
    <3> QED
        BY <3>1
  <2>8. \A x \in V : ~(BucketOf(x) > riter) /\ x \notin Onward(b, k)
      BY <2>1, <2>3, <2>6
  <2>9. /\ here = NoEntry => Onward(b, k) \cap Valued = {}
        /\ here # NoEntry => /\ here \in Valued /\ here \in Onward(b, k) /\ BucketOf(here) = b
                             /\ \A x \in Valued : x \in Onward(b, k) <=> x = here \/ Follows(chain, here, x)
                             /\ \A x : Follows(chain, here, x) => x \in Onward(b, k)
                             /\ ~Follows(chain, here, here)
      BY <2>4, <2>6, OnwardIs
  <2>10. keycount = placecount => Valued = {}
    <3> SUFFICES ASSUME keycount = placecount PROVE Valued = {}
        OBVIOUS
    <3>1. /\ IsFiniteSet(Linked) /\ placeholder \in SUBSET Linked /\ keycount = Cardinality(Linked)
        BY StateIs
    <3>2. Cardinality(Linked \ placeholder) = 0 /\ IsFiniteSet(Linked \ placeholder)
      <4>1. /\ Cardinality(Linked \ placeholder) = Cardinality(Linked) - Cardinality(placeholder)
            /\ Cardinality(Linked) \in Nat /\ Cardinality(placeholder) \in Nat
          BY <3>1, CountIs
      <4>2. IsFiniteSet(Linked \ placeholder)
          BY <3>1, FS_Subset
      <4>3. Cardinality(Linked) = Cardinality(placeholder)
          BY <2>1, <3>1
      <4> QED
          BY <4>1, <4>2, <4>3
    <3> QED
        BY <3>2, FS_EmptySet DEF Valued
  <2>11. \A x \in O : x \in Valued /\ BucketOf(x) \in Nat
      BY <2>3, <2>4
  <2>12. \A x \in V : x \in Valued /\ BucketOf(x) \in Nat
      BY <2>3, <2>4
  <2> HIDE DEF O, V, here, fresh
  <2>13. CASE here # NoEntry
    <3>1. /\ here \in Valued /\ here \in Onward(b, k) /\ BucketOf(here) = riter /\ ~scans
          /\ b = riter /\ eiter # NoEntry
        BY <2>6, <2>9, <2>13
    <3>2. keycount # placecount
        BY <2>10, <3>1
    <3>3. eiter' = here /\ riter' = BucketOf(here) /\ ~ended' /\ visited' = V \cup {here} /\ owed' = O \ {here}
        BY <1>1, <2>2, <2>4, <3>1, <3>2, <2>13
    <3>4. here # eiter
      <4>1. EachKept /\ here \in Linked /\ Ahead(here)
          BY <2>1, <2>4, <2>6, <3>1
      <4> QED
          BY <4>1, NotAtAhead
    <3>5. \A x \in O : BucketOf(x) > BucketOf(here) \/ x = here \/ Follows(chain, here, x)
        BY <2>7, <2>9, <2>11, <3>1
    <3>6. \A x \in V \cup {here} : ~(BucketOf(x) > BucketOf(here)) /\ ~Follows(chain, here, x)
        BY <2>4, <2>8, <2>9, <3>1
    <3>7. here \notin V
        BY <2>8, <3>1
    <3> QED
        BY <2>1, <2>2, <2>3, <3>1, <3>3, <3>4, <3>5, <3>6, <3>7, ReturnedEach
  <2>14. CASE scans
    <3>1. PICK m \in 0..Size-1 : \E r \in Valued :
              /\ m = Min(Later) /\ m > riter /\ r = FirstOf(chain[m], Valued) /\ BucketOf(r) = m
              /\ \A x \in Valued : BucketOf(x) > riter => BucketOf(x) >= m
              /\ \A x \in Valued : BucketOf(x) = m => x = r \/ Follows(chain, r, x)
              /\ \A x : Follows(chain, r, x) => BucketOf(x) = m
              /\ ~Follows(chain, r, r)
        BY <2>14, LaterIs, Zenon
    <3>2. PICK r \in Valued :
              /\ m = Min(Later) /\ m > riter /\ r = FirstOf(chain[m], Valued) /\ BucketOf(r) = m
              /\ \A x \in Valued : BucketOf(x) > riter => BucketOf(x) >= m
              /\ \A x \in Valued : BucketOf(x) = m => x = r \/ Follows(chain, r, x)
              /\ \A x : Follows(chain, r, x) => BucketOf(x) = m
              /\ ~Follows(chain, r, r)
        BY <3>1
    <3>3. m \in Int /\ r # NoEntry
        BY <2>4
    <3>4. /\ eiter' = r /\ riter' = BucketOf(r) /\ ~ended' /\ visited' = V \cup {r}
          /\ owed' = O \ {r}
        BY <1>1, <2>2, <2>14, <3>2, <3>3
    <3>5. r # eiter
      <4> SUFFICES ASSUME r = eiter PROVE FALSE
          OBVIOUS
      <4>1. EachKept /\ eiter \in Linked
          BY <2>1, <2>4, <3>3
      <4>2. BucketOf(eiter) = riter
          BY <4>1, Zenon DEF EachKept
      <4> QED
          BY <2>4, <3>2, <3>3, <4>2
    <3>6. \A x \in O : BucketOf(x) > BucketOf(r) \/ x = r \/ Follows(chain, r, x)
      <4>1. ASSUME NEW x \in O PROVE BucketOf(x) > m \/ x = r \/ Follows(chain, r, x)
        <5>1. BucketOf(x) > riter /\ x \in Valued /\ BucketOf(x) \in Nat
            BY <2>7, <2>9, <2>11, <2>14
        <5>2. BucketOf(x) >= m
            BY <3>2, <5>1
        <5> QED
            BY <3>2, <3>3, <5>1, <5>2
      <4> QED
          BY <3>2, <4>1
    <3>7. \A x \in V : BucketOf(x) < m
        BY <2>4, <2>8, <2>12, <3>2, <3>3
    <3>8. \A x \in V \cup {r} : ~(BucketOf(x) > BucketOf(r)) /\ ~Follows(chain, r, x)
      <4>1. ASSUME NEW x \in V PROVE ~(BucketOf(x) > m) /\ BucketOf(x) # m
          BY <2>12, <3>3, <3>7
      <4> QED
          BY <3>2, <3>3, <4>1
    <3>9. r \notin V
        BY <3>2, <3>3, <3>7
    <3> QED
        BY <2>1, <2>2, <2>3, <3>4, <3>5, <3>6, <3>8, <3>9, ReturnedEach
  <2>15. CASE here = NoEntry /\ ~scans
    <3>1. result = NoEntry
        BY <2>15
    <3>2. O = {}
      <4>1. CASE keycount = placecount
          BY <2>3, <2>10, <4>1
      <4>2. CASE Later = {}
          BY <2>3, <2>7, <2>9, <2>15, <4>2, LaterIs
      <4> QED
          BY <2>15, <4>1, <4>2
    <3>3. eiter' = NoEntry /\ owed' = {}
        BY <2>2, <3>1, <3>2
    <3> QED
        BY <3>3, EachVoid
  <2> QED
      BY <2>13, <2>14, <2>15
<1> QED
    BY <1>2, <1>3

\* The steps of hv_clear leave no iterator.
LEMMA ClearStepEach ==
    ASSUME EachInvariant, HashClearStep
    PROVE  EachInvariant' /\ EachStep
<1>1. eiter' = NoEntry /\ owed' \subseteq owed /\ whole' = whole /\ ended' = ended
    BY DEF HashClearStep, ClearResetsIterator
<1>2. whole' /\ ended' => owed' = {}
    BY <1>1 DEF EachInvariant
<1> QED
    BY <1>1, <1>2, EachVoid

\* Nor does its end.
LEMMA ClearEndsEach ==
    ASSUME EachInvariant, HashClearEnds
    PROVE  EachInvariant' /\ EachStep
<1>1. eiter' = NoEntry /\ owed' = owed /\ whole' = whole /\ ended' = ended
    BY DEF HashClearEnds, ClearResetsIterator, historyVars
<1>2. whole' /\ ended' => owed' = {}
    BY <1>1 DEF EachInvariant
<1> QED
    BY <1>1, <1>2, EachVoid

\* New buckets void the order of the iteration.
LEMMA KsplitEach ==
    ASSUME HashKsplit
    PROVE  EachInvariant' /\ EachStep
<1>1. ~whole'
    BY DEF HashKsplit
<1> QED
    BY <1>1, EachVoid

\* So does hv_study.
LEMMA StudyEach ==
    ASSUME HashStudy
    PROVE  EachInvariant' /\ EachStep
<1>1. ~whole'
    BY Zenon DEF HashStudy
<1> QED
    BY <1>1, EachVoid

\* keys() and values() end the iteration.
LEMMA IterInitEach ==
    ASSUME HashIterInit
    PROVE  EachInvariant' /\ EachStep
<1>1. eiter' = NoEntry /\ owed' = {}
    BY DEF HashIterInit
<1> QED
    BY <1>1, EachVoid

\* Every step keeps the invariant and the order.
LEMMA StepEach ==
    ASSUME HashCoherent, HashIterSafe, EachInvariant, Holes = {}, [HashNext]_HashVars
    PROVE  EachInvariant' /\ EachStep
<1>1. ASSUME NEW k \in Keys, HashFind(k) PROVE EachInvariant' /\ EachStep
    BY <1>1, FindEach
<1>2. ASSUME NEW k \in Keys, HashRefill(k) PROVE EachInvariant' /\ EachStep
    BY <1>2, RefillEach
<1>3. ASSUME NEW k \in Keys, HashDelete(k) PROVE EachInvariant' /\ EachStep
    BY <1>3, DeleteEach
<1>4. ASSUME NEW k \in Keys, HashDeleteRestricted(k) PROVE EachInvariant' /\ EachStep
    BY <1>4, DeleteRestrictedEach
<1>5. ASSUME NEW k \in Keys, NEW i \in Cells, HashInsert(<<k, i>>) PROVE EachInvariant' /\ EachStep
  <2>1. <<k, i>> \in Entries
      BY DEF Entries
  <2> QED
      BY <1>5, <2>1, InsertEach, Zenon
<1>6. ASSUME NEW k \in ReadOnly, HashFreeze(k) PROVE EachInvariant' /\ EachStep
  <2>1. UNCHANGED <<chain, placeholder, placecount, iterVars, historyVars>>
      BY <1>6 DEF HashFreeze
  <2> QED
      BY <2>1, QuietEach
<1>7. CASE HashClearPlaceholders
    BY <1>7, ClearPlaceholdersEach
<1>8. CASE HashRestrict
  <2>1. UNCHANGED <<chain, placeholder, placecount, iterVars, historyVars>>
      BY <1>8 DEF HashRestrict, chainVars
  <2> QED
      BY <2>1, QuietEach
<1>9. CASE HashEmptyRestricted
    BY <1>9, EmptyRestrictedEach
<1>10. CASE HashClearBegins
  <2>1. UNCHANGED <<chain, placeholder, placecount, iterVars, historyVars>>
      BY <1>10 DEF HashClearBegins, chainVars
  <2> QED
      BY <2>1, QuietEach
<1>11. CASE HashClearStep
    BY <1>11, ClearStepEach
<1>12. CASE HashClearEnds
    BY <1>12, ClearEndsEach
<1>13. CASE HashKsplit
    BY <1>13, KsplitEach
<1>14. CASE HashStudy
    BY <1>14, StudyEach
<1>15. CASE HashIterInit
    BY <1>15, IterInitEach
<1>16. CASE HashIterNext
    BY <1>16, IterNextEach
<1>17. CASE UNCHANGED HashVars
  <2>1. UNCHANGED <<chain, placeholder, placecount, iterVars, historyVars>>
      BY <1>17 DEF HashVars, chainVars
  <2> QED
      BY <2>1, QuietEach
<1> QED
    BY <1>1, <1>2, <1>3, <1>4, <1>5, <1>6, <1>7, <1>8, <1>9, <1>10, <1>11, <1>12, <1>13, <1>14,
       <1>15, <1>16, <1>17, Zenon DEF HashNext

\* hv_iternext_flags: each() returns no entry twice, and ends only when every
\* entry that had a value all the time was returned - in any hash, of any size,
\* whose program keeps clear of the three holes, whatever it deletes and inserts
\* while it iterates.
THEOREM HashEachOnceHolds == Holes = {} => (HashSpec => HashEachOnce)
<1> SUFFICES ASSUME Holes = {} PROVE HashSpec => HashEachOnce
    OBVIOUS
<1>1. HashInit => HashCoherent /\ HashIterSafe /\ EachInvariant
  <2>1. HashInit => EachInvariant
      BY DEF HashInit, EachInvariant
  <2> QED
      BY <2>1, StartIs
<1>2. HashCoherent /\ HashIterSafe /\ EachInvariant /\ [HashNext]_HashVars
      => HashCoherent' /\ HashIterSafe' /\ EachInvariant'
    BY StepKeeps, StepEach
<1>3. HashCoherent /\ HashIterSafe /\ EachInvariant /\ [HashNext]_HashVars
      => [whole /\ whole' =>
             /\ eiter' \notin {eiter, NoEntry} /\ eiter # NoEntry => eiter' \notin visited
             /\ ended' => owed' = {}]_HashVars
    BY StepEach DEF EachStep
<1> QED
    BY <1>1, <1>2, <1>3, PTL DEF HashSpec, HashEachOnce

=============================================================================
