-------------------------- MODULE MethodCacheProofs --------------------------
(***************************************************************************)
(* For any packages, @ISA lists and subs, in any order of assignments, calls *)
(* and destructions, recursive inheritance included: for the classes whose  *)
(* last @ISA assignment, and those of the classes above them, went through,  *)
(* the cached linearization is that of the lists of this moment             *)
(* (LinearCurrent), PL_isarev knows every heir (HeirsKnown), and a method    *)
(* call finds what it would find without any cache (MethodFound).           *)
(***************************************************************************)
EXTENDS MethodCache, WellFoundedInduction, FiniteSetTheorems, TLAPS

-----------------------------------------------------------------------------
(* Induction over the naturals, for sets: the theorems of the library take  *)
(* an operator.                                                             *)

Smaller == {ss \in Nat \X Nat : ss[1] < ss[2]}

\* A set of naturals with an element has a least one.
LEMMA LeastIs ==
    ASSUME NEW S \in SUBSET Nat, S # {}
    PROVE  \E n \in S : \A m \in S : n <= m
<1>1. IsWellFoundedOn(Smaller, Nat)
    BY NatLessThanWellFounded, Zenon DEF OpToRel, Smaller
<1>2. PICK n \in S : \A m \in S : ~(<<m, n>> \in Smaller)
    BY <1>1, WFMin, Zenon
<1> SUFFICES ASSUME NEW m \in S PROVE n <= m
    BY <1>2
<1>3. m \in Nat /\ n \in Nat /\ ~(<<m, n>> \in Smaller)
    BY <1>2
<1>4. ~(m < n)
    BY <1>3 DEF Smaller
<1> QED
    BY <1>3, <1>4

\* A set that holds 0 and every number's successor has all numbers.
LEMMA AllNumbers ==
    ASSUME NEW S, 0 \in S, \A n \in Nat : n \in S => n + 1 \in S
    PROVE  \A n \in Nat : n \in S
<1> DEFINE T == Nat \ S
<1>1. SUFFICES ASSUME T # {} PROVE FALSE
    OBVIOUS
<1>2. PICK n \in T : \A m \in T : n <= m
  <2> HIDE DEF T
  <2>1. T \in SUBSET Nat
      BY DEF T
  <2> QED
      BY <1>1, <2>1, LeastIs, Zenon
<1>3. n \in Nat /\ n # 0 /\ n \notin S
    OBVIOUS
<1>4. n - 1 \in Nat /\ ~(n <= n - 1) /\ (n - 1) + 1 = n
    BY <1>3
<1>5. n - 1 \in S
    BY <1>2, <1>4, Zenon
<1> QED
    BY <1>3, <1>4, <1>5, Zenon

\* A set of numbers below a bound has a largest one.
LEMMA LargestIs ==
    ASSUME NEW n \in Nat, NEW S \in SUBSET (1..n), S # {}
    PROVE  Max(S) \in S /\ \A m \in S : m <= Max(S)
<1> DEFINE T == {n - m : m \in S}
<1>0. \A m \in S : n - m \in Nat
    OBVIOUS
<1>1. T \in SUBSET Nat /\ T # {}
    BY <1>0, Zenon
<1>2. PICK d \in T : \A e \in T : d <= e
  <2> HIDE DEF T
  <2> QED
      BY <1>1, LeastIs, Zenon
<1>3. PICK m \in S : d = n - m
    OBVIOUS
<1>4. \A l \in S : l <= m
  <2> SUFFICES ASSUME NEW l \in S PROVE l <= m
      OBVIOUS
  <2>1. n - m <= n - l /\ l \in 1..n /\ m \in 1..n
      BY <1>2, <1>3
  <2> QED
      BY <2>1
<1> QED
    BY <1>4 DEF Max

LEMMA UpTo ==
    ASSUME NEW n \in Nat
    PROVE  IsFiniteSet(1..n) /\ Cardinality(1..n) = n
<1>1. 1 \in Int /\ n \in Int
    OBVIOUS
<1>2. IsFiniteSet(1..n) /\ Cardinality(1..n) = IF 1 > n THEN 0 ELSE n-1+1
    BY <1>1, FS_Interval, Zenon
<1> QED
    BY <1>2

-----------------------------------------------------------------------------
(* Folds: F folded over the first k elements of seq *)

\* The function that FoldLeft computes on the sets of a sequence's indices
\* exists: it is built for the sets of at most k elements, one more at a time.
IsFold(g, D, base, F, seq) ==
    \A s \in D : g[s] = IF s = {} THEN base ELSE F[<<g[s \ {Max(s)}], seq[Max(s)]>>]

LEMMA FoldExists ==
    ASSUME NEW T, NEW E, NEW base \in T, NEW F \in [T \X E -> T], NEW seq \in Seq(E)
    PROVE  \E g \in [SUBSET DOMAIN seq -> T] : IsFold(g, SUBSET DOMAIN seq, base, F, seq)
<1> DEFINE Few(k) == {s \in SUBSET DOMAIN seq : Cardinality(s) <= k}
           S == {k \in Nat : \E g \in [Few(k) -> T] : IsFold(g, Few(k), base, F, seq)}
<1>1. DOMAIN seq = 1..Len(seq) /\ Len(seq) \in Nat
    OBVIOUS
<1>2. \A s \in SUBSET DOMAIN seq : IsFiniteSet(s) /\ Cardinality(s) \in Nat
    BY <1>1, UpTo, FS_Subset, FS_CardinalityType
<1>3. \A s \in SUBSET DOMAIN seq : s # {} =>
          /\ Max(s) \in s /\ seq[Max(s)] \in E
          /\ Cardinality(s \ {Max(s)}) = Cardinality(s) - 1
  <2> SUFFICES ASSUME NEW s \in SUBSET DOMAIN seq, s # {}
               PROVE  /\ Max(s) \in s /\ seq[Max(s)] \in E
                      /\ Cardinality(s \ {Max(s)}) = Cardinality(s) - 1
      OBVIOUS
  <2>1. Max(s) \in s
      BY <1>1, LargestIs
  <2> QED
      BY <2>1, <1>1, <1>2, FS_RemoveElement
<1>4. 0 \in S
  <2> DEFINE g == [s \in Few(0) |-> base]
  <2>1. \A s \in Few(0) : s = {}
      BY <1>2, FS_EmptySet
  <2>2. g \in [Few(0) -> T] /\ IsFold(g, Few(0), base, F, seq)
      BY <2>1 DEF IsFold
  <2> QED
      BY <2>2
<1>5. ASSUME NEW k \in Nat, k \in S PROVE k + 1 \in S
  <2>1. PICK g \in [Few(k) -> T] : IsFold(g, Few(k), base, F, seq)
      BY <1>5
  <2> DEFINE h == [s \in Few(k + 1) |-> IF s \in Few(k) THEN g[s]
                                        ELSE F[<<g[s \ {Max(s)}], seq[Max(s)]>>]]
  <2>2. ASSUME NEW s \in Few(k + 1), s # {}
        PROVE  s \ {Max(s)} \in Few(k) /\ Max(s) \in s /\ seq[Max(s)] \in E
    <3>1. s \in SUBSET DOMAIN seq /\ Cardinality(s) <= k + 1 /\ Cardinality(s) \in Nat
        BY <1>2
    <3>2. /\ Max(s) \in s /\ seq[Max(s)] \in E
          /\ Cardinality(s \ {Max(s)}) = Cardinality(s) - 1
        BY <3>1, <2>2, <1>3, Zenon
    <3> QED
        BY <3>1, <3>2
  <2>3. {} \in Few(k) /\ {} \in Few(k + 1)
      BY FS_EmptySet
  <2>4. Few(k) \subseteq Few(k + 1)
      BY <1>2
  <2>5. h \in [Few(k + 1) -> T]
    <3> HIDE DEF Few
    <3> SUFFICES ASSUME NEW s \in Few(k + 1) PROVE h[s] \in T
        OBVIOUS
    <3> QED
        BY <2>2, <2>3
  <2>6. IsFold(h, Few(k + 1), base, F, seq)
    <3> HIDE DEF Few
    <3> SUFFICES ASSUME NEW s \in Few(k + 1)
                 PROVE  h[s] = IF s = {} THEN base ELSE F[<<h[s \ {Max(s)}], seq[Max(s)]>>]
        BY DEF IsFold
    <3>1. CASE s = {}
        BY <3>1, <2>1, <2>3 DEF IsFold
    <3>2. CASE s # {} /\ s \in Few(k)
        BY <3>2, <2>1, <2>2, <2>4 DEF IsFold
    <3>3. CASE s # {} /\ s \notin Few(k)
        BY <3>3, <2>2, <2>4
    <3> QED
        BY <3>1, <3>2, <3>3
  <2>7. k + 1 \in Nat
      OBVIOUS
  <2> HIDE DEF h, Few
  <2> QED
      BY <2>5, <2>6, <2>7
<1>6. \A k \in Nat : k \in S
  <2> HIDE DEF S
  <2> QED
      BY <1>4, <1>5, AllNumbers
<1>7. Len(seq) \in S
    BY <1>1, <1>6
<1>8. Few(Len(seq)) = SUBSET DOMAIN seq
  <2> SUFFICES ASSUME NEW s \in SUBSET DOMAIN seq PROVE Cardinality(s) <= Len(seq)
      OBVIOUS
  <2>1. Cardinality(1..Len(seq)) = Len(seq) /\ IsFiniteSet(1..Len(seq))
      BY <1>1, UpTo
  <2> QED
      BY <2>1, <1>1, FS_Subset
<1> QED
    BY <1>7, <1>8

\* The sets that a fold over a sequence of n elements goes through.
LEMMA PrefixIs ==
    ASSUME NEW n \in Nat, NEW k \in 1..n
    PROVE  /\ 1..k \in SUBSET (1..n) /\ 1..k # {} /\ Max(1..k) = k
           /\ (1..k) \ {k} = 1..(k-1)
<1>0. k \in Nat /\ k <= n /\ 1 <= k
    OBVIOUS
<1>1. 1..k \in SUBSET (1..n) /\ 1..k # {} /\ k \in 1..k /\ k \in Nat
  <2>1. k \in 1..k
      BY <1>0
  <2>2. \A j \in 1..k : j \in 1..n
      BY <1>0
  <2> QED
      BY <1>0, <2>1, <2>2
<1>2. Max(1..k) \in 1..k /\ \A m \in 1..k : m <= Max(1..k)
    BY <1>1, LargestIs
<1>3. Max(1..k) = k
    BY <1>1, <1>2
<1> QED
    BY <1>1, <1>3

\* What a fold passes: h[k] is what it has made of the first k elements.
AddOne(r, d) == IF d \in ToSet(r) THEN r ELSE Append(r, d)
Merges(h, s, t) == /\ h \in [0..Len(t) -> Seq(Classes)]
                   /\ h[0] = s
                   /\ \A k \in 1..Len(t) : h[k] = AddOne(h[k-1], t[k])
                   /\ Merge(s, t) = h[Len(t)]

LEMMA AddOneType ==
    ASSUME NEW r \in Seq(Classes), NEW d \in Classes
    PROVE  /\ AddOne(r, d) \in Seq(Classes)
           /\ ToSet(AddOne(r, d)) = ToSet(r) \cup {d}
           /\ r # <<>> => AddOne(r, d) # <<>> /\ AddOne(r, d)[1] = r[1]
<1>1. CASE d \in ToSet(r)
    BY <1>1 DEF AddOne
<1>2. CASE d \notin ToSet(r)
  <2>1. /\ AddOne(r, d) = Append(r, d) /\ Append(r, d) \in Seq(Classes)
        /\ DOMAIN Append(r, d) = DOMAIN r \cup {Len(r) + 1} /\ Len(r) \in Nat
        /\ DOMAIN r = 1..Len(r)
        /\ \A j \in 1..Len(r) : Append(r, d)[j] = r[j]
        /\ Append(r, d)[Len(r) + 1] = d
      BY <1>2 DEF AddOne
  <2>2. ToSet(Append(r, d)) = ToSet(r) \cup {d}
      BY <2>1 DEF ToSet
  <2>3. r # <<>> => 1 \in 1..Len(r)
      OBVIOUS
  <2> QED
      BY <2>1, <2>2, <2>3
<1> QED
    BY <1>1, <1>2

LEMMA MergePasses ==
    ASSUME NEW s \in Seq(Classes), NEW t \in Seq(Classes)
    PROVE  \E h : Merges(h, s, t)
<1> DEFINE F == [p \in Seq(Classes) \X Classes |-> AddOne(p[1], p[2])]
           D == SUBSET DOMAIN t
           n == Len(t)
<1>1. DOMAIN t = 1..n /\ n \in Nat
    OBVIOUS
<1>2. F \in [Seq(Classes) \X Classes -> Seq(Classes)]
    BY AddOneType
<1>3. PICK g \in [D -> Seq(Classes)] : IsFold(g, D, s, F, t)
  <2> HIDE DEF F
  <2> QED
      BY <1>2, FoldExists
<1>4. \A x \in D : x # {} => Max(x) \in DOMAIN t /\ t[Max(x)] \in Classes /\ x \ {Max(x)} \in D
  <2> SUFFICES ASSUME NEW x \in SUBSET (1..n), x # {}
               PROVE  Max(x) \in 1..n /\ t[Max(x)] \in Classes /\ x \ {Max(x)} \in SUBSET (1..n)
      BY <1>1
  <2>1. Max(x) \in x
      BY <1>1, LargestIs
  <2>2. \A j \in 1..n : t[j] \in Classes
      BY <1>1
  <2>3. Max(x) \in 1..n /\ x \ {Max(x)} \in SUBSET (1..n)
      BY <2>1
  <2> QED
      BY <2>2, <2>3, Zenon
<1>5. g = [x \in D |-> IF x = {} THEN s ELSE AddOne(g[x \ {Max(x)}], t[Max(x)])]
  <2> HIDE DEF D
  <2>1. ASSUME NEW x \in D
        PROVE  g[x] = IF x = {} THEN s ELSE AddOne(g[x \ {Max(x)}], t[Max(x)])
      BY <1>3, <1>4 DEF IsFold
  <2> QED
      BY <2>1
<1>6. Merge(s, t) = (CHOOSE it : it = [x \in D |-> IF x = {} THEN s
                                   ELSE AddOne(it[x \ {Max(x)}], t[Max(x)])])[DOMAIN t]
    BY Zenon DEF Merge, FoldLeft, MapThenFoldSet, AddOne
<1>7. PICK it : /\ it = [x \in D |-> IF x = {} THEN s
                                   ELSE AddOne(it[x \ {Max(x)}], t[Max(x)])]
                /\ Merge(s, t) = it[DOMAIN t]
  <2> HIDE DEF D
  <2> QED
      BY <1>5, <1>6, Zenon
<1> DEFINE h == [k \in 0..n |-> it[1..k]]
<1>8. h[0] = s /\ Merge(s, t) = h[n]
  <2>1. {} \in D /\ 1..0 = {} /\ 0 \in 0..n /\ n \in 0..n
      BY <1>1
  <2>2. it[{}] = s
      BY <1>7, <2>1
  <2> QED
      BY <1>1, <1>7, <2>1, <2>2
<1>9. ASSUME NEW k \in 1..n PROVE h[k] = AddOne(h[k-1], t[k])
  <2>1. 1..k \in D /\ 1..k # {} /\ Max(1..k) = k /\ (1..k) \ {k} = 1..(k-1)
      BY <1>1, PrefixIs
  <2>2. k \in 0..n /\ k-1 \in 0..n
      BY <1>1
  <2>3. it[1..k] = AddOne(it[(1..k) \ {Max(1..k)}], t[Max(1..k)])
    <3> HIDE DEF D
    <3> QED
        BY <1>7, <2>1
  <2> QED
      BY <2>1, <2>2, <2>3
<1>10. \A k \in Nat : k \in {l \in Nat : l <= n => h[l] \in Seq(Classes)}
  <2> DEFINE S == {l \in Nat : l <= n => h[l] \in Seq(Classes)}
  <2>1. 0 \in S
      BY <1>8
  <2>2. ASSUME NEW k \in Nat, k \in S PROVE k + 1 \in S
    <3> HIDE DEF h
    <3>1. SUFFICES ASSUME k + 1 <= n PROVE h[k + 1] \in Seq(Classes)
        OBVIOUS
    <3>2. h[k] \in Seq(Classes) /\ k + 1 \in 1..n /\ (k + 1) - 1 = k /\ t[k + 1] \in Classes
        BY <3>1, <1>1, <2>2
    <3>3. h[k + 1] = AddOne(h[k], t[k + 1])
        BY <1>9, <3>2
    <3> QED
        BY <3>2, <3>3, AddOneType
  <2> HIDE DEF S
  <2>3. \A k \in Nat : k \in S
      BY <2>1, <2>2, AllNumbers
  <2> QED
      BY <2>3 DEF S
<1>11. h \in [0..n -> Seq(Classes)]
  <2> SUFFICES ASSUME NEW k \in 0..n PROVE it[1..k] \in Seq(Classes)
      OBVIOUS
  <2>1. k \in Nat /\ k <= n
      BY <1>1
  <2> QED
      BY <1>10, <2>1
<1> QED
  <2> HIDE DEF h
  <2> QED
      BY <1>8, <1>9, <1>11 DEF Merges

\* Merging adds the new members and keeps the first.
LEMMA MergeIs ==
    ASSUME NEW s \in Seq(Classes), NEW t \in Seq(Classes)
    PROVE  /\ Merge(s, t) \in Seq(Classes)
           /\ ToSet(Merge(s, t)) = ToSet(s) \cup ToSet(t)
           /\ s # <<>> => Merge(s, t) # <<>> /\ Merge(s, t)[1] = s[1]
<1>1. PICK h : Merges(h, s, t)
    BY MergePasses
<1> DEFINE n == Len(t)
           S == {k \in Nat : k <= n =>
                    /\ ToSet(h[k]) = ToSet(s) \cup {t[j] : j \in 1..k}
                    /\ s # <<>> => h[k] # <<>> /\ h[k][1] = s[1]}
<1>2. n \in Nat /\ h[0] = s /\ h \in [0..n -> Seq(Classes)]
    BY <1>1 DEF Merges
<1>3. 0 \in S
    BY <1>2
<1>4. ASSUME NEW k \in Nat, k \in S PROVE k + 1 \in S
  <2>1. SUFFICES ASSUME k + 1 <= n
                 PROVE  /\ ToSet(h[k+1]) = ToSet(s) \cup {t[j] : j \in 1..(k+1)}
                        /\ s # <<>> => h[k+1] # <<>> /\ h[k+1][1] = s[1]
      OBVIOUS
  <2>2. k + 1 \in 1..n /\ (k + 1) - 1 = k /\ t[k+1] \in Classes /\ k \in 0..n
      BY <1>2, <2>1
  <2>3. h[k+1] = AddOne(h[k], t[k+1]) /\ h[k] \in Seq(Classes)
      BY <1>1, <1>2, <2>2 DEF Merges
  <2>4. {t[j] : j \in 1..(k+1)} = {t[j] : j \in 1..k} \cup {t[k+1]}
    <3>1. 1..(k+1) = (1..k) \cup {k+1}
        OBVIOUS
    <3> QED
        BY <3>1
  <2>5. /\ ToSet(h[k]) = ToSet(s) \cup {t[j] : j \in 1..k}
        /\ s # <<>> => h[k] # <<>> /\ h[k][1] = s[1]
      BY <1>4, <2>1
  <2>6. /\ ToSet(h[k+1]) = ToSet(h[k]) \cup {t[k+1]}
        /\ h[k] # <<>> => h[k+1] # <<>> /\ h[k+1][1] = h[k][1]
      BY <2>2, <2>3, AddOneType
  <2> HIDE DEF n
  <2> QED
      BY <2>4, <2>5, <2>6
<1>5. n \in S
  <2> HIDE DEF S
  <2>1. \A k \in Nat : k \in S
      BY <1>3, <1>4, AllNumbers
  <2> QED
      BY <1>2, <2>1
<1>6. ToSet(t) = {t[j] : j \in 1..n}
    BY DEF ToSet
<1>7. n \in 0..n /\ n <= n
    BY <1>2
<1>8. Merge(s, t) = h[n]
    BY <1>1 DEF Merges
<1> HIDE DEF n
<1> QED
    BY <1>2, <1>5, <1>6, <1>7, <1>8

-----------------------------------------------------------------------------
(* Linearizations: d before the lists of its parents q, one merged after the *)
(* other.                                                                  *)

Gather(q, lists) == FoldLeft(LAMBDA s, e : Merge(s, lists[e]), <<>>, q)
Join(d, q, lists) == <<d>> \o Gather(q, lists)

Orders == [Classes -> Seq(Classes)]

Gathers(h, q, lists) == /\ h \in [0..Len(q) -> Seq(Classes)]
                        /\ h[0] = <<>>
                        /\ \A k \in 1..Len(q) : h[k] = Merge(h[k-1], lists[q[k]])
                        /\ Gather(q, lists) = h[Len(q)]

\* The indices that a fold over q looks at.
LEMMA FoldIndex ==
    ASSUME NEW q \in Seq(Classes), NEW x \in SUBSET DOMAIN q, x # {}
    PROVE  /\ Max(x) \in DOMAIN q /\ q[Max(x)] \in Classes
           /\ x \ {Max(x)} \in SUBSET DOMAIN q
<1>1. DOMAIN q = 1..Len(q) /\ Len(q) \in Nat /\ \A j \in 1..Len(q) : q[j] \in Classes
    OBVIOUS
<1>2. x \in SUBSET (1..Len(q))
    BY <1>1
<1>3. Max(x) \in x
    BY <1>1, <1>2, LargestIs
<1> QED
    BY <1>1, <1>3

LEMMA GatherPasses ==
    ASSUME NEW q \in Seq(Classes), NEW lists \in Orders
    PROVE  \E h : Gathers(h, q, lists)
<1> DEFINE F == [p \in Seq(Classes) \X Classes |-> Merge(p[1], lists[p[2]])]
           D == SUBSET DOMAIN q
           n == Len(q)
<1>0. /\ <<>> \in Seq(Classes)
      /\ \A e \in Classes : lists[e] \in Seq(Classes)
    BY DEF Orders
<1>1. DOMAIN q = 1..n /\ n \in Nat /\ \A j \in 1..n : q[j] \in Classes
    OBVIOUS
<1>2. F \in [Seq(Classes) \X Classes -> Seq(Classes)]
    BY <1>0, MergeIs
<1>3. PICK g \in [D -> Seq(Classes)] : IsFold(g, D, <<>>, F, q)
  <2> HIDE DEF F
  <2> QED
      BY <1>0, <1>2, FoldExists
<1>4. \A x \in D : x # {} => Max(x) \in DOMAIN q /\ q[Max(x)] \in Classes /\ x \ {Max(x)} \in D
    BY FoldIndex
<1>5. g = [x \in D |-> IF x = {} THEN <<>> ELSE Merge(g[x \ {Max(x)}], lists[q[Max(x)]])]
  <2> HIDE DEF D
  <2>1. ASSUME NEW x \in D
        PROVE  g[x] = IF x = {} THEN <<>> ELSE Merge(g[x \ {Max(x)}], lists[q[Max(x)]])
      BY <1>3, <1>4 DEF IsFold
  <2> QED
      BY <2>1
<1>6. Gather(q, lists) = (CHOOSE it : it = [x \in D |-> IF x = {} THEN <<>>
                                   ELSE Merge(it[x \ {Max(x)}], lists[q[Max(x)]])])[DOMAIN q]
    BY Zenon DEF Gather, FoldLeft, MapThenFoldSet
<1>7. PICK it : /\ it = [x \in D |-> IF x = {} THEN <<>>
                                   ELSE Merge(it[x \ {Max(x)}], lists[q[Max(x)]])]
                /\ Gather(q, lists) = it[DOMAIN q]
  <2> HIDE DEF D
  <2> QED
      BY <1>5, <1>6, Zenon
<1> DEFINE h == [k \in 0..n |-> it[1..k]]
<1>8. h[0] = <<>> /\ Gather(q, lists) = h[n]
  <2>1. {} \in D /\ 1..0 = {} /\ 0 \in 0..n /\ n \in 0..n
      BY <1>1
  <2>2. it[{}] = <<>>
      BY <1>7, <2>1
  <2> QED
      BY <1>1, <1>7, <2>1, <2>2
<1>9. ASSUME NEW k \in 1..n PROVE h[k] = Merge(h[k-1], lists[q[k]])
  <2>1. 1..k \in D /\ 1..k # {} /\ Max(1..k) = k /\ (1..k) \ {k} = 1..(k-1)
      BY <1>1, PrefixIs
  <2>2. k \in 0..n /\ k-1 \in 0..n
      BY <1>1
  <2>3. it[1..k] = Merge(it[(1..k) \ {Max(1..k)}], lists[q[Max(1..k)]])
    <3> HIDE DEF D
    <3> QED
        BY <1>7, <2>1
  <2> QED
      BY <2>1, <2>2, <2>3
<1>10. \A k \in Nat : k \in {l \in Nat : l <= n => h[l] \in Seq(Classes)}
  <2> DEFINE S == {l \in Nat : l <= n => h[l] \in Seq(Classes)}
  <2>1. 0 \in S
      BY <1>0, <1>8
  <2>2. ASSUME NEW k \in Nat, k \in S PROVE k + 1 \in S
    <3> HIDE DEF h
    <3>1. SUFFICES ASSUME k + 1 <= n PROVE h[k + 1] \in Seq(Classes)
        OBVIOUS
    <3>2. h[k] \in Seq(Classes) /\ k + 1 \in 1..n /\ (k + 1) - 1 = k /\ q[k + 1] \in Classes
        BY <3>1, <1>1, <2>2
    <3>3. h[k + 1] = Merge(h[k], lists[q[k + 1]])
        BY <1>9, <3>2
    <3> QED
        BY <3>2, <3>3, <1>0, MergeIs
  <2> HIDE DEF S
  <2>3. \A k \in Nat : k \in S
      BY <2>1, <2>2, AllNumbers
  <2> QED
      BY <2>3 DEF S
<1>11. h \in [0..n -> Seq(Classes)]
  <2> SUFFICES ASSUME NEW k \in 0..n PROVE it[1..k] \in Seq(Classes)
      OBVIOUS
  <2>1. k \in Nat /\ k <= n
      BY <1>1
  <2> QED
      BY <1>10, <2>1
<1> QED
  <2> HIDE DEF h
  <2> QED
      BY <1>8, <1>9, <1>11 DEF Gathers

\* What is gathered has the members of the lists it is gathered from.
LEMMA GatherIs ==
    ASSUME NEW q \in Seq(Classes), NEW lists \in Orders
    PROVE  /\ Gather(q, lists) \in Seq(Classes)
           /\ ToSet(Gather(q, lists)) = UNION {ToSet(lists[e]) : e \in ToSet(q)}
<1>1. PICK h : Gathers(h, q, lists)
    BY GatherPasses
<1> DEFINE n == Len(q)
           S == {k \in Nat : k <= n =>
                    ToSet(h[k]) = UNION {ToSet(lists[q[j]]) : j \in 1..k}}
<1>2. n \in Nat /\ h[0] = <<>> /\ h \in [0..n -> Seq(Classes)]
    BY <1>1 DEF Gathers
<1>3. 0 \in S
  <2>1. ToSet(<<>>) = {}
      BY DEF ToSet
  <2>2. {ToSet(lists[q[j]]) : j \in 1..0} = {}
      OBVIOUS
  <2> HIDE DEF n
  <2> QED
      BY <1>2, <2>1, <2>2
<1>4. ASSUME NEW k \in Nat, k \in S PROVE k + 1 \in S
  <2>1. SUFFICES ASSUME k + 1 <= n
                 PROVE  ToSet(h[k+1]) = UNION {ToSet(lists[q[j]]) : j \in 1..(k+1)}
      OBVIOUS
  <2>2. k + 1 \in 1..n /\ (k + 1) - 1 = k /\ q[k+1] \in Classes /\ k \in 0..n
      BY <1>2, <2>1
  <2>3. h[k+1] = Merge(h[k], lists[q[k+1]]) /\ h[k] \in Seq(Classes) /\ lists[q[k+1]] \in Seq(Classes)
      BY <1>1, <1>2, <2>2 DEF Gathers, Orders
  <2>4. {ToSet(lists[q[j]]) : j \in 1..(k+1)}
            = {ToSet(lists[q[j]]) : j \in 1..k} \cup {ToSet(lists[q[k+1]])}
    <3>1. 1..(k+1) = (1..k) \cup {k+1}
        OBVIOUS
    <3> QED
        BY <3>1
  <2>5. ToSet(h[k]) = UNION {ToSet(lists[q[j]]) : j \in 1..k}
      BY <1>4, <2>1
  <2>6. ToSet(h[k+1]) = ToSet(h[k]) \cup ToSet(lists[q[k+1]])
      BY <2>3, MergeIs
  <2> HIDE DEF n
  <2> QED
      BY <2>4, <2>5, <2>6
<1>5. n \in S
  <2> HIDE DEF S
  <2>1. \A k \in Nat : k \in S
      BY <1>3, <1>4, AllNumbers
  <2> QED
      BY <1>2, <2>1
<1>6. ToSet(q) = {q[j] : j \in 1..n}
    BY DEF ToSet
<1>7. n \in 0..n /\ n <= n
    BY <1>2
<1>8. Gather(q, lists) = h[n]
    BY <1>1 DEF Gathers
<1>9. {ToSet(lists[e]) : e \in ToSet(q)} = {ToSet(lists[q[j]]) : j \in 1..n}
    BY <1>6
<1> HIDE DEF n
<1> QED
    BY <1>2, <1>5, <1>7, <1>8, <1>9

\* The members of a list are its first and those of the rest.
LEMMA HeadAndTail ==
    ASSUME NEW s \in Seq(Classes), s # <<>>
    PROVE  ToSet(s) = {s[1]} \cup ToSet(Tail(s))
<1>0. Tail(s) \in Seq(Classes)
    OBVIOUS
<1>1. PICK t \in Seq(Classes) : t = Tail(s)
    BY <1>0, Zenon
<1>2. Len(s) \in Nat /\ Len(s) >= 1 /\ Len(t) = Len(s) - 1 /\ \A j \in 1..Len(t) : t[j] = s[j+1]
    BY <1>1
<1>3. DOMAIN s = 1..Len(s) /\ DOMAIN t = 1..Len(t)
    OBVIOUS
<1>4. ASSUME NEW x \in ToSet(s) PROVE x = s[1] \/ x \in ToSet(t)
  <2>1. PICK j \in 1..Len(s) : x = s[j]
      BY <1>3 DEF ToSet
  <2>2. CASE j # 1
    <3>1. j - 1 \in 1..Len(t) /\ (j - 1) + 1 = j
        BY <1>2, <2>2
    <3>2. t[j-1] = s[j]
        BY <1>2, <3>1
    <3> QED
        BY <1>3, <2>1, <3>1, <3>2 DEF ToSet
  <2> QED
      BY <2>1, <2>2
<1>5. ASSUME NEW x \in ToSet(t) PROVE x \in ToSet(s)
  <2>1. PICK j \in 1..Len(t) : x = t[j]
      BY <1>3 DEF ToSet
  <2>2. j + 1 \in 1..Len(s) /\ x = s[j+1]
      BY <1>2, <2>1
  <2> QED
      BY <1>3, <2>2 DEF ToSet
<1>6. s[1] \in ToSet(s)
    BY <1>2, <1>3 DEF ToSet
<1> QED
    BY <1>1, <1>4, <1>5, <1>6

\* A list begins with its class, and has the members of the lists it is made of.
LEMMA JoinIs ==
    ASSUME NEW d \in Classes, NEW q \in Seq(Classes), NEW lists \in Orders
    PROVE  /\ Join(d, q, lists) \in Seq(Classes) \ {<<>>}
           /\ ToSet(Join(d, q, lists)) = {d} \cup UNION {ToSet(lists[e]) : e \in ToSet(q)}
           /\ Join(d, q, lists)[1] = d
<1>1. PICK g \in Seq(Classes) : /\ g = Gather(q, lists)
                               /\ ToSet(g) = UNION {ToSet(lists[e]) : e \in ToSet(q)}
    BY GatherIs, Zenon
<1>2. /\ <<d>> \o g \in Seq(Classes) /\ <<d>> \o g # <<>> /\ (<<d>> \o g)[1] = d
      /\ Tail(<<d>> \o g) = g
    OBVIOUS
<1>3. ToSet(<<d>> \o g) = {d} \cup ToSet(g)
    BY HeadAndTail, <1>2, Zenon
<1> QED
    BY <1>1, <1>2, <1>3 DEF Join

\* A list of d: it has d first.
Starts(list, d) == list \in Seq(Classes) /\ list # <<>> /\ list[1] = d

LEMMA TailHas ==
    ASSUME NEW list, NEW d, NEW s, Starts(list, d), s \in ToSet(list), s # d
    PROVE  s \in ToSet(Tail(list))
<1>1. list \in Seq(Classes) /\ list # <<>> /\ list[1] = d
    BY DEF Starts
<1> QED
    BY <1>1, HeadAndTail

LEMMA JoinCovers ==
    ASSUME NEW d \in Classes, NEW q \in Seq(Classes), NEW lists \in Orders, NEW list,
           list = Join(d, q, lists)
    PROVE  Starts(list, d) /\ ToSet(list) = {d} \cup UNION {ToSet(lists[e]) : e \in ToSet(q)}
<1>1. /\ list \in Seq(Classes) \ {<<>>} /\ list[1] = d
      /\ ToSet(list) = {d} \cup UNION {ToSet(lists[e]) : e \in ToSet(q)}
    BY JoinIs, Zenon
<1> QED
    BY <1>1, Zenon DEF Starts

\* Parents with the same lists make the same list.
LEMMA JoinSame ==
    ASSUME NEW d \in Classes, NEW q \in Seq(Classes), NEW l1 \in Orders, NEW l2 \in Orders,
           \A e \in ToSet(q) : l1[e] = l2[e]
    PROVE  Join(d, q, l1) = Join(d, q, l2)
<1>1. PICK h1 : Gathers(h1, q, l1)
    BY GatherPasses
<1>2. PICK h2 : Gathers(h2, q, l2)
    BY GatherPasses
<1> DEFINE n == Len(q)
           S == {k \in Nat : k <= n => h1[k] = h2[k]}
<1>3. n \in Nat /\ \A k \in 1..n : l1[q[k]] = l2[q[k]]
    BY DEF ToSet
<1>4. 0 \in S
    BY <1>1, <1>2 DEF Gathers
<1>5. ASSUME NEW k \in Nat, k \in S PROVE k + 1 \in S
  <2>1. SUFFICES ASSUME k + 1 <= n PROVE h1[k+1] = h2[k+1]
      OBVIOUS
  <2>2. k + 1 \in 1..n /\ (k + 1) - 1 = k /\ h1[k] = h2[k]
      BY <1>3, <1>5, <2>1
  <2>3. /\ h1[k+1] = Merge(h1[k], l1[q[k+1]])
        /\ h2[k+1] = Merge(h2[k], l2[q[k+1]])
      BY <1>1, <1>2, <2>2 DEF Gathers
  <2> QED
      BY <1>3, <2>2, <2>3
<1>6. n \in S
  <2> HIDE DEF S
  <2>1. \A k \in Nat : k \in S
      BY <1>4, <1>5, AllNumbers
  <2> QED
      BY <1>3, <2>1
<1> QED
    BY <1>1, <1>2, <1>3, <1>6 DEF Gathers, Join

-----------------------------------------------------------------------------
(* Dfs: row n holds the lists that n levels of recursion find *)

Caches == [Classes -> Seq(Classes) \cup {Unset}]

Entry(d, bottom, l, i, prev) == IF l[d] # Unset THEN l[d]
                                ELSE IF bottom \/ i[d] = <<>> THEN <<d>>
                                ELSE Join(d, i[d], prev)
Rows(r, N, l, i) == /\ r \in [0..N -> Orders]
                    /\ \A n \in 0..N : \A d \in Classes : r[n][d] = Entry(d, n = 0, l, i, r[n-1])

LEMMA EntryType ==
    ASSUME NEW i \in Orders, NEW l \in Caches, NEW d \in Classes
    PROVE  /\ \A prev : Entry(d, TRUE, l, i, prev) \in Seq(Classes)
           /\ \A prev \in Orders : Entry(d, FALSE, l, i, prev) \in Seq(Classes)
<1>1. i[d] \in Seq(Classes) /\ <<d>> \in Seq(Classes) /\ (l[d] # Unset => l[d] \in Seq(Classes))
    BY DEF Orders, Caches
<1> QED
    BY <1>1, JoinIs DEF Entry

LEMMA RowsExist ==
    ASSUME NEW i \in Orders, NEW l \in Caches, NEW N \in Nat
    PROVE  \E r : Rows(r, N, l, i)
<1> DEFINE S == {k \in Nat : \E r : Rows(r, k, l, i)}
<1>1. 0 \in S
  <2> DEFINE r == [n \in 0..0 |-> [d \in Classes |-> Entry(d, TRUE, l, i, <<>>)]]
  <2>0. 0..0 = {0}
      OBVIOUS
  <2>1. r \in [0..0 -> Orders]
      BY EntryType DEF Orders
  <2>2. ASSUME NEW n \in 0..0, NEW d \in Classes
        PROVE  r[n][d] = Entry(d, n = 0, l, i, r[n-1])
    <3>1. n = 0
        BY <2>0
    <3> QED
        BY <3>1, <2>0 DEF Entry
  <2>3. Rows(r, 0, l, i)
    <3> HIDE DEF r
    <3> QED
        BY <2>1, <2>2 DEF Rows
  <2> QED
      BY <2>3
<1>2. ASSUME NEW k \in Nat, k \in S PROVE k + 1 \in S
  <2>1. PICK r : Rows(r, k, l, i)
      BY <1>2
  <2> DEFINE top == [d \in Classes |-> Entry(d, FALSE, l, i, r[k])]
             s == [n \in 0..(k+1) |-> IF n = k + 1 THEN top ELSE r[n]]
  <2>2. r \in [0..k -> Orders] /\ k \in 0..k /\ r[k] \in Orders
      BY <2>1 DEF Rows
  <2>3. top \in Orders
      BY <2>2, EntryType DEF Orders
  <2>4. s \in [0..(k+1) -> Orders]
    <3> HIDE DEF top
    <3>1. \A n \in 0..(k+1) : n # k + 1 => n \in 0..k
        OBVIOUS
    <3> QED
        BY <2>2, <2>3, <3>1
  <2>5. ASSUME NEW n \in 0..(k+1), NEW d \in Classes
        PROVE  s[n][d] = Entry(d, n = 0, l, i, s[n-1])
    <3>1. CASE n = k + 1
      <4>1. n # 0 /\ n - 1 = k /\ k \in 0..(k+1) /\ k # k + 1
          BY <3>1
      <4>2. s[n] = top /\ s[n-1] = r[k]
          BY <3>1, <4>1
      <4> QED
          BY <4>1, <4>2 DEF Entry
    <3>2. CASE n # k + 1
      <4>1. n \in 0..k /\ s[n] = r[n]
          BY <3>2
      <4>2. r[n][d] = Entry(d, n = 0, l, i, r[n-1])
          BY <4>1, <2>1 DEF Rows
      <4>3. n # 0 => n - 1 \in 0..(k+1) /\ n - 1 # k + 1
          BY <4>1
      <4>4. n # 0 => s[n-1] = r[n-1]
          BY <4>3
      <4> HIDE DEF s
      <4> QED
          BY <4>1, <4>2, <4>4 DEF Entry
    <3> QED
        BY <3>1, <3>2
  <2>6. Rows(s, k + 1, l, i)
    <3> HIDE DEF s
    <3> QED
        BY <2>4, <2>5 DEF Rows
  <2> QED
      BY <2>6
<1>3. \A k \in Nat : k \in S
  <2> HIDE DEF S
  <2> QED
      BY <1>1, <1>2, AllNumbers
<1> QED
    BY <1>3

\* What Dfs computes.
LEMMA DfsRows ==
    ASSUME NEW i \in Orders, NEW l \in Caches, Depth \in Nat
    PROVE  \E r : Rows(r, Depth, l, i) /\ \A c \in Classes : Dfs(c, l, i) = r[Depth][c]
<1>1. PICK R : Rows(R, Depth, l, i)
    BY RowsExist
<1> DEFINE Body(f) == [n \in 0..Depth |-> [d \in Classes |->
                           IF l[d] # Unset THEN l[d]
                           ELSE IF n = 0 \/ i[d] = <<>> THEN <<d>>
                           ELSE Join(d, i[d], f[n-1])]]
<1>2. ASSUME NEW f, NEW n \in 0..Depth, NEW d \in Classes
      PROVE  Body(f)[n][d] = Entry(d, n = 0, l, i, f[n-1])
    BY DEF Entry
<1>3. R = Body(R)
  <2>1. R \in [0..Depth -> Orders]
      BY <1>1 DEF Rows
  <2>2. ASSUME NEW n \in 0..Depth PROVE R[n] = Body(R)[n]
    <3>1. ASSUME NEW d \in Classes PROVE R[n][d] = Body(R)[n][d]
      <4>1. R[n][d] = Entry(d, n = 0, l, i, R[n-1])
          BY <1>1 DEF Rows
      <4> HIDE DEF Body
      <4> QED
          BY <4>1, <1>2
    <3> QED
        BY <2>1, <3>1 DEF Orders
  <2> QED
      BY <2>1, <2>2
<1>4. \A c \in Classes : Dfs(c, l, i) = (CHOOSE f : f = Body(f))[Depth][c]
    BY Zenon DEF Dfs, Join, Gather
<1>5. PICK f : f = Body(f) /\ \A c \in Classes : Dfs(c, l, i) = f[Depth][c]
  <2> HIDE DEF Body
  <2> QED
      BY <1>3, <1>4, Zenon
<1>6. ASSUME NEW n \in 0..Depth, NEW d \in Classes
      PROVE  f[n][d] = Entry(d, n = 0, l, i, f[n-1])
  <2> HIDE DEF Body
  <2> QED
      BY <1>2, <1>5
<1>7. f = [n \in 0..Depth |-> f[n]] /\ \A n \in 0..Depth : f[n] = [d \in Classes |-> f[n][d]]
  <2>1. Body(f) = [n \in 0..Depth |-> Body(f)[n]]
      OBVIOUS
  <2>2. \A n \in 0..Depth : Body(f)[n] = [d \in Classes |-> Body(f)[n][d]]
      OBVIOUS
  <2> HIDE DEF Body
  <2> QED
      BY <1>5, <2>1, <2>2
<1> DEFINE S == {k \in Nat : k <= Depth => f[k] \in Orders}
<1>8. 0 \in S
  <2>1. 0 \in 0..Depth
      OBVIOUS
  <2>2. \A d \in Classes : f[0][d] = Entry(d, TRUE, l, i, f[0-1])
      BY <1>6, <2>1
  <2>3. \A d \in Classes : f[0][d] \in Seq(Classes)
      BY <2>2, EntryType
  <2> QED
      BY <2>1, <2>3, <1>7 DEF Orders
<1>9. ASSUME NEW k \in Nat, k \in S PROVE k + 1 \in S
  <2>1. SUFFICES ASSUME k + 1 <= Depth PROVE f[k + 1] \in Orders
      OBVIOUS
  <2>2. k + 1 \in 0..Depth /\ (k + 1 = 0) = FALSE /\ (k + 1) - 1 = k /\ f[k] \in Orders
      BY <2>1, <1>9
  <2>3. \A d \in Classes : f[k + 1][d] = Entry(d, FALSE, l, i, f[k])
      BY <1>6, <2>2
  <2>4. \A d \in Classes : f[k + 1][d] \in Seq(Classes)
      BY <2>2, <2>3, EntryType
  <2> QED
      BY <2>2, <2>4, <1>7 DEF Orders
<1>10. \A k \in Nat : k \in S
  <2> HIDE DEF S
  <2> QED
      BY <1>8, <1>9, AllNumbers
<1>11. \A n \in 0..Depth : f[n] \in Orders
    BY <1>10
<1>12. Rows(f, Depth, l, i)
  <2> HIDE DEF Body, S
  <2> QED
      BY <1>6, <1>7, <1>11 DEF Rows
<1> QED
  <2> HIDE DEF Body
  <2> QED
      BY <1>5, <1>12, Zenon

-----------------------------------------------------------------------------
(* Ancestors: the least set that holds the parents and those of its members *)

Climb(start, i) == LET up[n \in 0..Depth] == IF n = 0 THEN start ELSE Upwards(up[n-1], i)
                   IN up[Depth]
Climbs(u, N, start, i) == /\ u \in [0..N -> SUBSET Classes]
                          /\ \A n \in 0..N : u[n] = IF n = 0 THEN start ELSE Upwards(u[n-1], i)

LEMMA DepthType == Depth \in Nat
BY MethodAssumption, FS_CardinalityType DEF Depth

LEMMA UpwardsType ==
    ASSUME NEW i \in Orders, NEW some \in SUBSET Classes
    PROVE  Upwards(some, i) \in SUBSET Classes /\ some \subseteq Upwards(some, i)
BY DEF Upwards, Orders, ToSet

LEMMA ClimbsExist ==
    ASSUME NEW i \in Orders, NEW start \in SUBSET Classes, NEW N \in Nat
    PROVE  \E u : Climbs(u, N, start, i)
<1> DEFINE S == {k \in Nat : \E u : Climbs(u, k, start, i)}
<1>1. 0 \in S
  <2> DEFINE u == [n \in 0..0 |-> start]
  <2>1. Climbs(u, 0, start, i)
      BY DEF Climbs
  <2> QED
      BY <2>1
<1>2. ASSUME NEW k \in Nat, k \in S PROVE k + 1 \in S
  <2>1. PICK u : Climbs(u, k, start, i)
      BY <1>2
  <2> DEFINE v == [n \in 0..(k+1) |-> IF n = k + 1 THEN Upwards(u[k], i) ELSE u[n]]
  <2>2. u \in [0..k -> SUBSET Classes] /\ k \in 0..k /\ u[k] \in SUBSET Classes
      BY <2>1 DEF Climbs
  <2>3. Upwards(u[k], i) \in SUBSET Classes
      BY <2>2, UpwardsType
  <2>4. \A n \in 0..(k+1) : n # k + 1 => n \in 0..k
      OBVIOUS
  <2>5. v \in [0..(k+1) -> SUBSET Classes]
      BY <2>2, <2>3, <2>4
  <2>6. ASSUME NEW n \in 0..(k+1)
        PROVE  v[n] = IF n = 0 THEN start ELSE Upwards(v[n-1], i)
    <3>1. CASE n = k + 1
      <4>1. n # 0 /\ n - 1 = k /\ k \in 0..(k+1) /\ k # k + 1
          BY <3>1
      <4>2. v[n] = Upwards(u[k], i) /\ v[n-1] = u[k]
          BY <3>1, <4>1
      <4> QED
          BY <4>1, <4>2
    <3>2. CASE n # k + 1
      <4>1. n \in 0..k /\ v[n] = u[n]
          BY <3>2
      <4>2. n # 0 => n - 1 \in 0..(k+1) /\ n - 1 # k + 1
          BY <4>1
      <4>3. n # 0 => v[n-1] = u[n-1]
          BY <4>2
      <4> HIDE DEF v
      <4> QED
          BY <2>1, <4>1, <4>3 DEF Climbs
    <3> QED
        BY <3>1, <3>2
  <2>7. Climbs(v, k + 1, start, i)
    <3> HIDE DEF v
    <3> QED
        BY <2>5, <2>6 DEF Climbs
  <2> QED
      BY <2>7
<1>3. \A k \in Nat : k \in S
  <2> HIDE DEF S
  <2> QED
      BY <1>1, <1>2, AllNumbers
<1> QED
    BY <1>3

LEMMA ClimbPasses ==
    ASSUME NEW i \in Orders, NEW start \in SUBSET Classes
    PROVE  \E u : Climbs(u, Depth, start, i) /\ Climb(start, i) = u[Depth]
<1>1. PICK w : Climbs(w, Depth, start, i)
    BY ClimbsExist, DepthType
<1> DEFINE Body(u) == [n \in 0..Depth |-> IF n = 0 THEN start ELSE Upwards(u[n-1], i)]
<1>2. w = Body(w)
    BY <1>1 DEF Climbs
<1>3. Climb(start, i) = (CHOOSE u : u = Body(u))[Depth]
    BY Zenon DEF Climb
<1>4. PICK u : u = Body(u) /\ Climb(start, i) = u[Depth]
  <2> HIDE DEF Body
  <2> QED
      BY <1>2, <1>3, Zenon
<1>5. \A n \in 0..Depth : u[n] = IF n = 0 THEN start ELSE Upwards(u[n-1], i)
    BY <1>4
<1>6. u = [n \in 0..Depth |-> u[n]]
  <2>1. Body(u) = [n \in 0..Depth |-> Body(u)[n]]
      OBVIOUS
  <2> HIDE DEF Body
  <2> QED
      BY <1>4, <2>1
<1> DEFINE S == {k \in Nat : k <= Depth => u[k] \in SUBSET Classes}
<1>7. 0 \in S
    BY <1>5, DepthType
<1>8. ASSUME NEW k \in Nat, k \in S PROVE k + 1 \in S
  <2>1. SUFFICES ASSUME k + 1 <= Depth PROVE u[k + 1] \in SUBSET Classes
      OBVIOUS
  <2>2. k + 1 \in 0..Depth /\ k + 1 # 0 /\ (k + 1) - 1 = k /\ u[k] \in SUBSET Classes
      BY <2>1, <1>8, DepthType
  <2>3. u[k + 1] = Upwards(u[k], i)
      BY <1>5, <2>2
  <2> QED
      BY <2>2, <2>3, UpwardsType
<1>9. \A k \in Nat : k \in S
  <2> HIDE DEF S
  <2> QED
      BY <1>7, <1>8, AllNumbers
<1>10. \A n \in 0..Depth : u[n] \in SUBSET Classes
    BY <1>9, DepthType
<1>11. Climbs(u, Depth, start, i)
  <2> HIDE DEF Body, S
  <2> QED
      BY <1>5, <1>6, <1>10 DEF Climbs
<1> QED
  <2> HIDE DEF Body
  <2> QED
      BY <1>4, <1>11, Zenon

ClosedIn(X, i) == \A s \in X \cap Classes : ToSet(i[s]) \subseteq X

\* Each step adds a class until none is missing, and there are no more than
\* Depth of them.
LEMMA ClimbIs ==
    ASSUME NEW i \in Orders, NEW start \in SUBSET Classes
    PROVE  /\ start \subseteq Climb(start, i) /\ Climb(start, i) \subseteq Classes
           /\ ClosedIn(Climb(start, i), i)
           /\ \A X : start \subseteq X /\ ClosedIn(X, i) => Climb(start, i) \subseteq X
<1>1. PICK u : Climbs(u, Depth, start, i) /\ Climb(start, i) = u[Depth]
    BY ClimbPasses
<1>2. Depth \in Nat /\ Depth \in 0..Depth /\ 0 \in 0..Depth
    BY DepthType
<1>3. /\ u \in [0..Depth -> SUBSET Classes] /\ u[0] = start
      /\ \A n \in 0..Depth : n # 0 => u[n] = Upwards(u[n-1], i)
    BY <1>1, <1>2 DEF Climbs
<1>4. \A n \in Nat : n <= Depth => n \in 0..Depth
    BY <1>2
<1>5. \A k \in Nat : k + 1 <= Depth =>
          k \in 0..Depth /\ k <= Depth /\ u[k + 1] = Upwards(u[k], i)
  <2> SUFFICES ASSUME NEW k \in Nat, k + 1 <= Depth
               PROVE  k \in 0..Depth /\ k <= Depth /\ u[k + 1] = Upwards(u[k], i)
      OBVIOUS
  <2>1. k \in 0..Depth /\ k <= Depth /\ k + 1 \in 0..Depth /\ k + 1 # 0 /\ (k + 1) - 1 = k
      BY <1>2
  <2> QED
      BY <2>1, <1>3
<1>6. start \subseteq u[Depth]
  <2> DEFINE S == {k \in Nat : k <= Depth => start \subseteq u[k]}
  <2>1. 0 \in S
      BY <1>3
  <2>2. ASSUME NEW k \in Nat, k \in S PROVE k + 1 \in S
    <3>1. SUFFICES ASSUME k + 1 <= Depth PROVE start \subseteq u[k + 1]
        OBVIOUS
    <3>2. /\ k \in 0..Depth /\ start \subseteq u[k] /\ u[k + 1] = Upwards(u[k], i)
          /\ u[k] \in SUBSET Classes
        BY <1>3, <1>5, <2>2, <3>1
    <3>3. u[k] \subseteq Upwards(u[k], i)
        BY <3>2, UpwardsType
    <3> QED
        BY <3>2, <3>3
  <2>3. \A k \in Nat : k \in S
    <3> HIDE DEF S
    <3> QED
        BY <2>1, <2>2, AllNumbers
  <2> QED
      BY <2>3, <1>2
<1>7. ASSUME NEW X, start \subseteq X, ClosedIn(X, i) PROVE u[Depth] \subseteq X
  <2> DEFINE S == {k \in Nat : k <= Depth => u[k] \subseteq X}
  <2>1. 0 \in S
      BY <1>3, <1>7
  <2>2. ASSUME NEW k \in Nat, k \in S PROVE k + 1 \in S
    <3>1. SUFFICES ASSUME k + 1 <= Depth PROVE u[k + 1] \subseteq X
        OBVIOUS
    <3>2. /\ k \in 0..Depth /\ u[k] \subseteq X /\ u[k + 1] = Upwards(u[k], i)
          /\ u[k] \in SUBSET Classes
        BY <1>3, <1>5, <2>2, <3>1
    <3>3. \A s \in u[k] : ToSet(i[s]) \subseteq X
        BY <3>2, <1>7 DEF ClosedIn
    <3> QED
        BY <3>2, <3>3 DEF Upwards
  <2>3. \A k \in Nat : k \in S
    <3> HIDE DEF S
    <3> QED
        BY <2>1, <2>2, AllNumbers
  <2> QED
      BY <2>3, <1>2
<1>8. ClosedIn(u[Depth], i)
  <2> DEFINE Full(s) == Upwards(s, i) \subseteq s
             S == {k \in Nat : k <= Depth => Full(u[k]) \/ Cardinality(u[k]) >= k + 1}
  <2>0. \A s \in SUBSET Classes : IsFiniteSet(s) /\ Cardinality(s) \in Nat /\ Cardinality(s) <= Depth
      BY MethodAssumption, FS_Subset, FS_CardinalityType DEF Depth
  <2>1. 0 \in S
    <3>1. CASE start = {}
        BY <1>3, <3>1 DEF Upwards
    <3>2. CASE start # {}
      <4>1. Cardinality(start) # 0
          BY <2>0, <3>2, FS_EmptySet
      <4> QED
          BY <1>3, <2>0, <4>1
    <3> QED
        BY <3>1, <3>2
  <2>2. ASSUME NEW k \in Nat, k \in S PROVE k + 1 \in S
    <3>1. SUFFICES ASSUME k + 1 <= Depth
                   PROVE  Full(u[k + 1]) \/ Cardinality(u[k + 1]) >= (k + 1) + 1
        OBVIOUS
    <3>2. /\ k \in 0..Depth /\ k <= Depth /\ u[k + 1] = Upwards(u[k], i)
          /\ u[k] \in SUBSET Classes
        BY <1>3, <1>5, <3>1
    <3>3. u[k] \subseteq u[k + 1] /\ u[k + 1] \in SUBSET Classes
        BY <3>2, UpwardsType
    <3>4. CASE u[k + 1] = u[k]
        BY <3>2, <3>4
    <3>5. CASE u[k + 1] # u[k]
      <4>1. ~Full(u[k])
        <5> HIDE DEF S
        <5> QED
            BY <3>2, <3>3, <3>5
      <4>2. Cardinality(u[k]) >= k + 1
          BY <2>2, <3>2, <4>1
      <4>3. Cardinality(u[k]) <= Cardinality(u[k + 1]) /\ Cardinality(u[k]) # Cardinality(u[k + 1])
          BY <2>0, <3>3, <3>5, FS_Subset
      <4>4. Cardinality(u[k]) \in Nat /\ Cardinality(u[k + 1]) \in Nat
          BY <2>0, <3>2, <3>3
      <4> HIDE DEF S, Full
      <4> QED
          BY <4>2, <4>3, <4>4
    <3> QED
        BY <3>4, <3>5
  <2>3. \A k \in Nat : k \in S
    <3> HIDE DEF S
    <3> QED
        BY <2>1, <2>2, AllNumbers
  <2>4. u[Depth] \in SUBSET Classes
      BY <1>2, <1>3
  <2>5. Full(u[Depth])
    <3>1. Full(u[Depth]) \/ Cardinality(u[Depth]) >= Depth + 1
        BY <2>3, <1>2
    <3> HIDE DEF S, Full
    <3> QED
        BY <1>2, <2>0, <2>4, <3>1
  <2> QED
      BY <2>4, <2>5 DEF ClosedIn, Upwards
<1> QED
    BY <1>1, <1>2, <1>3, <1>6, <1>7, <1>8

\* What is there to know about Ancestors.
LEMMA AncestorsAre ==
    ASSUME NEW i \in Orders, NEW c \in Classes
    PROVE  /\ ToSet(i[c]) \subseteq Ancestors(c, i) /\ Ancestors(c, i) \subseteq Classes
           /\ ClosedIn(Ancestors(c, i), i)
           /\ \A X : ToSet(i[c]) \subseteq X /\ ClosedIn(X, i) => Ancestors(c, i) \subseteq X
<1>1. Ancestors(c, i) = IF i[c] = <<>> THEN {} ELSE Climb(ToSet(i[c]), i)
    BY Zenon DEF Ancestors, Climb
<1>2. ToSet(i[c]) \in SUBSET Classes /\ (i[c] = <<>> => ToSet(i[c]) = {})
    BY DEF Orders, ToSet
<1>3. CASE i[c] = <<>>
    BY <1>1, <1>2, <1>3 DEF ClosedIn
<1>4. CASE i[c] # <<>>
    BY <1>1, <1>2, <1>4, ClimbIs
<1> QED
    BY <1>3, <1>4

-----------------------------------------------------------------------------
(* Ancestors in a graph i of lists, and in one that differs elsewhere *)

Line(c, i) == {c} \cup Ancestors(c, i)

\* Ancestors of ancestors are ancestors.
LEMMA AncestorsOfAncestors ==
    ASSUME NEW i \in Orders, NEW c \in Classes, NEW s \in Ancestors(c, i)
    PROVE  s \in Classes /\ Line(s, i) \subseteq Ancestors(c, i)
<1>1. s \in Classes /\ ToSet(i[s]) \subseteq Ancestors(c, i) /\ ClosedIn(Ancestors(c, i), i)
    BY AncestorsAre DEF ClosedIn
<1>2. Ancestors(s, i) \subseteq Ancestors(c, i)
    BY <1>1, AncestorsAre
<1> QED
    BY <1>1, <1>2 DEF Line

LEMMA LinesWithin ==
    ASSUME NEW i \in Orders, NEW c \in Classes, NEW s \in Line(c, i)
    PROVE  s \in Classes /\ Line(s, i) \subseteq Line(c, i)
BY AncestorsOfAncestors DEF Line

\* The ancestors of a class are its parents with theirs.
LEMMA AncestorsByParents ==
    ASSUME NEW i \in Orders, NEW c \in Classes
    PROVE  /\ ToSet(i[c]) \subseteq Classes
           /\ Ancestors(c, i) = UNION {Line(e, i) : e \in ToSet(i[c])}
<1> DEFINE X == UNION {Line(e, i) : e \in ToSet(i[c])}
<1>1. ToSet(i[c]) \subseteq Ancestors(c, i) /\ ToSet(i[c]) \subseteq Classes
    BY AncestorsAre
<1>2. X \subseteq Ancestors(c, i)
    BY <1>1, AncestorsOfAncestors
<1>3. ToSet(i[c]) \subseteq X
    BY DEF Line
<1>4. ClosedIn(X, i)
  <2>1. ASSUME NEW s \in X \cap Classes PROVE ToSet(i[s]) \subseteq X
    <3>1. PICK e \in ToSet(i[c]) : s \in Line(e, i)
        OBVIOUS
    <3>2. e \in Classes
        BY <1>1
    <3>3. ToSet(i[s]) \subseteq Line(s, i) /\ Line(s, i) \subseteq Line(e, i)
        BY <3>1, <3>2, LinesWithin, AncestorsAre DEF Line
    <3> QED
        BY <3>1, <3>3
  <2> HIDE DEF X
  <2> QED
      BY <2>1 DEF ClosedIn
<1>5. Ancestors(c, i) \subseteq X
  <2> HIDE DEF X
  <2> QED
      BY <1>3, <1>4, AncestorsAre
<1> QED
    BY <1>1, <1>2, <1>5

\* Fewer parents make fewer ancestors.
LEMMA FewerAncestors ==
    ASSUME NEW i \in Orders, NEW j \in Orders, NEW c \in Classes,
           \A s \in Classes : ToSet(j[s]) \subseteq ToSet(i[s])
    PROVE  Ancestors(c, j) \subseteq Ancestors(c, i)
<1>1. ToSet(i[c]) \subseteq Ancestors(c, i) /\ ClosedIn(Ancestors(c, i), i)
    BY AncestorsAre
<1>2. ToSet(j[c]) \subseteq Ancestors(c, i) /\ ClosedIn(Ancestors(c, i), j)
    BY <1>1 DEF ClosedIn
<1> QED
    BY <1>2, AncestorsAre

Agree(i, j, some) == \A s \in some : i[s] = j[s]

\* Lists that agree on a line give it the same ancestors.
LEMMA SameAncestors ==
    ASSUME NEW i \in Orders, NEW j \in Orders, NEW c \in Classes, Agree(i, j, Line(c, i))
    PROVE  Ancestors(c, j) = Ancestors(c, i)
<1>1. /\ ToSet(i[c]) \subseteq Ancestors(c, i) /\ ClosedIn(Ancestors(c, i), i)
      /\ ToSet(j[c]) \subseteq Ancestors(c, j) /\ ClosedIn(Ancestors(c, j), j)
    BY AncestorsAre
<1>2. i[c] = j[c] /\ \A s \in Ancestors(c, i) : i[s] = j[s]
    BY DEF Agree, Line
<1>3. ClosedIn(Ancestors(c, i), j)
    BY <1>1, <1>2 DEF ClosedIn
<1>4. Ancestors(c, j) \subseteq Ancestors(c, i)
    BY <1>1, <1>2, <1>3, AncestorsAre
<1>5. ClosedIn(Ancestors(c, j), i)
    BY <1>1, <1>2, <1>4 DEF ClosedIn
<1> QED
    BY <1>1, <1>2, <1>4, <1>5, AncestorsAre

LEMMA SameRecursive ==
    ASSUME NEW i \in Orders, NEW j \in Orders, NEW c \in Classes, Agree(i, j, Line(c, i))
    PROVE  /\ Line(c, j) = Line(c, i)
           /\ Recursive(c, j) <=> Recursive(c, i)
<1>1. Ancestors(c, j) = Ancestors(c, i)
    BY SameAncestors
<1>2. ASSUME NEW s \in Line(c, i) PROVE Ancestors(s, j) = Ancestors(s, i)
  <2>1. s \in Classes /\ Agree(i, j, Line(s, i))
      BY LinesWithin DEF Agree
  <2> QED
      BY <2>1, SameAncestors
<1> QED
    BY <1>1, <1>2 DEF Recursive, Line

\* Lists that differ at k only, which is not in the line of c.
LEMMA Elsewhere ==
    ASSUME NEW i \in Orders, NEW j \in Orders, NEW k \in Classes, NEW c \in Classes,
           Agree(i, j, Classes \ {k}), k \notin Line(c, i) \/ k \notin Line(c, j)
    PROVE  /\ Agree(i, j, Line(c, i)) /\ Agree(j, i, Line(c, j))
           /\ Line(c, j) = Line(c, i) /\ Ancestors(c, j) = Ancestors(c, i)
           /\ k \notin Line(c, i)
<1>1. Line(c, i) \subseteq Classes /\ Line(c, j) \subseteq Classes
    BY AncestorsAre DEF Line
<1>2. CASE k \notin Line(c, i)
  <2>1. Agree(i, j, Line(c, i))
      BY <1>1, <1>2 DEF Agree
  <2>2. Ancestors(c, j) = Ancestors(c, i)
      BY <2>1, SameAncestors
  <2>3. Line(c, j) = Line(c, i)
      BY <2>2 DEF Line
  <2> QED
      BY <1>2, <2>1, <2>2, <2>3 DEF Agree
<1>3. CASE k \notin Line(c, j)
  <2>1. Agree(j, i, Line(c, j))
      BY <1>1, <1>3 DEF Agree
  <2>2. Ancestors(c, i) = Ancestors(c, j)
      BY <2>1, SameAncestors
  <2>3. Line(c, i) = Line(c, j)
      BY <2>2 DEF Line
  <2> QED
      BY <1>3, <2>1, <2>2, <2>3 DEF Agree
<1> QED
    BY <1>2, <1>3

\* A class on no cycle has fewer ancestors than those that inherit from it.
LEMMA AncestorsShrink ==
    ASSUME NEW i \in Orders, NEW c \in Classes, NEW s \in Ancestors(c, i), s \notin Ancestors(s, i)
    PROVE  /\ Cardinality(Ancestors(s, i)) \in Nat /\ Cardinality(Ancestors(c, i)) \in Nat
           /\ Cardinality(Ancestors(s, i)) + 1 <= Cardinality(Ancestors(c, i))
<1>1. Line(s, i) \subseteq Ancestors(c, i) /\ s \in Classes /\ Ancestors(c, i) \subseteq Classes
    BY AncestorsOfAncestors, AncestorsAre
<1>2. IsFiniteSet(Ancestors(c, i)) /\ Cardinality(Ancestors(c, i)) \in Nat
    BY <1>1, MethodAssumption, FS_Subset, FS_CardinalityType
<1>3. /\ Ancestors(s, i) \in SUBSET Ancestors(c, i) /\ Ancestors(s, i) # Ancestors(c, i)
    BY <1>1 DEF Line
<1>4. /\ IsFiniteSet(Ancestors(s, i)) /\ Cardinality(Ancestors(s, i)) \in Nat
      /\ Cardinality(Ancestors(s, i)) <= Cardinality(Ancestors(c, i))
      /\ Cardinality(Ancestors(s, i)) # Cardinality(Ancestors(c, i))
    BY <1>2, <1>3, FS_Subset, FS_CardinalityType
<1> QED
    BY <1>2, <1>4

\* A class without recursion has parents without recursion.
LEMMA ParentsNotRecursive ==
    ASSUME NEW i \in Orders, NEW c \in Classes, ~Recursive(c, i), NEW s \in Line(c, i)
    PROVE  s \in Classes /\ ~Recursive(s, i) /\ s \notin Ancestors(s, i)
BY LinesWithin DEF Recursive, Line

\* A change of k's list can make a cycle through k only.
LEMMA CyclesThrough ==
    ASSUME NEW i \in Orders, NEW j \in Orders, NEW k \in Classes,
           Agree(i, j, Classes \ {k}), \A c \in Classes : c \notin Ancestors(c, i),
           k \notin Ancestors(k, j)
    PROVE  \A c \in Classes : c \notin Ancestors(c, j)
<1> SUFFICES ASSUME NEW c \in Classes, c \in Ancestors(c, j) PROVE FALSE
    OBVIOUS
<1>1. k \in Ancestors(c, j)
    BY Elsewhere DEF Line
<1>2. c # k
    OBVIOUS
<1> DEFINE X == Ancestors(c, i) \cup Line(k, j)
<1>3. ToSet(j[c]) \subseteq X
    BY <1>2, AncestorsAre DEF Agree
<1>4. ClosedIn(X, j)
  <2>1. ASSUME NEW s \in Classes, s \in Ancestors(c, i), s # k PROVE ToSet(j[s]) \subseteq X
      BY <2>1, AncestorsAre DEF Agree, ClosedIn
  <2>2. ASSUME NEW s \in Line(k, j) PROVE ToSet(j[s]) \subseteq X
      BY <2>2, LinesWithin, AncestorsAre DEF Line
  <2> QED
      BY <2>1, <2>2 DEF ClosedIn, Line
<1>5. Ancestors(c, j) \subseteq X
  <2> HIDE DEF X
  <2> QED
      BY <1>3, <1>4, AncestorsAre
<1>6. c \in Ancestors(k, j)
    BY <1>2, <1>5 DEF Line
<1>7. Ancestors(c, j) \subseteq Ancestors(k, j)
    BY <1>6, AncestorsOfAncestors DEF Line
<1> QED
    BY <1>1, <1>7

-----------------------------------------------------------------------------
(* The order that the lists i give, and what a cache of it must hold *)

Empty == [d \in Classes |-> Unset]
InOrder(c, i) == Dfs(c, Empty, i)
Current(l, i) == /\ l \in Caches
                 /\ \A d \in Classes : l[d] # Unset => ~Recursive(d, i) /\ l[d] = InOrder(d, i)

Holds(l, R) == \A d \in Classes : l[d] # Unset => l[d] = R[Depth][d]
AllFound(r, R, i) == \A d \in Classes : ~Recursive(d, i) =>
                         /\ r[Depth][d] = R[Depth][d]
                         /\ R[Depth][d] = Entry(d, FALSE, Empty, i, R[Depth])

\* Where classes have at most n ancestors and no cycle, n levels find it all,
\* with a cache as without.
LEMMA EnoughLevels ==
    ASSUME NEW i \in Orders, NEW l \in Caches, NEW r, NEW R,
           Rows(r, Depth, l, i), Rows(R, Depth, Empty, i), Holds(l, R)
    PROVE  AllFound(r, R, i)
<1>0. Depth \in Nat
    BY DepthType
<1> DEFINE Few(n, d) == ~Recursive(d, i) /\ Cardinality(Ancestors(d, i)) <= n
           Same(n, m, d) == r[m][d] = R[Depth][d] /\ R[m][d] = R[Depth][d]
           S == {n \in Nat : n <= Depth =>
                    \A d \in Classes : Few(n, d) => \A m \in n..Depth : Same(n, m, d)}
<1>1. /\ r \in [0..Depth -> Orders] /\ R \in [0..Depth -> Orders]
      /\ \A n \in 0..Depth : \A d \in Classes : /\ r[n][d] = Entry(d, n = 0, l, i, r[n-1])
                                                /\ R[n][d] = Entry(d, n = 0, Empty, i, R[n-1])
    BY DEF Rows
<1>2. \A d \in Classes : /\ i[d] \in Seq(Classes) /\ ToSet(i[d]) \subseteq Classes
                         /\ Cardinality(Ancestors(d, i)) \in Nat
                         /\ Cardinality(Ancestors(d, i)) <= Depth
                         /\ ToSet(i[d]) \subseteq Ancestors(d, i)
                         /\ Ancestors(d, i) = {} => i[d] = <<>>
                         /\ Cardinality(Ancestors(d, i)) = 0 => Ancestors(d, i) = {}
  <2> TAKE d \in Classes
  <2>1. i[d] \in Seq(Classes) /\ ToSet(i[d]) \subseteq Classes /\ (ToSet(i[d]) = {} => i[d] = <<>>)
    <3>1. i[d] \in Seq(Classes) /\ ToSet(i[d]) \subseteq Classes
        BY AncestorsByParents DEF Orders
    <3>2. \A q \in Seq(Classes) : q # <<>> => 1 \in DOMAIN q
        OBVIOUS
    <3> QED
        BY <3>1, <3>2 DEF ToSet
  <2>2. ToSet(i[d]) \subseteq Ancestors(d, i) /\ Ancestors(d, i) \in SUBSET Classes
      BY AncestorsAre
  <2>3. /\ IsFiniteSet(Ancestors(d, i)) /\ Cardinality(Ancestors(d, i)) \in Nat
        /\ Cardinality(Ancestors(d, i)) <= Cardinality(Classes)
      BY <2>2, MethodAssumption, FS_Subset, FS_CardinalityType
  <2> QED
      BY <2>1, <2>2, <2>3, FS_EmptySet DEF Depth
<1>3. \A d \in Classes : Empty[d] = Unset /\ (l[d] # Unset => l[d] = R[Depth][d])
    BY DEF Empty, Holds
<1>4. 0 \in S
  <2>1. SUFFICES ASSUME NEW d \in Classes, Few(0, d), NEW m \in 0..Depth PROVE Same(0, m, d)
      OBVIOUS
  <2>2. i[d] = <<>>
      BY <2>1, <1>2
  <2>3. Depth \in 0..Depth
      BY <1>0
  <2> QED
      BY <1>1, <1>3, <2>2, <2>3 DEF Entry
<1>5. ASSUME NEW n \in Nat, n \in S PROVE n + 1 \in S
  <2>1. SUFFICES ASSUME n + 1 <= Depth, NEW d \in Classes, Few(n + 1, d), NEW m \in (n+1)..Depth
                 PROVE  Same(n + 1, m, d)
      OBVIOUS
  <2>2. /\ m \in 0..Depth /\ (m = 0) = FALSE /\ m - 1 \in n..Depth /\ m - 1 \in 0..Depth
        /\ Depth \in 0..Depth /\ (Depth = 0) = FALSE /\ Depth - 1 \in n..Depth
        /\ Depth - 1 \in 0..Depth /\ n <= Depth
      BY <1>0, <2>1
  <2>3. ASSUME NEW e \in ToSet(i[d])
        PROVE  e \in Classes /\ Few(n, e)
    <3>1. e \in Classes /\ ~Recursive(e, i) /\ e \notin Ancestors(e, i) /\ e \in Ancestors(d, i)
        BY <1>2, <2>1, ParentsNotRecursive DEF Line
    <3>2. /\ Cardinality(Ancestors(e, i)) \in Nat /\ Cardinality(Ancestors(d, i)) \in Nat
          /\ Cardinality(Ancestors(e, i)) + 1 <= Cardinality(Ancestors(d, i))
        BY <3>1, AncestorsShrink
    <3>3. Cardinality(Ancestors(d, i)) <= n + 1
        BY <2>1
    <3> QED
        BY <3>1, <3>2, <3>3
  <2>4. ASSUME NEW e \in ToSet(i[d])
        PROVE  /\ r[m-1][e] = R[Depth][e] /\ R[m-1][e] = R[Depth][e]
               /\ R[Depth-1][e] = R[Depth][e]
    <3>1. e \in Classes /\ Few(n, e)
        BY <2>3
    <3> HIDE DEF Few
    <3> QED
        BY <3>1, <1>5, <2>2
  <2>5. /\ r[m-1] \in Orders /\ R[m-1] \in Orders /\ R[Depth-1] \in Orders /\ R[Depth] \in Orders
      BY <1>1, <2>2
  <2>6. /\ Join(d, i[d], r[m-1]) = Join(d, i[d], R[Depth])
        /\ Join(d, i[d], R[m-1]) = Join(d, i[d], R[Depth])
        /\ Join(d, i[d], R[Depth-1]) = Join(d, i[d], R[Depth])
      BY <2>4, <2>5, <1>2, JoinSame
  <2>7. /\ r[m][d] = Entry(d, FALSE, l, i, r[m-1])
        /\ R[m][d] = Entry(d, FALSE, Empty, i, R[m-1])
        /\ R[Depth][d] = Entry(d, FALSE, Empty, i, R[Depth-1])
      BY <1>1, <2>2
  <2> HIDE DEF S, Few
  <2> QED
      BY <2>6, <2>7, <1>3 DEF Entry
<1>6. Depth \in S
  <2> HIDE DEF S
  <2>1. \A k \in Nat : k \in S
      BY <1>4, <1>5, AllNumbers
  <2> QED
      BY <1>0, <2>1
<1>7. \A d \in Classes : ~Recursive(d, i) => r[Depth][d] = R[Depth][d]
  <2>1. Depth \in Depth..Depth
      BY <1>0
  <2> QED
      BY <1>0, <1>2, <1>6, <2>1
<1>8. ASSUME NEW d \in Classes, ~Recursive(d, i)
      PROVE  R[Depth][d] = Entry(d, FALSE, Empty, i, R[Depth])
  <2>1. CASE i[d] = <<>>
    <3>1. Depth \in 0..Depth
        BY <1>0
    <3> QED
        BY <2>1, <3>1, <1>1, <1>3 DEF Entry
  <2>2. CASE i[d] # <<>>
    <3>1. Cardinality(Ancestors(d, i)) # 0
        BY <1>2, <2>2
    <3>2. Cardinality(Ancestors(d, i)) \in Nat /\ Cardinality(Ancestors(d, i)) <= Depth
        BY <1>2
    <3>3. Depth - 1 \in Nat /\ Depth # 0 /\ Depth - 1 <= Depth
        BY <1>0, <3>1, <3>2
    <3>4. /\ Depth \in 0..Depth /\ Depth - 1 \in 0..Depth /\ (Depth = 0) = FALSE
          /\ Depth - 1 \in (Depth - 1)..Depth
        BY <1>0, <3>3
    <3>5. Depth - 1 \in S
      <4> HIDE DEF S
      <4>1. \A k \in Nat : k \in S
          BY <1>4, <1>5, AllNumbers
      <4> QED
          BY <3>3, <4>1
    <3>6. ASSUME NEW e \in ToSet(i[d]) PROVE R[Depth-1][e] = R[Depth][e]
      <4>1. e \in Classes /\ ~Recursive(e, i) /\ e \notin Ancestors(e, i) /\ e \in Ancestors(d, i)
          BY <1>2, <1>8, ParentsNotRecursive DEF Line
      <4>2. /\ Cardinality(Ancestors(e, i)) \in Nat /\ Cardinality(Ancestors(d, i)) \in Nat
            /\ Cardinality(Ancestors(e, i)) + 1 <= Cardinality(Ancestors(d, i))
          BY <4>1, AncestorsShrink
      <4>3. Cardinality(Ancestors(e, i)) <= Depth - 1
          BY <4>2, <3>2, <1>0
      <4>4. Few(Depth - 1, e)
          BY <4>1, <4>3
      <4> HIDE DEF Few
      <4> QED
          BY <4>1, <4>4, <3>3, <3>4, <3>5
    <3>7. R[Depth-1] \in Orders /\ R[Depth] \in Orders
        BY <1>1, <3>4
    <3>8. Join(d, i[d], R[Depth-1]) = Join(d, i[d], R[Depth])
        BY <3>6, <3>7, <1>2, JoinSame
    <3>9. R[Depth][d] = Entry(d, FALSE, Empty, i, R[Depth-1])
        BY <1>1, <3>4
    <3> QED
        BY <3>8, <3>9 DEF Entry
  <2> QED
      BY <2>1, <2>2
<1> QED
    BY <1>7, <1>8 DEF AllFound

LEMMA EmptyCurrent == ASSUME NEW i PROVE Current(Empty, i)
BY DEF Current, Empty, Caches

\* A current cache changes nothing.
LEMMA DfsCurrent ==
    ASSUME NEW i \in Orders, NEW l, Current(l, i), NEW c \in Classes, ~Recursive(c, i)
    PROVE  Dfs(c, l, i) = InOrder(c, i)
<1>1. l \in Caches /\ Empty \in Caches /\ Depth \in Nat
    BY EmptyCurrent, DepthType DEF Current
<1>2. PICK r : Rows(r, Depth, l, i) /\ \A d \in Classes : Dfs(d, l, i) = r[Depth][d]
    BY <1>1, DfsRows
<1>3. PICK R : Rows(R, Depth, Empty, i) /\ \A d \in Classes : Dfs(d, Empty, i) = R[Depth][d]
    BY <1>1, DfsRows
<1>4. Holds(l, R)
    BY <1>3 DEF Current, InOrder, Holds
<1>5. r[Depth][c] = R[Depth][c]
  <2>1. Rows(r, Depth, l, i) /\ Rows(R, Depth, Empty, i) /\ l \in Caches
      BY <1>1, <1>2, <1>3
  <2>2. AllFound(r, R, i)
      BY <2>1, <1>4, EnoughLevels, Zenon
  <2> QED
      BY <2>2 DEF AllFound
<1> QED
    BY <1>2, <1>3, <1>5 DEF InOrder

\* The order of a class comes from those of its parents.
LEMMA InOrderByParents ==
    ASSUME NEW i \in Orders, NEW c \in Classes, ~Recursive(c, i)
    PROVE  /\ [e \in Classes |-> InOrder(e, i)] \in Orders
           /\ InOrder(c, i) = IF i[c] = <<>> THEN <<c>>
                              ELSE Join(c, i[c], [e \in Classes |-> InOrder(e, i)])
<1>1. Empty \in Caches /\ Depth \in Nat
    BY EmptyCurrent, DepthType DEF Current
<1>2. PICK R : Rows(R, Depth, Empty, i) /\ \A d \in Classes : Dfs(d, Empty, i) = R[Depth][d]
    BY <1>1, DfsRows
<1>3. Holds(Empty, R)
    BY DEF Empty, Holds
<1>4. R[Depth][c] = Entry(c, FALSE, Empty, i, R[Depth])
  <2>1. Rows(R, Depth, Empty, i) /\ Empty \in Caches
      BY <1>1, <1>2
  <2>2. AllFound(R, R, i)
      BY <2>1, <1>3, EnoughLevels, Zenon
  <2> QED
      BY <2>2 DEF AllFound
<1>5. R[Depth] \in Orders
    BY <1>1, <1>2 DEF Rows
<1>6. R[Depth] = [e \in Classes |-> InOrder(e, i)]
    BY <1>2, <1>5 DEF Orders, InOrder
<1> QED
    BY <1>2, <1>4, <1>5, <1>6 DEF Entry, InOrder, Empty

\* The order begins with the class, and holds it and its ancestors.
LEMMA InOrderIs ==
    ASSUME NEW i \in Orders
    PROVE  \A c \in Classes : ~Recursive(c, i) =>
               /\ InOrder(c, i) \in Seq(Classes) /\ InOrder(c, i) # <<>>
               /\ InOrder(c, i)[1] = c
               /\ ToSet(InOrder(c, i)) = Line(c, i)
<1> DEFINE OK(c) == /\ InOrder(c, i) \in Seq(Classes) /\ InOrder(c, i) # <<>>
                    /\ InOrder(c, i)[1] = c
                    /\ ToSet(InOrder(c, i)) = Line(c, i)
           Size(c) == Cardinality(Ancestors(c, i))
           S == {n \in Nat : \A c \in Classes : ~Recursive(c, i) /\ Size(c) < n => OK(c)}
<1>1. \A c \in Classes : Size(c) \in Nat
  <2> TAKE c \in Classes
  <2>1. Ancestors(c, i) \in SUBSET Classes
      BY AncestorsAre
  <2> QED
      BY <2>1, MethodAssumption, FS_Subset, FS_CardinalityType
<1>2. 0 \in S
  <2> HIDE DEF Size
  <2> QED
      BY <1>1
<1>3. ASSUME NEW n \in Nat, n \in S PROVE n + 1 \in S
  <2>1. SUFFICES ASSUME NEW c \in Classes, ~Recursive(c, i), Size(c) < n + 1 PROVE OK(c)
      OBVIOUS
  <2>2. ASSUME NEW e \in ToSet(i[c]) PROVE e \in Classes /\ OK(e)
    <3>1. e \in Classes /\ e \in Ancestors(c, i)
        BY AncestorsByParents, AncestorsAre
    <3>2. ~Recursive(e, i) /\ e \notin Ancestors(e, i)
        BY <2>1, <3>1, ParentsNotRecursive DEF Line
    <3>3. Size(e) \in Nat /\ Size(c) \in Nat /\ Size(e) + 1 <= Size(c)
        BY <3>1, <3>2, AncestorsShrink
    <3>4. Size(e) < n
      <4> HIDE DEF Size
      <4> QED
          BY <2>1, <3>3
    <3> HIDE DEF OK, Size
    <3> QED
        BY <1>3, <3>1, <3>2, <3>4
  <2> DEFINE O == [e \in Classes |-> InOrder(e, i)]
  <2>3. /\ O \in Orders /\ i[c] \in Seq(Classes)
        /\ InOrder(c, i) = IF i[c] = <<>> THEN <<c>> ELSE Join(c, i[c], O)
      BY <2>1, InOrderByParents DEF Orders
  <2>4. Ancestors(c, i) = UNION {Line(e, i) : e \in ToSet(i[c])}
      BY AncestorsByParents
  <2>5. CASE i[c] = <<>>
    <3>1. ToSet(i[c]) = {} /\ ToSet(<<c>>) = {c} /\ <<c>> \in Seq(Classes) /\ <<c>> # <<>> /\ <<c>>[1] = c
        BY <2>5 DEF ToSet
    <3>2. Line(c, i) = {c}
        BY <2>4, <3>1 DEF Line
    <3> QED
        BY <2>3, <2>5, <3>1, <3>2
  <2>6. CASE i[c] # <<>>
    <3>1. /\ InOrder(c, i) = Join(c, i[c], O)
          /\ Join(c, i[c], O) \in Seq(Classes) \ {<<>>}
          /\ ToSet(Join(c, i[c], O)) = {c} \cup UNION {ToSet(O[e]) : e \in ToSet(i[c])}
          /\ Join(c, i[c], O)[1] = c
      <4> HIDE DEF O
      <4> QED
          BY <2>3, <2>6, JoinIs
    <3>2. \A e \in ToSet(i[c]) : ToSet(O[e]) = Line(e, i)
        BY <2>2
    <3>3. UNION {ToSet(O[e]) : e \in ToSet(i[c])} = UNION {Line(e, i) : e \in ToSet(i[c])}
      <4> HIDE DEF O
      <4> QED
          BY <3>2
    <3> HIDE DEF O
    <3> QED
        BY <2>4, <3>1, <3>3 DEF Line
  <2> QED
      BY <2>5, <2>6
<1>4. \A n \in Nat : n \in S
  <2> HIDE DEF S
  <2> QED
      BY <1>2, <1>3, AllNumbers
<1> SUFFICES ASSUME NEW c \in Classes, ~Recursive(c, i) PROVE OK(c)
    OBVIOUS
<1>5. Size(c) + 1 \in Nat /\ Size(c) < Size(c) + 1
  <2> HIDE DEF Size
  <2> QED
      BY <1>1
<1> HIDE DEF OK, Size
<1> QED
    BY <1>4, <1>5

\* What Dfs computes depends on the lists and the cache along the line only.
LEMMA DfsAlong ==
    ASSUME NEW i \in Orders, NEW j \in Orders, NEW l \in Caches, NEW m \in Caches, NEW c \in Classes,
           Agree(i, j, Line(c, i)), Agree(l, m, Line(c, i))
    PROVE  Dfs(c, m, j) = Dfs(c, l, i)
<1>0. Depth \in Nat
    BY DepthType
<1>1. PICK R : Rows(R, Depth, l, i) /\ \A d \in Classes : Dfs(d, l, i) = R[Depth][d]
    BY <1>0, DfsRows
<1>2. PICK Q : Rows(Q, Depth, m, j) /\ \A d \in Classes : Dfs(d, m, j) = Q[Depth][d]
    BY <1>0, DfsRows
<1> DEFINE OK(d) == Agree(i, j, Line(d, i)) /\ Agree(l, m, Line(d, i))
           S == {n \in Nat : n <= Depth => \A d \in Classes : OK(d) => Q[n][d] = R[n][d]}
<1>3. /\ R \in [0..Depth -> Orders] /\ Q \in [0..Depth -> Orders]
      /\ \A n \in 0..Depth : \A d \in Classes : /\ R[n][d] = Entry(d, n = 0, l, i, R[n-1])
                                                /\ Q[n][d] = Entry(d, n = 0, m, j, Q[n-1])
    BY <1>1, <1>2 DEF Rows
<1>4. \A d \in Classes : OK(d) => i[d] = j[d] /\ l[d] = m[d]
    BY DEF Agree, Line
<1>5. 0 \in S
  <2>1. 0 \in 0..Depth /\ (0 = 0) = TRUE
      BY <1>0
  <2>2. ASSUME NEW d \in Classes, OK(d) PROVE Q[0][d] = R[0][d]
    <3>1. R[0][d] = Entry(d, TRUE, l, i, R[0-1]) /\ Q[0][d] = Entry(d, TRUE, m, j, Q[0-1])
        BY <1>3, <2>1
    <3> QED
        BY <1>4, <2>2, <3>1 DEF Entry
  <2> QED
      BY <2>2
<1>6. ASSUME NEW n \in Nat, n \in S PROVE n + 1 \in S
  <2>1. SUFFICES ASSUME n + 1 <= Depth, NEW d \in Classes, OK(d)
                 PROVE  Q[n + 1][d] = R[n + 1][d]
      OBVIOUS
  <2>2. n + 1 \in 0..Depth /\ (n + 1 = 0) = FALSE /\ (n + 1) - 1 = n /\ n \in 0..Depth /\ n <= Depth
      BY <1>0, <2>1
  <2>3. ASSUME NEW e \in ToSet(i[d]) PROVE Q[n][e] = R[n][e]
    <3>1. e \in Line(d, i)
        BY AncestorsAre DEF Line
    <3>2. e \in Classes /\ OK(e)
        BY <2>1, <3>1, LinesWithin DEF Agree
    <3> QED
        BY <1>6, <2>2, <3>2
  <2>4. i[d] = j[d] /\ l[d] = m[d] /\ i[d] \in Seq(Classes) /\ Q[n] \in Orders /\ R[n] \in Orders
      BY <1>3, <1>4, <2>1, <2>2 DEF Orders
  <2>5. Join(d, i[d], Q[n]) = Join(d, i[d], R[n])
      BY <2>3, <2>4, JoinSame
  <2>6. /\ R[n + 1][d] = Entry(d, FALSE, l, i, R[n])
        /\ Q[n + 1][d] = Entry(d, FALSE, m, j, Q[n])
      BY <1>3, <2>2
  <2> QED
      BY <2>4, <2>5, <2>6 DEF Entry
<1>7. Depth \in S
  <2> HIDE DEF S
  <2>1. \A n \in Nat : n \in S
      BY <1>5, <1>6, AllNumbers
  <2> QED
      BY <1>0, <2>1
<1> QED
    BY <1>0, <1>1, <1>2, <1>7

\* Lists that agree on a line give it the same order.
LEMMA SameOrder ==
    ASSUME NEW i \in Orders, NEW j \in Orders, NEW c \in Classes, Agree(i, j, Line(c, i))
    PROVE  InOrder(c, j) = InOrder(c, i)
<1>1. Empty \in Caches /\ Agree(Empty, Empty, Line(c, i))
    BY EmptyCurrent DEF Current, Agree
<1> QED
    BY <1>1, DfsAlong DEF InOrder

\* The lists without those of the classes in bad, and a class whose line has
\* none of these.
Cut(i, bad) == [c \in Classes |-> IF c \in bad THEN <<>> ELSE i[c]]
Clean(c, i, bad) == Line(c, i) \cap bad = {}

NoCycle(i) == \A c \in Classes : c \notin Ancestors(c, i)

LEMMA CutIs ==
    ASSUME NEW i \in Orders, NEW bad
    PROVE  /\ Cut(i, bad) \in Orders
           /\ \A c \in Classes : ToSet(Cut(i, bad)[c]) \subseteq ToSet(i[c])
           /\ \A c \in Classes : c \notin bad => Cut(i, bad)[c] = i[c]
           /\ \A c \in bad \cap Classes : Cut(i, bad)[c] = <<>>
<1>1. <<>> \in Seq(Classes) /\ ToSet(<<>>) = {}
    BY DEF ToSet
<1> QED
    BY <1>1 DEF Cut, Orders

\* Cutting leaves a clean line alone, and whom it passes through is clean.
LEMMA CleanLine ==
    ASSUME NEW i \in Orders, NEW bad, NEW c \in Classes, Clean(c, i, bad)
    PROVE  /\ Agree(i, Cut(i, bad), Line(c, i)) /\ Line(c, Cut(i, bad)) = Line(c, i)
           /\ \A s \in Line(c, i) : s \in Classes /\ Clean(s, i, bad)
<1>1. \A s \in Line(c, i) : s \in Classes /\ Line(s, i) \subseteq Line(c, i) /\ s \notin bad
    BY LinesWithin DEF Clean
<1>2. Agree(i, Cut(i, bad), Line(c, i))
    BY <1>1, CutIs DEF Agree
<1>3. \A s \in Line(c, i) : Clean(s, i, bad)
    BY <1>1 DEF Clean
<1>4. Line(c, Cut(i, bad)) = Line(c, i)
    BY <1>2, CutIs, SameRecursive
<1> QED
    BY <1>1, <1>2, <1>3, <1>4

\* Where only bad classes make cycles, a clean class is in none.
LEMMA CleanNotRecursive ==
    ASSUME NEW i \in Orders, NEW bad, NoCycle(Cut(i, bad)), NEW c \in Classes, Clean(c, i, bad)
    PROVE  ~Recursive(c, i)
<1>1. Cut(i, bad) \in Orders /\ Agree(i, Cut(i, bad), Line(c, i))
    BY CutIs, CleanLine
<1>2. ~Recursive(c, Cut(i, bad))
    BY <1>1, AncestorsAre DEF NoCycle, Recursive
<1> QED
    BY <1>1, <1>2, SameRecursive

-----------------------------------------------------------------------------
(* Caches that may be stale: what they hold of a clean class is current, and *)
(* every list has at least the line that is left when the bad are cut.      *)

Fresh(l, i, bad) == /\ l \in Caches
                    /\ \A c \in Classes : l[c] # Unset /\ Clean(c, i, bad) => l[c] = InOrder(c, i)
ListOf(c, list, m) == Starts(list, c) /\ Line(c, m) \subseteq ToSet(list)
Covers(l, m) == \A c \in Classes : l[c] # Unset => ListOf(c, l[c], m)

\* A fresh cache changes nothing for a clean class.
LEMMA DfsFresh ==
    ASSUME NEW i \in Orders, NEW bad, NoCycle(Cut(i, bad)), NEW l, Fresh(l, i, bad),
           NEW c \in Classes, Clean(c, i, bad)
    PROVE  Dfs(c, l, i) = InOrder(c, i)
<1> DEFINE k == [d \in Classes |-> IF Clean(d, i, bad) THEN l[d] ELSE Unset]
<1>1. l \in Caches /\ k \in Caches
    BY DEF Fresh, Caches
<1>2. Current(k, i)
    BY <1>1, CleanNotRecursive DEF Fresh, Current
<1>3. ~Recursive(c, i)
    BY CleanNotRecursive
<1>4. Dfs(c, k, i) = InOrder(c, i)
  <2> HIDE DEF k
  <2> QED
      BY <1>2, <1>3, DfsCurrent
<1>5. Agree(i, i, Line(c, i)) /\ Agree(l, k, Line(c, i))
    BY CleanLine DEF Agree
<1> HIDE DEF k
<1> QED
    BY <1>1, <1>4, <1>5, DfsAlong

\* A list that is made of lists that cover covers.
LEMMA DfsCovers ==
    ASSUME NEW i \in Orders, NEW m \in Orders, NoCycle(m),
           \A s \in Classes : ToSet(m[s]) \subseteq ToSet(i[s]),
           NEW l \in Caches, Covers(l, m), NEW c \in Classes
    PROVE  ListOf(c, Dfs(c, l, i), m)
<1>0. Depth \in Nat
    BY DepthType
<1>1. PICK R : Rows(R, Depth, l, i) /\ \A d \in Classes : Dfs(d, l, i) = R[Depth][d]
    BY <1>0, DfsRows
<1> DEFINE Size(d) == Cardinality(Ancestors(d, m))
           S == {n \in Nat : n <= Depth => \A d \in Classes : Size(d) <= n => ListOf(d, R[n][d], m)}
<1>2. /\ R \in [0..Depth -> Orders]
      /\ \A n \in 0..Depth : \A d \in Classes : R[n][d] = Entry(d, n = 0, l, i, R[n-1])
    BY <1>1 DEF Rows
<1>3. ASSUME NEW d \in Classes
      PROVE  Size(d) \in Nat /\ Size(d) <= Depth /\ (Size(d) = 0 => Ancestors(d, m) = {})
  <2>1. Ancestors(d, m) \in SUBSET Classes /\ IsFiniteSet(Classes)
      BY AncestorsAre, MethodAssumption
  <2>2. IsFiniteSet(Ancestors(d, m)) /\ Cardinality(Ancestors(d, m)) <= Cardinality(Classes)
      BY <2>1, FS_Subset
  <2> QED
      BY <2>2, FS_CardinalityType, FS_EmptySet DEF Depth
<1>4. ASSUME NEW d \in Classes, Ancestors(d, m) = {} PROVE ListOf(d, <<d>>, m)
    BY <1>4 DEF ListOf, Starts, Line, ToSet
<1>5. 0 \in S
  <2>1. 0 \in 0..Depth /\ (0 = 0) = TRUE
      BY <1>0
  <2>2. ASSUME NEW d \in Classes, Size(d) <= 0 PROVE ListOf(d, R[0][d], m)
    <3>1. R[0][d] = Entry(d, TRUE, l, i, R[0-1])
        BY <1>2, <2>1
    <3>2. Ancestors(d, m) = {}
      <4> HIDE DEF Size
      <4> QED
          BY <1>3, <2>2
    <3> QED
        BY <1>4, <3>1, <3>2 DEF Entry, Covers
  <2> QED
      BY <2>2
<1>6. ASSUME NEW n \in Nat, n \in S PROVE n + 1 \in S
  <2>1. SUFFICES ASSUME n + 1 <= Depth, NEW d \in Classes, Size(d) <= n + 1
                 PROVE  ListOf(d, R[n + 1][d], m)
      OBVIOUS
  <2>2. n + 1 \in 0..Depth /\ (n + 1 = 0) = FALSE /\ (n + 1) - 1 = n /\ n \in 0..Depth /\ n <= Depth
      BY <1>0, <2>1
  <2>3. R[n + 1][d] = Entry(d, FALSE, l, i, R[n]) /\ R[n] \in Orders /\ i[d] \in Seq(Classes)
    <3>1. R[n + 1][d] = Entry(d, FALSE, l, i, R[n]) /\ R[n] \in Orders
      <4> HIDE DEF S, Size
      <4> QED
          BY <1>2, <2>2
    <3>2. i[d] \in Seq(Classes)
        BY DEF Orders
    <3> QED
        BY <3>1, <3>2
  <2>4. Ancestors(d, m) = UNION {Line(e, m) : e \in ToSet(m[d])}
      BY AncestorsByParents
  <2>5. CASE l[d] # Unset
      BY <2>3, <2>5 DEF Entry, Covers
  <2>6. CASE l[d] = Unset /\ i[d] = <<>>
    <3>1. ToSet(m[d]) = {}
        BY <2>6 DEF ToSet
    <3>2. Ancestors(d, m) = {}
        BY <2>4, <3>1
    <3> QED
        BY <1>4, <2>3, <2>6, <3>2 DEF Entry
  <2>7. CASE l[d] = Unset /\ i[d] # <<>>
    <3>1. PICK list : list = Join(d, i[d], R[n])
        OBVIOUS
    <3>2. R[n + 1][d] = list
        BY <2>3, <2>7, <3>1 DEF Entry
    <3>3. /\ Starts(list, d)
          /\ ToSet(list) = {d} \cup UNION {ToSet(R[n][e]) : e \in ToSet(i[d])}
      <4>1. R[n] \in Orders /\ i[d] \in Seq(Classes) /\ list = Join(d, i[d], R[n])
          BY <2>3, <3>1
      <4> QED
          BY <4>1, JoinCovers
    <3>4. ASSUME NEW e \in ToSet(m[d]) PROVE e \in ToSet(i[d]) /\ Line(e, m) \subseteq ToSet(R[n][e])
      <4>1. e \in Ancestors(d, m) /\ e \in Classes /\ e \notin Ancestors(e, m)
          BY AncestorsAre DEF NoCycle
      <4>2. Size(e) \in Nat /\ Size(d) \in Nat /\ Size(e) + 1 <= Size(d)
          BY <4>1, AncestorsShrink
      <4>3. Size(e) <= n
        <5> HIDE DEF Size
        <5> QED
            BY <2>1, <4>2
      <4>4. ListOf(e, R[n][e], m)
        <5> HIDE DEF Size
        <5> QED
            BY <1>6, <2>2, <4>1, <4>3
      <4> QED
          BY <4>4 DEF ListOf
    <3>5. Ancestors(d, m) \subseteq UNION {ToSet(R[n][e]) : e \in ToSet(i[d])}
        BY <2>4, <3>4
    <3> QED
        BY <3>2, <3>3, <3>5 DEF ListOf, Line
  <2> QED
      BY <2>5, <2>6, <2>7
<1>7. Depth \in S
  <2> HIDE DEF S
  <2>1. \A n \in Nat : n \in S
      BY <1>5, <1>6, AllNumbers
  <2> QED
      BY <1>0, <2>1
<1>8. Size(c) <= Depth
    BY <1>3
<1> HIDE DEF Size
<1> QED
    BY <1>0, <1>1, <1>7, <1>8

\* What asking for lists leaves in the cache: Dfs, for those asked for at least.
LEMMA LinearizedIs ==
    ASSUME NEW i \in Orders, NEW l \in Caches, NEW some \in SUBSET Classes
    PROVE  /\ Linearized(some, l, i) \in Caches
           /\ \A c \in Classes : \/ Linearized(some, l, i)[c] = l[c] /\ c \notin some
                               \/ Linearized(some, l, i)[c] = Dfs(c, l, i)
<1> DEFINE asked == Climb(some, Missing(l, i))
<1>1. Linearized(some, l, i) = [c \in Classes |-> IF c \in asked THEN Dfs(c, l, i) ELSE l[c]]
    BY Zenon DEF Linearized, Climb
<1>2. Missing(l, i) \in Orders
    BY DEF Missing, Orders
<1>3. some \subseteq asked
    BY <1>2, ClimbIs
<1>4. \A c \in Classes : Dfs(c, l, i) \in Seq(Classes)
  <2>1. PICK R : Rows(R, Depth, l, i) /\ \A d \in Classes : Dfs(d, l, i) = R[Depth][d]
      BY DepthType, DfsRows
  <2> QED
      BY <2>1, DepthType DEF Rows, Orders
<1> HIDE DEF asked
<1>5. Linearized(some, l, i) \in Caches
    BY <1>1, <1>4 DEF Caches
<1> QED
    BY <1>1, <1>3, <1>5

\* Asking for lists keeps the cache fresh, and covering.
LEMMA LinearizedFresh ==
    ASSUME NEW i \in Orders, NEW bad, NoCycle(Cut(i, bad)), NEW l, Fresh(l, i, bad),
           Covers(l, Cut(i, bad)), NEW some \in SUBSET Classes
    PROVE  /\ Fresh(Linearized(some, l, i), i, bad)
           /\ Covers(Linearized(some, l, i), Cut(i, bad))
           /\ \A c \in some : ListOf(c, Linearized(some, l, i)[c], Cut(i, bad))
<1>1. PICK k : k = Linearized(some, l, i)
    OBVIOUS
<1>2. l \in Caches
    BY DEF Fresh
<1>3. k \in Caches /\ \A c \in Classes : (k[c] = l[c] /\ c \notin some) \/ k[c] = Dfs(c, l, i)
    BY <1>1, <1>2, LinearizedIs
<1>4. Fresh(k, i, bad)
    BY <1>3, DfsFresh DEF Fresh
<1>5. Cut(i, bad) \in Orders /\ \A c \in Classes : ToSet(Cut(i, bad)[c]) \subseteq ToSet(i[c])
    BY CutIs
<1>6. \A c \in Classes : ListOf(c, Dfs(c, l, i), Cut(i, bad))
    BY <1>2, <1>5, DfsCovers
<1>7. Covers(k, Cut(i, bad))
    BY <1>3, <1>6 DEF Covers
<1>8. \A c \in some : ListOf(c, k[c], Cut(i, bad))
    BY <1>3, <1>6
<1> QED
    BY <1>1, <1>4, <1>7, <1>8

-----------------------------------------------------------------------------
(* The first sub of a list *)

Found(list, sb) == LET n == SelectInSeq(list, LAMBDA c : sb[c] # NoSub)
                   IN IF n = 0 THEN NoSub ELSE sb[list[n]]

IsFirst(k, list, sb) == /\ k \in 1..Len(list) /\ sb[list[k]] # NoSub
                        /\ \A j \in 1..Len(list) : j < k => sb[list[j]] = NoSub
HasNone(list, sb) == \A j \in 1..Len(list) : sb[list[j]] = NoSub

LEMMA FoundCases ==
    ASSUME NEW list \in Seq(Classes), NEW sb
    PROVE  /\ HasNone(list, sb) \/ \E k : IsFirst(k, list, sb)
           /\ HasNone(list, sb) => Found(list, sb) = NoSub
           /\ \A k : IsFirst(k, list, sb) => Found(list, sb) = sb[list[k]]
<1> DEFINE I == {j \in 1..Len(list) : sb[list[j]] # NoSub}
<1>1. Found(list, sb) = LET n == IF I # {} THEN Min(I) ELSE 0
                        IN  IF n = 0 THEN NoSub ELSE sb[list[n]]
    BY Zenon DEF Found, SelectInSeq
<1>2. Len(list) \in Nat /\ I \in SUBSET Nat /\ I \subseteq 1..Len(list)
    OBVIOUS
<1>3. HasNone(list, sb) <=> I = {}
    BY DEF HasNone
<1>4. I # {} => \E k : IsFirst(k, list, sb)
  <2>1. SUFFICES ASSUME I # {} PROVE \E k : IsFirst(k, list, sb)
      OBVIOUS
  <2>2. PICK k \in I : \A j \in I : k <= j
    <3> HIDE DEF I
    <3> QED
        BY <1>2, <2>1, LeastIs
  <2>3. \A j \in 1..Len(list) : j < k => j \notin I
    <3> HIDE DEF I
    <3>1. k \in Nat
        BY <1>2
    <3> QED
        BY <2>2, <3>1
  <2>4. IsFirst(k, list, sb)
      BY <2>2, <2>3 DEF IsFirst
  <2> QED
      BY <2>4
<1>5. ASSUME NEW k, IsFirst(k, list, sb) PROVE Found(list, sb) = sb[list[k]]
  <2>1. k \in I /\ k \in Nat /\ k # 0
      BY <1>5 DEF IsFirst
  <2>2. \A j \in I : k <= j
      BY <1>5 DEF IsFirst
  <2>3. Min(I) = k
    <3>1. \A m \in I : (\A j \in I : m <= j) => m = k
      <4> HIDE DEF I
      <4> QED
          BY <1>2, <2>1, <2>2
    <3> HIDE DEF I
    <3> QED
        BY <2>1, <2>2, <3>1 DEF Min
  <2> HIDE DEF I
  <2> QED
      BY <1>1, <2>1, <2>3
<1>6. I = {} => Found(list, sb) = NoSub
  <2> HIDE DEF I
  <2> QED
      BY <1>1
<1> HIDE DEF I
<1> QED
    BY <1>3, <1>4, <1>5, <1>6

LEMMA FoundAt ==
    ASSUME NEW list \in Seq(Classes), NEW sb, NEW k, IsFirst(k, list, sb)
    PROVE  Found(list, sb) = sb[list[k]]
BY FoundCases

\* The same subs in the classes of a list find the same.
LEMMA FoundSame ==
    ASSUME NEW list \in Seq(Classes), NEW sa, NEW sb, Agree(sa, sb, ToSet(list))
    PROVE  Found(list, sa) = Found(list, sb)
<1>1. \A j \in 1..Len(list) : sa[list[j]] = sb[list[j]]
    BY DEF Agree, ToSet
<1>2. CASE HasNone(list, sa)
  <2>1. HasNone(list, sb)
      BY <1>1, <1>2 DEF HasNone
  <2> QED
      BY <1>2, <2>1, FoundCases
<1>3. ASSUME NEW k, IsFirst(k, list, sa) PROVE Found(list, sa) = Found(list, sb)
  <2>1. IsFirst(k, list, sb) /\ sa[list[k]] = sb[list[k]]
      BY <1>1, <1>3 DEF IsFirst
  <2>2. Found(list, sa) = sa[list[k]] /\ Found(list, sb) = sb[list[k]]
      BY <1>3, <2>1, FoundCases
  <2> QED
      BY <2>1, <2>2
<1> QED
    BY <1>2, <1>3, FoundCases

\* A list is searched before the next.
LEMMA FoundFirst ==
    ASSUME NEW s \in Seq(Classes), NEW t \in Seq(Classes), NEW sb
    PROVE  Found(s \o t, sb) = IF Found(s, sb) # NoSub THEN Found(s, sb) ELSE Found(t, sb)
<1>0. PICK u : u = s \o t
    OBVIOUS
<1>1. /\ u \in Seq(Classes) /\ Len(u) = Len(s) + Len(t)
      /\ Len(s) \in Nat /\ Len(t) \in Nat
      /\ \A j \in 1..Len(s) : u[j] = s[j]
      /\ \A j \in 1..Len(t) : u[Len(s) + j] = t[j]
    BY <1>0
<1>8. u \in Seq(Classes)
    BY <1>1
<1> SUFFICES Found(u, sb) = IF Found(s, sb) # NoSub THEN Found(s, sb) ELSE Found(t, sb)
    BY <1>0
<1>2. ASSUME NEW k, IsFirst(k, s, sb)
      PROVE  Found(u, sb) = Found(s, sb) /\ Found(s, sb) # NoSub
  <2>1. k \in 1..Len(s) /\ sb[s[k]] # NoSub /\ \A j \in 1..Len(s) : j < k => sb[s[j]] = NoSub
      BY <1>2 DEF IsFirst
  <2>2. \A j \in 1..Len(u) : j < k => j \in 1..Len(s)
      BY <1>1, <2>1
  <2>3. k \in 1..Len(u) /\ u[k] = s[k]
      BY <1>1, <2>1
  <2>4. IsFirst(k, u, sb)
      BY <1>1, <2>1, <2>2, <2>3 DEF IsFirst
  <2>5. Found(u, sb) = sb[u[k]]
      BY <1>8, <2>4, FoundAt, Zenon
  <2>6. Found(s, sb) = sb[s[k]]
      BY <1>2, FoundAt, Zenon
  <2> QED
      BY <2>1, <2>3, <2>5, <2>6
<1>3. \A j \in 1..Len(u) : j \in 1..Len(s) \/ (j - Len(s) \in 1..Len(t) /\ j = Len(s) + (j - Len(s)))
    BY <1>1
<1>4. ASSUME HasNone(s, sb), HasNone(t, sb) PROVE HasNone(u, sb)
  <2> SUFFICES ASSUME NEW j \in 1..Len(u) PROVE sb[u[j]] = NoSub
      BY DEF HasNone
  <2>1. CASE j \in 1..Len(s)
      BY <1>1, <1>4, <2>1 DEF HasNone
  <2>2. ASSUME NEW m \in 1..Len(t), j = Len(s) + m PROVE sb[u[j]] = NoSub
      BY <1>1, <1>4, <2>2 DEF HasNone
  <2> QED
      BY <1>3, <2>1, <2>2
<1>5. ASSUME HasNone(s, sb), NEW k, IsFirst(k, t, sb)
      PROVE  Found(u, sb) = Found(t, sb)
  <2>1. k \in 1..Len(t) /\ sb[t[k]] # NoSub /\ \A j \in 1..Len(t) : j < k => sb[t[j]] = NoSub
      BY <1>5 DEF IsFirst
  <2>2. Len(s) + k \in 1..Len(u) /\ u[Len(s) + k] = t[k]
      BY <1>1, <2>1
  <2>3. ASSUME NEW j \in 1..Len(u), j < Len(s) + k PROVE sb[u[j]] = NoSub
    <3>1. CASE j \in 1..Len(s)
        BY <1>1, <1>5, <3>1 DEF HasNone
    <3>2. ASSUME NEW m \in 1..Len(t), j = Len(s) + m PROVE sb[u[j]] = NoSub
      <4>1. m < k
          BY <1>1, <2>1, <2>3, <3>2
      <4> QED
          BY <1>1, <2>1, <3>2, <4>1
    <3> QED
        BY <1>3, <3>1, <3>2
  <2>4. IsFirst(Len(s) + k, u, sb)
      BY <2>1, <2>2, <2>3 DEF IsFirst
  <2>5. Found(u, sb) = sb[u[Len(s) + k]]
      BY <1>8, <2>4, FoundAt, Zenon
  <2>6. Found(t, sb) = sb[t[k]]
      BY <1>5, FoundAt, Zenon
  <2> QED
      BY <2>2, <2>5, <2>6
<1>6. CASE \E k : IsFirst(k, s, sb)
    BY <1>2, <1>6
<1>7. CASE HasNone(s, sb)
  <2>1. Found(s, sb) = NoSub
      BY <1>7, FoundCases
  <2>2. CASE HasNone(t, sb)
      BY <1>1, <1>4, <1>7, <2>1, <2>2, FoundCases
  <2>3. CASE \E k : IsFirst(k, t, sb)
      BY <1>5, <1>7, <2>1, <2>3
  <2> QED
      BY <2>2, <2>3, FoundCases
<1> QED
    BY <1>6, <1>7, FoundCases

\* A class's own sub comes before what it inherits.
LEMMA FoundHead ==
    ASSUME NEW s \in Seq(Classes), s # <<>>, NEW sb
    PROVE  Found(s, sb) = IF sb[s[1]] # NoSub THEN sb[s[1]] ELSE Found(Tail(s), sb)
<1>1. /\ <<s[1]>> \in Seq(Classes) /\ Tail(s) \in Seq(Classes) /\ s = <<s[1]>> \o Tail(s)
    OBVIOUS
<1>2. Found(s, sb) = IF Found(<<s[1]>>, sb) # NoSub THEN Found(<<s[1]>>, sb) ELSE Found(Tail(s), sb)
  <2>1. Found(<<s[1]>> \o Tail(s), sb) = IF Found(<<s[1]>>, sb) # NoSub THEN Found(<<s[1]>>, sb)
                                         ELSE Found(Tail(s), sb)
      BY <1>1, FoundFirst, Zenon
  <2> QED
      BY <1>1, <2>1, Zenon
<1>3. PICK u : u = <<s[1]>>
    OBVIOUS
<1>6. /\ u \in Seq(Classes) /\ Len(u) = 1 /\ u[1] = s[1] /\ 1..1 = {1}
    BY <1>1, <1>3
<1>4. CASE sb[s[1]] # NoSub
  <2>1. IsFirst(1, u, sb)
      BY <1>4, <1>6 DEF IsFirst
  <2>2. Found(u, sb) = sb[u[1]]
    <3>1. u \in Seq(Classes)
        BY <1>6
    <3> QED
        BY <2>1, <3>1, FoundAt
  <2> QED
      BY <1>2, <1>3, <1>4, <1>6, <2>2
<1>5. CASE sb[s[1]] = NoSub
  <2>1. HasNone(u, sb)
      BY <1>5, <1>6 DEF HasNone
  <2>2. Found(u, sb) = NoSub
      BY <1>6, <2>1, FoundCases, Zenon
  <2> QED
      BY <1>2, <1>3, <1>5, <2>2
<1> QED
    BY <1>4, <1>5

-----------------------------------------------------------------------------
(* The invariant.  A recursion goes through a class whose assignment croaked: *)
(* the lists without those of these classes have none, and what PL_isarev   *)
(* and the caches are sure to know is about those.                          *)

Mended == Cut(isa, unlisted)

HeirsIn(i, rev) == \A c \in Classes : \A s \in Ancestors(c, i) : c \in rev[s]

\* The method of c by the lists i and the subs sb.
Resolved(c, i, sb) == Found(InOrder(c, i) \o InOrder(Universal, i), sb)
CacheHolds(ca, i, sb, bad) ==
    \A c \in Classes : ca[c] # Unset /\ Clean(c, i, bad) /\ Clean(Universal, i, bad)
                           => ca[c] = Resolved(c, i, sb)

MethodTypes == /\ isa \in Orders
               /\ sub \in [Classes -> (UNION {Bodies[c] : c \in Classes}) \cup {NoSub}]
               /\ isarev \in [Classes -> SUBSET Classes]
               /\ unlisted \in SUBSET Classes

MethodInvariant == /\ MethodTypes
                   /\ NoCycle(Mended) /\ HeirsIn(Mended, isarev)
                   /\ Fresh(linear, isa, unlisted) /\ Covers(linear, Mended)
                   /\ CacheHolds(cached, isa, sub, unlisted)

\* The method of a class depends on its line and on that of UNIVERSAL.
LEMMA ResolvedSame ==
    ASSUME NEW i \in Orders, NEW j \in Orders, NEW sa, NEW sb, NEW c \in Classes,
           ~Recursive(c, i), ~Recursive(Universal, i),
           Agree(i, j, Line(c, i)), Agree(i, j, Line(Universal, i)),
           Agree(sa, sb, Line(c, i)), Agree(sa, sb, Line(Universal, i))
    PROVE  Resolved(c, j, sb) = Resolved(c, i, sa)
<1>0. Universal \in Classes
    BY MethodAssumption
<1>1. InOrder(c, j) = InOrder(c, i) /\ InOrder(Universal, j) = InOrder(Universal, i)
    BY <1>0, SameOrder
<1>2. /\ InOrder(c, i) \in Seq(Classes) /\ ToSet(InOrder(c, i)) = Line(c, i)
      /\ InOrder(Universal, i) \in Seq(Classes) /\ ToSet(InOrder(Universal, i)) = Line(Universal, i)
    BY <1>0, InOrderIs
<1>3. /\ Found(InOrder(c, i), sa) = Found(InOrder(c, i), sb)
      /\ Found(InOrder(Universal, i), sa) = Found(InOrder(Universal, i), sb)
    BY <1>2, FoundSame
<1>4. /\ Resolved(c, i, sa) = IF Found(InOrder(c, i), sa) # NoSub THEN Found(InOrder(c, i), sa)
                              ELSE Found(InOrder(Universal, i), sa)
      /\ Resolved(c, i, sb) = IF Found(InOrder(c, i), sb) # NoSub THEN Found(InOrder(c, i), sb)
                              ELSE Found(InOrder(Universal, i), sb)
    BY <1>2, FoundFirst, Zenon DEF Resolved
<1>5. Resolved(c, j, sb) = Resolved(c, i, sb)
    BY <1>1 DEF Resolved
<1> QED
    BY <1>3, <1>4, <1>5

\* How the method of a class is found: its own, an inherited one, UNIVERSAL's.
LEMMA ResolvedIs ==
    ASSUME NEW i \in Orders, NEW sb, NEW c \in Classes,
           ~Recursive(c, i), ~Recursive(Universal, i)
    PROVE  /\ Resolved(c, i, sb) = IF sb[c] # NoSub THEN sb[c]
                                   ELSE IF Found(Tail(InOrder(c, i)), sb) # NoSub
                                   THEN Found(Tail(InOrder(c, i)), sb)
                                   ELSE Found(InOrder(Universal, i), sb)
           /\ Found(InOrder(Universal, i), sb)
                  = IF sb[Universal] # NoSub THEN sb[Universal]
                    ELSE Found(Tail(InOrder(Universal, i)), sb)
           /\ Resolved(Universal, i, sb) = Found(InOrder(Universal, i), sb)
<1>0. Universal \in Classes
    BY MethodAssumption
<1>1. /\ InOrder(c, i) \in Seq(Classes) /\ InOrder(c, i) # <<>> /\ InOrder(c, i)[1] = c
      /\ InOrder(Universal, i) \in Seq(Classes) /\ InOrder(Universal, i) # <<>>
      /\ InOrder(Universal, i)[1] = Universal
    BY <1>0, InOrderIs
<1>2. /\ Resolved(c, i, sb) = IF Found(InOrder(c, i), sb) # NoSub THEN Found(InOrder(c, i), sb)
                              ELSE Found(InOrder(Universal, i), sb)
      /\ Resolved(Universal, i, sb) = IF Found(InOrder(Universal, i), sb) # NoSub
                                      THEN Found(InOrder(Universal, i), sb)
                                      ELSE Found(InOrder(Universal, i), sb)
    BY <1>1, FoundFirst, Zenon DEF Resolved
<1>3. Found(InOrder(c, i), sb) = IF sb[c] # NoSub THEN sb[c]
                                 ELSE Found(Tail(InOrder(c, i)), sb)
    BY <1>1, FoundHead
<1>4. Found(InOrder(Universal, i), sb)
          = IF sb[Universal] # NoSub THEN sb[Universal]
            ELSE Found(Tail(InOrder(Universal, i)), sb)
    BY <1>1, FoundHead
<1> QED
    BY <1>2, <1>3, <1>4

\* A call on a clean class finds what the lists of this moment give.
LEMMA AnswerIs ==
    ASSUME MethodInvariant, NEW c \in Classes,
           Clean(c, isa, unlisted), Clean(Universal, isa, unlisted)
    PROVE  Answer(c) = Resolved(c, isa, sub) /\ InUniversal = Resolved(Universal, isa, sub)
<1>0. /\ Universal \in Classes /\ isa \in Orders /\ NoCycle(Cut(isa, unlisted))
      /\ Fresh(linear, isa, unlisted) /\ CacheHolds(cached, isa, sub, unlisted)
    BY MethodAssumption DEF MethodInvariant, MethodTypes, Mended
<1>1. \A d \in Classes : sub[d] # NoSub => sub[d] # Unset
    BY MethodAssumption DEF MethodInvariant, MethodTypes
<1>2. /\ Dfs(c, linear, isa) = InOrder(c, isa)
      /\ Dfs(Universal, linear, isa) = InOrder(Universal, isa)
    BY <1>0, DfsFresh
<1>3. \A list : Walk(list) = Found(Tail(list), sub)
    BY DEF Walk, FirstSub, Found
<1>8. ~Recursive(c, isa) /\ ~Recursive(Universal, isa)
    BY <1>0, CleanNotRecursive
<1>4. /\ Resolved(c, isa, sub) = IF sub[c] # NoSub THEN sub[c]
                                   ELSE IF Found(Tail(InOrder(c, isa)), sub) # NoSub
                                   THEN Found(Tail(InOrder(c, isa)), sub)
                                   ELSE Found(InOrder(Universal, isa), sub)
      /\ Found(InOrder(Universal, isa), sub)
                  = IF sub[Universal] # NoSub THEN sub[Universal]
                    ELSE Found(Tail(InOrder(Universal, isa)), sub)
      /\ Resolved(Universal, isa, sub) = Found(InOrder(Universal, isa), sub)
    BY <1>0, <1>8, ResolvedIs
<1>5. /\ cached[c] # Unset => cached[c] = Resolved(c, isa, sub)
      /\ cached[Universal] # Unset => cached[Universal] = Resolved(Universal, isa, sub)
    BY <1>0 DEF CacheHolds
<1>6. InUniversal = Resolved(Universal, isa, sub)
    BY <1>0, <1>1, <1>2, <1>3, <1>4, <1>5 DEF InUniversal, Quick
<1>7. Answer(c) = Resolved(c, isa, sub)
    BY <1>1, <1>2, <1>3, <1>4, <1>5, <1>6 DEF Answer, Quick
<1> QED
    BY <1>6, <1>7

-----------------------------------------------------------------------------
(* The steps *)

\* Who is not known as an heir does not inherit by the lists that were entered.
LEMMA NotHeir ==
    ASSUME MethodInvariant, NEW c \in Classes, NEW d \in Classes, d \notin Heirs(c)
    PROVE  c \notin Line(d, Mended)
BY DEF MethodInvariant, HeirsIn, Heirs, Line

\* A change that is not for everybody is none in the line of UNIVERSAL.
LEMMA NotGlobal ==
    ASSUME NEW c, ~Global(c)
    PROVE  Universal \notin Heirs(c)
BY DEF Global, Heirs

\* What a change of the list of c alone leaves alone in d.
Spared(d, i, bad, j, bad2) ==
    /\ Line(d, Cut(j, bad2)) = Line(d, Cut(i, bad))
    /\ Clean(d, j, bad2) => Clean(d, i, bad) /\ Agree(i, j, Line(d, i)) /\ Line(d, j) = Line(d, i)

LEMMA SparedIs ==
    ASSUME NEW i \in Orders, NEW j \in Orders, NEW bad, NEW bad2,
           NEW c \in Classes, NEW d \in Classes,
           Agree(i, j, Classes \ {c}), bad \ {c} = bad2 \ {c}, c \notin Line(d, Cut(i, bad))
    PROVE  Spared(d, i, bad, j, bad2)
<1>1. PICK m : m = Cut(i, bad)
    OBVIOUS
<1>2. PICK n : n = Cut(j, bad2)
    OBVIOUS
<1>3. m \in Orders /\ n \in Orders
    BY <1>1, <1>2, CutIs
<1>4. Agree(m, n, Classes \ {c})
    BY <1>1, <1>2 DEF Cut, Agree
<1>5. c \notin Line(d, m)
    BY <1>1
<1>6. Line(d, n) = Line(d, m)
    BY <1>3, <1>4, <1>5, Elsewhere
<1>7. ASSUME Clean(d, j, bad2)
      PROVE  Clean(d, i, bad) /\ Agree(i, j, Line(d, i)) /\ Line(d, j) = Line(d, i)
  <2>1. Line(d, j) = Line(d, n)
      BY <1>2, <1>7, CleanLine
  <2>2. c \notin Line(d, j)
      BY <1>5, <1>6, <2>1
  <2>3. Agree(i, j, Line(d, i)) /\ Line(d, j) = Line(d, i)
      BY <2>2, Elsewhere
  <2>4. Clean(d, i, bad)
      BY <1>7, <2>2, <2>3 DEF Clean
  <2> QED
      BY <2>3, <2>4
<1> QED
    BY <1>1, <1>2, <1>6, <1>7 DEF Spared

\* What a change of @ISA changes, and what it leaves of the caches.
LEMMA SetIsaCaches ==
    ASSUME MethodInvariant, NEW c \in Classes, NEW list \in Parents[c], SetIsa(c, list)
    PROVE  /\ isa' \in Orders /\ sub' = sub /\ Agree(isa, isa', Classes \ {c})
           /\ unlisted' \in SUBSET Classes /\ unlisted \ {c} = unlisted' \ {c}
           /\ \A d \in Classes \ Heirs(c) : Spared(d, isa, unlisted, isa', unlisted')
           /\ CacheHolds(cached', isa', sub', unlisted')
<1>0. /\ Universal \in Classes /\ isa \in Orders /\ list \in Seq(Classes) /\ MethodTypes
      /\ unlisted \in SUBSET Classes /\ NoCycle(Cut(isa, unlisted))
    BY MethodAssumption DEF MethodInvariant, MethodTypes, Mended
<1>1. /\ isa' = [isa EXCEPT ![c] = list] /\ sub' = sub
      /\ unlisted' = unlisted \cup {c} \/ unlisted' = unlisted \ {c}
      /\ cached' = Forget(cached, IF Global(c) THEN Classes ELSE Heirs(c))
    BY Zenon DEF SetIsa
<1>2. isa' \in Orders /\ Agree(isa, isa', Classes \ {c})
    BY <1>0, <1>1 DEF Orders, Agree
<1>3. unlisted' \in SUBSET Classes /\ unlisted \ {c} = unlisted' \ {c}
    BY <1>0, <1>1
<1>4. ASSUME NEW d \in Classes, d \notin Heirs(c)
      PROVE  Spared(d, isa, unlisted, isa', unlisted')
  <2>1. c \notin Line(d, Cut(isa, unlisted))
      BY <1>4, NotHeir DEF Mended
  <2> QED
      BY <1>0, <1>2, <1>3, <2>1, SparedIs
<1>5. CacheHolds(cached', isa', sub', unlisted')
  <2> SUFFICES ASSUME NEW d \in Classes, cached'[d] # Unset,
                      Clean(d, isa', unlisted'), Clean(Universal, isa', unlisted')
               PROVE  cached'[d] = Resolved(d, isa', sub')
      BY DEF CacheHolds
  <2>1. ~Global(c) /\ d \notin Heirs(c) /\ cached'[d] = cached[d]
      BY <1>1 DEF Forget
  <2>2. /\ Spared(d, isa, unlisted, isa', unlisted')
        /\ Spared(Universal, isa, unlisted, isa', unlisted')
      BY <1>0, <1>4, <2>1, NotGlobal
  <2>3. /\ Clean(d, isa, unlisted) /\ Clean(Universal, isa, unlisted)
        /\ Agree(isa, isa', Line(d, isa)) /\ Agree(isa, isa', Line(Universal, isa))
      BY <2>2 DEF Spared
  <2>4. cached[d] = Resolved(d, isa, sub)
      BY <2>1, <2>3 DEF MethodInvariant, CacheHolds
  <2>5. ~Recursive(d, isa) /\ ~Recursive(Universal, isa)
      BY <1>0, <2>3, CleanNotRecursive
  <2>6. Agree(sub, sub', Line(d, isa)) /\ Agree(sub, sub', Line(Universal, isa))
      BY <1>1 DEF Agree
  <2>7. Resolved(d, isa', sub') = Resolved(d, isa, sub)
      BY <1>0, <1>2, <2>3, <2>5, <2>6, ResolvedSame
  <2> QED
      BY <2>1, <2>4, <2>7
<1> QED
    BY <1>1, <1>2, <1>3, <1>4, <1>5

\* Forgetting the heirs' lists leaves fresh ones, which cover.
LEMMA ForgottenFresh ==
    ASSUME NEW i \in Orders, NEW j \in Orders, NEW bad, NEW bad2, NEW l, NEW heirs \in SUBSET Classes,
           Fresh(l, i, bad), Covers(l, Cut(i, bad)),
           \A d \in Classes \ heirs : Spared(d, i, bad, j, bad2)
    PROVE  Fresh(Forget(l, heirs), j, bad2) /\ Covers(Forget(l, heirs), Cut(j, bad2))
<1>1. PICK k : k = Forget(l, heirs)
    OBVIOUS
<1>2. /\ l \in Caches /\ k \in Caches
      /\ \A d \in Classes : k[d] # Unset => d \notin heirs /\ k[d] = l[d]
    BY <1>1 DEF Fresh, Forget, Caches
<1>3. ASSUME NEW d \in Classes, k[d] # Unset, Clean(d, j, bad2) PROVE k[d] = InOrder(d, j)
  <2>1. d \notin heirs /\ k[d] = l[d] /\ Spared(d, i, bad, j, bad2)
      BY <1>2, <1>3
  <2>2. Clean(d, i, bad) /\ Agree(i, j, Line(d, i))
      BY <1>3, <2>1 DEF Spared
  <2>3. l[d] = InOrder(d, i)
      BY <1>3, <2>1, <2>2 DEF Fresh
  <2> QED
      BY <2>1, <2>2, <2>3, SameOrder
<1>4. ASSUME NEW d \in Classes, k[d] # Unset PROVE ListOf(d, k[d], Cut(j, bad2))
  <2>1. d \notin heirs /\ k[d] = l[d] /\ Spared(d, i, bad, j, bad2)
      BY <1>2, <1>4
  <2>2. ListOf(d, l[d], Cut(i, bad))
      BY <1>4, <2>1 DEF Covers
  <2> QED
      BY <2>1, <2>2 DEF Spared, ListOf
<1> QED
    BY <1>1, <1>2, <1>3, <1>4 DEF Fresh, Covers

\* If c's list is not endless, its new parents make no cycle: whoever inherits
\* from c is an heir, so that its list has to be walked.
LEMMA NotEndless ==
    ASSUME NEW i \in Orders, NEW m \in Orders, NEW n \in Orders, NEW c \in Classes, NEW l \in Caches,
           NoCycle(m), Agree(m, n, Classes \ {c}), n[c] = i[c], l[c] = Unset,
           \A s \in Classes : ToSet(n[s]) \subseteq ToSet(i[s]),
           \A s \in Classes : c \in Ancestors(s, m) => l[s] = Unset,
           ~Endless(c, l, i)
    PROVE  NoCycle(n)
<1>1. PICK w : w = Missing(l, i)
    OBVIOUS
<1>2. w \in Orders /\ \A s \in Classes : l[s] = Unset => w[s] = i[s]
    BY <1>1 DEF Missing, Orders
<1>3. c \notin Ancestors(c, w)
    BY <1>1 DEF Endless, Recursive
<1> DEFINE Z == Ancestors(c, w) \cup {s \in Classes : c \notin Line(s, m)}
<1>4. ToSet(n[c]) \subseteq Z
    BY <1>2, AncestorsAre
<1>5. ASSUME NEW s \in Z \cap Classes PROVE ToSet(n[s]) \subseteq Z
  <2>1. CASE c \notin Line(s, m)
    <3>1. s # c /\ n[s] = m[s]
        BY <2>1 DEF Line, Agree
    <3>2. \A e \in ToSet(m[s]) : e \in Classes /\ Line(e, m) \subseteq Line(s, m)
        BY LinesWithin, AncestorsAre DEF Line
    <3> QED
        BY <2>1, <3>1, <3>2
  <2>2. CASE c \in Line(s, m)
    <3>1. s \in Ancestors(c, w) /\ s # c /\ c \in Ancestors(s, m)
        BY <1>3, <2>2 DEF Line
    <3>2. w[s] = i[s]
        BY <1>2, <3>1
    <3>3. ToSet(w[s]) \subseteq Ancestors(c, w)
        BY <1>2, <3>1, AncestorsAre DEF ClosedIn
    <3> QED
        BY <3>2, <3>3
  <2> QED
      BY <2>1, <2>2
<1>6. c \notin Z
    BY <1>3 DEF Line
<1>7. Ancestors(c, n) \subseteq Z
  <2> HIDE DEF Z
  <2> QED
      BY <1>4, <1>5, AncestorsAre DEF ClosedIn
<1>8. c \notin Ancestors(c, n)
    BY <1>6, <1>7
<1> QED
    BY <1>8, CyclesThrough DEF NoCycle

\* The two ways an assignment to @c::ISA ends: it asks for all and enters some,
\* and strikes off no other than those.
Enters(c, entered, all) ==
    \E cleaned \in SUBSET entered :
        /\ linear' = Linearized(all, Forget(linear, Heirs(c)), isa')
        /\ isarev' = IsarevWith(entered, cleaned, linear')

LEMMA SetIsaEnters ==
    ASSUME MethodInvariant, NEW c \in Classes, NEW list \in Parents[c], SetIsa(c, list)
    PROVE  \E all \in SUBSET Classes : \E entered \in SUBSET all :
               /\ Enters(c, entered, all)
               /\ \/ /\ entered = Heirs(c) /\ unlisted' = unlisted \ {c}
                     /\ ~Endless(c, Forget(linear, Heirs(c)), isa')
                  \/ unlisted' = unlisted \cup {c}
<1>1. /\ isa' = [isa EXCEPT ![c] = list] /\ isa' \in Orders
      /\ Heirs(c) \in SUBSET Classes /\ c \in Heirs(c)
    BY SetIsaCaches DEF SetIsa, MethodInvariant, MethodTypes, Heirs
<1>2. PICK l : l = Forget(linear, Heirs(c))
    OBVIOUS
<1>3. PICK stuck \in SUBSET Classes : stuck = Stuck(c, l, isa')
    BY <1>1 DEF Stuck
<1>4. \/ /\ stuck = {}
         /\ linear' = Linearized(Heirs(c), l, isa')
         /\ isarev' = IsarevWith(Heirs(c), Heirs(c), linear')
         /\ unlisted' = unlisted \ {c}
      \/ \E entered \in SUBSET (isarev[c] \ stuck), walked \in SUBSET CameTo(stuck, l, isa') :
            /\ linear' = Linearized(entered \cup walked, l, isa')
            /\ isarev' = IsarevWith(entered, entered \ {c}, linear')
            /\ unlisted' = unlisted \cup {c}
    BY <1>1, <1>2, <1>3, Zenon DEF SetIsa
<1>5. CASE /\ stuck = {}
           /\ linear' = Linearized(Heirs(c), l, isa')
           /\ isarev' = IsarevWith(Heirs(c), Heirs(c), linear')
           /\ unlisted' = unlisted \ {c}
  <2>1. ~Endless(c, l, isa')
      BY <1>1, <1>3, <1>5 DEF Stuck
  <2>2. Enters(c, Heirs(c), Heirs(c))
      BY <1>2, <1>5, Zenon DEF Enters
  <2> QED
      BY <1>1, <1>2, <1>5, <2>1, <2>2
<1>6. ASSUME NEW entered \in SUBSET (isarev[c] \ stuck), NEW walked \in SUBSET CameTo(stuck, l, isa'),
             linear' = Linearized(entered \cup walked, l, isa'),
             isarev' = IsarevWith(entered, entered \ {c}, linear'),
             unlisted' = unlisted \cup {c}
      PROVE  \E all \in SUBSET Classes : \E some \in SUBSET all :
                 Enters(c, some, all) /\ unlisted' = unlisted \cup {c}
  <2>1. Missing(l, isa') \in Orders
      BY <1>1 DEF Missing, Orders
  <2>2. CameTo(stuck, l, isa') \subseteq Classes
      BY <1>3, <2>1, AncestorsAre DEF CameTo
  <2>3. entered \cup walked \in SUBSET Classes /\ entered \in SUBSET (entered \cup walked)
      BY <1>6, <2>2 DEF MethodInvariant, MethodTypes
  <2>4. entered \ {c} \in SUBSET entered
      OBVIOUS
  <2>5. Enters(c, entered, entered \cup walked)
      BY <1>2, <1>6, <2>4, Zenon DEF Enters
  <2> QED
      BY <1>6, <2>3, <2>5
<1> QED
    BY <1>4, <1>5, <1>6

\* PL_isarev after the change: who is entered is known to all that it inherits
\* from, and who is not is struck off nowhere.
LEMMA EntersHeirs ==
    ASSUME NEW c \in Classes, NEW all \in SUBSET Classes, NEW entered \in SUBSET all,
           Enters(c, entered, all), isarev \in [Classes -> SUBSET Classes],
           NEW m \in Orders, NEW n \in Orders, NoCycle(n), HeirsIn(m, isarev),
           \A d \in Classes \ entered : Ancestors(d, n) \subseteq Ancestors(d, m),
           \A d \in all : ListOf(d, linear'[d], n)
    PROVE  HeirsIn(n, isarev') /\ isarev' \in [Classes -> SUBSET Classes]
<1>1. PICK cleaned \in SUBSET entered : isarev' = IsarevWith(entered, cleaned, linear')
    BY DEF Enters
<1>2. PICK l : l = linear'
    OBVIOUS
<1>3. PICK r : r = isarev'
    OBVIOUS
<1>4. /\ r \in [Classes -> SUBSET Classes]
      /\ \A s \in Classes : r[s] = (isarev[s] \cup {d \in entered : s \in ToSet(Tail(l[d]))})
                                   \ {d \in cleaned : linear[d] # Unset
                                        /\ s \in ToSet(linear[d]) \ (ToSet(l[d]) \cup {Universal})}
    BY <1>1, <1>2, <1>3 DEF IsarevWith
<1>5. ASSUME NEW d \in Classes, NEW s \in Ancestors(d, n) PROVE d \in r[s]
  <2>1. s \in Classes /\ s # d
      BY AncestorsAre DEF NoCycle
  <2>2. CASE d \in entered
    <3>1. ListOf(d, l[d], n)
        BY <1>2, <2>2
    <3>2. Starts(l[d], d) /\ s \in ToSet(l[d])
        BY <3>1 DEF ListOf, Line
    <3>3. s \in ToSet(Tail(l[d]))
        BY <2>1, <3>2, TailHas
    <3> QED
        BY <1>4, <2>1, <2>2, <3>2, <3>3
  <2>3. CASE d \notin entered
    <3>1. d \in isarev[s]
        BY <2>3 DEF HeirsIn
    <3> QED
        BY <1>4, <2>1, <2>3, <3>1
  <2> QED
      BY <2>2, <2>3
<1> QED
    BY <1>3, <1>4, <1>5 DEF HeirsIn

LEMMA SetIsaStep ==
    ASSUME MethodInvariant, NEW c \in Classes, NEW list \in Parents[c], SetIsa(c, list)
    PROVE  MethodInvariant'
<1>1. /\ isa \in Orders /\ Mended = Cut(isa, unlisted) /\ Mended \in Orders
      /\ NoCycle(Mended) /\ HeirsIn(Mended, isarev) /\ MethodTypes
      /\ Fresh(linear, isa, unlisted) /\ Covers(linear, Mended)
      /\ Heirs(c) \in SUBSET Classes /\ c \in Heirs(c)
    BY CutIs DEF MethodInvariant, MethodTypes, Mended, Heirs
<1>2. /\ isa' \in Orders /\ sub' = sub /\ Agree(isa, isa', Classes \ {c})
      /\ unlisted' \in SUBSET Classes /\ unlisted \ {c} = unlisted' \ {c}
      /\ \A d \in Classes \ Heirs(c) : Spared(d, isa, unlisted, isa', unlisted')
      /\ CacheHolds(cached', isa', sub', unlisted')
    BY SetIsaCaches
<1>3. PICK n \in Orders : n = Cut(isa', unlisted')
    BY <1>2, CutIs
<1>4. PICK l : l = Forget(linear, Heirs(c))
    OBVIOUS
<1>5. /\ Fresh(l, isa', unlisted') /\ Covers(l, n) /\ l \in Caches
      /\ \A d \in Heirs(c) : l[d] = Unset
  <2>1. Fresh(l, isa', unlisted') /\ Covers(l, n)
      BY <1>1, <1>2, <1>3, <1>4, ForgottenFresh
  <2> QED
      BY <1>1, <1>4, <2>1 DEF Fresh, Forget
<1>6. PICK all \in SUBSET Classes : \E entered \in SUBSET all :
               /\ Enters(c, entered, all)
               /\ \/ /\ entered = Heirs(c) /\ unlisted' = unlisted \ {c}
                     /\ ~Endless(c, l, isa')
                  \/ unlisted' = unlisted \cup {c}
    BY <1>4, SetIsaEnters
<1>7. PICK entered \in SUBSET all :
               /\ Enters(c, entered, all)
               /\ \/ /\ entered = Heirs(c) /\ unlisted' = unlisted \ {c}
                     /\ ~Endless(c, l, isa')
                  \/ unlisted' = unlisted \cup {c}
    BY <1>6
<1>8. Agree(Mended, n, Classes \ {c}) /\ \A s \in Classes : ToSet(n[s]) \subseteq ToSet(isa'[s])
  <2>1. Agree(Mended, n, Classes \ {c})
      BY <1>1, <1>2, <1>3 DEF Cut, Agree
  <2> QED
      BY <1>2, <1>3, <2>1, CutIs
<1>9. NoCycle(n) /\ \A d \in Classes \ entered : Ancestors(d, n) \subseteq Ancestors(d, Mended)
  <2>1. CASE unlisted' = unlisted \cup {c}
    <3>1. n[c] = <<>>
        BY <1>2, <1>3, <2>1, CutIs
    <3>2. ToSet(<<>>) = {}
        BY DEF ToSet
    <3>3. \A s \in Classes : ToSet(n[s]) \subseteq ToSet(Mended[s])
        BY <1>8, <3>1, <3>2 DEF Agree
    <3>4. \A d \in Classes : Ancestors(d, n) \subseteq Ancestors(d, Mended)
        BY <1>1, <3>3, FewerAncestors
    <3> QED
        BY <1>1, <3>4 DEF NoCycle
  <2>2. CASE /\ entered = Heirs(c) /\ unlisted' = unlisted \ {c}
             /\ ~Endless(c, l, isa')
    <3>1. n[c] = isa'[c] /\ l[c] = Unset
        BY <1>1, <1>2, <1>3, <1>5, <2>2, CutIs
    <3>2. \A s \in Classes : c \in Ancestors(s, Mended) => l[s] = Unset
        BY <1>1, <1>5 DEF HeirsIn, Heirs
    <3>3. NoCycle(n)
        BY <1>1, <1>2, <1>5, <1>8, <2>2, <3>1, <3>2, NotEndless
    <3>4. \A d \in Classes \ entered : Ancestors(d, n) = Ancestors(d, Mended)
      <4> SUFFICES ASSUME NEW d \in Classes, d \notin entered
                   PROVE  Ancestors(d, n) = Ancestors(d, Mended)
          OBVIOUS
      <4>1. c \notin Line(d, Mended)
          BY <2>2, NotHeir
      <4> QED
          BY <1>1, <1>8, <4>1, Elsewhere
    <3> QED
        BY <3>3, <3>4
  <2> QED
      BY <1>7, <2>1, <2>2
<1>10. /\ Fresh(linear', isa', unlisted') /\ Covers(linear', n)
       /\ \A d \in all : ListOf(d, linear'[d], n)
  <2>1. linear' = Linearized(all, l, isa')
      BY <1>4, <1>7 DEF Enters
  <2>2. NoCycle(Cut(isa', unlisted')) /\ Covers(l, Cut(isa', unlisted'))
      BY <1>3, <1>5, <1>9
  <2>3. /\ Fresh(Linearized(all, l, isa'), isa', unlisted')
        /\ Covers(Linearized(all, l, isa'), Cut(isa', unlisted'))
        /\ \A d \in all : ListOf(d, Linearized(all, l, isa')[d], Cut(isa', unlisted'))
      BY <1>2, <1>5, <2>2, LinearizedFresh
  <2> QED
      BY <1>3, <2>1, <2>3
<1>11. HeirsIn(n, isarev') /\ isarev' \in [Classes -> SUBSET Classes]
  <2>1. isarev \in [Classes -> SUBSET Classes]
      BY <1>1 DEF MethodTypes
  <2> QED
      BY <1>1, <1>7, <1>9, <1>10, <2>1, EntersHeirs
<1>12. MethodTypes' /\ Mended' = n
    BY <1>1, <1>2, <1>3, <1>11 DEF MethodTypes, Mended
<1> QED
    BY <1>2, <1>9, <1>10, <1>11, <1>12 DEF MethodInvariant

LEMMA SetSubStep ==
    ASSUME MethodInvariant, NEW c \in Classes, NEW body \in Bodies[c] \cup {NoSub},
           NEW aliased \in BOOLEAN, SetSub(c, body, aliased)
    PROVE  MethodInvariant'
<1>0. /\ Universal \in Classes /\ isa \in Orders /\ MethodTypes
      /\ NoCycle(Cut(isa, unlisted))
    BY MethodAssumption DEF MethodInvariant, MethodTypes, Mended
<1>1. /\ sub' = [sub EXCEPT ![c] = body] /\ isa' = isa /\ linear' = linear
      /\ isarev' = isarev /\ unlisted' = unlisted
      /\ cached' = Forget(cached, IF aliased \/ Global(c) THEN Classes ELSE Heirs(c))
    BY DEF SetSub, Heirs
<1>2. MethodTypes'
    BY <1>0, <1>1 DEF MethodTypes
<1>3. Mended' = Mended
    BY <1>1 DEF Mended
<1>4. CacheHolds(cached', isa, sub', unlisted)
  <2> SUFFICES ASSUME NEW d \in Classes, cached'[d] # Unset,
                      Clean(d, isa, unlisted), Clean(Universal, isa, unlisted)
               PROVE  cached'[d] = Resolved(d, isa, sub')
      BY DEF CacheHolds
  <2>1. ~Global(c) /\ d \notin Heirs(c) /\ cached'[d] = cached[d]
      BY <1>1 DEF Forget
  <2>2. /\ ~Recursive(d, isa) /\ ~Recursive(Universal, isa)
        /\ cached[d] = Resolved(d, isa, sub)
      BY <1>0, <2>1, CleanNotRecursive DEF MethodInvariant, CacheHolds
  <2>3. c \notin Line(d, Mended) /\ c \notin Line(Universal, Mended)
      BY <1>0, <2>1, NotHeir, NotGlobal
  <2>4. Line(d, Mended) = Line(d, isa) /\ Line(Universal, Mended) = Line(Universal, isa)
      BY <1>0, CleanLine DEF Mended
  <2>5. Line(d, isa) \subseteq Classes /\ Line(Universal, isa) \subseteq Classes
      BY <1>0, AncestorsAre DEF Line
  <2>6. Agree(sub, sub', Line(d, isa)) /\ Agree(sub, sub', Line(Universal, isa))
      BY <1>0, <1>1, <2>3, <2>4, <2>5 DEF Agree, MethodTypes
  <2>7. Agree(isa, isa, Line(d, isa)) /\ Agree(isa, isa, Line(Universal, isa))
      BY DEF Agree
  <2>8. Resolved(d, isa, sub') = Resolved(d, isa, sub)
      BY <1>0, <2>2, <2>6, <2>7, ResolvedSame
  <2> QED
      BY <2>1, <2>2, <2>8
<1> QED
    BY <1>1, <1>2, <1>3, <1>4 DEF MethodInvariant

\* What a lookup asks for may be cached, and nothing else of the lists changes.
LEMMA AskingKeeps ==
    ASSUME MethodInvariant, NEW some \in SUBSET Classes,
           linear' = Linearized(some, linear, isa),
           isa' = isa, sub' = sub, isarev' = isarev, unlisted' = unlisted
    PROVE  /\ MethodTypes' /\ Mended' = Mended
           /\ Fresh(linear', isa, unlisted) /\ Covers(linear', Mended)
<1>1. MethodTypes' /\ Mended' = Mended
    BY DEF MethodInvariant, MethodTypes, Mended
<1>2. /\ isa \in Orders /\ NoCycle(Cut(isa, unlisted)) /\ Fresh(linear, isa, unlisted)
      /\ Covers(linear, Cut(isa, unlisted))
    BY DEF MethodInvariant, MethodTypes, Mended
<1>3. /\ Fresh(Linearized(some, linear, isa), isa, unlisted)
      /\ Covers(Linearized(some, linear, isa), Cut(isa, unlisted))
    BY <1>2, LinearizedFresh
<1> QED
    BY <1>1, <1>3 DEF Mended

LEMMA AsksType == ASSUME NEW c \in Classes PROVE Asks(c) \in SUBSET Classes
BY MethodAssumption DEF Asks

LEMMA LooksUpStep ==
    ASSUME MethodInvariant, NEW c \in Classes, LooksUp(c)
    PROVE  MethodInvariant'
<1>1. /\ isa' = isa /\ sub' = sub /\ isarev' = isarev /\ unlisted' = unlisted
      /\ linear' = Linearized(Asks(c), linear, isa)
    BY DEF LooksUp
<1>2. /\ MethodTypes' /\ Mended' = Mended
      /\ Fresh(linear', isa, unlisted) /\ Covers(linear', Mended)
    BY <1>1, AsksType, AskingKeeps
<1>3. \A d \in Classes : \/ cached'[d] = cached[d]
                         \/ d = c /\ cached'[d] = Answer(c)
                         \/ d = Universal /\ cached'[d] = InUniversal
  <2>1. PICK keeps \in SUBSET Asks(c) :
           cached' = [d \in Classes |-> IF d \notin keeps THEN cached[d]
                                       ELSE IF d = c THEN Answer(c) ELSE InUniversal]
      BY DEF LooksUp
  <2>2. \A d \in keeps : d \in {c, Universal}
      BY DEF Asks
  <2> QED
      BY <2>1, <2>2
<1>4. CacheHolds(cached', isa, sub, unlisted)
  <2> SUFFICES ASSUME NEW d \in Classes, cached'[d] # Unset,
                      Clean(d, isa, unlisted), Clean(Universal, isa, unlisted)
               PROVE  cached'[d] = Resolved(d, isa, sub)
      BY DEF CacheHolds
  <2>1. CASE cached'[d] = cached[d]
      BY <2>1 DEF MethodInvariant, CacheHolds
  <2>2. CASE d = c /\ cached'[d] = Answer(c)
      BY <2>2, AnswerIs
  <2>3. CASE d = Universal /\ cached'[d] = InUniversal
      BY <2>3, AnswerIs
  <2> QED
      BY <1>3, <2>1, <2>2, <2>3
<1> QED
    BY <1>1, <1>2, <1>4 DEF MethodInvariant

\* A lookup that croaks leaves lists that are as good.
LEMMA LookupDiesStep ==
    ASSUME MethodInvariant, NEW c \in Classes, LookupDies(c)
    PROVE  MethodInvariant'
<1>1. /\ isa' = isa /\ sub' = sub /\ isarev' = isarev /\ unlisted' = unlisted
      /\ cached' = cached
    BY DEF LookupDies
<1>2. PICK walked \in SUBSET CameTo(Asks(c), linear, isa) :
          linear' = Linearized(walked, linear, isa)
    BY DEF LookupDies
<1>3. walked \in SUBSET Classes
  <2>1. Missing(linear, isa) \in Orders
      BY DEF Missing, Orders, MethodInvariant, MethodTypes
  <2> QED
      BY <1>2, <2>1, AsksType, AncestorsAre DEF CameTo
<1>4. /\ MethodTypes' /\ Mended' = Mended
      /\ Fresh(linear', isa, unlisted) /\ Covers(linear', Mended)
    BY <1>1, <1>2, <1>3, AskingKeeps
<1> QED
    BY <1>1, <1>4 DEF MethodInvariant

\* A program's first state: nothing inherits, nothing is defined or cached.
LEMMA InitInvariant == MethodInit => MethodInvariant
<1> SUFFICES ASSUME MethodInit PROVE MethodInvariant
    OBVIOUS
<1>1. <<>> \in Seq(Classes)
    OBVIOUS
<1>2. isa \in Orders /\ unlisted = {} /\ linear = Empty /\ \A c \in Classes : cached[c] = Unset
    BY <1>1 DEF MethodInit, Orders, Empty
<1>3. MethodTypes
    BY <1>2 DEF MethodTypes, MethodInit
<1>4. Mended \in Orders /\ \A c \in Classes : Mended[c] = <<>>
    BY <1>1, <1>2 DEF Mended, Cut, Orders, MethodInit
<1>5. \A c \in Classes : Ancestors(c, Mended) = {}
    BY <1>4 DEF Ancestors
<1>6. Fresh(linear, isa, unlisted) /\ Covers(linear, Mended)
  <2>1. Empty \in Caches /\ \A c \in Classes : Empty[c] = Unset
      BY EmptyCurrent DEF Current, Empty
  <2> QED
      BY <1>2, <2>1 DEF Fresh, Covers
<1>7. CacheHolds(cached, isa, sub, unlisted)
    BY <1>2 DEF CacheHolds
<1> QED
    BY <1>3, <1>5, <1>6, <1>7 DEF MethodInvariant, NoCycle, HeirsIn

\* Every change and every lookup keeps the invariant.
LEMMA StepInvariant == MethodInvariant /\ [MethodNext]_MethodVars => MethodInvariant'
<1> SUFFICES ASSUME MethodInvariant, [MethodNext]_MethodVars PROVE MethodInvariant'
    OBVIOUS
<1>1. ASSUME NEW c \in Classes, NEW list \in Parents[c], SetIsa(c, list) PROVE MethodInvariant'
    BY <1>1, SetIsaStep
<1>2. ASSUME NEW c \in Classes, NEW body \in Bodies[c] \cup {NoSub}, NEW aliased \in BOOLEAN,
             SetSub(c, body, aliased)
      PROVE  MethodInvariant'
    BY <1>2, SetSubStep
<1>3. ASSUME NEW c \in Classes, Call(c) PROVE MethodInvariant'
    BY <1>3, LooksUpStep DEF Call
<1>4. ASSUME NEW c \in Classes, Destroy(c) PROVE MethodInvariant'
    BY <1>4, LooksUpStep DEF Destroy
<1>5. ASSUME NEW c \in Classes, LookupDies(c) PROVE MethodInvariant'
    BY <1>5, LookupDiesStep
<1>6. CASE UNCHANGED MethodVars
    BY <1>6 DEF MethodVars, MethodInvariant, MethodTypes, Mended, CacheHolds
<1> QED
    BY <1>1, <1>2, <1>3, <1>4, <1>5, <1>6 DEF MethodNext

-----------------------------------------------------------------------------
(* The theorems *)

LEMMA SettledIsClean == \A c : Settled(c) <=> Clean(c, isa, unlisted)
BY DEF Settled, Clean, Line

\* The inductive invariant of mro_core.c's and gv.c's caches, for any packages
\* and lists and any order of assignments, those that croak half way included:
\* what is cached for the classes that no such assignment is above is current,
\* and all that inherit by the lists that were entered are known.
THEOREM MethodInvariantHolds == MethodSpec => []MethodInvariant
BY InitInvariant, StepInvariant, PTL DEF MethodSpec

\* mro_get_linear_isa never hands out a stale list for a settled class.
LEMMA InvariantLinear == MethodInvariant => LinearCurrent
BY SettledIsClean DEF MethodInvariant, LinearCurrent, Fresh, Order, InOrder, Empty

THEOREM LinearCurrentHolds == MethodSpec => []LinearCurrent
BY MethodInvariantHolds, InvariantLinear, PTL

\* mro_isa_changed_in and mro_method_changed_in reach every settled class that
\* inherits.
LEMMA InvariantHeirs == MethodInvariant => HeirsKnown
<1> SUFFICES ASSUME MethodInvariant, NEW c \in Classes, Settled(c), NEW s \in Ancestors(c, isa)
             PROVE  c \in isarev[s]
    BY DEF HeirsKnown
<1>1. Clean(c, isa, unlisted) /\ isa \in Orders
    BY SettledIsClean DEF MethodInvariant, MethodTypes
<1>2. /\ Agree(isa, Mended, Line(c, isa)) /\ Mended \in Orders
    BY <1>1, CleanLine, CutIs DEF Mended
<1>3. Ancestors(c, Mended) = Ancestors(c, isa)
    BY <1>1, <1>2, SameAncestors
<1> QED
    BY <1>3 DEF MethodInvariant, HeirsIn

THEOREM HeirsKnownHolds == MethodSpec => []HeirsKnown
BY MethodInvariantHolds, InvariantHeirs, PTL

\* gv_fetchmeth finds, through its caches, what it would find without any.
LEMMA InvariantFound == MethodInvariant => MethodFound
<1> SUFFICES ASSUME MethodInvariant, Settled(Universal), NEW c \in Classes, Settled(c)
             PROVE  Answer(c) = Resolve(c)
    BY DEF MethodFound
<1>1. Answer(c) = Resolved(c, isa, sub)
    BY SettledIsClean, AnswerIs
<1>2. Resolve(c) = Resolved(c, isa, sub)
    BY DEF Resolve, Resolved, FirstSub, Found, Order, InOrder, Empty
<1> QED
    BY <1>1, <1>2

THEOREM MethodFoundHolds == MethodSpec => []MethodFound
BY MethodInvariantHolds, InvariantFound, PTL
=============================================================================
