------------------------- MODULE ThreadQueueProofs -------------------------
(***************************************************************************)
(* For any threads, batches, counts, positions and limits: a Thread::Queue *)
(* neither loses nor doubles nor reorders an item, and a producer that     *)
(* waited at the limit goes on only below it.                              *)
(***************************************************************************)
EXTENDS ThreadQueue, TLAPS

\* ItemsConserved, item by item.
Conserved(q, g, n) ==
    /\ \A i, j \in 1..Len(q) : q[i] = q[j] => i = j
    /\ \A i \in 1..Len(q) : q[i] \notin g /\ q[i] \in 1..n - 1
    /\ g \subseteq 1..n - 1
    /\ \A x \in 1..n - 1 : x \notin g => \E i \in 1..Len(q) : q[i] = x

\* Items of q that are in r are there in the same order.
InOrder(q, r) == \A i, j \in 1..Len(q), k, l \in 1..Len(r) :
                     i < j /\ r[k] = q[i] /\ r[l] = q[j] => k < l

\* The operands are those of ItemsConserved.
LEMMA ItemByItem ==
    ASSUME NEW q \in Seq(Nat \ {0}), NEW g, NEW n \in Nat \ {0}
    PROVE  /\ \A i, j \in DOMAIN q : q[i] = q[j] => i = j
           /\ ToSet(q) \cap g = {}
           /\ ToSet(q) \cup g = 1..(n - 1)
           <=> Conserved(q, g, n)
<1>1. DOMAIN q = 1..Len(q) /\ ToSet(q) = {q[i] : i \in 1..Len(q)}
    BY DEF ToSet
<1> DEFINE s == {q[i] : i \in 1..Len(q)}
<1>3. s \cap g = {} <=> \A i \in 1..Len(q) : q[i] \notin g
    OBVIOUS
<1>4. s \cup g = 1..n - 1 <=>
          /\ \A i \in 1..Len(q) : q[i] \in 1..n - 1
          /\ g \subseteq 1..n - 1
          /\ \A x \in 1..n - 1 : x \notin g => \E i \in 1..Len(q) : q[i] = x
  <2> DEFINE m == 1..n - 1
  <2> HIDE DEF m
  <2>1. s \cup g = m <=> s \subseteq m /\ g \subseteq m /\ \A x \in m : x \notin g => x \in s
      BY Zenon DEF s
  <2>2. s \subseteq m <=> \A i \in 1..Len(q) : q[i] \in m
      BY Zenon
  <2>3. \A x : x \in s <=> \E i \in 1..Len(q) : q[i] = x
      BY Zenon
  <2> QED
      BY <2>1, <2>2, <2>3 DEF m
<1> HIDE DEF s
<1> QED
    BY <1>1, <1>3, <1>4, Zenon DEF Conserved, s

\* What insert and enqueue make of a queue q: n new items after the first pos.
Widened(q, pos, n, first) ==
    SubSeq(q, 1, pos) \o [i \in 1..n |-> first + i - 1] \o SubSeq(q, pos + 1, Len(q))

\* The numbers that items have.
Item == Nat \ {0}

\* The part of a sequence after its first m elements.
LEMMA Tails ==
    ASSUME NEW q \in Seq(Item), NEW m \in 0..Len(q)
    PROVE  LET c == SubSeq(q, m + 1, Len(q)) IN
           /\ c \in Seq(Item) /\ Len(c) = Len(q) - m
           /\ \A k \in 1..Len(q) - m : c[k] = q[m + k]
<1>1. Len(q) \in Nat
    OBVIOUS
<1>2. \A k \in m + 1..Len(q) : q[k] \in Item
    OBVIOUS
<1> QED
    BY <1>1, <1>2

\* w has the items of q, and n new ones after the first pos.
WideAs(w, q, pos, n, first) ==
    /\ w \in Seq(Item) /\ Len(w) = Len(q) + n
    /\ \A k \in 1..pos : w[k] = q[k]
    /\ \A k \in pos + 1..pos + n : w[k] = first + (k - pos) - 1
    /\ \A k \in pos + n + 1..Len(w) : w[k] = q[k - n]

\* insert's SubSeqs and the new items, position by position.
LEMMA WidenedItems ==
    ASSUME NEW q \in Seq(Item), NEW pos \in 0..Len(q), NEW n \in Nat, NEW first \in Nat \ {0},
           \A i \in 1..n : first + i - 1 \in Item
    PROVE  WideAs(Widened(q, pos, n, first), q, pos, n, first)
<1> DEFINE a == SubSeq(q, 1, pos)
           b == [i \in 1..n |-> first + i - 1]
           c == SubSeq(q, pos + 1, Len(q))
           l == Len(q) - pos
<1>0. pos \in Nat /\ Len(q) \in Nat /\ l \in Nat /\ Len(q) = pos + l
    OBVIOUS
<1>1. /\ a \in Seq(Item) /\ Len(a) = pos /\ \A k \in 1..pos : a[k] = q[k]
    OBVIOUS
<1>2. /\ b \in Seq(Item) /\ Len(b) = n /\ \A k \in 1..n : b[k] = first + k - 1
    OBVIOUS
<1>3. c \in Seq(Item) /\ Len(c) = l /\ \A k \in 1..l : c[k] = q[pos + k]
    BY Tails
<1>7. Widened(q, pos, n, first) = a \o b \o c
    BY DEF Widened
<1> HIDE DEF a, b, c, l
<1>4. /\ a \o b \in Seq(Item) /\ Len(a \o b) = pos + n
      /\ \A k \in 1..pos : (a \o b)[k] = a[k]
      /\ \A k \in pos + 1..pos + n : (a \o b)[k] = b[k - pos]
  <2>1. /\ a \in Seq(Item) /\ b \in Seq(Item) /\ pos \in Nat /\ n \in Nat
        /\ Len(a) = pos /\ Len(b) = n
      BY <1>0, <1>1, <1>2
  <2> QED
      BY <2>1
<1> DEFINE ab == a \o b
           r == ab \o c
<1> HIDE DEF ab
<1>5. ab \in Seq(Item) /\ Len(ab) = pos + n /\ pos + n \in Nat
    BY <1>0, <1>4 DEF ab
<1>6. /\ r \in Seq(Item) /\ Len(r) = pos + n + l
      /\ \A k \in 1..pos + n : r[k] = ab[k]
      /\ \A k \in pos + n + 1..pos + n + l : r[k] = c[k - (pos + n)]
  <2>1. /\ ab \in Seq(Item) /\ c \in Seq(Item) /\ pos + n \in Nat /\ l \in Nat
        /\ Len(ab) = pos + n /\ Len(c) = l
      BY <1>0, <1>3, <1>5
  <2> QED
      BY <2>1
<1> HIDE DEF r
<1>8. \A k \in pos + n + 1..pos + n + l : c[k - (pos + n)] = q[k - n]
  <2> SUFFICES ASSUME NEW k \in pos + n + 1..pos + n + l
               PROVE  c[k - (pos + n)] = q[k - n]
      OBVIOUS
  <2>1. k - (pos + n) \in 1..l /\ pos + (k - (pos + n)) = k - n
      BY <1>0
  <2> QED
      BY <1>3, <2>1
<1>9. \A k \in pos + 1..pos + n : b[k - pos] = first + (k - pos) - 1
  <2> SUFFICES ASSUME NEW k \in pos + 1..pos + n
               PROVE  b[k - pos] = first + (k - pos) - 1
      OBVIOUS
  <2>1. k - pos \in 1..n
      BY <1>0
  <2> QED
      BY <1>2, <2>1
<1>10. \A k \in pos + 1..pos + n : r[k] = first + (k - pos) - 1
  <2> SUFFICES ASSUME NEW k \in pos + 1..pos + n PROVE r[k] = first + (k - pos) - 1
      OBVIOUS
  <2>1. k \in 1..pos + n
      BY <1>0
  <2> QED
      BY <1>4, <1>6, <1>9, <2>1 DEF ab
<1>11. \A k \in 1..pos : r[k] = q[k]
    BY <1>0, <1>1, <1>4, <1>6 DEF ab
<1>12. Widened(q, pos, n, first) = r
    BY <1>7 DEF r, ab
<1>13. Len(r) = Len(q) + n /\ \A k \in pos + n + 1..Len(r) : r[k] = q[k - n]
    BY <1>0, <1>6, <1>8
<1> QED
    BY <1>6, <1>10, <1>11, <1>12, <1>13 DEF WideAs

\* What is left of a queue q when n items after the first i are taken out.
Shortened(q, i, n) == SubSeq(q, 1, i) \o SubSeq(q, i + n + 1, Len(q))

\* w has the items of q but for n of them after the first i.
ShortAs(w, q, i, n) ==
    /\ w \in Seq(Item) /\ Len(w) = Len(q) - n
    /\ \A k \in 1..i : w[k] = q[k]
    /\ \A k \in i + 1..Len(w) : w[k] = q[k + n]

\* extract's and dequeue's SubSeqs, position by position.
LEMMA ShortenedItems ==
    ASSUME NEW q \in Seq(Item), NEW i \in 0..Len(q), NEW n \in 0..Len(q) - i
    PROVE  ShortAs(Shortened(q, i, n), q, i, n)
<1> DEFINE a == SubSeq(q, 1, i)
           m == i + n
           c == SubSeq(q, m + 1, Len(q))
           l == Len(q) - m
<1>0. /\ i \in Nat /\ n \in Nat /\ l \in Nat /\ m \in Nat /\ Len(q) \in Nat
      /\ m \in 0..Len(q) /\ m = i + n /\ Len(q) = m + l
    OBVIOUS
<1>1. /\ a \in Seq(Item) /\ Len(a) = i /\ \A k \in 1..i : a[k] = q[k]
    OBVIOUS
<1>2. Shortened(q, i, n) = a \o c
    BY DEF Shortened
<1> HIDE DEF m, l
<1>3. c \in Seq(Item) /\ Len(c) = l /\ \A k \in 1..l : c[k] = q[m + k]
    BY <1>0, Tails DEF l
<1> DEFINE r == a \o c
<1> HIDE DEF a, c
<1>4. /\ r \in Seq(Item) /\ Len(r) = i + l
      /\ \A k \in 1..i : r[k] = a[k]
      /\ \A k \in i + 1..i + l : r[k] = c[k - i]
  <2>1. a \in Seq(Item) /\ c \in Seq(Item) /\ i \in Nat /\ l \in Nat /\ Len(a) = i /\ Len(c) = l
      BY <1>0, <1>1, <1>3
  <2> QED
      BY <2>1
<1> HIDE DEF r
<1>5. \A k \in i + 1..i + l : c[k - i] = q[k + n]
  <2> SUFFICES ASSUME NEW k \in i + 1..i + l PROVE c[k - i] = q[k + n]
      OBVIOUS
  <2>1. k - i \in 1..l /\ m + (k - i) = k + n
      BY <1>0
  <2> QED
      BY <1>3, <2>1
<1>6. Len(r) = Len(q) - n
    BY <1>0, <1>4
<1>7. /\ \A k \in 1..i : r[k] = q[k]
      /\ \A k \in i + 1..Len(r) : r[k] = q[k + n]
    BY <1>1, <1>4, <1>5
<1>8. Shortened(q, i, n) = r
    BY <1>2 DEF r
<1> QED
    BY <1>4, <1>6, <1>7, <1>8 DEF ShortAs

-----------------------------------------------------------------------------
(* Arrivals and departures *)

\* insert and enqueue: the new items are new, and the others keep their order.
LEMMA Arrive ==
    ASSUME NEW q \in Seq(Nat \ {0}), NEW g, NEW first \in Nat \ {0}, Conserved(q, g, first),
           NEW pos \in 0..Len(q), NEW n \in Nat
    PROVE  LET r == Widened(q, pos, n, first) IN
           /\ r \in Seq(Nat \ {0})
           /\ Conserved(r, g, first + n)
           /\ InOrder(q, r)
<1> DEFINE r == Widened(q, pos, n, first)
<1>0. Len(q) \in Nat /\ pos \in Nat /\ pos <= Len(q)
    OBVIOUS
<1>1. \A i \in 1..n : first + i - 1 \in Nat \ {0}
    OBVIOUS
<1>2. /\ r \in Seq(Nat \ {0}) /\ Len(r) = Len(q) + n
      /\ \A k \in 1..pos : r[k] = q[k]
      /\ \A k \in pos + 1..pos + n : r[k] = first + (k - pos) - 1
      /\ \A k \in pos + n + 1..Len(r) : r[k] = q[k - n]
  <2>1. q \in Seq(Item) /\ \A i \in 1..n : first + i - 1 \in Item
      BY <1>1 DEF Item
  <2>2. WideAs(r, q, pos, n, first)
      BY <2>1, WidenedItems
  <2> QED
      BY <2>2 DEF WideAs, Item
<1> HIDE DEF r
\* Where the k-th item of r comes from.
<1> DEFINE Old(k) == IF k <= pos THEN k ELSE k - n
           IsNew(k) == k \in pos + 1..pos + n
<1>3. \A k \in 1..Len(r) : \/ IsNew(k) /\ r[k] = first + (k - pos) - 1
                           \/ ~IsNew(k) /\ Old(k) \in 1..Len(q) /\ r[k] = q[Old(k)]
    BY <1>0, <1>2
<1>12. \A k, l \in 1..Len(r) : ~IsNew(k) /\ ~IsNew(l) =>
           (Old(k) = Old(l) => k = l) /\ (Old(k) < Old(l) => k < l)
  <2> SUFFICES ASSUME NEW k \in 1..Len(r), NEW l \in 1..Len(r), ~IsNew(k), ~IsNew(l)
               PROVE  (Old(k) = Old(l) => k = l) /\ (Old(k) < Old(l) => k < l)
      OBVIOUS
  <2>1. (k <= pos \/ k > pos + n) /\ (l <= pos \/ l > pos + n)
      BY <1>0, <1>2
  <2>2. k \in Nat /\ l \in Nat /\ n \in Nat /\ pos \in Nat
      BY <1>0, <1>2
  <2> HIDE DEF IsNew
  <2> QED
      BY <2>1, <2>2
<1>13. \A k \in 1..Len(r) : IsNew(k) => r[k] >= first
    BY <1>0, <1>3
<1> HIDE DEF Old
<1>14. \A i, j \in 1..Len(q) : q[i] = q[j] => i = j
    BY DEF Conserved
<1>4. \A k \in 1..Len(q) : q[k] \in 1..first - 1
    BY DEF Conserved
<1>5. \A k, l \in 1..Len(r) : IsNew(k) /\ ~IsNew(l) => r[k] # r[l]
  <2> SUFFICES ASSUME NEW k \in 1..Len(r), NEW l \in 1..Len(r), IsNew(k), ~IsNew(l)
               PROVE  r[k] # r[l]
      OBVIOUS
  <2>1. r[k] >= first
      BY <1>0, <1>3
  <2>2. r[l] \in 1..first - 1
      BY <1>3, <1>4
  <2> QED
      BY <2>1, <2>2
<1>6. \A k, l \in 1..Len(r) : r[k] = r[l] => k = l
  <2> SUFFICES ASSUME NEW k \in 1..Len(r), NEW l \in 1..Len(r), r[k] = r[l] PROVE k = l
      OBVIOUS
  <2>1. CASE IsNew(k) /\ IsNew(l)
    <3>1. first + (k - pos) - 1 = first + (l - pos) - 1
        BY <1>3, <2>1
    <3> QED
        BY <1>0, <3>1
  <2>2. CASE ~IsNew(k) /\ ~IsNew(l)
    <3>1. Old(k) = Old(l)
        BY <1>3, <1>14, <2>2
    <3> QED
        BY <1>12, <2>2, <3>1
  <2> QED
      BY <1>5, <2>1, <2>2
<1>7. \A k \in 1..Len(r) : r[k] \notin g /\ r[k] \in 1..(first + n) - 1
  <2> SUFFICES ASSUME NEW k \in 1..Len(r)
               PROVE  r[k] \notin g /\ r[k] \in 1..(first + n) - 1
      OBVIOUS
  <2>1. CASE IsNew(k)
    <3>1. r[k] = first + (k - pos) - 1 /\ k - pos \in 1..n
        BY <1>0, <1>3, <2>1
    <3> QED
        BY <3>1 DEF Conserved
  <2>2. CASE ~IsNew(k)
    <3>1. Old(k) \in 1..Len(q) /\ r[k] = q[Old(k)]
        BY <1>3, <2>2
    <3> QED
        BY <3>1 DEF Conserved
  <2> QED
      BY <2>1, <2>2
<1>8. g \subseteq 1..(first + n) - 1
    BY DEF Conserved
<1>9. ASSUME NEW x \in 1..(first + n) - 1, x \notin g PROVE \E k \in 1..Len(r) : r[k] = x
  <2>1. CASE x >= first
    <3>1. pos + 1 + (x - first) \in pos + 1..pos + n
        BY <1>0, <2>1
    <3>2. r[pos + 1 + (x - first)] = x
        BY <1>0, <1>2, <3>1
    <3>3. pos + 1 + (x - first) \in 1..Len(r)
        BY <1>0, <1>2, <3>1
    <3> QED
        BY <3>2, <3>3
  <2>2. CASE x < first
    <3>1. PICK i \in 1..Len(q) : q[i] = x
        BY <1>9, <2>2 DEF Conserved
    <3>2. CASE i <= pos
        BY <1>0, <1>2, <3>1, <3>2
    <3>3. CASE i > pos
      <4>1. i + n \in pos + n + 1..Len(r) /\ i + n \in 1..Len(r) /\ (i + n) - n = i
          BY <1>0, <1>2, <3>3
      <4> QED
          BY <1>2, <3>1, <4>1
    <3> QED
        BY <1>0, <3>2, <3>3
  <2> QED
      BY <2>1, <2>2
<1>10. Conserved(r, g, first + n)
    BY <1>6, <1>7, <1>8, <1>9 DEF Conserved
<1>11. InOrder(q, r)
  <2> SUFFICES ASSUME NEW i \in 1..Len(q), NEW j \in 1..Len(q), NEW k \in 1..Len(r), NEW l \in 1..Len(r),
                      i < j, r[k] = q[i], r[l] = q[j]
               PROVE  k < l
      BY DEF InOrder
  <2>1. q[i] \in 1..first - 1 /\ q[j] \in 1..first - 1
      BY <1>4
  <2>2. ~(r[k] >= first) /\ ~(r[l] >= first)
      BY <2>1
  <2>3. ~IsNew(k) /\ ~IsNew(l)
      BY <1>13, <2>2
  <2>4. Old(k) = i /\ Old(l) = j
      BY <1>3, <1>14, <2>3
  <2> QED
      BY <1>12, <2>3, <2>4
<1> QED
    BY <1>2, <1>10, <1>11 DEF r

\* dequeue and extract: the items taken are gone, the others keep their order.
LEMMA Depart ==
    ASSUME NEW q \in Seq(Nat \ {0}), NEW g, NEW first \in Nat \ {0}, Conserved(q, g, first),
           NEW i \in 0..Len(q), NEW n \in 0..Len(q) - i
    PROVE  LET r == Shortened(q, i, n) IN
           /\ r \in Seq(Nat \ {0})
           /\ Conserved(r, g \cup {q[k] : k \in i + 1..i + n}, first)
           /\ InOrder(q, r)
<1> DEFINE r == Shortened(q, i, n)
           taken == {q[k] : k \in i + 1..i + n}
<1>0. Len(q) \in Nat /\ i \in Nat /\ n \in Nat /\ i + n <= Len(q)
    OBVIOUS
<1>1. /\ r \in Seq(Nat \ {0}) /\ Len(r) = Len(q) - n
      /\ \A k \in 1..i : r[k] = q[k]
      /\ \A k \in i + 1..Len(r) : r[k] = q[k + n]
  <2>1. q \in Seq(Item)
      BY DEF Item
  <2>2. ShortAs(r, q, i, n)
      BY <2>1, ShortenedItems
  <2> QED
      BY <2>2 DEF ShortAs, Item
<1> HIDE DEF r
\* Where the k-th item of r was.
<1> DEFINE Old(k) == IF k <= i THEN k ELSE k + n
<1>2. \A k \in 1..Len(r) : /\ Old(k) \in 1..Len(q) /\ r[k] = q[Old(k)]
                           /\ Old(k) \notin i + 1..i + n
  <2> SUFFICES ASSUME NEW k \in 1..Len(r)
               PROVE  /\ Old(k) \in 1..Len(q) /\ r[k] = q[Old(k)]
                      /\ Old(k) \notin i + 1..i + n
      OBVIOUS
  <2>1. CASE k <= i
      BY <1>0, <1>1, <2>1
  <2>2. CASE k > i
    <3>1. k \in i + 1..Len(r) /\ k + n \in 1..Len(q) /\ k + n > i + n /\ Old(k) = k + n
        BY <1>0, <1>1, <2>2
    <3> QED
        BY <1>0, <1>1, <3>1
  <2> QED
      BY <1>0, <1>1, <2>1, <2>2
<1>3. \A k, l \in 1..Len(r) : (Old(k) = Old(l) => k = l) /\ (Old(k) < Old(l) => k < l)
    BY <1>0, <1>1
<1> HIDE DEF Old
<1>4. /\ \A k, l \in 1..Len(q) : q[k] = q[l] => k = l
      /\ \A k \in 1..Len(q) : q[k] \notin g /\ q[k] \in 1..first - 1
      /\ g \subseteq 1..first - 1
      /\ \A x \in 1..first - 1 : x \notin g => \E k \in 1..Len(q) : q[k] = x
    BY DEF Conserved
<1>12. \A k, l \in 1..Len(q) : q[k] = q[l] => k = l
    BY <1>4
<1>13. \A k \in 1..Len(r) : Old(k) \in 1..Len(q) /\ r[k] = q[Old(k)]
    BY <1>2
<1>5. \A k, l \in 1..Len(r) : r[k] = r[l] => k = l
  <2> SUFFICES ASSUME NEW k \in 1..Len(r), NEW l \in 1..Len(r), r[k] = r[l] PROVE k = l
      OBVIOUS
  <2>1. Old(k) = Old(l)
      BY <1>12, <1>13
  <2> QED
      BY <1>3, <2>1
<1>6. i + 1..i + n \subseteq 1..Len(q)
    BY <1>0
<1>7. ASSUME NEW k \in 1..Len(r) PROVE r[k] \notin g \cup taken /\ r[k] \in 1..first - 1
  <2>1. r[k] \notin taken
    <3>1. \A l \in i + 1..i + n : q[l] # q[Old(k)]
        BY <1>2, <1>4, <1>6
    <3> QED
        BY <1>2, <3>1
  <2> QED
      BY <1>2, <1>4, <2>1
<1>8. g \cup taken \subseteq 1..first - 1
  <2>1. \A k \in i + 1..i + n : q[k] \in 1..first - 1
      BY <1>4, <1>6
  <2>2. taken \subseteq 1..first - 1
      BY <2>1, Zenon
  <2>3. g \subseteq 1..first - 1
      BY <1>4
  <2> QED
      BY <2>2, <2>3, Zenon
<1>9. ASSUME NEW x \in 1..first - 1, x \notin g \cup taken PROVE \E k \in 1..Len(r) : r[k] = x
  <2>1. PICK k \in 1..Len(q) : q[k] = x
      BY <1>4, <1>9
  <2>2. k \notin i + 1..i + n
      BY <1>9, <2>1
  <2>3. CASE k <= i
    <3>1. k \in 1..i /\ k \in 1..Len(r)
        BY <1>0, <1>1, <2>3
    <3> QED
        BY <1>1, <2>1, <3>1
  <2>4. CASE k > i + n
    <3>1. k - n \in i + 1..Len(r) /\ k - n \in 1..Len(r) /\ (k - n) + n = k
        BY <1>0, <1>1, <2>4
    <3> QED
        BY <1>1, <2>1, <3>1
  <2> QED
      BY <1>0, <2>2, <2>3, <2>4
<1>10. Conserved(r, g \cup taken, first)
  <2> HIDE DEF taken
  <2> QED
      BY <1>5, <1>7, <1>8, <1>9 DEF Conserved
<1>11. InOrder(q, r)
  <2> SUFFICES ASSUME NEW a \in 1..Len(q), NEW b \in 1..Len(q), NEW k \in 1..Len(r), NEW l \in 1..Len(r),
                      a < b, r[k] = q[a], r[l] = q[b]
               PROVE  k < l
      BY DEF InOrder
  <2>1. Old(k) = a /\ Old(l) = b
      BY <1>12, <1>13
  <2> QED
      BY <1>3, <2>1
<1> QED
    BY <1>1, <1>10, <1>11 DEF r

-----------------------------------------------------------------------------
(* What a step does *)

Arrived == \E pos \in 0..Len(queue), n \in Nat :
               /\ queue' = Widened(queue, pos, n, next)
               /\ next' = next + n /\ next' <= MaxItems + 1
               /\ gone' = gone

Departed == \E i \in 0..Len(queue) : \E n \in 0..Len(queue) - i :
                /\ queue' = Shortened(queue, i, n)
                /\ next' = next
                /\ gone' = gone \cup {queue[k] : k \in i + 1..i + n}

ItemsMove == Arrived \/ Departed \/ UNCHANGED <<queue, next, gone>>

ThreadsMove == /\ ended' \in BOOLEAN
               /\ limit' \in Nat
               /\ at' \in [Threads -> {"idle", "waiting", "woken"}]
               /\ want' \in [Threads -> Requests \cup {Idle}]
               /\ \A t \in Threads : at'[t] = "idle" <=> want'[t] = Idle

Overshoots == \E t \in Threads : /\ at[t] = "woken" /\ want[t] # Idle /\ want'[t] = Idle
                                 /\ want[t].op = "enqueue" /\ AtLimit

Step == ItemsMove /\ ThreadsMove /\ ~Overshoots

\* A thread that leaves its method, unless it is a producer at the limit.
LEMMA Leaves ==
    ASSUME TypeOK, NEW t \in Threads, Return(t) \/ ReturnSignalling(t),
           ended' \in BOOLEAN, limit' \in Nat,
           at[t] = "woken" /\ want[t].op = "enqueue" => ~AtLimit
    PROVE  ThreadsMove /\ ~Overshoots
<1> DEFINE a == [at EXCEPT ![t] = "idle"]
<1>1. want' = [want EXCEPT ![t] = Idle]
    BY DEF Return, ReturnSignalling
<1>2. /\ a \in [Threads -> {"idle", "waiting", "woken"}]
      /\ \A u \in Threads : a[u] = "idle" <=> want'[u] = Idle
    BY <1>1 DEF TypeOK
<1>3. at' = a \/ \E u \in Threads : a[u] = "waiting" /\ at' = [a EXCEPT ![u] = "woken"]
    BY DEF Return, ReturnSignalling, OneWoken
<1> HIDE DEF a
<1>4. /\ at' \in [Threads -> {"idle", "waiting", "woken"}]
      /\ \A u \in Threads : at'[u] = "idle" <=> want'[u] = Idle
    BY <1>2, <1>3
<1>5. want' \in [Threads -> Requests \cup {Idle}]
    BY <1>1 DEF TypeOK
<1>6. ~Overshoots
    BY <1>1 DEF TypeOK, Overshoots
<1> QED
    BY <1>4, <1>5, <1>6 DEF ThreadsMove

\* A thread that goes to sleep.
LEMMA Sleeps ==
    ASSUME TypeOK, NEW t \in Threads, NEW request \in Requests, Waits(t, request)
    PROVE  Step
<1>1. request # Idle
    BY IdleAssumption
<1>2. want' = [want EXCEPT ![t] = request] /\ at' = [at EXCEPT ![t] = "waiting"]
    BY DEF Waits
<1>3. ThreadsMove
    BY <1>1, <1>2 DEF Waits, TypeOK, ThreadsMove
<1>4. ~Overshoots
    BY <1>1, <1>2 DEF Overshoots, TypeOK
<1> QED
    BY <1>3, <1>4 DEF Step, ItemsMove, Waits

\* What a thread in a method asks for.
LEMMA Wants ==
    ASSUME TypeOK, NEW t \in Threads, at[t] # "idle"
    PROVE  /\ want[t] \in Requests
           /\ want[t].op = "enqueue" => want[t].n \in Batches
           /\ want[t].op \in {"dequeue", "dequeue_timed"} => want[t].n \in Counts
<1>1. want[t] \in Requests
    BY DEF TypeOK
<1> QED
    BY <1>1 DEF Requests

\* push(@$queue, ...) below the limit.
LEMMA PushStep ==
    ASSUME TypeOK, NEW t \in Threads, NEW n \in Batches, ~AtLimit, Push(t, n)
    PROVE  Step
<1>1. n \in Nat /\ MaxItems \in Nat
    BY QueueAssumption
<1>2. queue \in Seq(Nat \ {0}) /\ next \in Nat \ {0}
    BY <1>1 DEF TypeOK
<1>3. queue' = Widened(queue, Len(queue), n, next)
  <2>1. SubSeq(queue, 1, Len(queue)) = queue
      BY <1>2
  <2>2. SubSeq(queue, Len(queue) + 1, Len(queue)) = << >>
      BY <1>2
  <2>3. queue \o New(n) \in Seq(Int) /\ New(n) = [i \in 1..n |-> next + i - 1]
      BY <1>1, <1>2 DEF New
  <2>4. (queue \o New(n)) \o << >> = queue \o New(n)
      BY <2>3
  <2> QED
      BY <2>1, <2>2, <2>3, <2>4 DEF Push, Widened
<1>4. Arrived
  <2>1. Len(queue) \in 0..Len(queue)
      BY <1>2
  <2>2. next' = next + n /\ next' <= MaxItems + 1 /\ gone' = gone
      BY <1>1, <1>2 DEF Push
  <2> QED
      BY <1>1, <1>3, <2>1, <2>2 DEF Arrived
<1>5. ThreadsMove /\ ~Overshoots
    BY Leaves DEF Push, TypeOK
<1> QED
    BY <1>4, <1>5 DEF Step, ItemsMove

\* Items off the head, or off the middle in extract.
LEMMA TakeOutItems ==
    ASSUME TypeOK, NEW i \in 0..Len(queue), NEW n \in 0..Len(queue) - i,
           TakeOut(i, n), next' = next
    PROVE  Departed
<1>1. queue \in Seq(Nat \ {0}) /\ Len(queue) \in Nat /\ i \in Nat /\ n \in Nat /\ i + n <= Len(queue)
    BY DEF TypeOK
<1> DEFINE removed == SubSeq(queue, i + 1, i + n)
<1>2. DOMAIN removed = 1..n /\ \A k \in 1..n : removed[k] = queue[i + k]
    BY <1>1
<1>3. gone' = gone \cup ToSet(removed) /\ queue' = Shortened(queue, i, n)
    BY DEF TakeOut, Shortened
<1> HIDE DEF removed
<1>4. ToSet(removed) = {queue[i + k] : k \in 1..n}
    BY <1>2 DEF ToSet
<1>5. {queue[i + k] : k \in 1..n} = {queue[k] : k \in i + 1..i + n}
  <2>1. \A k \in 1..n : i + k \in i + 1..i + n
      BY <1>1
  <2>2. \A k \in i + 1..i + n : k - i \in 1..n /\ i + (k - i) = k
      BY <1>1
  <2> QED
      BY <2>1, <2>2
<1> QED
    BY <1>3, <1>4, <1>5 DEF Departed

\* dequeue_nb's splice.
LEMMA TakeUpToStep ==
    ASSUME TypeOK, NEW t \in Threads, NEW n \in Nat, TakeUpTo(t, n),
           at[t] = "woken" => want[t].op # "enqueue"
    PROVE  Step
<1> DEFINE m == IF n < Len(queue) THEN n ELSE Len(queue)
<1>1. Len(queue) \in Nat
    BY DEF TypeOK
<1>2. 0 \in 0..Len(queue) /\ m \in 0..Len(queue) - 0
    BY <1>1
<1>3. TakeOut(0, m) /\ next' = next
    BY DEF TakeUpTo
<1> HIDE DEF m
<1>4. Departed
    BY <1>2, <1>3, TakeOutItems
<1>5. ThreadsMove /\ ~Overshoots
    BY Leaves DEF TakeUpTo, TypeOK
<1> QED
    BY <1>4, <1>5 DEF Step, ItemsMove

\* dequeue_nb called from another method, whose count may croak.
LEMMA TakeOrCroakStep ==
    ASSUME TypeOK, NEW t \in Threads, NEW n \in Nat, TakeOrCroak(t, n),
           at[t] = "woken" => want[t].op # "enqueue"
    PROVE  Step
<1>1. CASE TakeUpTo(t, n)
    BY <1>1, TakeUpToStep
<1>2. CASE Return(t) /\ UNCHANGED <<queue, ended, limit, next, gone>>
  <2>1. ThreadsMove /\ ~Overshoots
      BY <1>2, Leaves DEF TypeOK
  <2> QED
      BY <1>2, <2>1 DEF Step, ItemsMove
<1> QED
    BY <1>1, <1>2 DEF TakeOrCroak

\* enqueue, called or woken.
LEMMA EnqueueSteps ==
    ASSUME TypeOK, NEW t \in Threads,
           EnqueueWakes(t) \/ \E n \in Batches : Enqueue(t, n)
    PROVE  Step
<1>1. CASE EnqueueWakes(t)
  <2>1. want[t] \in Requests /\ want[t].n \in Batches
      BY <1>1, Wants DEF EnqueueWakes
  <2>2. CASE AtLimit /\ Waits(t, want[t])
      BY <2>1, <2>2, Sleeps
  <2>3. CASE ~AtLimit /\ Push(t, want[t].n)
      BY <2>1, <2>3, PushStep
  <2> QED
      BY <1>1, <2>2, <2>3 DEF EnqueueWakes
<1>2. ASSUME NEW n \in Batches, Enqueue(t, n) PROVE Step
  <2>1. CASE AtLimit /\ Waits(t, [op |-> "enqueue", n |-> n])
    <3>1. [op |-> "enqueue", n |-> n] \in Requests
        BY DEF Requests
    <3> QED
        BY <2>1, <3>1, Sleeps
  <2>2. CASE ~AtLimit /\ Push(t, n)
      BY <2>2, PushStep
  <2> QED
      BY <1>2, <2>1, <2>2 DEF Enqueue
<1> QED
    BY <1>1, <1>2

\* The loops of dequeue and dequeue_timed.
LEMMA DequeueLoopStep ==
    ASSUME TypeOK, NEW t \in Threads, NEW n \in Counts, DequeueLoop(t, n) \/ TimedLoop(t, n),
           at[t] = "woken" => want[t].op # "enqueue"
    PROVE  Step
<1>1. n \in Nat
    BY QueueAssumption
<1>2. /\ [op |-> "dequeue", n |-> n] \in Requests
      /\ [op |-> "dequeue_timed", n |-> n] \in Requests
    BY DEF Requests
<1>3. CASE Waits(t, [op |-> "dequeue", n |-> n]) \/ Waits(t, [op |-> "dequeue_timed", n |-> n])
    BY <1>2, <1>3, Sleeps
<1>4. CASE TakeUpTo(t, n)
    BY <1>1, <1>4, TakeUpToStep
<1>5. CASE TakeOrCroak(t, n)
    BY <1>1, <1>5, TakeOrCroakStep
<1> QED
    BY <1>3, <1>4, <1>5 DEF DequeueLoop, TimedLoop

\* dequeue, dequeue_nb and dequeue_timed, called, woken or out of time.
LEMMA DequeueSteps ==
    ASSUME TypeOK, NEW t \in Threads,
           \/ DequeueWakes(t) \/ DequeueTimedWakes(t) \/ DequeueTimesOut(t)
           \/ \E n \in Counts : Dequeue(t, n) \/ DequeueNb(t, n) \/ DequeueTimed(t, n)
    PROVE  Step
<1>1. CASE DequeueWakes(t) \/ DequeueTimedWakes(t)
  <2>1. want[t].n \in Counts /\ want[t].op # "enqueue"
      BY <1>1, Wants DEF DequeueWakes, DequeueTimedWakes
  <2> QED
      BY <1>1, <2>1, DequeueLoopStep DEF DequeueWakes, DequeueTimedWakes
<1>2. CASE DequeueTimesOut(t)
  <2>1. want[t].n \in Counts /\ at[t] # "woken"
      BY <1>2, Wants DEF DequeueTimesOut
  <2>2. want[t].n \in Nat
      BY <2>1, QueueAssumption
  <2> QED
      BY <1>2, <2>1, <2>2, TakeOrCroakStep DEF DequeueTimesOut
<1>3. ASSUME NEW n \in Counts, Dequeue(t, n) \/ DequeueNb(t, n) \/ DequeueTimed(t, n)
      PROVE  Step
  <2>1. n \in Nat /\ at[t] # "woken"
      BY <1>3, QueueAssumption DEF Dequeue, DequeueNb, DequeueTimed
  <2> QED
      BY <1>3, <2>1, DequeueLoopStep, TakeUpToStep DEF Dequeue, DequeueNb, DequeueTimed
<1> QED
    BY <1>1, <1>2, <1>3

\* extract, with an index before, in or beyond the queue.
LEMMA ExtractStep ==
    ASSUME TypeOK, NEW t \in Threads, NEW index \in Indices, NEW n \in Counts, Extract(t, index, n)
    PROVE  Step
<1> DEFINE len == Len(queue)
           i == IF index < 0 THEN index + len ELSE index
           m == IF n < len - i THEN n ELSE len - i
<1>1. n \in Nat \ {0} /\ index \in Int /\ len \in Nat
    BY QueueAssumption DEF TypeOK
<1>2. i \in Int /\ at[t] # "woken"
    BY <1>1 DEF Extract
<1>3. CASE i < 0 /\ n + i > 0 /\ TakeOrCroak(t, n + i)
  <2>1. n + i \in Nat
      BY <1>1, <1>2, <1>3
  <2> HIDE DEF i
  <2> QED
      BY <1>2, <1>3, <2>1, TakeOrCroakStep
<1>4. CASE /\ i >= 0
           /\ IF i < len THEN TakeOut(i, m) ELSE UNCHANGED <<queue, gone>>
           /\ ReturnSignalling(t)
           /\ UNCHANGED <<ended, limit, next>>
  <2>1. ThreadsMove /\ ~Overshoots
      BY <1>2, <1>4, Leaves DEF TypeOK
  <2>2. CASE i < len
    <3>1. i \in 0..len /\ m \in 0..len - i
        BY <1>1, <1>2, <1>4, <2>2
    <3>2. TakeOut(i, m) /\ next' = next
        BY <1>4, <2>2
    <3> HIDE DEF i, m
    <3> QED
        BY <2>1, <3>1, <3>2, TakeOutItems DEF Step, ItemsMove
  <2>3. CASE ~(i < len)
      BY <1>4, <2>1, <2>3 DEF Step, ItemsMove
  <2> QED
      BY <2>2, <2>3
<1>5. \/ i < 0 /\ n + i > 0 /\ TakeOrCroak(t, n + i)
      \/ /\ i >= 0
         /\ IF i < len THEN TakeOut(i, m) ELSE UNCHANGED <<queue, gone>>
         /\ ReturnSignalling(t)
         /\ UNCHANGED <<ended, limit, next>>
    BY DEF Extract
<1> QED
    BY <1>3, <1>4, <1>5

\* insert, with its index brought into the queue.
LEMMA InsertStep ==
    ASSUME TypeOK, NEW t \in Threads, NEW index \in Indices, NEW n \in Batches, Insert(t, index, n)
    PROVE  Step
<1> DEFINE i == IF index < 0 THEN index + Len(queue) ELSE index
           pos == IF i < 0 THEN 0 ELSE IF i > Len(queue) THEN Len(queue) ELSE i
<1>1. n \in Nat /\ MaxItems \in Nat /\ index \in Int /\ Len(queue) \in Nat /\ next \in Nat
    BY QueueAssumption DEF TypeOK
<1>2. pos \in 0..Len(queue)
    BY <1>1
<1>3. /\ at[t] = "idle" /\ next + n - 1 <= MaxItems
      /\ queue' = SubSeq(queue, 1, pos) \o New(n) \o SubSeq(queue, pos + 1, Len(queue))
      /\ next' = next + n
      /\ ReturnSignalling(t)
      /\ UNCHANGED <<ended, limit, gone>>
    BY DEF Insert
<1> HIDE DEF pos
<1>4. queue' = Widened(queue, pos, n, next)
    BY <1>3 DEF Widened, New
<1>5. next' <= MaxItems + 1
    BY <1>1, <1>3
<1>6. Arrived
    BY <1>1, <1>2, <1>3, <1>4, <1>5 DEF Arrived
<1>7. ThreadsMove /\ ~Overshoots
    BY <1>3, Leaves DEF TypeOK
<1> QED
    BY <1>6, <1>7 DEF Step, ItemsMove

\* end, an assignment to limit, and a cond_wait that returns by itself.
LEMMA OtherSteps ==
    ASSUME TypeOK, NEW t \in Threads,
           End(t) \/ SpuriousWakeup(t) \/ \E n \in Limits : SetLimit(t, n)
    PROVE  Step
<1>1. CASE End(t)
    BY <1>1, Leaves DEF End, TypeOK, Step, ItemsMove
<1>2. CASE SpuriousWakeup(t)
  <2>1. ThreadsMove
      BY <1>2 DEF SpuriousWakeup, TypeOK, ThreadsMove
  <2>2. ~Overshoots
      BY <1>2 DEF SpuriousWakeup, Overshoots
  <2> QED
      BY <1>2, <2>1, <2>2 DEF SpuriousWakeup, Step, ItemsMove
<1>3. ASSUME NEW n \in Limits, SetLimit(t, n) PROVE Step
  <2>1. limit' \in Nat
      BY <1>3, QueueAssumption DEF SetLimit
  <2> QED
      BY <1>3, <2>1 DEF SetLimit, TypeOK, Step, ItemsMove, ThreadsMove, Overshoots
<1> QED
    BY <1>1, <1>2, <1>3

\* Every step moves items in one of the ways above, and no producer goes on
\* at the limit.
LEMMA EveryStep ==
    ASSUME TypeOK, [Next]_vars
    PROVE  Step
<1>1. CASE UNCHANGED vars
    BY <1>1 DEF vars, TypeOK, Step, ItemsMove, ThreadsMove, Overshoots
<1>2. ASSUME NEW t \in Threads, EnqueueWakes(t) \/ \E n \in Batches : Enqueue(t, n) PROVE Step
    BY <1>2, EnqueueSteps
<1>3. ASSUME NEW t \in Threads,
             \/ DequeueWakes(t) \/ DequeueTimedWakes(t) \/ DequeueTimesOut(t)
             \/ \E n \in Counts : Dequeue(t, n) \/ DequeueNb(t, n) \/ DequeueTimed(t, n)
      PROVE Step
    BY <1>3, DequeueSteps
<1>4. ASSUME NEW t \in Threads, NEW n \in Counts, NEW i \in Indices, Extract(t, i, n) PROVE Step
    BY <1>4, ExtractStep
<1>5. ASSUME NEW t \in Threads, NEW n \in Batches, NEW i \in Indices, Insert(t, i, n) PROVE Step
    BY <1>5, InsertStep
<1>6. ASSUME NEW t \in Threads,
             End(t) \/ SpuriousWakeup(t) \/ \E n \in Limits : SetLimit(t, n)
      PROVE Step
    BY <1>6, OtherSteps
<1> QED
    BY <1>1, <1>2, <1>3, <1>4, <1>5, <1>6 DEF Next

-----------------------------------------------------------------------------
(* Theorems *)

\* Types alone are not inductive: gone stays below MaxItems + 1 because what
\* is handed out came from the queue, and that is ItemsConserved.
QueueInvariant == TypeOK /\ ItemsConserved

\* The items of the step: none lost, none doubled, none overtaken.
LEMMA ItemsStep ==
    ASSUME QueueInvariant, ItemsMove
    PROVE  /\ queue' \in Seq(Nat \ {0})
           /\ next' \in 1..MaxItems + 1
           /\ Conserved(queue', gone', next')
           /\ InOrder(queue, queue')
<1>1. queue \in Seq(Nat \ {0}) /\ next \in Nat \ {0} /\ next \in 1..MaxItems + 1 /\ MaxItems \in Nat
    BY QueueAssumption DEF QueueInvariant, TypeOK
<1>2. Conserved(queue, gone, next)
    BY <1>1, ItemByItem DEF QueueInvariant, ItemsConserved
<1>3. CASE Arrived
  <2>1. PICK pos \in 0..Len(queue), n \in Nat :
            /\ queue' = Widened(queue, pos, n, next)
            /\ next' = next + n /\ next' <= MaxItems + 1
            /\ gone' = gone
      BY <1>3 DEF Arrived
  <2>2. /\ Widened(queue, pos, n, next) \in Seq(Nat \ {0})
        /\ Conserved(Widened(queue, pos, n, next), gone, next + n)
        /\ InOrder(queue, Widened(queue, pos, n, next))
      BY <1>1, <1>2, Arrive
  <2> QED
      BY <1>1, <2>1, <2>2
<1>4. CASE Departed
  <2>1. PICK i \in 0..Len(queue) : \E n \in 0..Len(queue) - i :
            /\ queue' = Shortened(queue, i, n)
            /\ next' = next
            /\ gone' = gone \cup {queue[k] : k \in i + 1..i + n}
      BY <1>4 DEF Departed
  <2>2. PICK n \in 0..Len(queue) - i :
            /\ queue' = Shortened(queue, i, n)
            /\ next' = next
            /\ gone' = gone \cup {queue[k] : k \in i + 1..i + n}
      BY <2>1
  <2>3. /\ Shortened(queue, i, n) \in Seq(Nat \ {0})
        /\ Conserved(Shortened(queue, i, n), gone \cup {queue[k] : k \in i + 1..i + n}, next)
        /\ InOrder(queue, Shortened(queue, i, n))
      BY <1>1, <1>2, Depart
  <2> QED
      BY <1>1, <2>2, <2>3
<1>5. CASE UNCHANGED <<queue, next, gone>>
  <2>1. InOrder(queue, queue)
      BY <1>1, <1>2 DEF InOrder, Conserved
  <2> QED
      BY <1>1, <1>2, <1>5, <2>1
<1> QED
    BY <1>3, <1>4, <1>5 DEF ItemsMove

\* new: the first items are on the queue.
LEMMA QueueInit == Init => QueueInvariant
<1> SUFFICES ASSUME Init PROVE QueueInvariant
    OBVIOUS
<1>1. PICK n \in Batches : queue = [i \in 1..n |-> i] /\ next = n + 1
    BY DEF Init
<1>2. n \in Nat /\ n <= MaxItems /\ MaxItems \in Nat /\ Limits \subseteq Nat
    BY QueueAssumption
<1>3. queue \in Seq(Nat \ {0}) /\ Len(queue) = n /\ \A i \in 1..n : queue[i] = i
    BY <1>1, <1>2
<1>4. next \in 1..MaxItems + 1
    BY <1>1, <1>2
<1>5. TypeOK
    BY <1>2, <1>3, <1>4 DEF Init, TypeOK
<1>6. gone = {} /\ next - 1 = n
    BY <1>1, <1>2 DEF Init
<1>7. Conserved(queue, gone, next)
    BY <1>3, <1>6 DEF Conserved
<1>8. next \in Nat \ {0}
    BY <1>1, <1>2
<1> QED
    BY <1>3, <1>4, <1>5, <1>7, <1>8, ItemByItem DEF QueueInvariant, ItemsConserved

\* What was handed out is within the bound when the next number is.
LEMMA HandedOut ==
    ASSUME NEW g, NEW n \in 1..MaxItems + 1, g \subseteq 1..n - 1
    PROVE  g \subseteq 1..MaxItems /\ n \in Nat \ {0}
<1> QED
    BY QueueAssumption

\* The invariant survives every step.
LEMMA QueueStep == QueueInvariant /\ [Next]_vars => QueueInvariant'
<1> SUFFICES ASSUME QueueInvariant, [Next]_vars PROVE QueueInvariant'
    OBVIOUS
<1>1. ItemsMove /\ ThreadsMove
    BY EveryStep DEF QueueInvariant, Step
<1>2. /\ queue' \in Seq(Nat \ {0})
      /\ next' \in 1..MaxItems + 1
      /\ Conserved(queue', gone', next')
    BY <1>1, ItemsStep
<1>3. gone' \subseteq 1..MaxItems /\ next' \in Nat \ {0}
  <2>1. gone' \subseteq 1..next' - 1
      BY <1>2 DEF Conserved
  <2> QED
      BY <1>2, <2>1, HandedOut, Zenon
<1>4. TypeOK'
    BY <1>1, <1>2, <1>3 DEF TypeOK, ThreadsMove
<1>5. ItemsConserved'
    BY <1>2, <1>3, ItemByItem, Zenon DEF ItemsConserved
<1> QED
    BY <1>4, <1>5 DEF QueueInvariant

\* In every state of a queue the types hold and the items are accounted for.
THEOREM Invariance == Spec => []QueueInvariant
<1> QED
    BY QueueInit, QueueStep, PTL DEF Spec

\* The variables of a queue have their types.
THEOREM QueueTypes == Spec => []TypeOK
<1>1. QueueInvariant => TypeOK
    BY DEF QueueInvariant
<1> QED
    BY <1>1, Invariance, PTL

\* No call of any method loses an item or hands one out twice.
THEOREM NothingLost == Spec => []ItemsConserved
<1>1. QueueInvariant => ItemsConserved
    BY DEF QueueInvariant
<1> QED
    BY <1>1, Invariance, PTL

\* No call of any method puts an item before one that it was behind.
THEOREM FirstInFirstOut == Spec => OrderKept
<1>1. QueueInvariant /\ [Next]_vars =>
          [\A i, j \in DOMAIN queue, k, l \in DOMAIN queue' :
               i < j /\ queue'[k] = queue[i] /\ queue'[l] = queue[j] => k < l]_vars
  <2> SUFFICES ASSUME QueueInvariant, [Next]_vars
               PROVE  \A i, j \in DOMAIN queue, k, l \in DOMAIN queue' :
                          i < j /\ queue'[k] = queue[i] /\ queue'[l] = queue[j] => k < l
      OBVIOUS
  <2>1. queue' \in Seq(Nat \ {0}) /\ InOrder(queue, queue')
      BY EveryStep, ItemsStep DEF QueueInvariant, Step
  <2>2. DOMAIN queue = 1..Len(queue) /\ DOMAIN queue' = 1..Len(queue')
      BY <2>1 DEF QueueInvariant, TypeOK
  <2> QED
      BY <2>1, <2>2 DEF InOrder
<1> QED
    BY <1>1, Invariance, PTL DEF Spec, OrderKept

\* No producer that waited at the limit goes on while the queue is at it.
THEOREM LimitHolds == Spec => NoOvershoot
<1>1. QueueInvariant /\ [Next]_vars =>
          [\A t \in Threads : at[t] = "woken" /\ want[t] # Idle /\ want'[t] = Idle =>
               (want[t].op = "enqueue" => ~AtLimit)]_vars
    BY EveryStep DEF QueueInvariant, Step, Overshoots
<1> QED
    BY <1>1, Invariance, PTL DEF Spec, NoOvershoot
=============================================================================
