--------------------------- MODULE PerlIOBufProofs ---------------------------
(***************************************************************************)
(* For any bytes, files and size of the buffer: a handle of the layers      *)
(* :unix and :perlio behaves as a file with a position (StreamKept), where  *)
(* the program stays clear of the three uses that Slips names.             *)
(***************************************************************************)
EXTENDS PerlIOBuf, TLAPS

-----------------------------------------------------------------------------
(* The invariant, of a handle h opened for appending if ap is TRUE *)

Held == Bytes \cup {Junk}
BufSet == [1..BufSize -> Held]
HandleSet == [disk : Seq(Held), offset : Nat, uniteof : BOOLEAN, uniterr : BOOLEAN,
              buf : BufSet, ptr : 0..BufSize, end : 0..BufSize, posn : Int,
              rdbuf : BOOLEAN, wrbuf : BOOLEAN, err : BOOLEAN]

\* The kernel is where the buffer was filled to, or where it will be written,
\* in the file or at its end; what made a read end is still so, or reported.
Layers(h, ap) ==
    /\ h \in HandleSet
    /\ h.offset = h.posn + h.end /\ h.offset <= Len(h.disk)
    /\ h.uniteof => h.offset = Len(h.disk)
    /\ h.uniterr => h.err
    /\ ~(h.rdbuf /\ h.wrbuf)
    /\ IF h.rdbuf THEN h.ptr <= h.end ELSE h.end = 0
    /\ h.ptr > 0 => h.rdbuf \/ h.wrbuf
    /\ h.wrbuf /\ ap => h.posn = Len(h.disk)

\* A full buffer does not stay, and pushed-back bytes are those of a reader.
BufInvariant == /\ Layers(handle, appends)
                /\ handle.wrbuf => handle.ptr < BufSize
                /\ pending \in Seq(Held) /\ (pending # <<>> => handle.rdbuf)
                /\ appends \in BOOLEAN /\ autoflush \in BOOLEAN

\* What the handle stands for.
FileOf(h, ap) == Overlay(h.disk, IF ap THEN Len(h.disk) ELSE h.posn, Unwritten(h))
AheadOf(h, ap) == IF h.rdbuf THEN Unread(h) \o Beyond(h.disk, h.offset)
                             ELSE Beyond(FileOf(h, ap), Logical(h))

-----------------------------------------------------------------------------
(* Sequences *)

LEMMA HigherIs == \A p \in Nat : Max({p, 0}) = p
<1> SUFFICES ASSUME NEW p \in Nat PROVE Max({p, 0}) = p
    OBVIOUS
<1>1. p \in {p, 0} /\ \A y \in {p, 0} : p >= y
    OBVIOUS
<1>2. \A x \in {p, 0} : (\A y \in {p, 0} : x >= y) => x = p
    OBVIOUS
<1> QED
    BY <1>1, <1>2 DEF Max

LEMMA SliceIs ==
    ASSUME NEW S, NEW s \in Seq(S), NEW a \in Nat \ {0}, NEW z \in Nat, z <= Len(s)
    PROVE  /\ SubSeq(s, a, z) \in Seq(S)
           /\ Len(SubSeq(s, a, z)) = IF a <= z THEN z - a + 1 ELSE 0
           /\ \A i \in 1..z - a + 1 : SubSeq(s, a, z)[i] = s[a + i - 1]
    OBVIOUS

LEMMA CutIs ==
    ASSUME NEW S, NEW s \in Seq(S), NEW n \in Nat, n <= Len(s)
    PROVE  /\ SubSeq(s, 1, n) \in Seq(S) /\ Len(SubSeq(s, 1, n)) = n
           /\ \A i \in 1..n : SubSeq(s, 1, n)[i] = s[i]
    OBVIOUS

LEMMA BeyondIs ==
    ASSUME NEW S, NEW f \in Seq(S), NEW p \in Nat
    PROVE  /\ Beyond(f, p) = SubSeq(f, p + 1, Len(f)) /\ Beyond(f, p) \in Seq(S)
           /\ Len(Beyond(f, p)) = IF p <= Len(f) THEN Len(f) - p ELSE 0
           /\ \A i \in 1..Len(f) - p : Beyond(f, p)[i] = f[p + i]
<1>1. Beyond(f, p) = SubSeq(f, p + 1, Len(f))
    BY HigherIs DEF Beyond
<1>2. p + 1 \in Nat \ {0} /\ Len(f) \in Nat /\ Len(f) <= Len(f)
    OBVIOUS
<1> QED
    BY <1>1, <1>2, SliceIs

LEMMA SameSeq ==
    ASSUME NEW S, NEW s \in Seq(S), NEW T, NEW t \in Seq(T), Len(s) = Len(t),
           \A i \in 1..Len(s) : s[i] = t[i]
    PROVE  s = t
    OBVIOUS

LEMMA JoinIs ==
    ASSUME NEW S, NEW s \in Seq(S), NEW t \in Seq(S)
    PROVE  /\ s \o t \in Seq(S) /\ Len(s \o t) = Len(s) + Len(t)
           /\ Len(s) \in Nat /\ Len(t) \in Nat
           /\ \A i \in 1..Len(s) + Len(t) :
                 (s \o t)[i] = IF i <= Len(s) THEN s[i] ELSE t[i - Len(s)]
    OBVIOUS

LEMMA OverlayIs ==
    ASSUME NEW S, NEW f \in Seq(S), NEW p \in 0..Len(f), NEW s \in Seq(S)
    PROVE  /\ Overlay(f, p, s) \in Seq(S)
           /\ Len(Overlay(f, p, s)) = IF p + Len(s) > Len(f) THEN p + Len(s) ELSE Len(f)
           /\ \A i \in 1..Len(Overlay(f, p, s)) :
                 Overlay(f, p, s)[i] = IF i > p /\ i <= p + Len(s) THEN s[i - p] ELSE f[i]
<1>1. CASE s = <<>>
    BY <1>1 DEF Overlay
<1>2. CASE s # <<>>
  <2>1. PICK m \in Nat \ {0} : m = Len(s)
      BY <1>2
  <2>2. p \in Nat /\ p + m \in Nat /\ Len(f) \in Nat /\ p <= Len(f)
      BY <2>1
  <2>3. PICK a \in Seq(S) : a = SubSeq(f, 1, p) /\ Len(a) = p /\ \A i \in 1..p : a[i] = f[i]
    <3>1. SubSeq(f, 1, p) \in Seq(S)
        BY <2>2
    <3>2. Len(SubSeq(f, 1, p)) = p
        BY <2>2
    <3>3. \A i \in 1..p : SubSeq(f, 1, p)[i] = f[i]
        BY <2>2
    <3> QED
        BY <3>1, <3>2, <3>3
  <2>4. PICK z \in Seq(S) : /\ z = Beyond(f, p + m)
                            /\ Len(z) = IF p + m <= Len(f) THEN Len(f) - (p + m) ELSE 0
                            /\ \A i \in 1..Len(f) - (p + m) : z[i] = f[p + m + i]
    <3> DEFINE q == p + m
    <3>1. q \in Nat
        BY <2>2
    <3> HIDE DEF q
    <3>2. PICK z \in Seq(S) : z = Beyond(f, q)
        BY <3>1, BeyondIs
    <3>3. /\ Len(z) = IF q <= Len(f) THEN Len(f) - q ELSE 0
          /\ \A i \in 1..Len(f) - q : z[i] = f[q + i]
        BY <3>1, <3>2, BeyondIs
    <3> QED
        BY <3>2, <3>3 DEF q
  <2>5. PICK u \in Seq(S) : /\ u = a \o s /\ Len(u) = p + m
                            /\ \A i \in 1..p + m : u[i] = IF i <= p THEN a[i] ELSE s[i - p]
    <3>1. PICK u \in Seq(S) : u = a \o s
        BY <2>3, JoinIs
    <3>2. /\ Len(u) = Len(a) + Len(s)
          /\ \A i \in 1..Len(a) + Len(s) : u[i] = IF i <= Len(a) THEN a[i] ELSE s[i - Len(a)]
        BY <3>1, JoinIs
    <3>3. Len(a) = p /\ Len(s) = m
        BY <2>1, <2>3
    <3> QED
        BY <3>1, <3>2, <3>3
  <2>6. PICK o \in Seq(S) : /\ o = u \o z /\ Len(o) = p + m + Len(z)
                            /\ \A i \in 1..p + m + Len(z) :
                                  o[i] = IF i <= p + m THEN u[i] ELSE z[i - (p + m)]
    <3>1. PICK o \in Seq(S) : o = u \o z
        BY <2>4, <2>5, JoinIs
    <3>2. /\ Len(o) = Len(u) + Len(z)
          /\ \A i \in 1..Len(u) + Len(z) : o[i] = IF i <= Len(u) THEN u[i] ELSE z[i - Len(u)]
        BY <3>1, JoinIs
    <3>3. Len(u) = p + m
        BY <2>5
    <3> QED
        BY <3>1, <3>2, <3>3
  <2>7. Overlay(f, p, s) = o
      BY <1>2, <2>1, <2>3, <2>4, <2>5, <2>6 DEF Overlay
  <2>8. Len(o) = IF p + m > Len(f) THEN p + m ELSE Len(f)
      BY <2>2, <2>4, <2>6
  <2>9. \A i \in 1..Len(o) : o[i] = IF i > p /\ i <= p + m THEN s[i - p] ELSE f[i]
    <3> SUFFICES ASSUME NEW i \in 1..Len(o)
                 PROVE  o[i] = IF i > p /\ i <= p + m THEN s[i - p] ELSE f[i]
        OBVIOUS
    <3>0. i \in 1..p + m + Len(z) /\ Len(z) \in Nat
        BY <2>4, <2>6
    <3>1. CASE i <= p
      <4>1. i \in 1..p /\ i \in 1..p + m /\ i <= p + m
          BY <3>1, <2>2, <2>1
      <4> QED
          BY <3>0, <3>1, <4>1, <2>3, <2>5, <2>6
    <3>2. CASE i > p /\ i <= p + m
        BY <3>0, <3>2, <2>2, <2>5, <2>6
    <3>3. CASE i > p + m
      <4>1. PICK j \in Nat : j = i - (p + m)
          BY <3>3, <2>2
      <4>2. j \in 1..Len(f) - (p + m) /\ p + m + j = i
          BY <3>3, <4>1, <2>2, <2>8
      <4>3. o[i] = z[j]
        <5>1. ~(i <= p + m)
            BY <3>3, <2>2
        <5> QED
            BY <3>0, <4>1, <5>1, <2>6
      <4>4. z[j] = f[i]
          BY <4>2, <2>4
      <4> QED
          BY <3>3, <4>3, <4>4, <2>1, <2>2
    <3> QED
        BY <3>1, <3>2, <3>3, <2>2, <2>1
  <2> QED
      BY <2>1, <2>7, <2>8, <2>9
<1> QED
    BY <1>1, <1>2
\* What a failed write leaves of f, which ended with bytes before the position
\* at: g, with those up to p.
Loses(f, at, g, p) ==
    /\ p \in 0..at /\ Len(g) \in p..Len(f)
    /\ Len(f) > at => Len(g) = Len(f)
    /\ \A i \in 1..Len(g) : i <= p \/ i > at => g[i] = f[i]

LEMMA LosesSome ==
    ASSUME NEW S, NEW d \in Seq(S), NEW p \in 0..Len(d), NEW s \in Seq(S), NEW t \in Seq(S),
           Len(t) <= Len(s), \A i \in 1..Len(t) : t[i] = s[i]
    PROVE  Loses(Overlay(d, p, s), p + Len(s), Overlay(d, p, t), p + Len(t))
<1>1. Len(s) \in Nat /\ Len(t) \in Nat /\ Len(d) \in Nat /\ p \in Nat /\ p <= Len(d)
    OBVIOUS
<1>2. PICK f \in Seq(S) : f = Overlay(d, p, s)
    BY OverlayIs
<1>3. /\ Len(f) = IF p + Len(s) > Len(d) THEN p + Len(s) ELSE Len(d)
      /\ \A i \in 1..Len(f) : f[i] = IF i > p /\ i <= p + Len(s) THEN s[i - p] ELSE d[i]
    BY <1>2, OverlayIs
<1>4. PICK g \in Seq(S) : g = Overlay(d, p, t)
    BY OverlayIs
<1>5. /\ Len(g) = IF p + Len(t) > Len(d) THEN p + Len(t) ELSE Len(d)
      /\ \A i \in 1..Len(g) : g[i] = IF i > p /\ i <= p + Len(t) THEN t[i - p] ELSE d[i]
    BY <1>4, OverlayIs
<1>6. /\ p + Len(t) \in 0..p + Len(s) /\ Len(g) \in p + Len(t)..Len(f)
      /\ Len(f) > p + Len(s) => Len(g) = Len(f)
    BY <1>1, <1>3, <1>5
<1>7. ASSUME NEW i \in 1..Len(g), i <= p + Len(t) \/ i > p + Len(s)
      PROVE  g[i] = f[i]
  <2>1. i \in 1..Len(f)
      BY <1>6, <1>1
  <2>2. CASE i <= p \/ i > p + Len(s)
      BY <2>1, <2>2, <1>1, <1>3, <1>5
  <2>3. CASE i > p /\ i <= p + Len(t)
    <3>1. i - p \in 1..Len(t)
        BY <2>3, <1>1
    <3>2. t[i - p] = s[i - p]
        BY <3>1
    <3>3. i <= p + Len(s)
        BY <2>3, <1>1
    <3> QED
        BY <2>1, <2>3, <3>2, <3>3, <1>3, <1>5
  <2> QED
      BY <1>7, <2>2, <2>3, <1>1
<1> QED
    BY <1>2, <1>4, <1>6, <1>7 DEF Loses

LEMMA PushIs ==
    ASSUME NEW S, NEW s \in Seq(S), NEW b \in S
    PROVE  /\ Append(s, b) \in Seq(S) /\ Len(Append(s, b)) = Len(s) + 1
           /\ Append(s, b)[Len(s) + 1] = b /\ \A i \in 1..Len(s) : Append(s, b)[i] = s[i]
    OBVIOUS

LEMMA ChangeIs ==
    ASSUME NEW S, NEW s \in Seq(S), NEW b \in S, NEW j \in 1..Len(s)
    PROVE  /\ [s EXCEPT ![j] = b] \in Seq(S) /\ Len([s EXCEPT ![j] = b]) = Len(s)
           /\ [s EXCEPT ![j] = b][j] = b
           /\ \A i \in 1..Len(s) : i # j => [s EXCEPT ![j] = b][i] = s[i]
    OBVIOUS

\* One byte more in the buffer is that byte in the file.
LEMMA PutsOne ==
    ASSUME NEW S, NEW d \in Seq(S), NEW p \in 0..Len(d), NEW s \in Seq(S), NEW b \in S
    PROVE  /\ Overlay(d, p, Append(s, b)) = Stream!Put(Overlay(d, p, s), p + Len(s), b)
           /\ p + Len(s) \in 0..Len(Overlay(d, p, s))
<1>1. Len(s) \in Nat /\ Len(d) \in Nat /\ p \in Nat /\ p <= Len(d)
    OBVIOUS
<1>2. PICK f \in Seq(S) : f = Overlay(d, p, s)
    BY OverlayIs
<1>3. /\ Len(f) = IF p + Len(s) > Len(d) THEN p + Len(s) ELSE Len(d)
      /\ \A i \in 1..Len(f) : f[i] = IF i > p /\ i <= p + Len(s) THEN s[i - p] ELSE d[i]
    BY <1>2, OverlayIs
<1>4. PICK t \in Seq(S) : /\ t = Append(s, b) /\ Len(t) = Len(s) + 1
                          /\ t[Len(s) + 1] = b /\ \A i \in 1..Len(s) : t[i] = s[i]
  <2>1. PICK t \in Seq(S) : t = Append(s, b)
      BY PushIs
  <2>2. Len(t) = Len(s) + 1 /\ t[Len(s) + 1] = b /\ \A i \in 1..Len(s) : t[i] = s[i]
      BY <2>1, PushIs
  <2> QED
      BY <2>1, <2>2
<1>5. PICK g \in Seq(S) : g = Overlay(d, p, t)
    BY OverlayIs
<1>6. /\ Len(g) = IF p + Len(t) > Len(d) THEN p + Len(t) ELSE Len(d)
      /\ \A i \in 1..Len(g) : g[i] = IF i > p /\ i <= p + Len(t) THEN t[i - p] ELSE d[i]
    BY <1>5, OverlayIs
<1>7. PICK q \in Nat : q = p + Len(s)
    BY <1>1
<1>8. q \in 0..Len(f) /\ Len(g) = IF q = Len(f) THEN Len(f) + 1 ELSE Len(f)
    BY <1>1, <1>3, <1>4, <1>6, <1>7
<1>9. ASSUME NEW i \in 1..Len(g), i # q + 1
      PROVE  i \in 1..Len(f) /\ g[i] = f[i]
  <2>1. i \in 1..Len(f)
      BY <1>8, <1>9
  <2>2. CASE i <= p \/ i > q + 1
      BY <2>1, <2>2, <1>1, <1>3, <1>4, <1>6, <1>7
  <2>3. CASE i > p /\ i <= q
    <3>1. i - p \in 1..Len(s)
        BY <2>3, <1>1, <1>7
    <3>2. t[i - p] = s[i - p]
        BY <3>1, <1>4
    <3> QED
        BY <2>1, <2>3, <3>2, <1>1, <1>3, <1>4, <1>6, <1>7
  <2> QED
      BY <1>9, <2>1, <2>2, <2>3
<1>10. q + 1 \in 1..Len(g) /\ g[q + 1] = b
  <2>1. q + 1 \in 1..Len(g) /\ q + 1 > p /\ q + 1 <= p + Len(t) /\ q + 1 - p = Len(s) + 1
      BY <1>1, <1>4, <1>7, <1>8
  <2> QED
      BY <2>1, <1>4, <1>6
<1>11. CASE q = Len(f)
  <2>1. PICK h \in Seq(S) : h = Append(f, b)
      BY PushIs
  <2>2. Len(h) = Len(f) + 1 /\ h[Len(f) + 1] = b /\ \A i \in 1..Len(f) : h[i] = f[i]
      BY <2>1, PushIs
  <2>3. \A i \in 1..Len(g) : g[i] = h[i]
      BY <2>2, <1>8, <1>9, <1>10, <1>11
  <2>4. g = h
      BY <2>2, <2>3, <1>8, <1>11, SameSeq
  <2> QED
      BY <2>1, <2>4, <1>2, <1>4, <1>5, <1>7, <1>8, <1>11 DEF Stream!Put
<1>12. CASE q # Len(f)
  <2>1. PICK h \in Seq(S) : h = [f EXCEPT ![q + 1] = b]
    <3>1. q + 1 \in 1..Len(f)
        BY <1>8, <1>12
    <3> QED
        BY <3>1, ChangeIs
  <2>2. Len(h) = Len(f) /\ h[q + 1] = b /\ \A i \in 1..Len(f) : i # q + 1 => h[i] = f[i]
    <3>1. q + 1 \in 1..Len(f)
        BY <1>8, <1>12
    <3> QED
        BY <2>1, <3>1, ChangeIs
  <2>3. \A i \in 1..Len(g) : g[i] = h[i]
      BY <2>2, <1>8, <1>9, <1>10, <1>12
  <2>4. g = h
      BY <2>2, <2>3, <1>8, <1>12, SameSeq
  <2> QED
      BY <2>1, <2>4, <1>2, <1>4, <1>5, <1>7, <1>8, <1>12 DEF Stream!Put
<1> QED
    BY <1>11, <1>12

-----------------------------------------------------------------------------
(* What a handle stands for, by what its buffer is *)

\* The first n cells of the buffer.
LEMMA CellsIs ==
    ASSUME NEW h, NEW ap, Layers(h, ap), NEW n \in 0..BufSize
    PROVE  /\ SubSeq(h.buf, 1, n) \in Seq(Held) /\ Len(SubSeq(h.buf, 1, n)) = n
           /\ \A i \in 1..n : SubSeq(h.buf, 1, n)[i] = h.buf[i]
<1>1. BufSize \in Nat /\ h.buf \in [1..BufSize -> Held]
    BY BufAssumption DEF Layers, HandleSet, BufSet
<1>2. PICK s \in Seq(Held) : s = h.buf
    BY <1>1
<1>3. Len(s) = BufSize
    BY <1>1, <1>2
<1>4. n \in Nat /\ n <= Len(s) /\ 1 \in Nat \ {0}
    BY <1>1, <1>3
<1>5. /\ SubSeq(s, 1, n) \in Seq(Held) /\ Len(SubSeq(s, 1, n)) = n
      /\ \A i \in 1..n : SubSeq(s, 1, n)[i] = s[i]
    BY <1>4
<1> QED
    BY <1>2, <1>4, <1>5

LEMMA WriterIs ==
    ASSUME NEW h, NEW ap, Layers(h, ap), h.wrbuf
    PROVE  /\ ~h.rdbuf /\ h.end = 0 /\ h.posn = h.offset /\ h.posn \in 0..Len(h.disk)
           /\ FileOf(h, ap) = Overlay(h.disk, h.posn, SubSeq(h.buf, 1, h.ptr))
           /\ FileOf(h, ap) \in Seq(Held)
           /\ Logical(h) = h.posn + h.ptr /\ Logical(h) \in 0..Len(FileOf(h, ap))
           /\ AheadOf(h, ap) = Beyond(FileOf(h, ap), Logical(h))
<1>1. /\ h.offset \in Nat /\ h.posn \in Int /\ h.ptr \in 0..BufSize /\ h.disk \in Seq(Held)
      /\ ~h.rdbuf /\ h.end = 0 /\ h.offset = h.posn + h.end /\ h.offset <= Len(h.disk)
      /\ ap => h.posn = Len(h.disk)
    BY DEF Layers, HandleSet
<1>2. h.posn = h.offset /\ h.posn \in 0..Len(h.disk)
    BY <1>1
<1>3. PICK s \in Seq(Held) : s = SubSeq(h.buf, 1, h.ptr)
    BY <1>1, CellsIs
<1>4. Len(s) = h.ptr /\ h.ptr \in Nat
    BY <1>1, <1>3, CellsIs, BufAssumption
<1>5. FileOf(h, ap) = Overlay(h.disk, h.posn, s)
    BY <1>1, <1>3 DEF FileOf, Unwritten
<1>6. PICK f \in Seq(Held) : f = Overlay(h.disk, h.posn, s)
    BY <1>1, <1>2, OverlayIs
<1>7. Len(f) = IF h.posn + h.ptr > Len(h.disk) THEN h.posn + h.ptr ELSE Len(h.disk)
    BY <1>1, <1>2, <1>4, <1>6, OverlayIs
<1>8. Logical(h) = h.posn + h.ptr /\ Logical(h) \in 0..Len(f)
    BY <1>1, <1>2, <1>4, <1>7 DEF Logical
<1>9. AheadOf(h, ap) = Beyond(FileOf(h, ap), Logical(h))
    BY <1>1 DEF AheadOf
<1> QED
    BY <1>1, <1>2, <1>3, <1>5, <1>6, <1>8, <1>9

LEMMA OtherIs ==
    ASSUME NEW h, NEW ap, Layers(h, ap), ~h.wrbuf
    PROVE  /\ FileOf(h, ap) = h.disk /\ h.disk \in Seq(Held) /\ Len(h.disk) \in Nat
           /\ Logical(h) = h.posn + h.ptr /\ Logical(h) \in Int
           /\ h.ptr \in Nat /\ h.end \in Nat /\ h.posn \in Int
           /\ h.offset \in Nat /\ h.offset = h.posn + h.end /\ h.offset <= Len(h.disk)
           /\ ~h.rdbuf => /\ h.ptr = 0 /\ h.end = 0 /\ h.posn = h.offset /\ Logical(h) = h.offset
                          /\ Unread(h) = <<>>
                          /\ AheadOf(h, ap) = Beyond(h.disk, h.offset)
           /\ h.rdbuf => /\ h.ptr <= h.end /\ h.end <= BufSize
                         /\ Unread(h) = SubSeq(h.buf, h.ptr + 1, h.end)
                         /\ AheadOf(h, ap) = Unread(h) \o Beyond(h.disk, h.offset)
<1>1. /\ h.offset \in Nat /\ h.posn \in Int /\ h.ptr \in 0..BufSize /\ h.end \in 0..BufSize
      /\ h.disk \in Seq(Held) /\ BufSize \in Nat /\ h.rdbuf \in BOOLEAN /\ h.wrbuf \in BOOLEAN
      /\ h.offset = h.posn + h.end /\ h.offset <= Len(h.disk)
      /\ IF h.rdbuf THEN h.ptr <= h.end ELSE h.end = 0
      /\ h.ptr > 0 => h.rdbuf
    BY BufAssumption DEF Layers, HandleSet
<1>2. FileOf(h, ap) = h.disk
    BY DEF FileOf, Unwritten, Overlay
<1>3. Logical(h) = h.posn + h.ptr
    BY DEF Logical
<1>4. ~h.rdbuf => h.ptr = 0 /\ h.end = 0 /\ h.posn = h.offset /\ Logical(h) = h.offset
    BY <1>1, <1>3
<1>5. ~h.rdbuf => Unread(h) = <<>> /\ AheadOf(h, ap) = Beyond(h.disk, h.offset)
    BY <1>2, <1>4 DEF Unread, AheadOf
<1>6. h.rdbuf => /\ Unread(h) = SubSeq(h.buf, h.ptr + 1, h.end)
                 /\ AheadOf(h, ap) = Unread(h) \o Beyond(h.disk, h.offset)
    BY DEF Unread, AheadOf
<1> QED
    BY <1>1, <1>2, <1>3, <1>4, <1>5, <1>6

\* What is unread: as many cells as lie between ptr and end.
LEMMA UnreadIs ==
    ASSUME NEW h, NEW ap, Layers(h, ap), h.rdbuf
    PROVE  /\ Unread(h) \in Seq(Held) /\ Len(Unread(h)) = h.end - h.ptr
           /\ \A i \in 1..h.end - h.ptr : Unread(h)[i] = h.buf[h.ptr + i]
           /\ Unread(h) = <<>> <=> h.ptr = h.end
<1>1. /\ BufSize \in Nat /\ h.buf \in [1..BufSize -> Held] /\ ~h.wrbuf
    BY BufAssumption DEF Layers, HandleSet, BufSet
<1>2. /\ h.ptr \in Nat /\ h.end \in Nat /\ h.ptr <= h.end /\ h.end <= BufSize
      /\ Unread(h) = SubSeq(h.buf, h.ptr + 1, h.end)
    BY <1>1, OtherIs
<1>3. PICK s \in Seq(Held) : s = h.buf
    BY <1>1
<1>4. Len(s) = BufSize
    BY <1>1, <1>3
<1>5. PICK a \in Nat \ {0} : a = h.ptr + 1
    BY <1>2
<1>6. h.end <= Len(s)
    BY <1>2, <1>4
<1>7. PICK u \in Seq(Held) : u = SubSeq(s, a, h.end)
    BY <1>2, <1>6, SliceIs
<1>8. /\ Len(u) = IF a <= h.end THEN h.end - a + 1 ELSE 0
      /\ \A i \in 1..h.end - a + 1 : u[i] = s[a + i - 1]
    BY <1>2, <1>6, <1>7, SliceIs
<1>9. Len(u) = h.end - h.ptr
    BY <1>2, <1>5, <1>8
<1>11. \A i \in 1..h.end - h.ptr : u[i] = s[h.ptr + i]
  <2> SUFFICES ASSUME NEW i \in 1..h.end - h.ptr PROVE u[i] = s[h.ptr + i]
      OBVIOUS
  <2>1. i \in 1..h.end - a + 1 /\ a + i - 1 = h.ptr + i
      BY <1>2, <1>5
  <2> QED
      BY <2>1, <1>8
<1>10. u = <<>> <=> Len(u) = 0
    OBVIOUS
<1> QED
  <2>1. u = Unread(h)
      BY <1>2, <1>3, <1>5, <1>7
  <2>2. Len(u) = 0 <=> h.ptr = h.end
      BY <1>2, <1>9
  <2> QED
      BY <2>1, <2>2, <1>3, <1>9, <1>10, <1>11

-----------------------------------------------------------------------------
(* Flushing *)

Sends(h, n) == [Wrote(h, SubSeq(h.buf, 1, n)) EXCEPT !.posn = @ + n]

LEMMA NoBytesType == NoBytes \in BufSet /\ 0 \in 0..BufSize
    BY BufAssumption DEF NoBytes, Held, BufSet

\* A handle that is neither reading nor writing, at the offset of the kernel.
Rests(h) == Layers(h, appends) /\ ~h.wrbuf /\ ~h.rdbuf

IsSent(i, h, n) == /\ Rests(i) /\ i.err = h.err
                   /\ i.disk = Overlay(h.disk, h.posn, SubSeq(h.buf, 1, n))
                   /\ i.posn = h.posn + n

IsIdle(i, w) == Rests(i) /\ i.disk = w.disk /\ i.err = w.err /\ i.posn = w.posn

LEMMA IdleIs ==
    ASSUME NEW w \in HandleSet, w.offset = w.posn, w.offset <= Len(w.disk),
           w.uniteof => w.offset = Len(w.disk), w.uniterr => w.err,
           NEW i, i = Idle(w)
    PROVE  IsIdle(i, w)
<1>1. i \in HandleSet
    BY NoBytesType DEF Idle, HandleSet
<1>2. /\ i.disk = w.disk /\ i.offset = w.offset /\ i.posn = w.posn /\ i.ptr = 0
      /\ i.end = 0 /\ i.rdbuf = FALSE /\ i.wrbuf = FALSE /\ i.err = w.err
      /\ i.uniteof = w.uniteof /\ i.uniterr = w.uniterr
    BY DEF Idle, HandleSet
<1>3. w.offset \in Nat /\ w.posn \in Int
    BY DEF HandleSet
<1> QED
    BY <1>1, <1>2, <1>3 DEF IsIdle, Rests, Layers

\* What n bytes written out of a write buffer leave, and the buffer given up.
LEMMA SentIs ==
    ASSUME NEW h, Layers(h, appends), h.wrbuf, NEW n \in 0..h.ptr, NEW i, i = Idle(Sends(h, n))
    PROVE  IsSent(i, h, n)
<1>1. h \in HandleSet /\ n \in 0..BufSize
    BY BufAssumption DEF Layers, HandleSet
<1>2. /\ h.posn = h.offset /\ h.posn \in 0..Len(h.disk) /\ h.end = 0
      /\ appends => h.posn = Len(h.disk)
      /\ h.uniteof => h.offset = Len(h.disk)
      /\ h.uniterr => h.err
    BY WriterIs DEF Layers
<1>3. h.disk \in Seq(Held) /\ h.posn \in Int /\ h.offset \in Nat
    BY <1>1 DEF HandleSet
<1>4. PICK s \in Seq(Held) : s = SubSeq(h.buf, 1, n)
    BY <1>1, CellsIs
<1>5. Len(s) = n /\ n \in Nat
    BY <1>1, <1>4, CellsIs
<1>6. PICK d \in Seq(Held) : d = Overlay(h.disk, h.posn, s)
    BY <1>2, <1>3, OverlayIs
<1>7. Len(d) = IF h.posn + n > Len(h.disk) THEN h.posn + n ELSE Len(h.disk)
    BY <1>2, <1>3, <1>5, <1>6, OverlayIs
<1>8. PICK q \in Nat : q = h.posn + n
    BY <1>2, <1>5
<1>9. Wrote(h, s) = [h EXCEPT !.disk = d, !.offset = q]
  <2>1. CASE s = <<>>
    <3>1. d = h.disk /\ q = h.offset
        BY <2>1, <1>2, <1>3, <1>5, <1>6, <1>8 DEF Overlay
    <3> QED
        BY <2>1, <3>1, <1>1 DEF Wrote, HandleSet
  <2>2. CASE s # <<>>
    <3>1. (IF appends THEN Len(h.disk) ELSE h.offset) = h.posn
        BY <1>2
    <3> QED
        BY <2>2, <3>1, <1>5, <1>6, <1>8 DEF Wrote
  <2> QED
      BY <2>1, <2>2
<1>10. PICK w : w = Sends(h, n)
    OBVIOUS
<1>11. w = [h EXCEPT !.disk = d, !.offset = q, !.posn = q]
    BY <1>1, <1>4, <1>8, <1>9, <1>10 DEF Sends, HandleSet
<1>12. q <= Len(d) /\ (h.uniteof => q = Len(d))
    BY <1>2, <1>3, <1>5, <1>7, <1>8
<1>13. w \in HandleSet
  <2>1. q \in Nat /\ q \in Int /\ d \in Seq(Held)
      BY <1>6, <1>8
  <2> QED
      BY <1>1, <1>11, <2>1, Zenon DEF HandleSet
<1>14. /\ w.disk = d /\ w.offset = q /\ w.posn = q /\ w.err = h.err
       /\ w.uniterr = h.uniterr /\ w.uniteof = h.uniteof
    BY <1>1, <1>11 DEF HandleSet
<1>15. IsIdle(i, w)
    BY <1>2, <1>10, <1>12, <1>13, <1>14, IdleIs
<1> QED
    BY <1>4, <1>6, <1>8, <1>14, <1>15 DEF IsSent, IsIdle

LEMMA ErringIs ==
    ASSUME NEW i, Rests(i), NEW reported \in BOOLEAN, NEW j, j = Erring(i, reported)
    PROVE  Rests(j) /\ j.err = TRUE /\ j.disk = i.disk /\ j.posn = i.posn
<1>1. i \in HandleSet
    BY DEF Rests, Layers
<1>2. j \in HandleSet
    BY <1>1 DEF Erring, HandleSet
<1>3. /\ j.disk = i.disk /\ j.offset = i.offset /\ j.posn = i.posn /\ j.ptr = i.ptr
      /\ j.end = i.end /\ j.rdbuf = i.rdbuf /\ j.wrbuf = i.wrbuf /\ j.err = TRUE
      /\ j.uniteof = i.uniteof
    BY <1>1 DEF Erring, HandleSet
<1> QED
    BY <1>2, <1>3 DEF Rests, Layers

LEMMA DrainedIs ==
    ASSUME NEW h, Layers(h, appends), h.wrbuf, NEW f \in Drained(h)
    PROVE  \/ f.ok = TRUE /\ f.h = Idle(Sends(h, h.ptr))
           \/ \E n \in 0..h.ptr - 1, reported \in BOOLEAN :
                 f.ok = FALSE /\ f.h = Erring(Idle(Sends(h, n)), reported)
<1>1. h \in HandleSet /\ h.ptr \in 0..BufSize /\ h.ptr \in Nat /\ BufSize \in Nat
    BY BufAssumption DEF Layers, HandleSet
<1>2. PICK all \in Seq(Held) : all = SubSeq(h.buf, 1, h.ptr)
    BY <1>1, CellsIs
<1>3. Len(all) = h.ptr /\ \A i \in 1..h.ptr : all[i] = h.buf[i]
    BY <1>1, <1>2, CellsIs
<1>4. Unwritten(h) = all
    BY <1>2 DEF Unwritten
<1>5. ASSUME NEW n \in 0..h.ptr
      PROVE  Sent(h, n) = Sends(h, n)
  <2>1. n \in Nat /\ n <= Len(all) /\ n \in 0..BufSize
      BY <1>1, <1>3
  <2>2. PICK s \in Seq(Held) : s = SubSeq(h.buf, 1, n)
      BY <2>1, CellsIs
  <2>3. Len(s) = n /\ \A i \in 1..n : s[i] = h.buf[i]
      BY <2>1, <2>2, CellsIs
  <2>4. PICK t \in Seq(Held) : t = SubSeq(all, 1, n)
      BY <2>1, CutIs
  <2>5. Len(t) = n /\ \A i \in 1..n : t[i] = all[i]
      BY <2>1, <2>4, CutIs
  <2>6. \A i \in 1..n : t[i] = s[i]
      BY <2>1, <2>3, <2>5, <1>1, <1>3
  <2>7. SubSeq(all, 1, n) = SubSeq(h.buf, 1, n)
      BY <2>2, <2>3, <2>4, <2>5, <2>6, SameSeq
  <2> QED
      BY <2>7, <1>4 DEF Sent, Sends
<1>6. \/ f = Good(Idle(Sent(h, h.ptr)))
      \/ \E n \in 0..h.ptr - 1, reported \in BOOLEAN : f = Bad(Erring(Idle(Sent(h, n)), reported))
  <2>1. Len(Unwritten(h)) = h.ptr
      BY <1>3, <1>4
  <2>2. f \in {Good(Idle(Sent(h, Len(Unwritten(h)))))} \cup
              {Bad(Erring(Idle(Sent(h, n)), reported)) :
                  n \in 0..Len(Unwritten(h)) - 1, reported \in BOOLEAN}
      BY DEF Drained
  <2>3. \/ f = Good(Idle(Sent(h, Len(Unwritten(h)))))
        \/ \E n \in 0..Len(Unwritten(h)) - 1, reported \in BOOLEAN :
              f = Bad(Erring(Idle(Sent(h, n)), reported))
    <3>1. CASE f \in {Good(Idle(Sent(h, Len(Unwritten(h)))))}
        BY <3>1
    <3>2. CASE f \in {Bad(Erring(Idle(Sent(h, n)), reported)) :
                         n \in 0..Len(Unwritten(h)) - 1, reported \in BOOLEAN}
        BY <3>2
    <3> QED
        BY <2>2, <3>1, <3>2
  <2> QED
      BY <2>1, <2>3, Zenon
<1>7. CASE f = Good(Idle(Sent(h, h.ptr)))
  <2>1. h.ptr \in 0..h.ptr
      BY <1>1
  <2>2. Sent(h, h.ptr) = Sends(h, h.ptr)
      BY <2>1, <1>5
  <2> QED
      BY <2>2, <1>7 DEF Good
<1>8. ASSUME NEW n \in 0..h.ptr - 1, NEW reported \in BOOLEAN,
             f = Bad(Erring(Idle(Sent(h, n)), reported))
      PROVE  f.ok = FALSE /\ f.h = Erring(Idle(Sends(h, n)), reported)
  <2>1. n \in 0..h.ptr
      BY <1>1
  <2>2. Sent(h, n) = Sends(h, n)
      BY <2>1, <1>5
  <2> QED
      BY <2>2, <1>8 DEF Bad
<1> QED
    BY <1>6, <1>7, <1>8, Zenon

LEMMA FlushKeeps ==
    ASSUME NEW h, Layers(h, appends), NEW f \in Flushed(h), f.ok
    PROVE  /\ f.h.err = h.err
           /\ \/ f.h = h /\ h.rdbuf /\ Logical(h) < 0 /\ Unread(h) # <<>>
              \/ /\ Rests(f.h) /\ f.h.disk = FileOf(h, appends) /\ Logical(f.h) = Logical(h)
                 /\ Unread(h) = <<>> =>
                       AheadOf(h, appends) = Beyond(f.h.disk, f.h.offset)
<1>1. h \in HandleSet /\ h.wrbuf \in BOOLEAN /\ h.rdbuf \in BOOLEAN /\ h.uniteof \in BOOLEAN
    BY DEF Layers, HandleSet
<1>2. CASE h.wrbuf
  <2>1. f \in Drained(h)
      BY <1>2 DEF Flushed
  <2>2. f.h = Idle(Sends(h, h.ptr))
      BY <2>1, <1>2, DrainedIs
  <2>3. h.ptr \in 0..h.ptr /\ h.ptr \in Nat
      BY BufAssumption DEF Layers, HandleSet
  <2>4. IsSent(f.h, h, h.ptr)
      BY <2>2, <2>3, <1>2, SentIs, Zenon
  <2>5. /\ FileOf(h, appends) = Overlay(h.disk, h.posn, SubSeq(h.buf, 1, h.ptr))
        /\ Logical(h) = h.posn + h.ptr
        /\ AheadOf(h, appends) = Beyond(FileOf(h, appends), Logical(h))
      BY <1>2, WriterIs
  <2>6. f.h.posn = f.h.offset /\ Logical(f.h) = f.h.offset
      BY <2>4, OtherIs DEF IsSent, Rests
  <2> QED
      BY <2>4, <2>5, <2>6 DEF IsSent
<1>3. CASE ~h.wrbuf /\ Unread(h) # <<>>
  <2>1. /\ h.rdbuf /\ FileOf(h, appends) = h.disk /\ Logical(h) = h.posn + h.ptr
        /\ Logical(h) \in Int /\ h.ptr <= h.end /\ h.ptr \in Nat /\ h.end \in Nat
        /\ h.posn \in Int /\ Len(h.disk) \in Nat
        /\ h.offset = h.posn + h.end /\ h.offset <= Len(h.disk)
      BY <1>1, <1>3, OtherIs
  <2>2. f \in SoughtBack(h)
      BY <1>3 DEF Flushed
  <2>3. CASE Logical(h) < 0
    <3>1. f.h = h
        BY <2>2, <2>3 DEF SoughtBack, Good
    <3> QED
        BY <3>1, <2>1, <2>3, <1>3
  <2>4. CASE ~(Logical(h) < 0)
    <3>1. PICK p \in Nat : p = Logical(h)
        BY <2>1, <2>4
    <3>2. PICK w : w = [Sought(h, p) EXCEPT !.posn = p]
        OBVIOUS
    <3>3. f.h = Idle(w)
        BY <2>2, <2>4, <3>1, <3>2 DEF SoughtBack, Good
    <3>4. w = [h EXCEPT !.offset = p, !.uniteof = FALSE, !.posn = p]
        BY <3>2 DEF Sought
    <3>5. w \in HandleSet
      <4>1. p \in Nat /\ p \in Int /\ FALSE \in BOOLEAN
          BY <3>1
      <4> QED
          BY <1>1, <3>4, <4>1, Zenon DEF HandleSet
    <3>6. /\ w.disk = h.disk /\ w.offset = p /\ w.posn = p /\ w.err = h.err
          /\ w.uniterr = h.uniterr /\ w.uniteof = FALSE
        BY <3>4, <1>1 DEF HandleSet
    <3>7. p <= Len(h.disk) /\ (h.uniterr => h.err)
        BY <3>1, <2>1 DEF Layers
    <3>8. IsIdle(f.h, w)
        BY <3>3, <3>5, <3>6, <3>7, IdleIs
    <3>9. Logical(f.h) = p
        BY <3>6, <3>8, OtherIs DEF IsIdle, Rests
    <3> QED
        BY <3>1, <3>6, <3>8, <3>9, <2>1, <1>3 DEF IsIdle
  <2> QED
      BY <2>3, <2>4
<1>4. CASE ~h.wrbuf /\ Unread(h) = <<>>
  <2>1. PICK w : w = [h EXCEPT !.posn = Logical(h)]
      OBVIOUS
  <2>9. f.h = Idle(w)
      BY <2>1, <1>4 DEF Flushed, Good
  <2>2. h.offset \in Nat /\ Logical(h) = h.offset /\ h.offset <= Len(h.disk)
    <3>1. CASE h.rdbuf
      <4>1. h.ptr = h.end
          BY <3>1, <1>4, UnreadIs
      <4> QED
          BY <4>1, <1>4, OtherIs
    <3>2. CASE ~h.rdbuf
        BY <3>2, <1>4, OtherIs
    <3> QED
        BY <3>1, <3>2, <1>1
  <2>3. w \in HandleSet
      BY <2>1, <2>2, <1>1 DEF HandleSet
  <2>4. /\ w.disk = h.disk /\ w.offset = h.offset /\ w.posn = h.offset /\ w.err = h.err
        /\ w.uniterr = h.uniterr /\ w.uniteof = h.uniteof
      BY <2>1, <2>2, <1>1 DEF HandleSet
  <2>5. IsIdle(f.h, w)
    <3>1. (h.uniteof => h.offset = Len(h.disk)) /\ (h.uniterr => h.err)
        BY DEF Layers
    <3> QED
        BY <3>1, <2>2, <2>3, <2>4, <2>9, IdleIs
  <2>6. Logical(f.h) = f.h.offset /\ f.h.offset = h.offset
      BY <2>4, <2>5, OtherIs DEF IsIdle, Rests
  <2>7. FileOf(h, appends) = h.disk
      BY <1>4, OtherIs
  <2>8. AheadOf(h, appends) = Beyond(h.disk, h.offset)
    <3>1. PICK z \in Seq(Held) : z = Beyond(h.disk, h.offset)
        BY <2>2, <1>4, OtherIs, BeyondIs
    <3>2. CASE h.rdbuf
      <4>1. AheadOf(h, appends) = <<>> \o z
          BY <3>1, <3>2, <1>4, OtherIs
      <4> QED
          BY <4>1, <3>1
    <3>3. CASE ~h.rdbuf
        BY <3>3, <1>4, OtherIs
    <3> QED
        BY <3>2, <3>3, <1>1
  <2> QED
      BY <2>2, <2>4, <2>5, <2>6, <2>7, <2>8 DEF IsIdle
<1> QED
    BY <1>1, <1>2, <1>3, <1>4

LEMMA FlushFails ==
    ASSUME NEW h, Layers(h, appends), NEW f \in Flushed(h), ~f.ok
    PROVE  /\ h.wrbuf /\ Rests(f.h) /\ f.h.err
           /\ \E n \in 0..h.ptr - 1 :
                 /\ f.h.disk = Overlay(h.disk, h.posn, SubSeq(h.buf, 1, n))
                 /\ f.h.posn = h.posn + n
<1>1. h.wrbuf
    BY DEF Flushed, SoughtBack, Good
<1>2. f \in Drained(h)
    BY <1>1 DEF Flushed
<1>3. PICK n \in 0..h.ptr - 1, reported \in BOOLEAN : f.h = Erring(Idle(Sends(h, n)), reported)
    BY <1>1, <1>2, DrainedIs
<1>4. n \in 0..h.ptr
    BY BufAssumption DEF Layers, HandleSet
<1>5. PICK i : i = Idle(Sends(h, n))
    OBVIOUS
<1>6. IsSent(i, h, n)
    BY <1>1, <1>4, <1>5, SentIs, Zenon
<1>8. Rests(i)
    BY <1>6 DEF IsSent
<1>7. Rests(f.h) /\ f.h.err = TRUE /\ f.h.disk = i.disk /\ f.h.posn = i.posn
    BY <1>3, <1>5, <1>8, ErringIs, Zenon
<1> QED
    BY <1>1, <1>6, <1>7 DEF IsSent

-----------------------------------------------------------------------------
(* Filling the buffer, and reading from it *)

LEMMA RestingIs ==
    ASSUME NEW h, Rests(h)
    PROVE  /\ FileOf(h, appends) = h.disk /\ h.disk \in Seq(Held) /\ Len(h.disk) \in Nat
           /\ h.offset \in Nat /\ h.offset <= Len(h.disk)
           /\ h.ptr = 0 /\ h.end = 0 /\ h.posn = h.offset /\ Logical(h) = h.offset
           /\ AheadOf(h, appends) = Beyond(h.disk, h.offset)
    BY OtherIs DEF Rests

\* To the program the one is the other.
Same(g, h) == /\ FileOf(g, appends) = FileOf(h, appends)
              /\ Logical(g) = Logical(h) /\ AheadOf(g, appends) = AheadOf(h, appends)

LEMMA BeyondSplits ==
    ASSUME NEW S, NEW f \in Seq(S), NEW p \in Nat, NEW u \in Seq(S), p + Len(u) <= Len(f),
           \A i \in 1..Len(u) : u[i] = Beyond(f, p)[i]
    PROVE  u \o Beyond(f, p + Len(u)) = Beyond(f, p)
<1>1. PICK q \in Nat : q = p + Len(u)
    OBVIOUS
<1>2. PICK n \in Nat : n = Len(u)
    OBVIOUS
<1>3. PICK l \in Nat : l = Len(f)
    OBVIOUS
<1>4. q = p + n /\ p <= l /\ q <= l
    BY <1>1, <1>2, <1>3
<1>5. PICK s \in Seq(S) : s = Beyond(f, p)
    BY BeyondIs
<1>6. Len(s) = l - p /\ \A i \in 1..l - p : s[i] = f[p + i]
    BY <1>3, <1>4, <1>5, BeyondIs
<1>7. PICK z \in Seq(S) : z = Beyond(f, q)
    BY BeyondIs
<1>8. Len(z) = l - q /\ \A i \in 1..l - q : z[i] = f[q + i]
    BY <1>3, <1>4, <1>7, BeyondIs
<1>9. PICK t \in Seq(S) : t = u \o z
    BY JoinIs
<1>10. /\ Len(t) = Len(u) + Len(z)
       /\ \A i \in 1..Len(u) + Len(z) : t[i] = IF i <= Len(u) THEN u[i] ELSE z[i - Len(u)]
    BY <1>9, JoinIs
<1>11. Len(t) = l - p
    BY <1>2, <1>4, <1>8, <1>10
<1>12. ASSUME NEW i \in 1..l - p PROVE t[i] = s[i]
  <2>1. CASE i <= n
      BY <2>1, <1>2, <1>5, <1>10, <1>11
  <2>2. CASE i > n
    <3>1. PICK j \in Nat : j = i - n
        BY <2>2
    <3>2. j \in 1..l - q /\ q + j = p + i
        BY <3>1, <2>2, <1>4
    <3>3. t[i] = z[j]
        BY <3>1, <2>2, <1>2, <1>10, <1>11
    <3> QED
        BY <3>2, <3>3, <1>6, <1>8
  <2> QED
      BY <2>1, <2>2
<1> QED
    BY <1>1, <1>5, <1>6, <1>7, <1>9, <1>11, <1>12, SameSeq

LEMMA LoadedIs ==
    ASSUME NEW h, Rests(h), NEW f \in Loaded(h)
    PROVE  /\ Layers(f.h, appends) /\ ~f.h.wrbuf /\ Same(f.h, h)
           /\ f.ok => /\ f.h.err = h.err /\ f.h.rdbuf /\ f.h.ptr = 0 /\ f.h.end > 0
                      /\ AheadOf(h, appends) # <<>>
           /\ ~f.ok => /\ Rests(f.h) /\ (h.err => f.h.err)
                       /\ AheadOf(h, appends) = <<>> \/ f.h.err
<1>1. h \in HandleSet /\ (h.uniterr => h.err) /\ ~h.rdbuf /\ ~h.wrbuf
      /\ (h.uniteof => h.offset = Len(h.disk))
    BY DEF Rests, Layers
<1>2. /\ FileOf(h, appends) = h.disk /\ h.disk \in Seq(Held) /\ Len(h.disk) \in Nat
      /\ h.offset \in Nat /\ h.offset <= Len(h.disk)
      /\ h.ptr = 0 /\ h.end = 0 /\ h.posn = h.offset /\ Logical(h) = h.offset
      /\ AheadOf(h, appends) = Beyond(h.disk, h.offset)
    BY RestingIs
<1>3. PICK rest \in Seq(Held) : rest = Beyond(h.disk, h.offset)
    BY <1>2, BeyondIs
<1>4. Len(rest) = Len(h.disk) - h.offset /\ \A i \in 1..Len(rest) : rest[i] = h.disk[h.offset + i]
    BY <1>2, <1>3, BeyondIs
<1>5. rest = <<>> <=> h.offset = Len(h.disk)
  <2>1. rest = <<>> <=> Len(rest) = 0
      OBVIOUS
  <2> QED
      BY <2>1, <1>2, <1>4
<1>6. CASE f = Bad(h) /\ (h.uniteof \/ h.uniterr)
    BY <1>1, <1>2, <1>3, <1>5, <1>6 DEF Bad, Same, Rests
<1>7. CASE rest = <<>> /\ f = Bad([h EXCEPT !.uniteof = TRUE])
  <2>1. PICK g : g = f.h
      OBVIOUS
  <2>2. g = [h EXCEPT !.uniteof = TRUE] /\ f.ok = FALSE
      BY <2>1, <1>7 DEF Bad
  <2>3. g \in HandleSet
      BY <2>2, <1>1 DEF HandleSet
  <2>4. /\ g.disk = h.disk /\ g.offset = h.offset /\ g.posn = h.posn /\ g.ptr = h.ptr
        /\ g.end = h.end /\ g.rdbuf = h.rdbuf /\ g.wrbuf = h.wrbuf /\ g.err = h.err
        /\ g.uniterr = h.uniterr
      BY <2>2, <1>1 DEF HandleSet
  <2>5. Rests(g)
      BY <2>3, <2>4, <1>1, <1>2, <1>5, <1>7 DEF Rests, Layers
  <2>6. /\ FileOf(g, appends) = g.disk /\ Logical(g) = g.offset
        /\ AheadOf(g, appends) = Beyond(g.disk, g.offset)
      BY <2>5, RestingIs
  <2> QED
      BY <2>1, <2>2, <2>4, <2>5, <2>6, <1>2, <1>3, <1>7 DEF Same, Rests
<1>8. ASSUME NEW reported \in BOOLEAN, f = Bad(Erring(h, reported))
      PROVE  Rests(f.h) /\ Same(f.h, h) /\ f.h.err = TRUE /\ f.ok = FALSE
  <2>1. PICK g : g = f.h
      OBVIOUS
  <2>2. g = Erring(h, reported) /\ f.ok = FALSE
      BY <2>1, <1>8 DEF Bad
  <2>3. Rests(g) /\ g.err = TRUE /\ g.disk = h.disk /\ g.posn = h.posn
      BY <2>2, ErringIs, Zenon
  <2>4. /\ FileOf(g, appends) = g.disk /\ Logical(g) = g.offset /\ g.posn = g.offset
        /\ AheadOf(g, appends) = Beyond(g.disk, g.offset)
      BY <2>3, RestingIs
  <2> QED
      BY <2>1, <2>2, <2>3, <2>4, <1>2 DEF Same
<1>9. ASSUME NEW n \in 1..Min({BufSize, Len(rest)}), rest # <<>>,
             f = Good([h EXCEPT !.buf = [i \in 1..BufSize |-> IF i <= n THEN rest[i] ELSE Junk],
                                !.end = n, !.offset = @ + n, !.rdbuf = TRUE])
      PROVE  /\ Layers(f.h, appends) /\ ~f.h.wrbuf /\ Same(f.h, h) /\ f.ok = TRUE
             /\ f.h.err = h.err /\ f.h.rdbuf /\ f.h.ptr = 0 /\ f.h.end > 0
  <2>1. n \in Nat /\ n > 0 /\ n <= BufSize /\ n <= Len(rest) /\ BufSize \in Nat
    <3>1. BufSize \in Nat /\ Len(rest) \in Nat
        BY BufAssumption
    <3>2. Min({BufSize, Len(rest)}) = IF BufSize <= Len(rest) THEN BufSize ELSE Len(rest)
        BY <3>1 DEF Min
    <3> QED
        BY <3>1, <3>2, <1>9
  <2>2. PICK b : b = [i \in 1..BufSize |-> IF i <= n THEN rest[i] ELSE Junk]
      OBVIOUS
  <2>3. b \in BufSet /\ \A i \in 1..n : b[i] = rest[i]
      BY <2>1, <2>2 DEF BufSet, Held
  <2>4. PICK g : g = f.h
      OBVIOUS
  <2>5. /\ g = [h EXCEPT !.buf = b, !.end = n, !.offset = h.offset + n, !.rdbuf = TRUE]
        /\ f.ok = TRUE
      BY <2>2, <2>4, <1>9 DEF Good
  <2>6. PICK q \in Nat : q = h.offset + n
      BY <2>1, <1>2
  <2>7. g \in HandleSet
    <3>1. n \in 0..BufSize /\ TRUE \in BOOLEAN
        BY <2>1
    <3> QED
        BY <3>1, <2>3, <2>5, <2>6, <1>1, Zenon DEF HandleSet
  <2>8. /\ g.disk = h.disk /\ g.offset = q /\ g.posn = h.posn /\ g.ptr = 0
        /\ g.end = n /\ g.rdbuf = TRUE /\ g.wrbuf = h.wrbuf /\ g.err = h.err
        /\ g.uniterr = h.uniterr /\ g.uniteof = h.uniteof /\ g.buf = b
      BY <2>5, <2>6, <1>1, <1>2 DEF HandleSet
  <2>9. q <= Len(h.disk) /\ h.offset # Len(h.disk)
      BY <2>1, <2>6, <1>2, <1>4, <1>5, <1>9
  <2>10. Layers(g, appends)
      BY <2>1, <2>6, <2>7, <2>8, <2>9, <1>1, <1>2 DEF Layers
  <2>11. /\ FileOf(g, appends) = h.disk /\ Logical(g) = h.offset
         /\ AheadOf(g, appends) = Unread(g) \o Beyond(h.disk, q)
    <3>1. /\ FileOf(g, appends) = g.disk /\ Logical(g) = g.posn + g.ptr
          /\ AheadOf(g, appends) = Unread(g) \o Beyond(g.disk, g.offset)
        BY <2>8, <2>10, <1>1, OtherIs
    <3> QED
        BY <3>1, <2>8, <1>2
  <2>12. Unread(g) \in Seq(Held) /\ Len(Unread(g)) = n /\ \A i \in 1..n : Unread(g)[i] = rest[i]
    <3>1. /\ Unread(g) \in Seq(Held) /\ Len(Unread(g)) = n - 0
          /\ \A i \in 1..n - 0 : Unread(g)[i] = b[0 + i]
        BY <2>8, <2>10, UnreadIs, Zenon
    <3> QED
        BY <3>1, <2>1, <2>3
  <2>13. Unread(g) \o Beyond(h.disk, q) = rest
    <3>1. PICK u \in Seq(Held) : u = Unread(g)
        BY <2>12
    <3>2. Len(u) = n /\ \A i \in 1..n : u[i] = rest[i]
        BY <3>1, <2>12
    <3>3. h.offset + Len(u) <= Len(h.disk)
        BY <3>2, <2>6, <2>9
    <3>4. \A i \in 1..Len(u) : u[i] = Beyond(h.disk, h.offset)[i]
        BY <3>2, <1>3
    <3>5. u \o Beyond(h.disk, h.offset + Len(u)) = Beyond(h.disk, h.offset)
        BY <3>3, <3>4, <1>2, BeyondSplits
    <3> QED
        BY <3>1, <3>2, <3>5, <2>6, <1>3
  <2> QED
    <3>1. Same(g, h)
        BY <2>11, <2>13, <1>2, <1>3 DEF Same
    <3>2. g.rdbuf /\ ~g.wrbuf /\ g.ptr = 0 /\ g.end > 0 /\ g.err = h.err
        BY <2>1, <2>8, <1>1
    <3> QED
        BY <3>1, <3>2, <2>4, <2>5, <2>10
<1>10. \/ f = Bad(h) /\ (h.uniteof \/ h.uniterr)
       \/ rest = <<>> /\ f = Bad([h EXCEPT !.uniteof = TRUE])
       \/ \E reported \in BOOLEAN : f = Bad(Erring(h, reported))
       \/ /\ rest # <<>>
          /\ \E n \in 1..Min({BufSize, Len(rest)}) :
             f = Good([h EXCEPT !.buf = [i \in 1..BufSize |-> IF i <= n THEN rest[i] ELSE Junk],
                                !.end = n, !.offset = @ + n, !.rdbuf = TRUE])
    BY <1>3 DEF Loaded
<1> QED
    BY <1>2, <1>3, <1>6, <1>7, <1>8, <1>9, <1>10 DEF Rests

\* The flush of h that failed left g: some of the written bytes are in the file.
Failure(g, h) == /\ h.wrbuf /\ Rests(g) /\ g.err
                 /\ \E n \in 0..h.ptr - 1 :
                       /\ g.disk = Overlay(h.disk, h.posn, SubSeq(h.buf, 1, n))
                       /\ g.posn = h.posn + n

FillsWell(g, h) == /\ Layers(g, appends) /\ ~g.wrbuf /\ Same(g, h) /\ g.err = h.err
                   /\ g.rdbuf /\ g.ptr = 0 /\ g.end > 0 /\ AheadOf(h, appends) # <<>>
FillsNot(g, h) == /\ Rests(g) /\ Same(g, h) /\ (h.err => g.err)
                  /\ AheadOf(h, appends) = <<>> \/ g.err

LEMMA FilledIs ==
    ASSUME NEW h, Layers(h, appends), Unread(h) = <<>>, NEW f \in Filled(h)
    PROVE  \/ f.ok /\ FillsWell(f.h, h)
           \/ ~f.ok /\ FillsNot(f.h, h)
           \/ ~f.ok /\ Failure(f.h, h)
<1>1. PICK g \in Flushed(h) : f \in IF g.ok THEN Loaded(g.h) ELSE {g}
    BY DEF Filled
<1>2. CASE ~g.ok
  <2>1. f = g
      BY <1>1, <1>2
  <2>2. Failure(g.h, h)
      BY <1>2, FlushFails DEF Failure
  <2> QED
      BY <2>1, <2>2, <1>2
<1>3. CASE g.ok
  <2>1. f \in Loaded(g.h)
      BY <1>1, <1>3
  <2>2. /\ g.h.err = h.err /\ Rests(g.h) /\ g.h.disk = FileOf(h, appends)
        /\ Logical(g.h) = Logical(h)
        /\ AheadOf(h, appends) = Beyond(g.h.disk, g.h.offset)
      BY <1>3, FlushKeeps
  <2>3. Same(g.h, h)
      BY <2>2, RestingIs DEF Same
  <2>4. PICK k : k = g.h
      OBVIOUS
  <2>5. /\ Layers(f.h, appends) /\ ~f.h.wrbuf /\ Same(f.h, k)
        /\ f.ok => /\ f.h.err = k.err /\ f.h.rdbuf /\ f.h.ptr = 0 /\ f.h.end > 0
                   /\ AheadOf(k, appends) # <<>>
        /\ ~f.ok => /\ Rests(f.h) /\ (k.err => f.h.err)
                    /\ AheadOf(k, appends) = <<>> \/ f.h.err
      BY <2>1, <2>2, <2>4, LoadedIs
  <2>6. Same(f.h, h) /\ k.err = h.err /\ AheadOf(k, appends) = AheadOf(h, appends)
      BY <2>2, <2>3, <2>4, <2>5 DEF Same
  <2> QED
      BY <2>5, <2>6 DEF FillsWell, FillsNot
<1> QED
    BY <1>2, <1>3

LEMMA FailureLoses ==
    ASSUME NEW k, Layers(k, appends), NEW g, Failure(g, k), NEW s \in Seq(Held),
           k.ptr <= Len(s) + 1, \A i \in 1..Len(s) : i < k.ptr => k.buf[i] = s[i]
    PROVE  /\ Loses(Overlay(k.disk, k.posn, s), k.posn + Len(s), g.disk, Logical(g))
           /\ FileOf(g, appends) = g.disk /\ Logical(g) \in Nat
           /\ AheadOf(g, appends) = Stream!From(g.disk, Logical(g))
<1>1. /\ k.disk \in Seq(Held) /\ k.posn \in 0..Len(k.disk) /\ k.ptr \in 0..BufSize
      /\ BufSize \in Nat /\ k.wrbuf
  <2>1. k.wrbuf
      BY DEF Failure
  <2>2. k.posn \in 0..Len(k.disk)
      BY <2>1, WriterIs
  <2> QED
      BY <2>1, <2>2, BufAssumption DEF Layers, HandleSet
<1>2. PICK n \in 0..k.ptr - 1 : /\ g.disk = Overlay(k.disk, k.posn, SubSeq(k.buf, 1, n))
                                /\ g.posn = k.posn + n
    BY DEF Failure
<1>3. n \in 0..BufSize /\ n \in Nat /\ n < k.ptr /\ n <= Len(s)
    BY <1>1
<1>4. PICK t \in Seq(Held) : t = SubSeq(k.buf, 1, n)
    BY <1>3, CellsIs
<1>5. Len(t) = n /\ \A i \in 1..n : t[i] = k.buf[i]
    BY <1>3, <1>4, CellsIs
<1>6. Len(t) <= Len(s) /\ \A i \in 1..Len(t) : t[i] = s[i]
    BY <1>1, <1>3, <1>5
<1>7. Loses(Overlay(k.disk, k.posn, s), k.posn + Len(s), Overlay(k.disk, k.posn, t),
            k.posn + Len(t))
    BY <1>1, <1>6, LosesSome, Zenon
<1>8. Rests(g)
    BY DEF Failure
<1>9. /\ FileOf(g, appends) = g.disk /\ g.disk \in Seq(Held)
      /\ g.offset \in Nat /\ g.posn = g.offset /\ Logical(g) = g.offset
      /\ AheadOf(g, appends) = Beyond(g.disk, g.offset)
    BY <1>8, RestingIs
<1>10. Beyond(g.disk, g.offset) = Stream!From(g.disk, g.offset)
    BY <1>9, BeyondIs DEF Stream!From
<1> QED
    BY <1>2, <1>4, <1>5, <1>7, <1>9, <1>10

LEMMA TailOf ==
    ASSUME NEW S, NEW s \in Seq(S), s # <<>>
    PROVE  /\ Tail(s) \in Seq(S) /\ Len(Tail(s)) = Len(s) - 1
           /\ \A i \in 1..Len(s) - 1 : Tail(s)[i] = s[i + 1]
    OBVIOUS

LEMMA HeadOfJoin ==
    ASSUME NEW S, NEW u \in Seq(S), NEW z \in Seq(S), u # <<>>
    PROVE  u \o z # <<>> /\ Head(u \o z) = Head(u) /\ Tail(u \o z) = Tail(u) \o z
<1>1. PICK t \in Seq(S) : t = u \o z
    BY JoinIs
<1>2. /\ Len(t) = Len(u) + Len(z) /\ Len(u) \in Nat \ {0} /\ Len(z) \in Nat
      /\ \A i \in 1..Len(u) + Len(z) : t[i] = IF i <= Len(u) THEN u[i] ELSE z[i - Len(u)]
    BY <1>1, JoinIs
<1>3. t # <<>> /\ Head(t) = Head(u)
  <2>1. t[1] = u[1]
      BY <1>2
  <2> QED
      BY <2>1, <1>2
<1>4. PICK v \in Seq(S) : v = Tail(u)
    BY TailOf
<1>5. Len(v) = Len(u) - 1 /\ \A i \in 1..Len(u) - 1 : v[i] = u[i + 1]
    BY <1>4, TailOf
<1>6. PICK w \in Seq(S) : w = Tail(t)
    BY <1>3, TailOf
<1>7. Len(w) = Len(t) - 1 /\ \A i \in 1..Len(t) - 1 : w[i] = t[i + 1]
    BY <1>3, <1>6, TailOf
<1>8. PICK y \in Seq(S) : y = v \o z
    BY JoinIs
<1>9. /\ Len(y) = Len(v) + Len(z)
      /\ \A i \in 1..Len(v) + Len(z) : y[i] = IF i <= Len(v) THEN v[i] ELSE z[i - Len(v)]
    BY <1>8, JoinIs
<1>10. Len(w) = Len(y)
    BY <1>2, <1>5, <1>7, <1>9
<1>11. ASSUME NEW i \in 1..Len(w) PROVE w[i] = y[i]
  <2>1. w[i] = t[i + 1] /\ i + 1 \in 1..Len(u) + Len(z) /\ i \in 1..Len(v) + Len(z)
      BY <1>2, <1>5, <1>7, <1>9, <1>10
  <2>2. CASE i <= Len(v)
      BY <2>1, <2>2, <1>2, <1>5, <1>9
  <2>3. CASE ~(i <= Len(v))
    <3>1. ~(i + 1 <= Len(u)) /\ i + 1 - Len(u) = i - Len(v)
        BY <2>3, <1>2, <1>5
    <3> QED
        BY <2>1, <2>3, <3>1, <1>2, <1>9
  <2> QED
      BY <2>2, <2>3
<1>12. w = y
    BY <1>10, <1>11, SameSeq
<1> QED
    BY <1>1, <1>3, <1>4, <1>6, <1>8, <1>12

\* The byte at ptr is read.
Advances(h, g) == g = [h EXCEPT !.ptr = @ + 1]

LEMMA PlusOne == \A a \in Nat, b \in Nat \ {0} : a + (b + 1) = a + 1 + b
    OBVIOUS

LEMMA ReadIs ==
    ASSUME NEW h, Layers(h, appends), h.rdbuf, Unread(h) # <<>>, NEW g, Advances(h, g)
    PROVE  /\ Layers(g, appends) /\ ~g.wrbuf /\ g.rdbuf /\ g.err = h.err
           /\ FileOf(g, appends) = FileOf(h, appends) /\ Logical(g) = Logical(h) + 1
           /\ Head(Unread(h)) = Head(AheadOf(h, appends)) /\ Head(Unread(h)) = h.buf[h.ptr + 1]
           /\ AheadOf(h, appends) # <<>> /\ AheadOf(g, appends) = Tail(AheadOf(h, appends))
<1>1. h \in HandleSet /\ ~h.wrbuf /\ BufSize \in Nat
    BY BufAssumption DEF Layers, HandleSet
<1>2. /\ FileOf(h, appends) = h.disk /\ h.disk \in Seq(Held)
      /\ Logical(h) = h.posn + h.ptr /\ h.posn \in Int
      /\ h.ptr \in Nat /\ h.end \in Nat /\ h.offset \in Nat
      /\ h.ptr <= h.end /\ h.end <= BufSize
      /\ AheadOf(h, appends) = Unread(h) \o Beyond(h.disk, h.offset)
    BY <1>1, OtherIs
<1>3. PICK u \in Seq(Held) : u = Unread(h)
    BY UnreadIs
<1>4. /\ Len(u) = h.end - h.ptr /\ h.ptr # h.end
      /\ \A i \in 1..h.end - h.ptr : u[i] = h.buf[h.ptr + i]
    BY <1>3, UnreadIs
<1>5. h.ptr + 1 \in 0..BufSize /\ h.ptr + 1 <= h.end
    BY <1>1, <1>2, <1>4
<1>6. g \in HandleSet
    BY <1>1, <1>5 DEF HandleSet, Advances
<1>7. /\ g.disk = h.disk /\ g.offset = h.offset /\ g.posn = h.posn /\ g.ptr = h.ptr + 1
      /\ g.end = h.end /\ g.rdbuf = h.rdbuf /\ g.wrbuf = h.wrbuf /\ g.err = h.err
      /\ g.uniterr = h.uniterr /\ g.uniteof = h.uniteof /\ g.buf = h.buf
    BY <1>1 DEF HandleSet, Advances
<1>8. Layers(g, appends)
    BY <1>5, <1>6, <1>7 DEF Layers
<1>9. PICK v \in Seq(Held) : v = Unread(g)
    BY <1>7, <1>8, UnreadIs
<1>10. Len(v) = h.end - (h.ptr + 1) /\ \A i \in 1..h.end - (h.ptr + 1) : v[i] = h.buf[h.ptr + 1 + i]
  <2>1. /\ Len(v) = g.end - g.ptr
        /\ \A i \in 1..g.end - g.ptr : v[i] = g.buf[g.ptr + i]
    <3>1. g.rdbuf
        BY <1>7
    <3> QED
        BY <3>1, <1>8, <1>9, UnreadIs, Zenon
  <2>2. g.end = h.end /\ g.ptr = h.ptr + 1 /\ g.buf = h.buf
      BY <1>7
  <2> QED
      BY <2>1, <2>2, Zenon
<1>11. /\ FileOf(g, appends) = h.disk /\ Logical(g) = h.posn + (h.ptr + 1)
       /\ AheadOf(g, appends) = v \o Beyond(h.disk, h.offset)
  <2>1. /\ FileOf(g, appends) = g.disk /\ Logical(g) = g.posn + g.ptr
        /\ AheadOf(g, appends) = Unread(g) \o Beyond(g.disk, g.offset)
    <3>1. g.rdbuf /\ ~g.wrbuf
        BY <1>1, <1>7
    <3> QED
        BY <3>1, <1>8, OtherIs, Zenon
  <2> QED
      BY <2>1, <1>7, <1>9, Zenon
<1>12. u # <<>> /\ Head(u) = h.buf[h.ptr + 1]
  <2>1. 1 \in 1..h.end - h.ptr
      BY <1>2, <1>4
  <2> QED
      BY <2>1, <1>3, <1>4
<1>13. v = Tail(u)
  <2>1. PICK t \in Seq(Held) : t = Tail(u)
      BY <1>12, TailOf
  <2>2. Len(t) = Len(u) - 1 /\ \A i \in 1..Len(u) - 1 : t[i] = u[i + 1]
      BY <2>1, <1>12, TailOf
  <2>3. Len(t) = Len(v)
      BY <2>2, <1>2, <1>4, <1>10
  <2>4. ASSUME NEW i \in 1..Len(v) PROVE v[i] = t[i]
    <3>1. /\ i \in 1..Len(u) - 1 /\ i + 1 \in 1..h.end - h.ptr /\ i \in 1..h.end - (h.ptr + 1)
          /\ h.ptr + (i + 1) = h.ptr + 1 + i
      <4>1. h.ptr \in Nat /\ h.end \in Nat /\ Len(u) = h.end - h.ptr /\ Len(v) = h.end - (h.ptr + 1)
          BY <1>2, <1>4, <1>10
      <4>2. i \in Nat \ {0} /\ i <= Len(v)
          BY <4>1
      <4>3. i <= h.end - (h.ptr + 1) /\ i + 1 <= h.end - h.ptr /\ i <= Len(u) - 1
          BY <4>1, <4>2
      <4>4. h.ptr + (i + 1) = h.ptr + 1 + i
          BY <4>1, <4>2, PlusOne, Zenon
      <4>5. h.end - (h.ptr + 1) \in Int /\ h.end - h.ptr \in Int /\ Len(u) - 1 \in Int
          BY <4>1
      <4> QED
          BY <4>2, <4>3, <4>4, <4>5
    <3> QED
        BY <3>1, <2>2, <1>4, <1>10
  <2> QED
      BY <2>1, <2>3, <2>4, SameSeq
<1>14. PICK z \in Seq(Held) : z = Beyond(h.disk, h.offset)
    BY <1>2, BeyondIs
<1>15. u \o z # <<>> /\ Head(u \o z) = Head(u) /\ Tail(u \o z) = Tail(u) \o z
    BY <1>12, HeadOfJoin
<1> QED
  <2>1. Logical(g) = Logical(h) + 1 /\ FileOf(g, appends) = FileOf(h, appends)
      BY <1>2, <1>11
  <2>2. AheadOf(h, appends) = u \o z /\ AheadOf(g, appends) = Tail(u) \o z
      BY <1>2, <1>3, <1>11, <1>13, <1>14
  <2> QED
      BY <2>1, <2>2, <1>1, <1>3, <1>7, <1>8, <1>12, <1>15

-----------------------------------------------------------------------------
(* Pushing back, and writing to the buffer *)

LEMMA JoinAssoc ==
    ASSUME NEW S, NEW r \in Seq(S), NEW s \in Seq(S), NEW t \in Seq(S)
    PROVE  (r \o s) \o t = r \o (s \o t)
<1>1. PICK a \in Seq(S) : a = r \o s
    BY JoinIs
<1>2. PICK x \in Seq(S) : x = a \o t
    BY JoinIs
<1>3. PICK b \in Seq(S) : b = s \o t
    BY JoinIs
<1>4. PICK y \in Seq(S) : y = r \o b
    BY JoinIs
<1>5. /\ Len(a) = Len(r) + Len(s)
      /\ \A i \in 1..Len(r) + Len(s) : a[i] = IF i <= Len(r) THEN r[i] ELSE s[i - Len(r)]
    BY <1>1, JoinIs
<1>6. /\ Len(x) = Len(a) + Len(t)
      /\ \A i \in 1..Len(a) + Len(t) : x[i] = IF i <= Len(a) THEN a[i] ELSE t[i - Len(a)]
    BY <1>2, JoinIs
<1>7. /\ Len(b) = Len(s) + Len(t)
      /\ \A i \in 1..Len(s) + Len(t) : b[i] = IF i <= Len(s) THEN s[i] ELSE t[i - Len(s)]
    BY <1>3, JoinIs
<1>8. /\ Len(y) = Len(r) + Len(b)
      /\ \A i \in 1..Len(r) + Len(b) : y[i] = IF i <= Len(r) THEN r[i] ELSE b[i - Len(r)]
    BY <1>4, JoinIs
<1>9. Len(x) = Len(y) /\ Len(r) \in Nat /\ Len(s) \in Nat /\ Len(t) \in Nat
    BY <1>5, <1>6, <1>7, <1>8
<1>10. ASSUME NEW i \in 1..Len(x) PROVE x[i] = y[i]
  <2>1. CASE i <= Len(r)
    <3>1. i <= Len(a) /\ i \in 1..Len(r) + Len(s) /\ i \in 1..Len(a) + Len(t) /\ i \in 1..Len(r) + Len(b)
        BY <2>1, <1>5, <1>6, <1>7, <1>9
    <3> QED
        BY <2>1, <3>1, <1>5, <1>6, <1>8
  <2>2. CASE ~(i <= Len(r)) /\ i <= Len(a)
    <3>0. i \in Nat /\ Len(r) \in Nat /\ ~(i <= Len(r))
        BY <2>2, <1>9
    <3>1. PICK j \in Nat : j = i - Len(r)
      <4>1. i - Len(r) \in Nat
          BY <3>0
      <4> QED
          BY <4>1, Zenon
    <3>2. /\ i \in 1..Len(r) + Len(s) /\ i \in 1..Len(a) + Len(t) /\ i \in 1..Len(r) + Len(b)
          /\ j \in 1..Len(s) + Len(t) /\ j <= Len(s)
        BY <3>1, <2>2, <1>5, <1>6, <1>7, <1>9
    <3>3. x[i] = s[j]
        BY <3>1, <3>2, <2>2, <1>5, <1>6
    <3>4. y[i] = s[j]
        BY <3>1, <3>2, <2>2, <1>7, <1>8
    <3> QED
        BY <3>3, <3>4
  <2>3. CASE ~(i <= Len(a))
    <3>1. PICK j \in Nat : j = i - Len(r)
        BY <2>3, <1>5, <1>9
    <3>2. /\ i \in 1..Len(a) + Len(t) /\ i \in 1..Len(r) + Len(b) /\ ~(i <= Len(r))
          /\ j \in 1..Len(s) + Len(t) /\ ~(j <= Len(s)) /\ j - Len(s) = i - Len(a)
        BY <3>1, <2>3, <1>5, <1>6, <1>7, <1>9
    <3>3. x[i] = t[i - Len(a)]
        BY <3>2, <2>3, <1>6
    <3>4. y[i] = t[j - Len(s)]
        BY <3>1, <3>2, <1>7, <1>8
    <3> QED
        BY <3>2, <3>3, <3>4
  <2> QED
      BY <2>1, <2>2, <2>3
<1> QED
    BY <1>1, <1>2, <1>3, <1>4, <1>9, <1>10, SameSeq

\* The byte goes in front of the rest, in the buffer: h becomes g.
PushesBack(h, g, b) ==
    /\ Layers(g, appends) /\ g.rdbuf /\ ~g.wrbuf /\ g.err = h.err
    /\ FileOf(g, appends) = FileOf(h, appends) /\ Logical(g) = Logical(h) - 1
    /\ AheadOf(g, appends) = <<b>> \o AheadOf(h, appends)

Ungets(h, g, b) == g = [h EXCEPT !.ptr = @ - 1, !.buf[h.ptr] = b]

LEMMA UngetsIs ==
    ASSUME NEW h, Layers(h, appends), h.rdbuf, h.ptr > 0, NEW b \in Held, NEW g, Ungets(h, g, b)
    PROVE  PushesBack(h, g, b)
<1>1. h \in HandleSet /\ ~h.wrbuf /\ BufSize \in Nat /\ h.buf \in BufSet /\ h.ptr \in 0..BufSize
    BY BufAssumption DEF Layers, HandleSet
<1>2. /\ FileOf(h, appends) = h.disk /\ h.disk \in Seq(Held)
      /\ Logical(h) = h.posn + h.ptr /\ h.posn \in Int
      /\ h.ptr \in Nat /\ h.end \in Nat /\ h.offset \in Nat
      /\ h.ptr <= h.end /\ h.end <= BufSize
      /\ AheadOf(h, appends) = Unread(h) \o Beyond(h.disk, h.offset)
    BY <1>1, OtherIs
<1>3. PICK c \in BufSet : c = [h.buf EXCEPT ![h.ptr] = b]
    BY <1>1 DEF BufSet
<1>4. c[h.ptr] = b /\ \A i \in 1..BufSize : i # h.ptr => c[i] = h.buf[i]
    BY <1>1, <1>2, <1>3 DEF BufSet
<1>5. PICK p \in Nat : p = h.ptr - 1
    BY <1>2
<1>6. p \in 0..BufSize /\ h.ptr = p + 1
    BY <1>1, <1>2, <1>5
<1>7. g = [h EXCEPT !.ptr = p, !.buf = c]
    BY <1>1, <1>3, <1>5 DEF Ungets, HandleSet
<1>8. g \in HandleSet
    BY <1>1, <1>3, <1>6, <1>7, Zenon DEF HandleSet
<1>9. /\ g.disk = h.disk /\ g.offset = h.offset /\ g.posn = h.posn /\ g.ptr = p
      /\ g.end = h.end /\ g.rdbuf = h.rdbuf /\ g.wrbuf = h.wrbuf /\ g.err = h.err
      /\ g.uniterr = h.uniterr /\ g.uniteof = h.uniteof /\ g.buf = c
    BY <1>1, <1>7 DEF HandleSet
<1>10. p <= h.end
    BY <1>2, <1>6
<1>11. Layers(g, appends)
    BY <1>8, <1>9, <1>10 DEF Layers
<1>12. g.rdbuf /\ ~g.wrbuf
    BY <1>1, <1>9
<1>13. /\ FileOf(g, appends) = h.disk /\ Logical(g) = h.posn + p
       /\ AheadOf(g, appends) = Unread(g) \o Beyond(h.disk, h.offset)
  <2>1. /\ FileOf(g, appends) = g.disk /\ Logical(g) = g.posn + g.ptr
        /\ AheadOf(g, appends) = Unread(g) \o Beyond(g.disk, g.offset)
      BY <1>11, <1>12, OtherIs, Zenon
  <2> QED
      BY <2>1, <1>9, Zenon
<1>14. PICK u \in Seq(Held) : u = Unread(h)
    BY UnreadIs
<1>15. Len(u) = h.end - h.ptr /\ \A i \in 1..h.end - h.ptr : u[i] = h.buf[h.ptr + i]
    BY <1>14, UnreadIs
<1>16. PICK v \in Seq(Held) : v = Unread(g)
    BY <1>11, <1>12, UnreadIs, Zenon
<1>17. Len(v) = h.end - p /\ \A i \in 1..h.end - p : v[i] = c[p + i]
  <2>1. /\ Len(v) = g.end - g.ptr
        /\ \A i \in 1..g.end - g.ptr : v[i] = g.buf[g.ptr + i]
      BY <1>11, <1>12, <1>16, UnreadIs, Zenon
  <2> QED
      BY <2>1, <1>9, Zenon
<1>18. v = <<b>> \o u
  <2>0. <<b>> \in Seq(Held)
      OBVIOUS
  <2>1. PICK o \in Seq(Held) : o = <<b>>
      BY <2>0, Zenon
  <2>2. Len(o) = 1 /\ o[1] = b
      BY <2>1
  <2>3. PICK w \in Seq(Held) : w = o \o u
      BY JoinIs
  <2>4. /\ Len(w) = 1 + Len(u)
        /\ \A i \in 1..1 + Len(u) : w[i] = IF i <= 1 THEN o[i] ELSE u[i - 1]
      BY <2>2, <2>3, JoinIs
  <2>5. Len(w) = Len(v)
      BY <2>4, <1>2, <1>6, <1>15, <1>17
  <2>6. v[1] = w[1]
    <3>1. 1 \in 1..h.end - p /\ 1 \in 1..1 + Len(u) /\ p + 1 = h.ptr
        BY <1>2, <1>6, <1>15
    <3> QED
        BY <3>1, <2>2, <2>4, <1>4, <1>17
  <2>7. ASSUME NEW i \in 1..Len(v), i # 1 PROVE v[i] = w[i]
    <3>1. PICK j \in Nat : j = i - 1
        BY <2>7
    <3>2. /\ j \in 1..h.end - h.ptr /\ i \in 1..h.end - p /\ i \in 1..1 + Len(u) /\ ~(i <= 1)
          /\ h.ptr + j = p + i /\ p + i \in 1..BufSize /\ p + i # h.ptr
        BY <3>1, <2>7, <1>1, <1>2, <1>6, <1>15, <1>17
    <3> QED
        BY <3>1, <3>2, <2>4, <1>4, <1>15, <1>17
  <2>8. \A i \in 1..Len(v) : v[i] = w[i]
      BY <2>6, <2>7
  <2>9. v = w
      BY <2>5, <2>8, SameSeq
  <2> QED
      BY <2>1, <2>3, <2>9
<1>19. PICK z \in Seq(Held) : z = Beyond(h.disk, h.offset)
    BY <1>2, BeyondIs
<1>20. <<b>> \in Seq(Held)
    OBVIOUS
<1>21. (<<b>> \o u) \o z = <<b>> \o (u \o z)
    BY <1>20, JoinAssoc
<1>22. AheadOf(g, appends) = <<b>> \o AheadOf(h, appends)
    BY <1>2, <1>13, <1>14, <1>16, <1>18, <1>19, <1>21
<1>23. Logical(g) = Logical(h) - 1
    BY <1>2, <1>6, <1>13
<1> QED
    BY <1>2, <1>9, <1>11, <1>12, <1>13, <1>22, <1>23 DEF PushesBack

\* Pushing back on a buffer that is not in use makes it one that was read to
\* its end, which is where the kernel is.
BeginsAtEnd(h, g, b) == g = [h EXCEPT !.rdbuf = TRUE, !.posn = @ - BufSize,
                                !.ptr = BufSize - 1, !.end = BufSize, !.buf[BufSize] = b]

LEMMA BeginsAtEndIs ==
    ASSUME NEW h, Rests(h), NEW b \in Held, NEW g, BeginsAtEnd(h, g, b)
    PROVE  PushesBack(h, g, b)
<1>1. h \in HandleSet /\ ~h.wrbuf /\ BufSize \in Nat \ {0} /\ h.buf \in BufSet
    BY BufAssumption DEF Rests, Layers, HandleSet
<1>2. /\ FileOf(h, appends) = h.disk /\ h.disk \in Seq(Held)
      /\ h.offset \in Nat /\ h.offset <= Len(h.disk)
      /\ h.posn = h.offset /\ Logical(h) = h.offset
      /\ AheadOf(h, appends) = Beyond(h.disk, h.offset)
    BY RestingIs
<1>3. PICK c \in BufSet : c = [h.buf EXCEPT ![BufSize] = b]
    BY <1>1 DEF BufSet
<1>4. c[BufSize] = b
    BY <1>1, <1>3 DEF BufSet
<1>5. PICK p \in Nat : p = BufSize - 1
    BY <1>1
<1>6. PICK q \in Int : q = h.posn - BufSize
    BY <1>1, <1>2
<1>7. g = [h EXCEPT !.rdbuf = TRUE, !.posn = q, !.ptr = p, !.end = BufSize, !.buf = c]
    BY <1>1, <1>3, <1>5, <1>6 DEF BeginsAtEnd, HandleSet
<1>8. g \in HandleSet
  <2>1. p \in 0..BufSize /\ BufSize \in 0..BufSize /\ TRUE \in BOOLEAN
      BY <1>1, <1>5
  <2> QED
      BY <2>1, <1>1, <1>3, <1>6, <1>7, Zenon DEF HandleSet
<1>9. /\ g.disk = h.disk /\ g.offset = h.offset /\ g.posn = q /\ g.ptr = p
      /\ g.end = BufSize /\ g.rdbuf = TRUE /\ g.wrbuf = h.wrbuf /\ g.err = h.err
      /\ g.uniterr = h.uniterr /\ g.uniteof = h.uniteof /\ g.buf = c
    BY <1>1, <1>7 DEF HandleSet
<1>10. Layers(g, appends)
  <2>1. h.offset = q + BufSize /\ p <= BufSize
      BY <1>1, <1>2, <1>5, <1>6
  <2>2. (h.uniteof => h.offset = Len(h.disk)) /\ (h.uniterr => h.err)
      BY DEF Rests, Layers
  <2> QED
      BY <2>1, <2>2, <1>1, <1>2, <1>8, <1>9 DEF Layers
<1>11. g.rdbuf /\ ~g.wrbuf
    BY <1>1, <1>9
<1>12. /\ FileOf(g, appends) = h.disk /\ Logical(g) = q + p
       /\ AheadOf(g, appends) = Unread(g) \o Beyond(h.disk, h.offset)
  <2>1. /\ FileOf(g, appends) = g.disk /\ Logical(g) = g.posn + g.ptr
        /\ AheadOf(g, appends) = Unread(g) \o Beyond(g.disk, g.offset)
      BY <1>10, <1>11, OtherIs, Zenon
  <2> QED
      BY <2>1, <1>9, Zenon
<1>13. PICK v \in Seq(Held) : v = Unread(g)
    BY <1>10, <1>11, UnreadIs, Zenon
<1>14. Len(v) = BufSize - p /\ \A i \in 1..BufSize - p : v[i] = c[p + i]
  <2>1. /\ Len(v) = g.end - g.ptr
        /\ \A i \in 1..g.end - g.ptr : v[i] = g.buf[g.ptr + i]
      BY <1>10, <1>11, <1>13, UnreadIs, Zenon
  <2> QED
      BY <2>1, <1>9, Zenon
<1>15. v = <<b>>
  <2>1. BufSize - p = 1 /\ p + 1 = BufSize
      BY <1>1, <1>5
  <2>2. Len(v) = 1 /\ v[1] = b
      BY <2>1, <1>4, <1>14
  <2> QED
      BY <2>2
<1>16. Logical(g) = Logical(h) - 1
    BY <1>1, <1>2, <1>5, <1>6, <1>12
<1> QED
    BY <1>2, <1>9, <1>10, <1>11, <1>12, <1>13, <1>15, <1>16 DEF PushesBack

\* A byte is added to what h is to write, which makes it put.
Puts(h, put, b) == put = [h EXCEPT !.wrbuf = TRUE, !.buf[h.ptr + 1] = b, !.ptr = @ + 1]

\* What was to be written before.
Earlier(h) == SubSeq(h.buf, 1, h.ptr)

PutsWell(h, put, b) ==
    /\ Layers(put, appends) /\ put.wrbuf /\ put.err = h.err /\ put.ptr = h.ptr + 1
    /\ put.disk = h.disk /\ put.posn = h.posn
    /\ FileOf(h, appends) = Overlay(h.disk, h.posn, Earlier(h))
    /\ Logical(h) = h.posn + Len(Earlier(h))
    /\ Earlier(h) \in Seq(Held)
    /\ put.ptr <= Len(Earlier(h)) + 1
    /\ \A i \in 1..Len(Earlier(h)) : i < put.ptr => put.buf[i] = Earlier(h)[i]
    /\ Logical(h) \in 0..Len(FileOf(h, appends))
    /\ FileOf(put, appends) = Stream!Put(FileOf(h, appends), Logical(h), b)
    /\ Logical(put) = Logical(h) + 1
    /\ AheadOf(put, appends) = Stream!From(FileOf(put, appends), Logical(put))

LEMMA PutsIs ==
    ASSUME NEW h, Layers(h, appends), ~h.rdbuf, h.ptr < BufSize,
           appends => h.posn = Len(h.disk), NEW b \in Held, NEW put, Puts(h, put, b)
    PROVE  PutsWell(h, put, b)
<1>1. /\ h \in HandleSet /\ BufSize \in Nat /\ h.buf \in BufSet /\ h.ptr \in 0..BufSize
      /\ h.disk \in Seq(Held) /\ Len(h.disk) \in Nat /\ h.posn \in Int /\ h.ptr \in Nat
      /\ h.wrbuf \in BOOLEAN
    BY BufAssumption DEF Layers, HandleSet
<1>2. /\ h.end = 0 /\ h.posn = h.offset /\ h.posn \in 0..Len(h.disk)
      /\ (h.uniteof => h.offset = Len(h.disk)) /\ (h.uniterr => h.err)
  <2>1. h.offset \in Nat
      BY <1>1 DEF HandleSet
  <2> QED
      BY <2>1, <1>1 DEF Layers
<1>3. PICK s \in Seq(Held) : s = Earlier(h)
    BY <1>1, CellsIs DEF Earlier
<1>4. Len(s) = h.ptr /\ \A i \in 1..h.ptr : s[i] = h.buf[i]
    BY <1>1, <1>3, CellsIs DEF Earlier
<1>5. FileOf(h, appends) = Overlay(h.disk, h.posn, s) /\ Logical(h) = h.posn + h.ptr
  <2>1. CASE h.wrbuf
      BY <2>1, <1>3, WriterIs DEF Earlier
  <2>2. CASE ~h.wrbuf
    <3>1. h.ptr = 0 /\ FileOf(h, appends) = h.disk /\ Logical(h) = h.posn + h.ptr
        BY <2>2, OtherIs
    <3>2. s = <<>>
        BY <3>1, <1>4
    <3> QED
        BY <3>1, <3>2 DEF Overlay
  <2> QED
      BY <2>1, <2>2
<1>6. PICK p \in Nat : p = h.ptr + 1
    BY <1>1
<1>7. p \in 0..BufSize /\ p \in 1..BufSize
    BY <1>1, <1>6
<1>8. PICK c \in BufSet : c = [h.buf EXCEPT ![h.ptr + 1] = b]
    BY <1>1, <1>6, <1>7 DEF BufSet
<1>9. c[p] = b /\ \A i \in 1..BufSize : i # p => c[i] = h.buf[i]
    BY <1>1, <1>6, <1>7, <1>8 DEF BufSet
<1>10. put = [h EXCEPT !.wrbuf = TRUE, !.buf = c, !.ptr = p]
    BY <1>1, <1>6, <1>8 DEF Puts, HandleSet
<1>11. put \in HandleSet
  <2>1. TRUE \in BOOLEAN
      OBVIOUS
  <2> QED
      BY <2>1, <1>1, <1>7, <1>8, <1>10, Zenon DEF HandleSet
<1>12. /\ put.disk = h.disk /\ put.offset = h.offset /\ put.posn = h.posn /\ put.ptr = p
       /\ put.end = h.end /\ put.rdbuf = h.rdbuf /\ put.wrbuf = TRUE /\ put.err = h.err
       /\ put.uniterr = h.uniterr /\ put.uniteof = h.uniteof /\ put.buf = c
    BY <1>1, <1>10 DEF HandleSet
<1>13. Layers(put, appends)
  <2>1. h.offset = h.posn + 0 /\ h.offset <= Len(h.disk)
      BY <1>2
  <2> QED
      BY <2>1, <1>2, <1>11, <1>12 DEF Layers
<1>14. /\ FileOf(put, appends) = Overlay(h.disk, h.posn, SubSeq(c, 1, p))
       /\ Logical(put) = h.posn + p
       /\ FileOf(put, appends) \in Seq(Held)
       /\ Logical(put) \in 0..Len(FileOf(put, appends))
       /\ AheadOf(put, appends) = Beyond(FileOf(put, appends), Logical(put))
  <2>1. put.wrbuf
      BY <1>12
  <2>2. /\ FileOf(put, appends) = Overlay(put.disk, put.posn, SubSeq(put.buf, 1, put.ptr))
        /\ Logical(put) = put.posn + put.ptr
        /\ FileOf(put, appends) \in Seq(Held)
        /\ Logical(put) \in 0..Len(FileOf(put, appends))
        /\ AheadOf(put, appends) = Beyond(FileOf(put, appends), Logical(put))
      BY <2>1, <1>13, WriterIs, Zenon
  <2> QED
      BY <2>2, <1>12, Zenon
<1>15. SubSeq(c, 1, p) = Append(s, b)
  <2>1. PICK t \in Seq(Held) : t = SubSeq(c, 1, p)
      BY <1>7, <1>12, <1>13, CellsIs
  <2>2. Len(t) = p /\ \A i \in 1..p : t[i] = c[i]
      BY <2>1, <1>7, <1>12, <1>13, CellsIs
  <2>3. PICK w \in Seq(Held) : w = Append(s, b)
      BY PushIs
  <2>4. Len(w) = Len(s) + 1 /\ w[Len(s) + 1] = b /\ \A i \in 1..Len(s) : w[i] = s[i]
      BY <2>3, PushIs
  <2>5. Len(t) = Len(w)
      BY <2>2, <2>4, <1>4, <1>6
  <2>6. ASSUME NEW i \in 1..Len(t) PROVE t[i] = w[i]
    <3>1. CASE i = p
        BY <3>1, <2>2, <2>4, <1>4, <1>6, <1>9
    <3>2. CASE i # p
      <4>1. i \in 1..h.ptr /\ i \in 1..p /\ i \in 1..BufSize
          BY <3>2, <2>2, <1>1, <1>6, <1>7
      <4> QED
          BY <3>2, <4>1, <2>2, <2>4, <1>4, <1>9
    <3> QED
        BY <3>1, <3>2
  <2> QED
      BY <2>1, <2>3, <2>5, <2>6, SameSeq
<1>16. /\ Overlay(h.disk, h.posn, Append(s, b))
              = Stream!Put(Overlay(h.disk, h.posn, s), h.posn + Len(s), b)
       /\ h.posn + Len(s) \in 0..Len(Overlay(h.disk, h.posn, s))
    BY <1>1, <1>2, PutsOne
<1>17. Beyond(FileOf(put, appends), Logical(put)) = Stream!From(FileOf(put, appends), Logical(put))
  <2>1. Logical(put) \in Nat
      BY <1>14
  <2> QED
      BY <2>1, <1>14, BeyondIs DEF Stream!From
<1>18. ASSUME NEW i \in 1..Len(s), i < put.ptr PROVE put.buf[i] = s[i]
  <2>1. i \in 1..h.ptr /\ i # p /\ i \in 1..BufSize
      BY <1>1, <1>4, <1>6
  <2> QED
      BY <2>1, <1>4, <1>9, <1>12
<1>19. put.ptr <= Len(s) + 1 /\ put.ptr = h.ptr + 1 /\ Logical(put) = Logical(h) + 1
    BY <1>1, <1>4, <1>5, <1>6, <1>12, <1>14
<1> QED
    BY <1>3, <1>4, <1>5, <1>12, <1>13, <1>14, <1>15, <1>16, <1>17, <1>18, <1>19 DEF PutsWell

-----------------------------------------------------------------------------
(* What the program sees, before and after a step *)

LEMMA AheadIs ==
    ASSUME NEW h, NEW ap, Layers(h, ap)
    PROVE  /\ AheadOf(h, ap) \in Seq(Held) /\ FileOf(h, ap) \in Seq(Held)
           /\ Logical(h) \in Int
<1>1. CASE h.wrbuf
  <2>1. /\ FileOf(h, ap) \in Seq(Held) /\ Logical(h) \in Nat
        /\ AheadOf(h, ap) = Beyond(FileOf(h, ap), Logical(h))
      BY <1>1, WriterIs
  <2> QED
      BY <2>1, BeyondIs
<1>2. CASE ~h.wrbuf
  <2>1. /\ FileOf(h, ap) \in Seq(Held) /\ Logical(h) \in Int
        /\ h.disk \in Seq(Held) /\ h.offset \in Nat
      BY <1>2, OtherIs
  <2>2. Beyond(h.disk, h.offset) \in Seq(Held)
      BY <2>1, BeyondIs
  <2>3. CASE h.rdbuf
    <3>1. Unread(h) \in Seq(Held)
        BY <2>3, UnreadIs
    <3>2. AheadOf(h, ap) = Unread(h) \o Beyond(h.disk, h.offset)
        BY <1>2, <2>3, OtherIs
    <3> QED
        BY <2>1, <2>2, <3>1, <3>2, JoinIs
  <2>4. CASE ~h.rdbuf
    <3>1. AheadOf(h, ap) = Beyond(h.disk, h.offset)
        BY <1>2, <2>4, OtherIs
    <3> QED
        BY <2>1, <2>2, <3>1
  <2> QED
      BY <2>3, <2>4
<1> QED
    BY <1>1, <1>2

LEMMA Views ==
    /\ Contents = FileOf(handle, appends)
    /\ Position = Logical(handle) - Len(pending)
    /\ Ahead = pending \o AheadOf(handle, appends)
    BY DEF Contents, FileOf, Position, Ahead, AheadOf

LEMMA ViewsNext ==
    /\ Contents' = FileOf(handle', appends')
    /\ Position' = Logical(handle') - Len(pending')
    /\ Ahead' = pending' \o AheadOf(handle', appends')
    BY DEF Contents, FileOf, Position, Ahead, AheadOf, Logical, Unread, Unwritten, Beyond, Overlay

LEMMA NonePending ==
    ASSUME NEW s \in Seq(Held), NEW n \in Int
    PROVE  <<>> \o s = s /\ n - Len(<<>>) = n
    OBVIOUS

\* The program sees the file f, is at p, and would read a.
Sees(f, p, a) == Contents = f /\ Position = p /\ Ahead = a

LEMMA SeesHandle ==
    ASSUME BufInvariant, pending = <<>>
    PROVE  Sees(FileOf(handle, appends), Logical(handle), AheadOf(handle, appends))
<1>1. AheadOf(handle, appends) \in Seq(Held) /\ Logical(handle) \in Int
    BY AheadIs DEF BufInvariant
<1> QED
    BY <1>1, Views, NonePending DEF Sees

LEMMA SeesNext ==
    ASSUME Layers(handle', appends'), pending' = <<>>
    PROVE  /\ Contents' = FileOf(handle', appends') /\ Position' = Logical(handle')
           /\ Ahead' = AheadOf(handle', appends')
<1>1. AheadOf(handle', appends') \in Seq(Held) /\ Logical(handle') \in Int
    BY AheadIs
<1> QED
    BY <1>1, ViewsNext, NonePending

\* What is left to show of a step that leaves appends as it is.
LEMMA Invariant ==
    ASSUME BufInvariant, Layers(handle', appends), handle'.wrbuf => handle'.ptr < BufSize,
           pending' \in Seq(Held), pending' # <<>> => handle'.rdbuf, UNCHANGED appends,
           autoflush' \in BOOLEAN
    PROVE  BufInvariant'
    BY DEF BufInvariant, Layers, HandleSet, BufSet, Held

LEMMA NothingPending == <<>> \in Seq(Held)
    OBVIOUS

-----------------------------------------------------------------------------
(* The calls, one after the other *)

\* What was written last is not in the file.
LEMMA FailureIs ==
    ASSUME NEW h, Layers(h, appends), NEW g, Failure(g, h)
    PROVE  /\ Loses(FileOf(h, appends), Logical(h), g.disk, Logical(g))
           /\ FileOf(g, appends) = g.disk /\ Logical(g) \in Nat
           /\ AheadOf(g, appends) = Stream!From(g.disk, Logical(g))
<1>1. h.wrbuf
    BY DEF Failure
<1>2. PICK s : s = SubSeq(h.buf, 1, h.ptr)
    OBVIOUS
<1>3. h.ptr \in 0..BufSize /\ BufSize \in Nat
    BY <1>1, BufAssumption DEF Layers, HandleSet
<1>4. s \in Seq(Held) /\ Len(s) = h.ptr /\ \A i \in 1..Len(s) : h.buf[i] = s[i]
    BY <1>2, <1>3, CellsIs
<1>5. h.ptr <= Len(s) + 1 /\ \A i \in 1..Len(s) : i < h.ptr => h.buf[i] = s[i]
    BY <1>3, <1>4
<1>6. /\ Loses(Overlay(h.disk, h.posn, s), h.posn + Len(s), g.disk, Logical(g))
      /\ FileOf(g, appends) = g.disk /\ Logical(g) \in Nat
      /\ AheadOf(g, appends) = Stream!From(g.disk, Logical(g))
    BY <1>4, <1>5, FailureLoses
<1>7. /\ FileOf(h, appends) = Overlay(h.disk, h.posn, s)
      /\ Logical(h) = h.posn + Len(s)
    BY <1>1, <1>2, <1>4, WriterIs
<1> QED
    BY <1>6, <1>7

\* A call that could not write: the handle is idle.
LEMMA CallLoses ==
    ASSUME BufInvariant, pending = <<>>, pending' = <<>>, UNCHANGED appends,
           autoflush' \in BOOLEAN, result' \in {Fine, Failed, Eof}, Failure(handle', handle)
    PROVE  Stream!Lose /\ BufInvariant'
<1>1. Layers(handle, appends)
    BY DEF BufInvariant
<1>2. Rests(handle') /\ handle'.err
    BY DEF Failure
<1>3. /\ Loses(FileOf(handle, appends), Logical(handle), handle'.disk, Logical(handle'))
      /\ FileOf(handle', appends) = handle'.disk /\ Logical(handle') \in Nat
      /\ AheadOf(handle', appends) = Stream!From(handle'.disk, Logical(handle'))
    BY <1>1, FailureIs
<1>4. Contents = FileOf(handle, appends) /\ Position = Logical(handle)
    BY SeesHandle DEF Sees
<1>5. /\ Contents' = handle'.disk /\ Position' = Logical(handle')
       /\ Ahead' = Stream!From(handle'.disk, Logical(handle'))
    BY <1>2, <1>3, SeesNext DEF Rests
<1>6. Loses(Contents, Position, Contents', Position')
    BY <1>3, <1>4, <1>5
<1>7. Position' + Len(<<>>) = Position'
    BY <1>3, <1>5
<1>8. Stream!Lost(Contents', Position' + Len(<<>>))
    BY <1>6, <1>7 DEF Loses, Stream!Lost
<1>9. Ahead' = <<>> \o Stream!From(Contents', Position' + Len(<<>>))
  <2>1. AheadOf(handle', appends) \in Seq(Held)
      BY <1>2, AheadIs DEF Rests
  <2>2. PICK a \in Seq(Held) : a = Ahead'
      BY <2>1, <1>3, <1>5
  <2>3. a = Stream!From(Contents', Position' + Len(<<>>))
      BY <2>2, <1>5, <1>7
  <2>4. <<>> \o a = a
      OBVIOUS
  <2> QED
      BY <2>2, <2>3, <2>4
<1>10. handle'.err = TRUE
    BY <1>2 DEF Rests, Layers, HandleSet
<1>11. Stream!Lose
    BY <1>8, <1>9, <1>10 DEF Stream!Lose
<1>12. BufInvariant'
    BY <1>2, Invariant, NothingPending DEF Rests
<1> QED
    BY <1>11, <1>12

\* A call that found nothing to read.
LEMMA CallReadsNothing ==
    ASSUME BufInvariant, pending = <<>>, UNCHANGED <<pending, appends, autoflush>>,
           FillsNot(handle', handle), result' = Eof
    PROVE  Stream!ReadNothing /\ BufInvariant'
<1>1. Rests(handle') /\ Same(handle', handle) /\ (handle.err => handle'.err)
    BY DEF FillsNot
<1>2. AheadOf(handle, appends) = <<>> \/ handle'.err
    BY DEF FillsNot
<1>3. Sees(FileOf(handle, appends), Logical(handle), AheadOf(handle, appends))
    BY SeesHandle
<1>4. /\ Contents' = FileOf(handle', appends) /\ Position' = Logical(handle')
      /\ Ahead' = AheadOf(handle', appends)
    BY <1>1, SeesNext DEF Rests
<1>5. Stream!ReadNothing
    BY <1>1, <1>2, <1>3, <1>4 DEF Stream!ReadNothing, Sees, Same
<1>6. BufInvariant'
    BY <1>1, Invariant, NothingPending DEF Rests, BufInvariant
<1> QED
    BY <1>5, <1>6

LEMMA NextOfRead ==
    ASSUME NEW f, FillsWell(f, handle), NEW g, Advances(f, g)
    PROVE  /\ Layers(g, appends) /\ ~g.wrbuf /\ g.rdbuf /\ g.err = handle.err
           /\ FileOf(g, appends) = FileOf(handle, appends) /\ Logical(g) = Logical(handle) + 1
           /\ f.buf[1] = Head(AheadOf(handle, appends))
           /\ AheadOf(handle, appends) # <<>>
           /\ AheadOf(g, appends) = Tail(AheadOf(handle, appends))
<1>1. /\ Layers(f, appends) /\ Same(f, handle) /\ f.err = handle.err
      /\ f.rdbuf /\ f.ptr = 0 /\ f.end > 0
    BY DEF FillsWell
<1>2. Unread(f) # <<>>
    BY <1>1, UnreadIs
<1>3. /\ Layers(g, appends) /\ ~g.wrbuf /\ g.rdbuf /\ g.err = f.err
      /\ FileOf(g, appends) = FileOf(f, appends) /\ Logical(g) = Logical(f) + 1
      /\ Head(Unread(f)) = Head(AheadOf(f, appends)) /\ Head(Unread(f)) = f.buf[f.ptr + 1]
      /\ AheadOf(f, appends) # <<>> /\ AheadOf(g, appends) = Tail(AheadOf(f, appends))
    BY <1>1, <1>2, ReadIs
<1>4. f.ptr + 1 = 1
    BY <1>1
<1> QED
    BY <1>1, <1>3, <1>4 DEF Same

\* A byte of the buffer is read.
LEMMA CallReads ==
    ASSUME BufInvariant, pending = <<>>, UNCHANGED <<pending, appends, autoflush>>,
           Layers(handle', appends), ~handle'.wrbuf, handle'.rdbuf, handle'.err = handle.err,
           FileOf(handle', appends) = FileOf(handle, appends),
           Logical(handle') = Logical(handle) + 1,
           AheadOf(handle, appends) # <<>>, result' = Head(AheadOf(handle, appends)),
           AheadOf(handle', appends) = Tail(AheadOf(handle, appends))
    PROVE  Stream!Read /\ BufInvariant'
<1>1. Sees(FileOf(handle, appends), Logical(handle), AheadOf(handle, appends))
    BY SeesHandle
<1>2. /\ Contents' = FileOf(handle', appends) /\ Position' = Logical(handle')
      /\ Ahead' = AheadOf(handle', appends)
    BY SeesNext
<1>3. Stream!Read
    BY <1>1, <1>2 DEF Stream!Read, Sees
<1>4. BufInvariant'
    BY Invariant DEF BufInvariant
<1> QED
    BY <1>3, <1>4

LEMMA OnlyReadersUnread ==
    ASSUME NEW h, Layers(h, appends), Unread(h) # <<>>
    PROVE  h.rdbuf
    BY DEF Unread
LEMMA GetByteKeeps ==
    ASSUME BufInvariant, GetByte
    PROVE  Stream!StreamNext /\ BufInvariant'
<1>1. UNCHANGED <<appends, autoflush>> /\ Layers(handle, appends)
    BY DEF GetByte, BufInvariant
<1>2. CASE /\ pending # <<>>
           /\ result' = Head(pending) /\ pending' = Tail(pending)
           /\ UNCHANGED handle
  <2>1. pending \in Seq(Held) /\ AheadOf(handle, appends) \in Seq(Held)
      BY <1>1, AheadIs DEF BufInvariant
  <2>2. /\ pending \o AheadOf(handle, appends) # <<>>
        /\ Head(pending \o AheadOf(handle, appends)) = Head(pending)
        /\ Tail(pending \o AheadOf(handle, appends)) = Tail(pending) \o AheadOf(handle, appends)
      BY <1>2, <2>1, HeadOfJoin
  <2>3. Tail(pending) \in Seq(Held) /\ Len(Tail(pending)) = Len(pending) - 1
      BY <1>2, <2>1, TailOf
  <2>4. Ahead' = pending' \o AheadOf(handle, appends) /\ Contents' = Contents
      BY <1>1, <1>2, Views, ViewsNext
  <2>5. Position' = Position + 1
    <3>1. Logical(handle) \in Int /\ Len(pending) \in Nat
        BY <1>1, <2>1, AheadIs
    <3>2. Position' = Logical(handle) - (Len(pending) - 1)
        BY <1>2, <2>3, ViewsNext
    <3> QED
        BY <3>1, <3>2, Views
  <2>6. Stream!Read
      BY <1>2, <2>2, <2>4, <2>5, Views DEF Stream!Read
  <2>7. BufInvariant'
      BY <1>1, <1>2, <2>3, Invariant DEF BufInvariant
  <2> QED
      BY <2>6, <2>7 DEF Stream!StreamNext
<1>3. CASE /\ pending = <<>> /\ Unread(handle) # <<>>
           /\ result' = Head(Unread(handle))
           /\ handle' = [handle EXCEPT !.ptr = @ + 1]
           /\ UNCHANGED pending
  <2>1. handle.rdbuf /\ Advances(handle, handle')
      BY <1>1, <1>3, OnlyReadersUnread DEF Advances
  <2>2. /\ Layers(handle', appends) /\ ~handle'.wrbuf /\ handle'.rdbuf /\ handle'.err = handle.err
        /\ FileOf(handle', appends) = FileOf(handle, appends)
        /\ Logical(handle') = Logical(handle) + 1
        /\ Head(Unread(handle)) = Head(AheadOf(handle, appends))
        /\ AheadOf(handle, appends) # <<>>
        /\ AheadOf(handle', appends) = Tail(AheadOf(handle, appends))
      BY <1>1, <1>3, <2>1, ReadIs
  <2>3. Stream!Read /\ BufInvariant'
      BY <1>1, <1>3, <2>2, CallReads
  <2> QED
      BY <2>3 DEF Stream!StreamNext
<1>4. CASE /\ pending = <<>> /\ Unread(handle) = <<>>
           /\ \E f \in Filled(handle) :
                 IF f.ok THEN result' = f.h.buf[1] /\ handle' = [f.h EXCEPT !.ptr = 1]
                         ELSE result' = Eof /\ handle' = f.h
           /\ UNCHANGED pending
  <2>1. PICK f \in Filled(handle) :
            IF f.ok THEN result' = f.h.buf[1] /\ handle' = [f.h EXCEPT !.ptr = 1]
                    ELSE result' = Eof /\ handle' = f.h
      BY <1>4
  <2>2. \/ f.ok /\ FillsWell(f.h, handle)
        \/ ~f.ok /\ FillsNot(f.h, handle)
        \/ ~f.ok /\ Failure(f.h, handle)
      BY <1>1, <1>4, FilledIs
  <2>3. CASE f.ok /\ FillsWell(f.h, handle)
    <3>1. result' = f.h.buf[1] /\ handle' = [f.h EXCEPT !.ptr = 1]
        BY <2>1, <2>3
    <3>2. Advances(f.h, handle')
        BY <2>3, <3>1 DEF Advances, FillsWell, Layers, HandleSet
    <3>3. /\ Layers(handle', appends) /\ ~handle'.wrbuf /\ handle'.rdbuf
          /\ handle'.err = handle.err
          /\ FileOf(handle', appends) = FileOf(handle, appends)
          /\ Logical(handle') = Logical(handle) + 1
          /\ f.h.buf[1] = Head(AheadOf(handle, appends))
          /\ AheadOf(handle, appends) # <<>>
          /\ AheadOf(handle', appends) = Tail(AheadOf(handle, appends))
        BY <2>3, <3>2, NextOfRead
    <3>4. Stream!Read /\ BufInvariant'
        BY <1>1, <1>4, <3>1, <3>3, CallReads
    <3> QED
        BY <3>4 DEF Stream!StreamNext
  <2>4. CASE ~f.ok /\ FillsNot(f.h, handle)
    <3>1. Stream!ReadNothing /\ BufInvariant'
        BY <1>1, <1>4, <2>1, <2>4, CallReadsNothing
    <3> QED
        BY <3>1 DEF Stream!StreamNext
  <2>5. CASE ~f.ok /\ Failure(f.h, handle)
    <3>1. autoflush' \in BOOLEAN
        BY <1>1 DEF BufInvariant
    <3>2. Stream!Lose /\ BufInvariant'
        BY <1>1, <1>4, <2>1, <2>5, <3>1, CallLoses
    <3> QED
        BY <3>2 DEF Stream!StreamNext
  <2> QED
      BY <2>2, <2>3, <2>4, <2>5
<1> QED
    BY <1>2, <1>3, <1>4 DEF GetByte

\* There is more to read, and no step is taken towards it.
LEMMA MoreAhead ==
    ASSUME BufInvariant, pending \o Unread(handle) # <<>>
    PROVE  Ahead # <<>>
<1>1. Layers(handle, appends) /\ pending \in Seq(Held)
    BY DEF BufInvariant
<1>2. AheadOf(handle, appends) \in Seq(Held)
    BY <1>1, AheadIs
<1>3. CASE pending # <<>>
    BY <1>1, <1>2, <1>3, HeadOfJoin, Views
<1>4. CASE pending = <<>>
  <2>1. Unread(handle) # <<>>
      BY <1>4
  <2>2. handle.rdbuf
      BY <1>1, <2>1, OnlyReadersUnread
  <2>3. Unread(handle) \in Seq(Held)
      BY <1>1, <2>2, UnreadIs
  <2>4. ~handle.wrbuf
      BY <1>1, <2>2 DEF Layers
  <2>5. /\ AheadOf(handle, appends) = Unread(handle) \o Beyond(handle.disk, handle.offset)
        /\ handle.disk \in Seq(Held) /\ handle.offset \in Nat
      BY <1>1, <2>2, <2>4, OtherIs
  <2>6. Beyond(handle.disk, handle.offset) \in Seq(Held)
      BY <2>5, BeyondIs
  <2>7. AheadOf(handle, appends) # <<>>
      BY <2>1, <2>3, <2>5, <2>6, HeadOfJoin
  <2> QED
      BY <1>4, <2>7, SeesHandle DEF Sees
<1> QED
    BY <1>3, <1>4

LEMMA TestEofKeeps ==
    ASSUME BufInvariant, TestEof
    PROVE  Stream!StreamNext /\ BufInvariant'
<1>1. /\ UNCHANGED <<pending, appends, autoflush>> /\ Layers(handle, appends)
      /\ autoflush' \in BOOLEAN /\ pending \in Seq(Held)
    BY DEF TestEof, BufInvariant
<1>2. CASE pending \o Unread(handle) # <<>>
  <2>1. result' = Fine /\ UNCHANGED handle
      BY <1>2 DEF TestEof
  <2>2. UNCHANGED <<Contents, Position, Ahead>>
      BY <1>1, <2>1, Views, ViewsNext
  <2>3. Stream!MoreToRead
      BY <1>2, <2>1, <2>2, MoreAhead DEF Stream!MoreToRead
  <2>4. BufInvariant'
      BY <1>1, <2>1, Invariant DEF BufInvariant
  <2> QED
      BY <2>3, <2>4 DEF Stream!StreamNext
<1>3. CASE pending \o Unread(handle) = <<>>
  <2>1. PICK f \in Filled(handle) : result' = (IF f.ok THEN Fine ELSE Eof) /\ handle' = f.h
      BY <1>3 DEF TestEof
  <2>2. pending = <<>> /\ Unread(handle) = <<>>
    <3>1. Unread(handle) \in Seq(Held)
      <4>1. CASE handle.rdbuf
          BY <1>1, <4>1, UnreadIs
      <4>2. CASE ~handle.rdbuf
          BY <4>2, NothingPending DEF Unread
      <4> QED
          BY <4>1, <4>2
    <3> QED
        BY <1>1, <1>3, <3>1
  <2>3. \/ f.ok /\ FillsWell(f.h, handle)
        \/ ~f.ok /\ FillsNot(f.h, handle)
        \/ ~f.ok /\ Failure(f.h, handle)
      BY <1>1, <2>2, FilledIs
  <2>4. CASE f.ok /\ FillsWell(f.h, handle)
    <3>1. /\ result' = Fine /\ Layers(handle', appends) /\ ~handle'.wrbuf
          /\ Same(handle', handle) /\ handle'.err = handle.err
          /\ AheadOf(handle, appends) # <<>>
        BY <2>1, <2>4 DEF FillsWell
    <3>2. Sees(FileOf(handle, appends), Logical(handle), AheadOf(handle, appends))
        BY <2>2, SeesHandle
    <3>3. /\ Contents' = FileOf(handle', appends) /\ Position' = Logical(handle')
          /\ Ahead' = AheadOf(handle', appends)
        BY <1>1, <2>2, <3>1, SeesNext
    <3>4. Stream!MoreToRead
        BY <3>1, <3>2, <3>3 DEF Stream!MoreToRead, Sees, Same
    <3>5. BufInvariant'
        BY <1>1, <2>2, <3>1, Invariant
    <3> QED
        BY <3>4, <3>5 DEF Stream!StreamNext
  <2>5. CASE ~f.ok /\ FillsNot(f.h, handle)
    <3>1. Stream!ReadNothing /\ BufInvariant'
        BY <1>1, <2>1, <2>2, <2>5, CallReadsNothing
    <3> QED
        BY <3>1 DEF Stream!StreamNext
  <2>6. CASE ~f.ok /\ Failure(f.h, handle)
    <3>1. Stream!Lose /\ BufInvariant'
        BY <1>1, <2>1, <2>2, <2>6, CallLoses
    <3> QED
        BY <3>1 DEF Stream!StreamNext
  <2> QED
      BY <2>3, <2>4, <2>5, <2>6
<1> QED
    BY <1>2, <1>3

\* A byte is pushed back, not into the pending layer.
LEMMA CallPushesBack ==
    ASSUME BufInvariant, pending = <<>>, UNCHANGED <<pending, appends, autoflush>>,
           NEW b \in Bytes, PushesBack(handle, handle', b), result' = Fine
    PROVE  Stream!PushBack(b) /\ BufInvariant'
<1>1. /\ Layers(handle', appends) /\ ~handle'.wrbuf /\ handle'.err = handle.err
      /\ FileOf(handle', appends) = FileOf(handle, appends)
      /\ Logical(handle') = Logical(handle) - 1
      /\ AheadOf(handle', appends) = <<b>> \o AheadOf(handle, appends)
    BY DEF PushesBack
<1>2. Sees(FileOf(handle, appends), Logical(handle), AheadOf(handle, appends))
    BY SeesHandle
<1>3. /\ Contents' = FileOf(handle', appends) /\ Position' = Logical(handle')
      /\ Ahead' = AheadOf(handle', appends)
    BY <1>1, SeesNext
<1>4. Stream!PushBack(b)
    BY <1>1, <1>2, <1>3 DEF Stream!PushBack, Sees
<1>5. BufInvariant'
    BY <1>1, Invariant, NothingPending DEF BufInvariant
<1> QED
    BY <1>4, <1>5

\* Resting without a change that the program sees.
LEMMA FlushRests ==
    ASSUME NEW h, Layers(h, appends), NEW f \in Flushed(h), f.ok,
           ~(h.rdbuf /\ Logical(h) < 0)
    PROVE  /\ Rests(f.h) /\ f.h.err = h.err
           /\ FileOf(f.h, appends) = FileOf(h, appends) /\ Logical(f.h) = Logical(h)
           /\ Unread(h) = <<>> => AheadOf(f.h, appends) = AheadOf(h, appends)
           /\ f.h.disk = FileOf(h, appends) /\ f.h.ptr = 0 /\ Logical(f.h) = f.h.offset
           /\ f.h.offset \in 0..Len(f.h.disk) /\ f.h.posn = f.h.offset
           /\ f.h.disk \in Seq(Held)
           /\ AheadOf(f.h, appends) = Stream!From(f.h.disk, Logical(f.h))
<1>1. /\ f.h.err = h.err
      /\ Rests(f.h) /\ f.h.disk = FileOf(h, appends) /\ Logical(f.h) = Logical(h)
      /\ Unread(h) = <<>> => AheadOf(h, appends) = Beyond(f.h.disk, f.h.offset)
    BY FlushKeeps
<1>2. /\ FileOf(f.h, appends) = f.h.disk /\ f.h.disk \in Seq(Held) /\ Len(f.h.disk) \in Nat
      /\ f.h.offset \in Nat /\ f.h.offset <= Len(f.h.disk)
      /\ f.h.ptr = 0 /\ f.h.end = 0 /\ f.h.posn = f.h.offset /\ Logical(f.h) = f.h.offset
      /\ AheadOf(f.h, appends) = Beyond(f.h.disk, f.h.offset)
    BY <1>1, RestingIs
<1>3. Beyond(f.h.disk, f.h.offset) = SubSeq(f.h.disk, f.h.offset + 1, Len(f.h.disk))
  <2>1. PICK d \in Seq(Held), p \in Nat : d = f.h.disk /\ p = f.h.offset
      BY <1>2
  <2>2. Beyond(d, p) = SubSeq(d, p + 1, Len(d))
      BY BeyondIs
  <2> QED
      BY <2>1, <2>2
<1>4. AheadOf(f.h, appends) = Stream!From(f.h.disk, Logical(f.h))
    BY <1>2, <1>3 DEF Stream!From
<1> QED
    BY <1>1, <1>2, <1>4

LEMMA UngetByteKeeps ==
    ASSUME BufInvariant, NEW b \in Bytes, UngetByte(b)
    PROVE  Stream!StreamNext /\ BufInvariant'
<1>1. /\ UNCHANGED <<appends, autoflush>> /\ Layers(handle, appends) /\ result' = Fine
      /\ autoflush' \in BOOLEAN /\ pending \in Seq(Held) /\ b \in Held
    BY DEF UngetByte, BufInvariant, Held
<1>2. <<b>> \in Seq(Held)
    BY <1>1
<1>3. SUFFICES (Stream!PushBack(b) \/ Stream!Lose) /\ BufInvariant'
    BY DEF Stream!StreamNext
<1>4. ASSUME UNCHANGED handle, pending' = <<b>> \o pending, handle.rdbuf
      PROVE  Stream!PushBack(b) /\ BufInvariant'
  <2>1. AheadOf(handle, appends) \in Seq(Held) /\ Logical(handle) \in Int
      BY <1>1, AheadIs
  <2>2. /\ <<b>> \o pending \in Seq(Held) /\ Len(<<b>> \o pending) = Len(<<b>>) + Len(pending)
        /\ Len(pending) \in Nat
      BY <1>1, <1>2, JoinIs
  <2>3. Len(<<b>>) = 1
      OBVIOUS
  <2>4. Ahead' = <<b>> \o Ahead
    <3>1. (<<b>> \o pending) \o AheadOf(handle, appends)
              = <<b>> \o (pending \o AheadOf(handle, appends))
        BY <1>1, <1>2, <2>1, JoinAssoc
    <3> QED
        BY <3>1, <1>1, <1>4, Views, ViewsNext
  <2>5. Position' = Position - 1
    <3>1. Position' = Logical(handle) - (1 + Len(pending))
        BY <2>2, <2>3, <1>4, ViewsNext
    <3>2. Position = Logical(handle) - Len(pending)
        BY Views
    <3> QED
        BY <3>1, <3>2, <2>1, <2>2
  <2>6. Contents' = Contents
      BY <1>1, <1>4, Views, ViewsNext
  <2>7. Stream!PushBack(b)
      BY <1>1, <1>4, <2>4, <2>5, <2>6 DEF Stream!PushBack
  <2>8. BufInvariant'
      BY <1>1, <1>4, <2>2, Invariant DEF BufInvariant
  <2> QED
      BY <2>7, <2>8
<1>5. CASE pending # <<>> /\ pending' = <<b>> \o pending /\ UNCHANGED handle
    BY <1>4, <1>5 DEF BufInvariant
<1>6. CASE /\ pending = <<>>
           /\ \E f \in IF handle.wrbuf THEN Flushed(handle) ELSE {Good(handle)} :
                 \/ /\ f.h.rdbuf /\ f.h.ptr > 0
                    /\ handle' = [f.h EXCEPT !.ptr = @ - 1, !.buf[f.h.ptr] = b]
                    /\ UNCHANGED pending
                 \/ /\ f.h.rdbuf /\ f.h.ptr = 0
                    /\ pending' = <<b>>
                    /\ handle' = f.h
                 \/ /\ ~f.h.rdbuf
                    /\ handle' = [f.h EXCEPT !.rdbuf = TRUE, !.posn = @ - BufSize,
                                     !.ptr = BufSize - 1, !.end = BufSize, !.buf[BufSize] = b]
                    /\ UNCHANGED pending
  <2>1. PICK f \in IF handle.wrbuf THEN Flushed(handle) ELSE {Good(handle)} :
           \/ /\ f.h.rdbuf /\ f.h.ptr > 0
              /\ Ungets(f.h, handle', b)
              /\ UNCHANGED pending
           \/ /\ f.h.rdbuf /\ f.h.ptr = 0
              /\ pending' = <<b>>
              /\ handle' = f.h
           \/ /\ ~f.h.rdbuf
              /\ BeginsAtEnd(f.h, handle', b)
              /\ UNCHANGED pending
      BY <1>6 DEF Ungets, BeginsAtEnd
  <2>2. CASE ~handle.wrbuf
    <3>1. f.h = handle
        BY <2>1, <2>2 DEF Good
    <3>2. CASE f.h.rdbuf /\ f.h.ptr > 0 /\ Ungets(f.h, handle', b) /\ UNCHANGED pending
      <4>1. PushesBack(handle, handle', b)
          BY <1>1, <3>1, <3>2, UngetsIs
      <4> QED
          BY <4>1, <1>1, <1>6, <3>2, CallPushesBack
    <3>3. CASE f.h.rdbuf /\ f.h.ptr = 0 /\ pending' = <<b>> /\ handle' = f.h
      <4>1. <<b>> \o <<>> = <<b>>
          OBVIOUS
      <4> QED
          BY <4>1, <3>1, <3>3, <1>4, <1>6
    <3>4. CASE ~f.h.rdbuf /\ BeginsAtEnd(f.h, handle', b) /\ UNCHANGED pending
      <4>1. Rests(handle)
          BY <1>1, <2>2, <3>1, <3>4 DEF Rests
      <4>2. PushesBack(handle, handle', b)
          BY <1>1, <3>1, <3>4, <4>1, BeginsAtEndIs
      <4> QED
          BY <4>2, <1>1, <1>6, <3>4, CallPushesBack
    <3> QED
        BY <2>1, <3>2, <3>3, <3>4
  <2>3. CASE handle.wrbuf
    <3>1. f \in Flushed(handle) /\ ~handle.rdbuf
        BY <1>1, <2>1, <2>3 DEF Layers
    <3>2. Unread(handle) = <<>>
        BY <3>1 DEF Unread
    <3>3. CASE f.ok
      <4>1. /\ Rests(f.h) /\ f.h.err = handle.err
            /\ FileOf(f.h, appends) = FileOf(handle, appends) /\ Logical(f.h) = Logical(handle)
            /\ AheadOf(f.h, appends) = AheadOf(handle, appends)
          BY <1>1, <3>1, <3>2, <3>3, FlushRests
      <4>2. BeginsAtEnd(f.h, handle', b) /\ UNCHANGED pending
          BY <2>1, <4>1 DEF Rests
      <4>3. PushesBack(f.h, handle', b)
          BY <1>1, <4>1, <4>2, BeginsAtEndIs
      <4>4. PushesBack(handle, handle', b)
          BY <4>1, <4>3 DEF PushesBack
      <4> QED
          BY <4>4, <1>1, <1>6, <4>2, CallPushesBack
    <3>4. CASE ~f.ok
      <4>1. Failure(f.h, handle)
          BY <1>1, <3>1, <3>4, FlushFails DEF Failure
      <4>2. Rests(f.h) /\ f.h.err
          BY <4>1 DEF Failure
      <4>3. BeginsAtEnd(f.h, handle', b) /\ UNCHANGED pending
          BY <2>1, <4>2 DEF Rests
      <4>4. PushesBack(f.h, handle', b)
          BY <1>1, <4>2, <4>3, BeginsAtEndIs
      <4>5. /\ Loses(FileOf(handle, appends), Logical(handle), f.h.disk, Logical(f.h))
            /\ FileOf(f.h, appends) = f.h.disk /\ Logical(f.h) \in Nat
            /\ AheadOf(f.h, appends) = Stream!From(f.h.disk, Logical(f.h))
          BY <1>1, <4>1, FailureIs
      <4>6. /\ Layers(handle', appends) /\ ~handle'.wrbuf /\ handle'.err = f.h.err
            /\ FileOf(handle', appends) = f.h.disk /\ Logical(handle') = Logical(f.h) - 1
            /\ AheadOf(handle', appends) = <<b>> \o Stream!From(f.h.disk, Logical(f.h))
          BY <4>4, <4>5 DEF PushesBack
      <4>7. Contents = FileOf(handle, appends) /\ Position = Logical(handle)
          BY <1>6, SeesHandle DEF Sees
      <4>8. /\ Contents' = f.h.disk /\ Position' = Logical(f.h) - 1
            /\ Ahead' = <<b>> \o Stream!From(f.h.disk, Logical(f.h))
          BY <1>1, <1>6, <4>3, <4>6, SeesNext
      <4>9. Position' + Len(<<b>>) = Logical(f.h)
          BY <4>5, <4>8
      <4>10. Stream!Lost(Contents', Position' + Len(<<b>>))
        <5>1. Loses(Contents, Position, Contents', Position' + Len(<<b>>))
            BY <4>5, <4>7, <4>8, <4>9
        <5> QED
            BY <5>1 DEF Loses, Stream!Lost
      <4>11. Ahead' = <<b>> \o Stream!From(Contents', Position' + Len(<<b>>))
          BY <4>8, <4>9
      <4>12. handle'.err = TRUE
          BY <4>2, <4>6 DEF Rests, Layers, HandleSet
      <4>13. Stream!Lose
          BY <1>1, <4>10, <4>11, <4>12 DEF Stream!Lose
      <4>14. BufInvariant'
          BY <1>1, <1>6, <4>3, <4>6, Invariant
      <4> QED
          BY <4>13, <4>14
    <3> QED
        BY <3>3, <3>4
  <2> QED
      BY <2>2, <2>3
<1> QED
    BY <1>5, <1>6 DEF UngetByte

\* What a byte that was put into the buffer comes to: it stays there, or goes to
\* the kernel, or a flush fails.
Written(g, put) ==
    \/ g = put /\ put.ptr < BufSize
    \/ /\ Rests(g) /\ g.err = put.err
       /\ FileOf(g, appends) = FileOf(put, appends) /\ Logical(g) = Logical(put)
       /\ AheadOf(g, appends) = AheadOf(put, appends)
    \/ Failure(g, put)

LEMMA FlushWrites ==
    ASSUME NEW put, Layers(put, appends), put.wrbuf, NEW f \in Flushed(put)
    PROVE  Written(f.h, put) /\ (f.ok \/ f.h.err)
<1>1. ~put.rdbuf /\ Unread(put) = <<>>
    BY DEF Layers, Unread
<1>2. CASE f.ok
  <2>1. /\ Rests(f.h) /\ f.h.err = put.err
        /\ FileOf(f.h, appends) = FileOf(put, appends) /\ Logical(f.h) = Logical(put)
        /\ AheadOf(f.h, appends) = AheadOf(put, appends)
      BY <1>1, <1>2, FlushRests
  <2> QED
      BY <2>1, <1>2 DEF Written
<1>3. CASE ~f.ok
  <2>1. Failure(f.h, put)
      BY <1>3, FlushFails DEF Failure
  <2> QED
      BY <2>1 DEF Written, Failure
<1> QED
    BY <1>2, <1>3

LEMMA FlushOfRests ==
    ASSUME NEW g, Rests(g), NEW f \in Flushed(g)
    PROVE  /\ Rests(f.h) /\ f.h.err = g.err
           /\ FileOf(f.h, appends) = FileOf(g, appends) /\ Logical(f.h) = Logical(g)
           /\ AheadOf(f.h, appends) = AheadOf(g, appends)
<1>1. Layers(g, appends) /\ ~g.rdbuf /\ ~g.wrbuf /\ Unread(g) = <<>>
    BY DEF Rests, Unread
<1>2. f.ok
    BY <1>1, FlushFails
<1> QED
    BY <1>1, <1>2, FlushRests

LEMMA WrittenIs ==
    ASSUME NEW put, Layers(put, appends), put.wrbuf,
           NEW g \in IF put.ptr = BufSize THEN Flushed(put) ELSE {Good(put)},
           NEW e \in IF autoflush /\ ~g.h.err THEN Flushed(g.h) ELSE {g}
    PROVE  Written(e.h, put)
<1>1. Written(g.h, put)
  <2>1. CASE put.ptr = BufSize
      BY <2>1, FlushWrites
  <2>2. CASE put.ptr # BufSize
    <3>1. g.h = put
        BY <2>2 DEF Good
    <3>2. put.ptr \in 0..BufSize /\ BufSize \in Nat
        BY BufAssumption DEF Layers, HandleSet
    <3> QED
        BY <2>2, <3>1, <3>2 DEF Written
  <2> QED
      BY <2>1, <2>2
<1>2. CASE ~(autoflush /\ ~g.h.err)
  <2>1. e = g
      BY <1>2
  <2> QED
      BY <2>1, <1>1
<1>3. CASE autoflush /\ ~g.h.err
  <2>1. e \in Flushed(g.h)
      BY <1>3
  <2>2. CASE g.h = put /\ put.ptr < BufSize
      BY <2>1, <2>2, FlushWrites
  <2>3. CASE /\ Rests(g.h) /\ g.h.err = put.err
             /\ FileOf(g.h, appends) = FileOf(put, appends) /\ Logical(g.h) = Logical(put)
             /\ AheadOf(g.h, appends) = AheadOf(put, appends)
    <3>1. /\ Rests(e.h) /\ e.h.err = g.h.err
          /\ FileOf(e.h, appends) = FileOf(g.h, appends) /\ Logical(e.h) = Logical(g.h)
          /\ AheadOf(e.h, appends) = AheadOf(g.h, appends)
        BY <2>1, <2>3, FlushOfRests
    <3> QED
        BY <2>3, <3>1 DEF Written
  <2>4. CASE Failure(g.h, put)
      BY <1>3, <2>4 DEF Failure
  <2> QED
      BY <1>1, <2>2, <2>3, <2>4 DEF Written
<1> QED
    BY <1>2, <1>3

\* A writer, as the program sees it.
LEMMA ToWrite ==
    ASSUME BufInvariant, ~(handle.rdbuf /\ Logical(handle) < 0),
           NEW f \in IF handle.rdbuf THEN Flushed(handle) ELSE {Good(handle)}
    PROVE  /\ Layers(f.h, appends) /\ ~f.h.rdbuf /\ f.h.ptr < BufSize
           /\ f.h.err = handle.err
           /\ FileOf(f.h, appends) = FileOf(handle, appends) /\ Logical(f.h) = Logical(handle)
<1>1. /\ Layers(handle, appends) /\ BufSize \in Nat \ {0}
      /\ handle.wrbuf => handle.ptr < BufSize
    BY BufAssumption DEF BufInvariant
<1>2. CASE handle.rdbuf
  <2>1. f \in Flushed(handle) /\ ~handle.wrbuf
      BY <1>1, <1>2 DEF Layers
  <2>2. f.ok
      BY <1>1, <2>1, FlushFails
  <2>3. /\ Rests(f.h) /\ f.h.err = handle.err /\ f.h.ptr = 0
        /\ FileOf(f.h, appends) = FileOf(handle, appends) /\ Logical(f.h) = Logical(handle)
      BY <1>1, <2>1, <2>2, FlushRests
  <2> QED
      BY <1>1, <2>3 DEF Rests
<1>3. CASE ~handle.rdbuf
  <2>1. f.h = handle
      BY <1>3 DEF Good
  <2>2. handle.ptr < BufSize
    <3>1. handle.ptr \in 0..BufSize /\ (handle.ptr > 0 => handle.wrbuf)
        BY <1>1, <1>3 DEF Layers, HandleSet
    <3> QED
        BY <1>1, <3>1
  <2> QED
      BY <1>1, <1>3, <2>1, <2>2
<1> QED
    BY <1>2, <1>3

LEMMA PutByteKeeps ==
    ASSUME Slips = {}, BufInvariant, NEW b \in Bytes, PutByte(b)
    PROVE  Stream!StreamNext /\ BufInvariant'
<1>1. /\ UNCHANGED <<pending, appends, autoflush>> /\ Layers(handle, appends)
      /\ autoflush' \in BOOLEAN /\ b \in Held
      /\ pending = <<>> /\ ~(handle.rdbuf /\ Logical(handle) < 0)
    BY DEF PutByte, BufInvariant, Held, Slip
<1>2. PICK f \in IF handle.rdbuf THEN Flushed(handle) ELSE {Good(handle)} :
         LET put == [f.h EXCEPT !.wrbuf = TRUE, !.buf[f.h.ptr + 1] = b, !.ptr = @ + 1]
         IN /\ appends => f.h.posn = Len(f.h.disk)
            /\ \E g \in IF put.ptr = BufSize THEN Flushed(put) ELSE {Good(put)} :
               \E e \in IF autoflush /\ ~g.h.err THEN Flushed(g.h) ELSE {g} :
                  /\ handle' = e.h
                  /\ result' = IF e.h.err THEN Failed ELSE Fine
    BY <1>1 DEF PutByte, Slip
<1>3. PICK put :
         /\ Puts(f.h, put, b)
         /\ appends => f.h.posn = Len(f.h.disk)
         /\ \E g \in IF put.ptr = BufSize THEN Flushed(put) ELSE {Good(put)} :
            \E e \in IF autoflush /\ ~g.h.err THEN Flushed(g.h) ELSE {g} :
               /\ handle' = e.h
               /\ result' = IF e.h.err THEN Failed ELSE Fine
    BY <1>2 DEF Puts
<1>4. /\ Layers(f.h, appends) /\ ~f.h.rdbuf /\ f.h.ptr < BufSize /\ f.h.err = handle.err
      /\ FileOf(f.h, appends) = FileOf(handle, appends) /\ Logical(f.h) = Logical(handle)
    BY <1>1, ToWrite
<1>5. PutsWell(f.h, put, b)
    BY <1>1, <1>3, <1>4, PutsIs
<1>6. Layers(put, appends) /\ put.wrbuf /\ put.err = f.h.err
    BY <1>5 DEF PutsWell
<1>7. Written(handle', put) /\ result' = IF handle'.err THEN Failed ELSE Fine
    BY <1>3, <1>6, WrittenIs
<1>8. Sees(FileOf(handle, appends), Logical(handle), AheadOf(handle, appends))
    BY <1>1, SeesHandle
<1>9. ASSUME Layers(handle', appends), handle'.err = put.err,
             handle'.wrbuf => handle'.ptr < BufSize,
             FileOf(handle', appends) = FileOf(put, appends),
             Logical(handle') = Logical(put), AheadOf(handle', appends) = AheadOf(put, appends)
      PROVE  Stream!StreamNext /\ BufInvariant'
  <2>1. /\ Contents' = FileOf(put, appends) /\ Position' = Logical(put)
        /\ Ahead' = AheadOf(put, appends)
      BY <1>1, <1>9, SeesNext
  <2>2. /\ Logical(f.h) \in 0..Len(FileOf(f.h, appends))
        /\ FileOf(put, appends) = Stream!Put(FileOf(f.h, appends), Logical(f.h), b)
        /\ Logical(put) = Logical(f.h) + 1
        /\ AheadOf(put, appends) = Stream!From(FileOf(put, appends), Logical(put))
      BY <1>5 DEF PutsWell
  <2>3. Stream!Write(b)
      BY <1>4, <1>6, <1>7, <1>8, <1>9, <2>1, <2>2 DEF Stream!Write, Sees
  <2>4. BufInvariant'
      BY <1>1, <1>9, NothingPending, Invariant
  <2> QED
      BY <2>3, <2>4 DEF Stream!StreamNext
<1>10. CASE handle' = put /\ put.ptr < BufSize
    BY <1>6, <1>9, <1>10
<1>11. CASE /\ Rests(handle') /\ handle'.err = put.err
            /\ FileOf(handle', appends) = FileOf(put, appends)
            /\ Logical(handle') = Logical(put) /\ AheadOf(handle', appends) = AheadOf(put, appends)
    BY <1>9, <1>11 DEF Rests
<1>12. CASE Failure(handle', put)
  <2>1. Rests(handle') /\ handle'.err
      BY <1>12 DEF Failure
  <2>2. PICK s \in Seq(Held) : s = Earlier(f.h)
      BY <1>5 DEF PutsWell
  <2>3. /\ FileOf(f.h, appends) = Overlay(put.disk, put.posn, s)
        /\ Logical(f.h) = put.posn + Len(s)
        /\ put.ptr <= Len(s) + 1 /\ \A i \in 1..Len(s) : i < put.ptr => put.buf[i] = s[i]
      BY <1>5, <2>2 DEF PutsWell
  <2>4. /\ Loses(Overlay(put.disk, put.posn, s), put.posn + Len(s), handle'.disk,
                 Logical(handle'))
        /\ FileOf(handle', appends) = handle'.disk /\ Logical(handle') \in Nat
        /\ AheadOf(handle', appends) = Stream!From(handle'.disk, Logical(handle'))
      BY <1>6, <1>12, <2>3, FailureLoses
  <2>5. /\ Contents' = handle'.disk /\ Position' = Logical(handle')
        /\ Ahead' = AheadOf(handle', appends)
      BY <1>1, <2>1, <2>4, SeesNext DEF Rests
  <2>6. Position' + Len(<<>>) = Position'
      BY <2>4, <2>5
  <2>7. Loses(Contents, Position, Contents', Position' + Len(<<>>))
      BY <1>4, <1>8, <2>3, <2>4, <2>5, <2>6 DEF Sees
  <2>8. Stream!Lost(Contents', Position' + Len(<<>>))
      BY <2>7 DEF Loses, Stream!Lost
  <2>9. Ahead' = <<>> \o Stream!From(Contents', Position' + Len(<<>>))
    <3>1. AheadOf(handle', appends) \in Seq(Held)
        BY <2>1, AheadIs DEF Rests
    <3>2. PICK a \in Seq(Held) : a = Ahead'
        BY <3>1, <2>5
    <3>3. a = Stream!From(Contents', Position' + Len(<<>>))
        BY <3>2, <2>4, <2>5, <2>6
    <3>4. <<>> \o a = a
        OBVIOUS
    <3> QED
        BY <3>2, <3>3, <3>4
  <2>10. handle'.err = TRUE
      BY <2>1 DEF Rests, Layers, HandleSet
  <2>11. Stream!Lose
      BY <1>7, <2>8, <2>9, <2>10 DEF Stream!Lose
  <2>12. BufInvariant'
      BY <1>1, <2>1, NothingPending, Invariant DEF Rests
  <2> QED
      BY <2>11, <2>12 DEF Stream!StreamNext
<1> QED
    BY <1>7, <1>10, <1>11, <1>12 DEF Written

LEMMA SeekToKeeps ==
    ASSUME Slips = {}, BufInvariant, NEW p \in 0..MaxFile, SeekTo(p)
    PROVE  Stream!StreamNext /\ BufInvariant'
<1>1. /\ UNCHANGED <<appends, autoflush>> /\ Layers(handle, appends) /\ pending' = <<>>
      /\ autoflush' \in BOOLEAN /\ ~(handle.rdbuf /\ Logical(handle) < 0) /\ p \in Nat
    BY BufAssumption DEF SeekTo, BufInvariant, Slip
<1>2. PICK f \in Flushed(handle) :
          /\ p <= Len(f.h.disk)
          /\ handle' = IF f.ok THEN [Sought(f.h, p) EXCEPT !.posn = p] ELSE f.h
          /\ result' = IF f.ok THEN Fine ELSE Failed
    BY DEF SeekTo
<1>3. CASE f.ok
  <2>1. /\ Rests(f.h) /\ f.h.err = handle.err /\ f.h.disk = FileOf(handle, appends)
        /\ f.h.disk \in Seq(Held)
      BY <1>1, <1>3, FlushRests
  <2>2. Layers(f.h, appends) /\ f.h \in HandleSet
      BY <2>1 DEF Rests, Layers
  <2>3. /\ handle' = [f.h EXCEPT !.offset = p, !.uniteof = FALSE, !.posn = p]
        /\ p \in Nat /\ p \in Int /\ FALSE \in BOOLEAN
      BY <1>1, <1>2, <1>3, <2>2 DEF Sought, HandleSet
  <2>4. handle' \in HandleSet
      BY <2>2, <2>3, Zenon DEF HandleSet
  <2>5. /\ handle'.disk = f.h.disk /\ handle'.offset = p /\ handle'.posn = p
        /\ handle'.uniteof = FALSE /\ handle'.uniterr = f.h.uniterr /\ handle'.err = f.h.err
        /\ handle'.ptr = f.h.ptr /\ handle'.end = f.h.end /\ handle'.buf = f.h.buf
        /\ handle'.rdbuf = f.h.rdbuf /\ handle'.wrbuf = f.h.wrbuf
      BY <2>2, <2>3 DEF HandleSet
  <2>6. Rests(handle')
      BY <1>1, <1>2, <2>1, <2>4, <2>5 DEF Rests, Layers
  <2>7. /\ FileOf(handle', appends) = handle'.disk /\ Logical(handle') = p
        /\ AheadOf(handle', appends) = Beyond(handle'.disk, p)
      BY <2>5, <2>6, RestingIs
  <2>8. Beyond(handle'.disk, p) = Stream!From(handle'.disk, p)
    <3>1. PICK d \in Seq(Held) : d = handle'.disk
        BY <2>1, <2>5
    <3>2. Beyond(d, p) = SubSeq(d, p + 1, Len(d))
        BY <1>1, BeyondIs
    <3> QED
        BY <3>1, <3>2 DEF Stream!From
  <2>9. Contents' = Contents
      BY <1>1, <2>1, <2>5, <2>7, Views, ViewsNext
  <2>10. Position' = p /\ Ahead' = Stream!From(Contents', p)
      BY <1>1, <2>6, <2>7, <2>8, SeesNext DEF Rests
  <2>11. p \in 0..Len(Contents')
    <3>1. Contents' = f.h.disk
        BY <2>1, <2>9, Views
    <3>2. Len(f.h.disk) \in Nat
        BY <2>1
    <3> QED
        BY <1>1, <1>2, <3>1, <3>2
  <2>12. result' = Fine /\ handle'.err = handle.err
      BY <1>2, <1>3, <2>1, <2>5
  <2>13. Stream!Seek
      BY <2>9, <2>10, <2>11, <2>12 DEF Stream!Seek
  <2>14. BufInvariant'
      BY <1>1, <2>6, NothingPending, Invariant DEF Rests
  <2> QED
      BY <2>13, <2>14 DEF Stream!StreamNext
<1>4. CASE ~f.ok
  <2>1. Failure(handle', handle) /\ result' = Failed
      BY <1>1, <1>2, <1>4, FlushFails DEF Failure
  <2>2. pending = <<>>
      BY <2>1, <1>1 DEF Failure, BufInvariant, Layers
  <2>3. Stream!Lose /\ BufInvariant'
      BY <1>1, <2>1, <2>2, CallLoses
  <2> QED
      BY <2>3 DEF Stream!StreamNext
<1> QED
    BY <1>3, <1>4

\* A flush that worked.
LEMMA CallFlushes ==
    ASSUME BufInvariant, pending = <<>>, pending' = <<>>, UNCHANGED appends,
           autoflush' \in BOOLEAN, result' = Fine, NEW f \in Flushed(handle), f.ok,
           handle' = f.h, ~(handle.rdbuf /\ Logical(handle) < 0)
    PROVE  Stream!Flush /\ BufInvariant'
<1>1. Layers(handle, appends)
    BY DEF BufInvariant
<1>2. /\ Rests(handle') /\ handle'.err = handle.err /\ Logical(handle') = Logical(handle)
      /\ FileOf(handle', appends) = FileOf(handle, appends)
      /\ handle'.disk = FileOf(handle, appends)
      /\ handle'.offset \in 0..Len(handle'.disk) /\ Logical(handle') = handle'.offset
      /\ AheadOf(handle', appends) = Stream!From(handle'.disk, Logical(handle'))
    BY <1>1, FlushRests
<1>3. Contents = FileOf(handle, appends) /\ Position = Logical(handle)
    BY SeesHandle DEF Sees
<1>4. /\ Contents' = FileOf(handle', appends) /\ Position' = Logical(handle')
      /\ Ahead' = AheadOf(handle', appends)
    BY <1>2, SeesNext DEF Rests
<1>5. Position >= 0
  <2>1. handle'.offset \in Nat
      BY <1>2, RestingIs
  <2>2. PICK q \in Nat : q = handle'.offset
      BY <2>1
  <2>3. Position = q
      BY <1>2, <1>3, <2>2, Zenon
  <2> QED
      BY <2>3
<1>6. Stream!Flush
    BY <1>2, <1>3, <1>4, <1>5 DEF Stream!Flush
<1>7. BufInvariant'
    BY <1>2, NothingPending, Invariant DEF Rests
<1> QED
    BY <1>6, <1>7

LEMMA FlushHandleKeeps ==
    ASSUME Slips = {}, BufInvariant, FlushHandle
    PROVE  Stream!StreamNext /\ BufInvariant'
<1>1. /\ pending = <<>> /\ pending' = <<>> /\ UNCHANGED appends /\ Layers(handle, appends)
      /\ autoflush' \in BOOLEAN
    BY DEF FlushHandle, BufInvariant, Slip
<1>2. PICK f \in Flushed(handle) :
          /\ handle' = f.h
          /\ result' = (IF f.ok THEN Fine ELSE Failed) \/ result' = Fine
    BY <1>1 DEF FlushHandle
<1>3. CASE f.ok /\ handle.rdbuf /\ Logical(handle) < 0
  <2>1. f.ok /\ handle.rdbuf /\ ~handle.wrbuf
      BY <1>1, <1>3 DEF Layers
  <2>2. CASE f.h = handle /\ Unread(handle) # <<>>
    <3>1. UNCHANGED <<Contents, Position, Ahead>>
        BY <1>1, <1>2, <2>2, Views, ViewsNext
    <3>2. Unread(handle) \in Seq(Held)
        BY <1>1, <2>1, UnreadIs
    <3>3. pending \o Unread(handle) # <<>>
        BY <1>1, <2>2, <3>2, NonePending
    <3>4. Stream!MoreToRead
        BY <1>2, <1>3, <2>2, <3>1, <3>3, MoreAhead DEF Stream!MoreToRead
    <3>5. BufInvariant'
        BY <1>1, <1>2, <2>1, <2>2, NothingPending, Invariant
    <3> QED
        BY <3>4, <3>5 DEF Stream!StreamNext
  <2>3. CASE Rests(f.h) /\ Logical(f.h) = Logical(handle)
    <3>1. Logical(f.h) \in Nat
        BY <2>3, RestingIs
    <3> QED
        BY <1>3, <2>3, <3>1
  <2> QED
      BY <1>1, <2>1, <2>2, <2>3, FlushKeeps
<1>4. CASE f.ok /\ ~(handle.rdbuf /\ Logical(handle) < 0)
  <2>1. Stream!Flush /\ BufInvariant'
      BY <1>1, <1>2, <1>4, CallFlushes
  <2> QED
      BY <2>1 DEF Stream!StreamNext
<1>5. CASE ~f.ok
  <2>1. Failure(handle', handle) /\ result' \in {Fine, Failed, Eof}
      BY <1>1, <1>2, <1>5, FlushFails DEF Failure
  <2>2. Stream!Lose /\ BufInvariant'
      BY <1>1, <2>1, CallLoses
  <2> QED
      BY <2>2 DEF Stream!StreamNext
<1> QED
    BY <1>3, <1>4, <1>5

\* At the end of the file when there is nothing to read.
LEMMA NothingAhead ==
    ASSUME NEW h, Layers(h, appends), AheadOf(h, appends) = <<>>
    PROVE  /\ Logical(h) \in Nat
           /\ Stream!From(FileOf(h, appends), Logical(h)) = <<>>
<1>1. CASE h.wrbuf
  <2>1. /\ FileOf(h, appends) \in Seq(Held) /\ Logical(h) \in Nat
        /\ AheadOf(h, appends) = Beyond(FileOf(h, appends), Logical(h))
      BY <1>1, WriterIs
  <2>2. Beyond(FileOf(h, appends), Logical(h)) = Stream!From(FileOf(h, appends), Logical(h))
      BY <2>1, BeyondIs DEF Stream!From
  <2> QED
      BY <2>1, <2>2
<1>2. CASE ~h.wrbuf
  <2>1. /\ FileOf(h, appends) = h.disk /\ h.disk \in Seq(Held) /\ Len(h.disk) \in Nat
        /\ h.offset \in Nat /\ h.offset = h.posn + h.end /\ h.offset <= Len(h.disk)
        /\ h.ptr \in Nat /\ h.end \in Nat /\ h.posn \in Int /\ Logical(h) = h.posn + h.ptr
      BY <1>2, OtherIs
  <2>2. /\ Beyond(h.disk, h.offset) \in Seq(Held)
        /\ Beyond(h.disk, h.offset) = SubSeq(h.disk, h.offset + 1, Len(h.disk))
    <3>1. PICK d \in Seq(Held), p \in Nat : d = h.disk /\ p = h.offset
        BY <2>1
    <3>2. Beyond(d, p) = SubSeq(d, p + 1, Len(d)) /\ Beyond(d, p) \in Seq(Held)
        BY BeyondIs
    <3> QED
        BY <3>1, <3>2
  <2>3. Logical(h) = h.offset /\ Beyond(h.disk, h.offset) = <<>>
    <3>1. CASE h.rdbuf
      <4>1. Unread(h) \in Seq(Held) /\ (Unread(h) = <<>> <=> h.ptr = h.end)
          BY <3>1, UnreadIs
      <4>2. AheadOf(h, appends) = Unread(h) \o Beyond(h.disk, h.offset)
          BY <1>2, <3>1, OtherIs
      <4>3. Unread(h) = <<>>
          BY <2>2, <4>1, <4>2, HeadOfJoin
      <4>4. Beyond(h.disk, h.offset) = <<>>
          BY <2>2, <4>2, <4>3, NonePending
      <4> QED
          BY <2>1, <4>1, <4>3, <4>4
    <3>2. CASE ~h.rdbuf
        BY <1>2, <3>2, OtherIs
    <3> QED
        BY <3>1, <3>2
  <2> QED
      BY <2>1, <2>2, <2>3 DEF Stream!From
<1> QED
    BY <1>1, <1>2

LEMMA NoAutoflushKeeps ==
    ASSUME BufInvariant, NoAutoflush
    PROVE  Stream!StreamNext /\ BufInvariant'
<1>1. /\ UNCHANGED <<handle, pending, appends>> /\ result' = Fine /\ autoflush' \in BOOLEAN
      /\ Layers(handle, appends) /\ pending \in Seq(Held)
    BY DEF NoAutoflush, BufInvariant
<1>2. UNCHANGED <<Contents, Position, Ahead>>
    BY <1>1, Views, ViewsNext
<1>3. BufInvariant'
    BY <1>1, Invariant DEF BufInvariant
<1>4. CASE Ahead # <<>>
  <2>1. Stream!MoreToRead
      BY <1>1, <1>2, <1>4 DEF Stream!MoreToRead
  <2> QED
      BY <1>3, <2>1 DEF Stream!StreamNext
<1>5. CASE Ahead = <<>>
  <2>1. AheadOf(handle, appends) \in Seq(Held)
      BY <1>1, AheadIs
  <2>2. pending = <<>>
      BY <1>1, <1>5, <2>1, HeadOfJoin, Views
  <2>3. Sees(FileOf(handle, appends), Logical(handle), AheadOf(handle, appends))
      BY <2>2, SeesHandle
  <2>4. /\ Logical(handle) \in Nat
        /\ Stream!From(FileOf(handle, appends), Logical(handle)) = <<>>
      BY <1>1, <1>5, <2>3, NothingAhead DEF Sees
  <2>5. Stream!Flush
      BY <1>1, <1>2, <1>5, <2>3, <2>4 DEF Stream!Flush, Sees
  <2> QED
      BY <1>3, <2>5 DEF Stream!StreamNext
<1> QED
    BY <1>4, <1>5

LEMMA TellAppendingKeeps ==
    ASSUME BufInvariant, TellAppending
    PROVE  Stream!StreamNext /\ BufInvariant'
<1>1. /\ UNCHANGED <<pending, appends, autoflush>> /\ handle.wrbuf /\ ~handle.rdbuf
      /\ result' = Fine /\ Layers(handle, appends) /\ autoflush' \in BOOLEAN /\ pending = <<>>
    BY DEF TellAppending, BufInvariant, Layers
<1>2. PICK f \in Flushed(handle) : handle' = [f.h EXCEPT !.posn = f.h.offset]
    BY DEF TellAppending
<1>3. handle' = f.h
  <2>1. Rests(f.h)
    <3>1. CASE f.ok
        BY <1>1, <3>1, FlushRests
    <3>2. CASE ~f.ok
        BY <1>1, <3>2, FlushFails
    <3> QED
        BY <3>1, <3>2
  <2>2. f.h.posn = f.h.offset
      BY <2>1, RestingIs
  <2>3. f.h \in HandleSet
      BY <2>1 DEF Rests, Layers
  <2> QED
      BY <1>2, <2>2, <2>3 DEF HandleSet
<1>4. CASE f.ok
  <2>1. Stream!Flush /\ BufInvariant'
      BY <1>1, <1>3, <1>4, CallFlushes
  <2> QED
      BY <2>1 DEF Stream!StreamNext
<1>5. CASE ~f.ok
  <2>1. Failure(handle', handle)
      BY <1>1, <1>3, <1>5, FlushFails DEF Failure
  <2>2. Stream!Lose /\ BufInvariant'
      BY <1>1, <2>1, CallLoses
  <2> QED
      BY <2>2 DEF Stream!StreamNext
<1> QED
    BY <1>4, <1>5

LEMMA ClearErrKeeps ==
    ASSUME BufInvariant, ClearErr
    PROVE  Stream!StreamNext /\ BufInvariant'
<1>1. /\ handle' = [handle EXCEPT !.err = FALSE, !.uniterr = FALSE, !.uniteof = FALSE]
      /\ UNCHANGED <<pending, appends, autoflush>> /\ result' = Fine
      /\ Layers(handle, appends) /\ handle \in HandleSet
    BY DEF ClearErr, BufInvariant, Layers
<1>2. handle' \in HandleSet
  <2>1. FALSE \in BOOLEAN
      OBVIOUS
  <2> QED
      BY <2>1, <1>1, Zenon DEF HandleSet
<1>3. /\ handle'.disk = handle.disk /\ handle'.offset = handle.offset
      /\ handle'.posn = handle.posn /\ handle'.buf = handle.buf
      /\ handle'.ptr = handle.ptr /\ handle'.end = handle.end
      /\ handle'.rdbuf = handle.rdbuf /\ handle'.wrbuf = handle.wrbuf
      /\ handle'.err = FALSE /\ handle'.uniterr = FALSE /\ handle'.uniteof = FALSE
    BY <1>1 DEF HandleSet
<1>4. Layers(handle', appends)
    BY <1>1, <1>2, <1>3 DEF Layers
<1>5. /\ FileOf(handle', appends) = FileOf(handle, appends)
      /\ Logical(handle') = Logical(handle)
      /\ AheadOf(handle', appends) = AheadOf(handle, appends)
  <2>1. Logical(handle') = Logical(handle) /\ Unread(handle') = Unread(handle)
        /\ Unwritten(handle') = Unwritten(handle)
      BY <1>3 DEF Logical, Unread, Unwritten
  <2>2. FileOf(handle', appends) = FileOf(handle, appends)
      BY <1>3, <2>1 DEF FileOf
  <2> QED
      BY <1>3, <2>1, <2>2 DEF AheadOf
<1>6. UNCHANGED <<Contents, Position, Ahead>>
    BY <1>1, <1>5, Views, ViewsNext
<1>7. Stream!ClearErr
    BY <1>1, <1>3, <1>6 DEF Stream!ClearErr
<1>8. BufInvariant'
    BY <1>1, <1>3, <1>4, Invariant DEF BufInvariant
<1> QED
    BY <1>7, <1>8 DEF Stream!StreamNext

\* The layers of a file just opened.
LEMMA FreshIs ==
    ASSUME NEW d \in Seq(Held), NEW p \in 0..Len(d), NEW ap \in BOOLEAN,
           NEW h, h = FreshHandle(d, p)
    PROVE  /\ Layers(h, ap) /\ ~h.wrbuf /\ ~h.rdbuf /\ h.err = FALSE
           /\ FileOf(h, ap) = d /\ Logical(h) = p
           /\ AheadOf(h, ap) = Stream!From(d, p)
<1>1. p \in Nat /\ p \in Int /\ p + 0 = p /\ p <= Len(d)
    OBVIOUS
<1>2. h \in HandleSet
  <2>1. FALSE \in BOOLEAN
      OBVIOUS
  <2> QED
      BY <1>1, <2>1, NoBytesType, Zenon DEF FreshHandle, HandleSet
<1>3. /\ h.disk = d /\ h.offset = p /\ h.posn = p /\ h.ptr = 0 /\ h.end = 0
      /\ h.rdbuf = FALSE /\ h.wrbuf = FALSE /\ h.err = FALSE
      /\ h.uniterr = FALSE /\ h.uniteof = FALSE
    BY DEF FreshHandle
<1>4. Layers(h, ap)
    BY <1>1, <1>2, <1>3 DEF Layers
<1>5. /\ FileOf(h, ap) = h.disk /\ Logical(h) = h.offset
      /\ AheadOf(h, ap) = Beyond(h.disk, h.offset)
    BY <1>3, <1>4, OtherIs
<1>6. Beyond(d, p) = Stream!From(d, p)
    BY <1>1, BeyondIs DEF Stream!From
<1> QED
    BY <1>3, <1>4, <1>5, <1>6

LEMMA CloseAndOpenKeeps ==
    ASSUME BufInvariant, CloseAndOpen
    PROVE  Stream!StreamNext /\ BufInvariant'
<1>1. /\ pending' = <<>> /\ autoflush' \in BOOLEAN /\ Layers(handle, appends)
      /\ appends' \in BOOLEAN /\ Contents = FileOf(handle, appends)
    BY Views DEF CloseAndOpen, BufInvariant
<1>2. PICK f \in Flushed(handle) :
          /\ handle' = FreshHandle(f.h.disk, IF appends' THEN Len(f.h.disk) ELSE 0)
          /\ result' = Failed \/ (result' = Fine /\ f.ok /\ (handle.err => pending # <<>>))
    BY DEF CloseAndOpen
<1>3. ASSUME f.h.disk \in Seq(Held)
      PROVE  /\ BufInvariant' /\ handle'.err = FALSE
             /\ Contents' = f.h.disk /\ Position' \in {0, Len(Contents')}
             /\ Ahead' = Stream!From(Contents', Position')
  <2>1. PICK p \in 0..Len(f.h.disk) :
            p = (IF appends' THEN Len(f.h.disk) ELSE 0) /\ p \in {0, Len(f.h.disk)}
    <3>1. Len(f.h.disk) \in Nat
        BY <1>3
    <3> QED
        BY <3>1
  <2>2. /\ Layers(handle', appends') /\ ~handle'.wrbuf /\ ~handle'.rdbuf /\ handle'.err = FALSE
        /\ FileOf(handle', appends') = f.h.disk /\ Logical(handle') = p
        /\ AheadOf(handle', appends') = Stream!From(f.h.disk, p)
    <3>1. handle' = FreshHandle(f.h.disk, p)
        BY <1>2, <2>1
    <3> QED
      <4>1. PICK g, ap, d :
                g = handle' /\ ap = appends' /\ d = f.h.disk
          OBVIOUS
      <4>2. /\ g = FreshHandle(d, p) /\ p \in 0..Len(d)
            /\ ap \in BOOLEAN /\ d \in Seq(Held)
          BY <1>1, <1>3, <2>1, <3>1, <4>1, Zenon
      <4>3. /\ Layers(g, ap) /\ ~g.wrbuf /\ ~g.rdbuf /\ g.err = FALSE
            /\ FileOf(g, ap) = d /\ Logical(g) = p
            /\ AheadOf(g, ap) = Stream!From(d, p)
          BY <4>2, FreshIs
      <4> QED
          BY <4>1, <4>3, Zenon
  <2>3. /\ Contents' = f.h.disk /\ Position' = p /\ Ahead' = Stream!From(f.h.disk, p)
      BY <1>1, <2>2, SeesNext
  <2>4. BufInvariant'
      BY <1>1, <2>2, NothingPending DEF BufInvariant, Layers, HandleSet, BufSet, Held
  <2> QED
      BY <2>1, <2>2, <2>3, <2>4
<1>4. CASE f.ok
  <2>1. f.h.disk = FileOf(handle, appends)
    <3>1. CASE f.h = handle /\ handle.rdbuf
      <4>1. ~handle.wrbuf
          BY <1>1, <3>1 DEF Layers
      <4> QED
          BY <1>1, <3>1, <4>1, OtherIs
    <3> QED
        BY <1>1, <1>4, <3>1, FlushKeeps
  <2>2. f.h.disk \in Seq(Held)
      BY <1>1, <2>1, AheadIs
  <2>3. result' \in {Fine, Failed}
      BY <1>2
  <2>4. Stream!Reopen
      BY <1>1, <1>3, <2>1, <2>2, <2>3 DEF Stream!Reopen
  <2> QED
      BY <1>3, <2>2, <2>4 DEF Stream!StreamNext
<1>5. CASE ~f.ok
  <2>1. Failure(f.h, handle) /\ result' = Failed
      BY <1>1, <1>2, <1>5, FlushFails DEF Failure
  <2>2. Rests(f.h) /\ pending = <<>>
      BY <1>1, <2>1 DEF Failure, BufInvariant, Layers
  <2>3. f.h.disk \in Seq(Held)
      BY <2>2 DEF Rests, Layers, HandleSet
  <2>4. Position = Logical(handle)
      BY <2>2, SeesHandle DEF Sees
  <2>5. Loses(Contents, Position, Contents', Logical(f.h))
      BY <1>1, <1>3, <2>1, <2>3, <2>4, FailureIs
  <2>6. Stream!CloseLoses
    <3>1. Logical(f.h) \in 0..Position /\ Stream!Lost(Contents', Logical(f.h))
        BY <2>5 DEF Loses, Stream!Lost
    <3> QED
        BY <1>3, <2>1, <2>3, <3>1 DEF Stream!CloseLoses
  <2> QED
      BY <1>3, <2>3, <2>6 DEF Stream!StreamNext
<1> QED
    BY <1>4, <1>5

-----------------------------------------------------------------------------
(* The theorems *)

LEMMA InitKeeps == ASSUME BufInit PROVE BufInvariant /\ Stream!StreamInit
<1>1. /\ handle = FreshHandle(<<>>, 0) /\ appends = FALSE /\ pending = <<>>
      /\ autoflush = FALSE /\ result = Fine
    BY DEF BufInit
<1>2. <<>> \in Seq(Held) /\ <<>> \in Seq(Bytes) /\ Len(<<>>) = 0 /\ 0 \in 0..Len(<<>>)
    OBVIOUS
<1>3. /\ Layers(handle, appends) /\ ~handle.wrbuf /\ handle.err = FALSE
      /\ FileOf(handle, appends) = <<>> /\ Logical(handle) = 0
      /\ AheadOf(handle, appends) = Stream!From(<<>>, 0)
    BY <1>1, <1>2, FreshIs
<1>4. BufInvariant
    BY <1>1, <1>2, <1>3 DEF BufInvariant
<1>5. Sees(FileOf(handle, appends), Logical(handle), AheadOf(handle, appends))
    BY <1>1, <1>4, SeesHandle
<1>6. Stream!StreamInit
    BY <1>1, <1>2, <1>3, <1>5 DEF Stream!StreamInit, Sees
<1> QED
    BY <1>4, <1>6

LEMMA NextKeeps ==
    ASSUME Slips = {}, BufInvariant, BufNext
    PROVE  Stream!StreamNext /\ BufInvariant'
<1>1. CASE GetByte
    BY <1>1, GetByteKeeps
<1>2. CASE TestEof
    BY <1>2, TestEofKeeps
<1>3. CASE FlushHandle
    BY <1>3, FlushHandleKeeps
<1>4. CASE TellAppending
    BY <1>4, TellAppendingKeeps
<1>5. CASE CloseAndOpen
    BY <1>5, CloseAndOpenKeeps
<1>6. CASE ClearErr
    BY <1>6, ClearErrKeeps
<1>7. CASE NoAutoflush
    BY <1>7, NoAutoflushKeeps
<1>8. ASSUME NEW b \in Bytes, UngetByte(b) PROVE Stream!StreamNext /\ BufInvariant'
    BY <1>8, UngetByteKeeps
<1>9. ASSUME NEW b \in Bytes, PutByte(b) PROVE Stream!StreamNext /\ BufInvariant'
    BY <1>9, PutByteKeeps
<1>10. ASSUME NEW p \in 0..MaxFile, SeekTo(p) PROVE Stream!StreamNext /\ BufInvariant'
    BY <1>10, SeekToKeeps
<1> QED
    BY <1>1, <1>2, <1>3, <1>4, <1>5, <1>6, <1>7, <1>8, <1>9, <1>10 DEF BufNext

LEMMA StutterKeeps ==
    ASSUME BufInvariant, UNCHANGED BufVars
    PROVE  UNCHANGED <<Contents, Position, Ahead, result, handle.err>> /\ BufInvariant'
<1>1. UNCHANGED <<handle, pending, appends, autoflush, result>>
    BY DEF BufVars
<1>2. UNCHANGED <<Contents, Position, Ahead>>
    BY <1>1, Views, ViewsNext
<1>3. BufInvariant'
    BY <1>1, Invariant DEF BufInvariant
<1> QED
    BY <1>1, <1>2, <1>3

\* The layers of perlio.c agree with each other and with the kernel: where the
\* kernel's offset is, what the buffer holds of the file, and which of its modes
\* it is in, as long as the program makes none of the calls that Slips names.
THEOREM BufInvariantHolds ==
    ASSUME Slips = {}
    PROVE  BufSpec => []BufInvariant
<1>1. BufInit => BufInvariant
    BY InitKeeps
<1>2. BufInvariant /\ [BufNext]_BufVars => BufInvariant'
    BY NextKeeps, StutterKeeps
<1> QED
    BY <1>1, <1>2, PTL DEF BufSpec

\* A handle of the layers :unix and :perlio implements the file with a position:
\* each byte read or written is the one where tell() says, however the calls
\* alternate and wherever PerlIOBuf_flush, PerlIOBuf_fill and the kernel stop,
\* and bytes are lost only with an error.
THEOREM StreamIsKept ==
    ASSUME Slips = {}
    PROVE  BufSpec => StreamKept
<1>1. BufInit => BufInvariant /\ Stream!StreamInit
    BY InitKeeps
<1>2. BufInvariant /\ [BufNext]_BufVars
          => BufInvariant' /\ [Stream!StreamNext]_<<Contents, Position, Ahead, result, handle.err>>
    BY NextKeeps, StutterKeeps
<1> QED
    BY <1>1, <1>2, PTL DEF BufSpec, StreamKept, Stream!StreamSpec
=============================================================================
