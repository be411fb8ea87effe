-------------------------- MODULE ScopeStacksProofs --------------------------
(***************************************************************************)
(* For any bounds: Perl code runs in the C call that started it, every eval *)
(* would be resumed where it was entered (CallersLive), and a context goes   *)
(* only when all that it saved is undone (LocalsUndone), however many        *)
(* STOREs and DESTROYs run, and die, in the middle of the unwinding.        *)
(***************************************************************************)
EXTENDS ScopeStacks, WellFoundedInduction, TLAPS

-----------------------------------------------------------------------------
(* The invariant, of C functions cs and contexts cx *)

CallFns == {"main", "call", "destroy"}
WorkFns == {"leave", "tmps", "pop", "return", "done", "unwind", "jump"}
Evals == {"try", "destroy"}

FrameSet == [fn : Loops \cup WorkFns, n : Nat]
ContextSet == [type : {"block", "try", "sub", "destroy"}, saveix : Nat, tmps : Nat,
               oldfloor : Nat, catcher : Nat, caller : Nat, entry : Nat]
SavedSet == [what : {"local", "object", "floor"}, old : Nat]

StackTypes == /\ value \in Nat /\ tmps \in Nat /\ floor \in Nat
              /\ savestack \in Seq(SavedSet)
              /\ contexts \in Seq(ContextSet)
              /\ cstack \in Seq(FrameSet)

\* What a C function may have below it: Perl code is called by code that runs,
\* leaves a scope, frees temporaries or unwinds; the rest come in the sequences
\* LeavesBlock, CallEnds and DieUnwinds, of which the top is done first.
Placed(cs, q) ==
    /\ cs[q].fn = "main" <=> q = 1
    /\ cs[q].fn \in {"call", "destroy"} => cs[q - 1].fn \in Loops \cup {"leave", "tmps", "unwind"}
    /\ cs[q].fn = "docatch" => cs[q - 1].fn = "call"
    /\ cs[q].fn \in {"return", "jump"} => cs[q - 1].fn \in Loops
    /\ cs[q].fn = "pop" =>
          \/ cs[q - 1].fn \in Loops
          \/ q > 3 /\ cs[q - 1].fn = "tmps" /\ cs[q - 2].fn = "leave" /\ cs[q - 3].fn = "done"
    /\ cs[q].fn = "done" => cs[q - 1].fn \in {"call", "destroy"}
    /\ cs[q].fn = "leave" => cs[q - 1].fn \in {"pop", "return", "jump", "done"}
    /\ cs[q].fn = "tmps" => cs[q - 1].fn \in Loops \cup {"leave"}
    /\ cs[q].fn = "unwind" =>
          /\ q > 3 /\ cs[q - 1].fn = "tmps" /\ cs[q - 2].fn = "leave"
          /\ cs[q - 3].fn = "jump" /\ cs[q - 3].n = cs[q].n

\* A context belongs to a C call; the jump of a die to an eval ends where the
\* call is, or in the docatch of a call without a setjmp.  A call opens its
\* contexts before any others of its own.
ContextOK(cs, cx, i) ==
    /\ cx[i].caller \in 1..Len(cs) /\ cs[cx[i].caller].fn \in CallFns
    /\ cx[i].type = "try" =>
          IF cs[cx[i].caller].fn = "call"
          THEN /\ cx[i].catcher = cx[i].caller + 1 /\ cx[i].catcher <= Len(cs)
               /\ cs[cx[i].catcher].fn = "docatch"
          ELSE cx[i].catcher = cx[i].caller
    /\ cx[i].type = "destroy" =>
          /\ cs[cx[i].caller].fn = "destroy" /\ cx[i].catcher = cx[i].caller
          /\ cx[i].saveix = cs[cx[i].caller].n + 1
          /\ \A j \in 1..i - 1 : cx[j].caller < cx[i].caller
    /\ cx[i].type = "sub" =>
          \/ cs[cx[i].caller].fn = "call" /\ \A j \in 1..i - 1 : cx[j].caller < cx[i].caller
          \/ /\ cs[cx[i].caller].fn = "destroy"
             /\ i > 1 /\ cx[i - 1].type = "destroy" /\ cx[i - 1].caller = cx[i].caller

Ordered(cx) == \A i, j \in 1..Len(cx) :
                  i < j => cx[i].caller <= cx[j].caller /\ cx[i].saveix <= cx[j].saveix

\* A die under way goes to the innermost of the evals that were there: those
\* further in were opened by Perl code that it called.  What is above the eval
\* has been unwound when the frame "unwind" is gone, but for such code's.
JumpOK(cs, cx, r) == cs[r].fn = "jump" =>
    /\ cs[r].n \in 1..Len(cx)
    /\ cx[cs[r].n].type \in Evals /\ cx[cs[r].n].catcher < r
    /\ \A j \in 1..Len(cx) : j > cs[r].n /\ cx[j].type \in Evals => cx[j].catcher > r
    /\ r < Len(cs) => cs[r + 1].n = cx[cs[r].n].saveix
    /\ \/ r + 3 <= Len(cs) /\ cs[r + 3].fn = "unwind"
       \/ \A j \in 1..Len(cx) : j > cs[r].n => cx[j].caller > r

\* A die under way, of the frame r, will jump out of the frame q: what q works
\* for may be unwound already.
Dooms(cs, cx, r, q) ==
    /\ cs[r].fn = "jump"
    /\ \/ cx[cs[r].n].catcher < q
       \/ cx[cs[r].n].catcher = q /\ cx[cs[r].n].type = "destroy"
Doomed(cs, cx, q) == \E r \in q + 1..Len(cs) : Dooms(cs, cx, r, q)

\* Unless it is doomed, the end of a scope finds the context it is to pop, the
\* last one but for those of Perl code called meanwhile.
Own(cs, cx, i, q) == /\ cx[i].caller < q
                     /\ \A m \in cx[i].caller + 1..q : cs[m].fn \notin CallFns
                     /\ \A j \in 1..Len(cx) : j > i => cx[j].caller > q
Ends(cs, q) == IF cs[q].fn = "return" THEN {"sub"}
               ELSE IF cs[q - 1].fn = "tmps" THEN {"destroy"} ELSE {"block", "try"}
PopOK(cs, cx, q) ==
    cs[q].fn \in {"pop", "return"} /\ ~Doomed(cs, cx, q) =>
        \E i \in 1..Len(cx) : /\ Own(cs, cx, i, q) /\ cx[i].type \in Ends(cs, q)
                              /\ q < Len(cs) => cs[q + 1].n = cx[i].saveix

\* The end of a C call: its sub is gone, and before the last steps its eval, too.
DoneOK(cs, cx, q) == cs[q].fn = "done" =>
    /\ q < Len(cs) => cs[q + 1].n = cs[q - 1].n
    /\ \A i \in 1..Len(cx) : cx[i].caller = q - 1 => cx[i].type = "destroy"
    /\ \/ q + 3 <= Len(cs) /\ cs[q + 3].fn = "pop" /\ cs[q + 2].fn = "tmps"
       \/ \A i \in 1..Len(cx) : cx[i].caller # q - 1

\* A C call brings the savestack back to where it was, which is not below what
\* the contexts of outer calls saved.
SavedOK(cs, cx, p) ==
    cs[p].fn \in {"call", "destroy"} =>
        \A i \in 1..Len(cx) : cx[i].caller < p => cx[i].saveix <= cs[p].n

\* The sub of a C call is there until the call ends or is doomed.
SubOK(cs, cx, p) ==
    cs[p].fn \in {"call", "destroy"} /\ ~Doomed(cs, cx, p) =>
        \/ p < Len(cs) /\ cs[p + 1].fn = "done"
        \/ \E i \in 1..Len(cx) : cx[i].caller = p /\ cx[i].type = "sub"

FrameOK(cs, cx, q) == /\ Placed(cs, q) /\ JumpOK(cs, cx, q) /\ PopOK(cs, cx, q)
                      /\ DoneOK(cs, cx, q) /\ SavedOK(cs, cx, q)
Shape(cs, cx) == /\ \A q \in 1..Len(cs) : FrameOK(cs, cx, q)
                 /\ \A i \in 1..Len(cx) : ContextOK(cs, cx, i)
                 /\ Ordered(cx)
Subs(cs, cx) == \A p \in 1..Len(cs) : SubOK(cs, cx, p)

\* The savestack still has what a context saved: the lowest local above its
\* mark, or else the global, has the value the global had when it was opened.
FirstLocal(save, ix, m) == /\ m > ix /\ save[m].what = "local"
                           /\ \A l \in 1..m - 1 : l > ix => save[l].what # "local"
NoLocal(save, ix) == \A m \in 1..Len(save) : m > ix => save[m].what # "local"
KeptFor(save, v, c) ==
    /\ c.saveix <= Len(save)
    /\ NoLocal(save, c.saveix) => v = c.entry
    /\ \A m \in 1..Len(save) : FirstLocal(save, c.saveix, m) => save[m].old = c.entry
Kept(save, v, cx) == \A i \in 1..Len(cx) : KeptFor(save, v, cx[i])

\* Where a context is popped its scope has been left.
TopOK == cstack[Len(cstack)].fn \in {"pop", "return", "jump"} =>
             contexts # <<>> /\ Len(savestack) = contexts[Len(contexts)].saveix

StackInvariant == /\ StackTypes /\ cstack # <<>>
                  /\ Shape(cstack, contexts) /\ Subs(cstack, contexts)
                  /\ Kept(savestack, value, contexts) /\ TopOK

-----------------------------------------------------------------------------
(* Sequences and greatest elements *)

LEMMA CutOf ==
    ASSUME NEW S, NEW s \in Seq(S), NEW m \in 0..Len(s)
    PROVE  /\ SubSeq(s, 1, m) \in Seq(S) /\ Len(SubSeq(s, 1, m)) = m /\ Len(s) \in Nat
           /\ \A i \in 1..m : SubSeq(s, 1, m)[i] = s[i]
    OBVIOUS


LEMMA FrontOf ==
    ASSUME NEW S, NEW s \in Seq(S), s # <<>>
    PROVE  /\ Front(s) \in Seq(S) /\ Len(s) \in Nat \ {0} /\ Len(Front(s)) = Len(s) - 1
           /\ \A i \in 1..Len(s) - 1 : Front(s)[i] = s[i]
           /\ Last(s) = s[Len(s)] /\ Last(s) \in S
<1>1. Len(s) \in Nat \ {0} /\ s[Len(s)] \in S
    OBVIOUS
<1>2. /\ SubSeq(s, 1, Len(s) - 1) \in Seq(S) /\ Len(SubSeq(s, 1, Len(s) - 1)) = Len(s) - 1
      /\ \A i \in 1..Len(s) - 1 : SubSeq(s, 1, Len(s) - 1)[i] = s[i]
  <2> DEFINE m == Len(s) - 1
  <2>1. m \in 0..Len(s)
      BY <1>1
  <2> QED
      BY <2>1, CutOf, Zenon
<1> QED
    BY <1>1, <1>2, Zenon DEF Front, Last

LEMMA JoinOf ==
    ASSUME NEW S, NEW s \in Seq(S), NEW t \in Seq(S)
    PROVE  /\ s \o t \in Seq(S) /\ Len(s \o t) = Len(s) + Len(t)
           /\ Len(s) \in Nat /\ Len(t) \in Nat
           /\ \A i \in 1..Len(s) : (s \o t)[i] = s[i]
           /\ \A i \in 1..Len(t) : (s \o t)[Len(s) + i] = t[i]
    OBVIOUS

LEMMA PushOf ==
    ASSUME NEW S, NEW s \in Seq(S), NEW e \in S
    PROVE  /\ Append(s, e) \in Seq(S) /\ Len(Append(s, e)) = Len(s) + 1 /\ Len(s) \in Nat
           /\ \A i \in 1..Len(s) : Append(s, e)[i] = s[i]
           /\ Append(s, e)[Len(s) + 1] = e
    OBVIOUS

LEMMA MaxIs ==
    ASSUME NEW n \in Nat, NEW S \in SUBSET (1..n), S # {}
    PROVE  Max(S) \in S /\ \A m \in S : m <= Max(S)
<1>1. PICK m \in S : \A l \in S : l <= m
  <2> DEFINE T == {n - l : l \in S}
  <2>0. \A l \in S : n - l \in Nat
      OBVIOUS
  <2>1. T \in SUBSET Nat /\ T # {}
      BY <2>0, Zenon
  <2> DEFINE Below == {ss \in Nat \X Nat : ss[1] < ss[2]}
  <2>2. IsWellFoundedOn(Below, Nat)
      BY NatLessThanWellFounded, Zenon DEF OpToRel
  <2>3. PICK d \in T : \A e \in T : ~(<<e, d>> \in Below)
    <3> HIDE DEF T, Below
    <3> QED
      BY <2>1, <2>2, WFMin, Zenon
  <2>4. \A e \in T : d <= e
    <3> SUFFICES ASSUME NEW e \in T PROVE d <= e
        OBVIOUS
    <3>1. e \in Nat /\ d \in Nat /\ ~(<<e, d>> \in Below)
        BY <2>1, <2>3
    <3>2. ~(e < d)
        BY <3>1
    <3> QED
        BY <3>1, <3>2
  <2>5. PICK m \in S : d = n - m
      BY <2>3
  <2>6. \A l \in S : l <= m
    <3> SUFFICES ASSUME NEW l \in S PROVE l <= m
        OBVIOUS
    <3>1. n - m <= n - l /\ l \in 1..n /\ m \in 1..n
        BY <2>4, <2>5
    <3> QED
        BY <3>1
  <2> QED
      BY <2>6
<1>2. \A l \in S : m >= l
    BY <1>1
<1>3. \A x \in S : x \in Nat
    OBVIOUS
<1>4. Max(S) \in S /\ \A y \in S : Max(S) >= y
    BY <1>2, Zenon DEF Max
<1> QED
    BY <1>3, <1>4

-----------------------------------------------------------------------------
(* C functions are called and return, contexts are pushed and popped *)

LEMMA FrameTypes ==
    ASSUME NEW cs \in Seq(FrameSet)
    PROVE  /\ Len(cs) \in Nat
           /\ \A q \in 1..Len(cs) : cs[q].fn \in Loops \cup WorkFns /\ cs[q].n \in Nat
<1>1. Len(cs) \in Nat /\ \A q \in 1..Len(cs) : cs[q] \in FrameSet
    OBVIOUS
<1> QED
    BY <1>1 DEF FrameSet

LEMMA ContextTypes ==
    ASSUME NEW cx \in Seq(ContextSet)
    PROVE  /\ Len(cx) \in Nat
           /\ \A i \in 1..Len(cx) :
                /\ cx[i].type \in {"block", "try", "sub", "destroy"}
                /\ cx[i].saveix \in Nat /\ cx[i].catcher \in Nat /\ cx[i].caller \in Nat
                /\ cx[i].oldfloor \in Nat /\ cx[i].entry \in Nat /\ cx[i].tmps \in Nat
<1>1. Len(cx) \in Nat /\ \A i \in 1..Len(cx) : cx[i] \in ContextSet
    OBVIOUS
<1> QED
    BY <1>1 DEF ContextSet

\* What is above a frame does not matter to where it stands.
LEMMA PlacedSame ==
    ASSUME NEW cs \in Seq(FrameSet), NEW ds \in Seq(FrameSet), NEW q \in 1..Len(cs),
           q <= Len(ds), \A r \in 1..q : ds[r] = cs[r], Placed(cs, q)
    PROVE  Placed(ds, q)
<1>1. Len(cs) \in Nat /\ Len(ds) \in Nat /\ ds[q] = cs[q]
    BY FrameTypes
<1>2. CASE q = 1
    BY <1>1, <1>2 DEF Placed
<1>3. CASE q # 1
  <2>1. q \in Nat /\ q - 1 \in 1..q /\ ds[q - 1] = cs[q - 1]
      BY <1>3, <1>1
  <2>2. q > 3 => ds[q - 2] = cs[q - 2] /\ ds[q - 3] = cs[q - 3]
      BY <2>1
  <2> QED
      BY <1>1, <1>3, <2>1, <2>2 DEF Placed
<1> QED
    BY <1>2, <1>3

\* Further C functions are called, one after the other, with no contexts yet.
LEMMA Extended ==
    ASSUME NEW cs \in Seq(FrameSet), NEW ds \in Seq(FrameSet), NEW cx \in Seq(ContextSet),
           cs # <<>>, Len(cs) <= Len(ds), \A q \in 1..Len(cs) : ds[q] = cs[q],
           cs[Len(cs)].fn \in Loops \cup {"leave", "tmps", "unwind"},
           Shape(cs, cx),
           \A q \in Len(cs) + 1..Len(ds) : FrameOK(ds, cx, q)
    PROVE  Shape(ds, cx)
<1> DEFINE n == Len(cs)
           m == Len(ds)
<1>0. n \in Nat /\ m \in Nat /\ n > 0 /\ n <= m /\ Len(cx) \in Nat
    BY FrameTypes, ContextTypes
<1>1. \A q \in 1..n : q \in 1..m /\ ds[q] = cs[q] /\ (q < n => ds[q + 1] = cs[q + 1])
    BY <1>0
<1>b. cs[n].fn \in Loops \cup {"leave", "tmps", "unwind"}
    OBVIOUS
<1>t. \A q \in 1..n : cs[q].n \in Nat
    BY FrameTypes
<1>2. \A q \in 1..n : FrameOK(cs, cx, q)
    BY DEF Shape
<1> HIDE DEF n, m
<1>3. ASSUME NEW q \in 1..n PROVE FrameOK(ds, cx, q)
  <2>0. q \in Nat /\ q \in 1..m /\ ds[q] = cs[q] /\ FrameOK(cs, cx, q)
      BY <1>0, <1>1, <1>2
  <2>1. Placed(ds, q)
    <3>1. Placed(cs, q) /\ \A r \in 1..q : ds[r] = cs[r]
        BY <1>0, <1>1, <2>0 DEF FrameOK
    <3> QED
        BY <2>0, <3>1, PlacedSame DEF n, m
  <2>2. JumpOK(ds, cx, q)
    <3> SUFFICES ASSUME ds[q].fn = "jump" PROVE JumpOK(ds, cx, q)
        BY DEF JumpOK
    <3>1. q < n /\ ds[q + 1] = cs[q + 1] /\ JumpOK(cs, cx, q) /\ cs[q].fn = "jump"
        BY <1>0, <1>1, <1>b, <2>0 DEF Loops, FrameOK
    <3>2. q + 3 <= n => q + 3 <= m /\ ds[q + 3] = cs[q + 3]
        BY <1>0, <1>1, <2>0
    <3> QED
        BY <1>0, <2>0, <3>1, <3>2 DEF JumpOK, n, m
  <2>3. PopOK(ds, cx, q)
    <3> SUFFICES ASSUME ds[q].fn \in {"pop", "return"}, ~Doomed(ds, cx, q)
                 PROVE  PopOK(ds, cx, q)
        BY DEF PopOK
    <3>1. q < n /\ ds[q + 1] = cs[q + 1] /\ PopOK(cs, cx, q) /\ cs[q].fn \in {"pop", "return"}
        BY <1>0, <1>1, <1>b, <2>0 DEF Loops, FrameOK
    <3>2. ~Doomed(cs, cx, q)
      <4> SUFFICES ASSUME NEW r \in q + 1..n, Dooms(cs, cx, r, q) PROVE FALSE
          BY DEF Doomed, n
      <4>1. r \in q + 1..m /\ r \in 1..n
          BY <1>0, <2>0
      <4>2. Dooms(ds, cx, r, q)
          BY <4>1, <1>1 DEF Dooms
      <4> QED
          BY <4>1, <4>2 DEF Doomed, m
    <3>3. PICK i \in 1..Len(cx) : /\ Own(cs, cx, i, q) /\ cx[i].type \in Ends(cs, q)
                                  /\ q < n => cs[q + 1].n = cx[i].saveix
        BY <3>1, <3>2 DEF PopOK, n
    <3>4. cx[i].caller \in Nat
        BY ContextTypes
    <3>5. Own(ds, cx, i, q)
      <4>1. \A l \in cx[i].caller + 1..q : l \in 1..n /\ ds[l] = cs[l]
          BY <1>0, <1>1, <2>0, <3>4
      <4> QED
          BY <4>1, <3>3 DEF Own
    <3>6. q # 1 => ds[q - 1] = cs[q - 1]
        BY <1>0, <1>1, <2>0
    <3>7. q # 1
        BY <2>0, <3>1 DEF FrameOK, Placed
    <3>8. Ends(ds, q) = Ends(cs, q)
        BY <2>0, <3>6, <3>7 DEF Ends
    <3> QED
        BY <3>1, <3>3, <3>5, <3>8 DEF PopOK
  <2>4. DoneOK(ds, cx, q)
    <3> SUFFICES ASSUME ds[q].fn = "done" PROVE DoneOK(ds, cx, q)
        BY DEF DoneOK
    <3>1. q < n /\ ds[q + 1] = cs[q + 1] /\ DoneOK(cs, cx, q) /\ cs[q].fn = "done"
        BY <1>0, <1>1, <1>b, <2>0 DEF Loops, FrameOK
    <3>2. q + 3 <= n => q + 3 <= m /\ ds[q + 3] = cs[q + 3] /\ ds[q + 2] = cs[q + 2]
      <4>1. q + 3 <= n => q + 3 \in 1..n /\ q + 2 \in 1..n /\ q + 3 <= m
          BY <1>0, <2>0
      <4> QED
          BY <1>1, <4>1, Zenon
    <3>3. q # 1
        BY <2>0, <3>1 DEF FrameOK, Placed
    <3>4. ds[q - 1] = cs[q - 1]
      <4>1. q - 1 \in 1..n
          BY <1>0, <3>3
      <4> QED
          BY <1>1, <4>1, Zenon
    <3> QED
        BY <1>0, <2>0, <3>1, <3>2, <3>4 DEF DoneOK, n, m
  <2>5. SavedOK(ds, cx, q)
      BY <2>0 DEF SavedOK, FrameOK
  <2> QED
      BY <2>1, <2>2, <2>3, <2>4, <2>5 DEF FrameOK
<1>4. \A q \in 1..m : FrameOK(ds, cx, q)
  <2>1. \A q \in 1..m : q \in 1..n \/ q \in n + 1..m
      BY <1>0
  <2> QED
      BY <1>3, <2>1 DEF n, m
<1>5. ASSUME NEW i \in 1..Len(cx) PROVE ContextOK(ds, cx, i)
  <2>1. ContextOK(cs, cx, i) /\ cx[i].caller \in 1..n
      BY DEF Shape, ContextOK, n
  <2>2. cx[i].caller \in 1..m /\ ds[cx[i].caller] = cs[cx[i].caller]
      BY <1>1, <2>1
  <2>3. cx[i].type = "try" /\ cs[cx[i].caller].fn = "call" =>
          /\ cx[i].catcher = cx[i].caller + 1 /\ cx[i].catcher <= n
          /\ cs[cx[i].catcher].fn = "docatch"
      BY <2>1 DEF ContextOK, n
  <2>4. cx[i].type = "try" /\ cs[cx[i].caller].fn = "call" =>
          cx[i].catcher <= m /\ ds[cx[i].catcher] = cs[cx[i].catcher]
    <3>1. ASSUME cx[i].type = "try", cs[cx[i].caller].fn = "call"
          PROVE  cx[i].catcher \in 1..n /\ cx[i].catcher <= m
        BY <1>0, <2>1, <2>3, <3>1
    <3> QED
        BY <1>1, <3>1, Zenon
  <2> QED
      BY <2>1, <2>2, <2>3, <2>4 DEF ContextOK, m
<1> QED
    BY <1>4, <1>5 DEF Shape, m

\* What is doomed stays so while more functions are called.
LEMMA DoomedStays ==
    ASSUME NEW cs \in Seq(FrameSet), NEW ds \in Seq(FrameSet), NEW cx,
           Len(cs) <= Len(ds), \A q \in 1..Len(cs) : ds[q] = cs[q],
           NEW q \in 1..Len(cs), Doomed(cs, cx, q)
    PROVE  Doomed(ds, cx, q)
<1>1. Len(cs) \in Nat /\ Len(ds) \in Nat
    BY FrameTypes
<1>2. PICK r \in q + 1..Len(cs) : Dooms(cs, cx, r, q)
    BY DEF Doomed
<1>3. r \in q + 1..Len(ds) /\ ds[r] = cs[r]
    BY <1>1
<1>4. Dooms(ds, cx, r, q)
    BY <1>2, <1>3 DEF Dooms
<1> QED
    BY <1>3, <1>4 DEF Doomed

LEMMA ExtendedSubs ==
    ASSUME NEW cs \in Seq(FrameSet), NEW ds \in Seq(FrameSet), NEW cx,
           Len(cs) <= Len(ds), \A q \in 1..Len(cs) : ds[q] = cs[q],
           Subs(cs, cx), \A q \in Len(cs) + 1..Len(ds) : SubOK(ds, cx, q)
    PROVE  Subs(ds, cx)
<1>1. Len(cs) \in Nat /\ Len(ds) \in Nat
    BY FrameTypes
<1>2. ASSUME NEW q \in 1..Len(cs) PROVE SubOK(ds, cx, q)
  <2>1. SubOK(cs, cx, q) /\ ds[q] = cs[q]
      BY DEF Subs
  <2>2. Doomed(cs, cx, q) => Doomed(ds, cx, q)
      BY DoomedStays
  <2>3. q < Len(cs) => q < Len(ds) /\ ds[q + 1] = cs[q + 1]
      BY <1>1
  <2> QED
      BY <2>1, <2>2, <2>3 DEF SubOK
<1>3. \A q \in 1..Len(ds) : q \in 1..Len(cs) \/ q \in Len(cs) + 1..Len(ds)
    BY <1>1
<1> QED
    BY <1>2, <1>3 DEF Subs

\* Above the C call whose Perl code runs there is only docatch, if anything.
LEMMA AboveCall ==
    ASSUME NEW cs \in Seq(FrameSet), NEW cx, cs # <<>>, Shape(cs, cx),
           cs[Len(cs)].fn \in Loops,
           NEW p \in 1..Len(cs), cs[p].fn \in CallFns,
           \A q \in p + 1..Len(cs) : cs[q].fn \notin CallFns
    PROVE  \/ p = Len(cs)
           \/ p + 1 = Len(cs) /\ cs[Len(cs)].fn = "docatch" /\ cs[p].fn = "call"
<1> DEFINE n == Len(cs)
<1>1. n \in Nat /\ n > 0
    BY FrameTypes
<1>2. CASE p # n
  <2>1. n \in p + 1..n
      BY <1>1, <1>2
  <2>2. cs[n].fn = "docatch"
      BY <2>1 DEF Loops, CallFns
  <2>3. Placed(cs, n)
      BY <1>1 DEF Shape, FrameOK
  <2>4. cs[n - 1].fn = "call"
      BY <2>2, <2>3 DEF Placed
  <2>5. n - 1 \notin p + 1..n
      BY <2>4 DEF CallFns
  <2>6. p = n - 1
      BY <1>1, <2>1, <2>5
  <2> QED
      BY <1>1, <2>2, <2>4, <2>6
<1> QED
    BY <1>2

\* The C call p, whose Perl code runs, opens a context.
LEMMA Opened1 ==
    ASSUME NEW cs \in Seq(FrameSet), NEW cx \in Seq(ContextSet), NEW dx \in Seq(ContextSet),
           cs # <<>>, Shape(cs, cx), cs[Len(cs)].fn \in Loops,
           NEW p \in 1..Len(cs), cs[p].fn \in CallFns,
           \A q \in p + 1..Len(cs) : cs[q].fn \notin CallFns,
           Len(dx) = Len(cx) + 1, \A i \in 1..Len(cx) : dx[i] = cx[i],
           dx[Len(dx)].caller = p, \A i \in 1..Len(cx) : cx[i].saveix <= dx[Len(dx)].saveix,
           ContextOK(cs, dx, Len(dx))
    PROVE  /\ Shape(cs, dx)
           /\ \A q \in 1..Len(cs) : SubOK(cs, cx, q) => SubOK(cs, dx, q)
           /\ Subs(cs, cx) => Subs(cs, dx)
<1> DEFINE n == Len(cs)
           k == Len(cx)
           c == dx[k + 1]
<1>0. /\ n \in Nat /\ k \in Nat /\ Len(dx) = k + 1 /\ c \in ContextSet /\ c.caller = p
      /\ \A q \in 1..n : FrameOK(cs, cx, q) /\ Placed(cs, q) /\ JumpOK(cs, cx, q)
      /\ \A i \in 1..k : ContextOK(cs, cx, i)
  <2>1. n \in Nat /\ k \in Nat /\ Len(dx) = k + 1
      BY FrameTypes, ContextTypes
  <2> QED
      BY <2>1 DEF Shape, FrameOK
<1>a. \/ p = n
      \/ p + 1 = n /\ cs[n].fn = "docatch" /\ cs[p].fn = "call"
    BY AboveCall
<1>b. \A i \in 1..k : dx[i] = cx[i]
    OBVIOUS
<1>c. ContextOK(cs, dx, k + 1)
    BY <1>0
<1>d. c.type \in Evals => c.catcher >= p
  <2>1. p \in Nat /\ c.type \in {"block", "try", "sub", "destroy"}
      BY <1>0 DEF ContextSet
  <2> QED
      BY <1>0, <1>c, <2>1 DEF ContextOK, Evals
<1>e. \A i \in 1..k + 1 : i \in 1..k \/ i = k + 1
    BY <1>0
<1>n. \A q \in 1..n : cs[q].fn \notin Loops => q < p
  <2> SUFFICES ASSUME NEW q \in 1..n, cs[q].fn \notin Loops PROVE q < p
      OBVIOUS
  <2>1. q # p /\ q # n
      BY DEF CallFns, Loops
  <2> QED
      BY <1>0, <1>a, <2>1
<1>s. \A i \in 1..k : cx[i].saveix <= c.saveix
    BY <1>0
<1> HIDE DEF n, k, c
<1>j. ASSUME NEW q \in 1..n PROVE JumpOK(cs, dx, q)
  <2> SUFFICES ASSUME cs[q].fn = "jump" PROVE JumpOK(cs, dx, q)
      BY DEF JumpOK
  <2>1. JumpOK(cs, cx, q) /\ q < p /\ q \in Nat /\ p \in Nat
      BY <1>0, <1>n DEF Loops, n
  <2>2. cs[q].n \in 1..k /\ cs[q].n \in 1..k + 1 /\ dx[cs[q].n] = cx[cs[q].n]
      BY <1>0, <1>b, <2>1 DEF JumpOK, k
  <2>3. \A j \in 1..k + 1 : j > cs[q].n /\ dx[j].type \in Evals => dx[j].catcher > q
    <3>1. c.type \in Evals => c.catcher > q
      <4>1. c.catcher \in Nat
          BY <1>0 DEF ContextSet
      <4> QED
          BY <1>d, <2>1, <4>1
    <3> QED
        BY <1>b, <1>e, <2>1, <3>1 DEF JumpOK, k, c
  <2>4. (\A j \in 1..k : j > cs[q].n => cx[j].caller > q)
            => \A j \in 1..k + 1 : j > cs[q].n => dx[j].caller > q
    <3>1. c.caller > q
        BY <1>0, <2>1
    <3> QED
        BY <1>b, <1>e, <3>1 DEF c
  <2> QED
      BY <1>0, <2>1, <2>2, <2>3, <2>4 DEF JumpOK, k
<1>m. \A q \in 1..n, r \in 1..n : Dooms(cs, cx, r, q) <=> Dooms(cs, dx, r, q)
  <2> SUFFICES ASSUME NEW q \in 1..n, NEW r \in 1..n, cs[r].fn = "jump"
               PROVE  Dooms(cs, cx, r, q) <=> Dooms(cs, dx, r, q)
      BY DEF Dooms
  <2>1. dx[cs[r].n] = cx[cs[r].n]
      BY <1>0, <1>b DEF JumpOK, k
  <2> QED
      BY <2>1 DEF Dooms
<1>o. \A q \in 1..n : Doomed(cs, cx, q) <=> Doomed(cs, dx, q)
  <2> SUFFICES ASSUME NEW q \in 1..n PROVE Doomed(cs, cx, q) <=> Doomed(cs, dx, q)
      OBVIOUS
  <2>1. \A r \in q + 1..n : r \in 1..n
      BY <1>0
  <2> QED
      BY <1>m, <2>1 DEF Doomed, n
<1>p. ASSUME NEW q \in 1..n PROVE PopOK(cs, dx, q)
  <2> SUFFICES ASSUME cs[q].fn \in {"pop", "return"}, ~Doomed(cs, cx, q)
               PROVE  PopOK(cs, dx, q)
      BY <1>o DEF PopOK
  <2>1. FrameOK(cs, cx, q) /\ q < p
      BY <1>0, <1>n DEF Loops, n
  <2>2. PICK i \in 1..k : /\ Own(cs, cx, i, q) /\ cx[i].type \in Ends(cs, q)
                          /\ q < Len(cs) => cs[q + 1].n = cx[i].saveix
      BY <2>1 DEF FrameOK, PopOK, k
  <2>3. i \in 1..Len(dx) /\ dx[i] = cx[i]
      BY <1>0, <1>b
  <2>4. c.caller > q
    <3>1. q \in Nat /\ p \in Nat
        OBVIOUS
    <3> QED
        BY <1>0, <2>1, <3>1
  <2>5. Own(cs, dx, i, q)
      BY <1>0, <1>b, <1>e, <2>2, <2>3, <2>4 DEF Own, k, c
  <2> QED
      BY <2>2, <2>3, <2>5 DEF PopOK
<1>t. ASSUME NEW q \in 1..n PROVE DoneOK(cs, dx, q)
  <2> SUFFICES ASSUME cs[q].fn = "done" PROVE DoneOK(cs, dx, q)
      BY DEF DoneOK
  <2>1. FrameOK(cs, cx, q) /\ q < p
      BY <1>0, <1>n DEF Loops, n
  <2>2. c.caller # q - 1
    <3>1. q \in Nat /\ p \in Nat
        OBVIOUS
    <3> QED
        BY <1>0, <2>1, <3>1
  <2> QED
      BY <1>0, <1>b, <1>e, <2>1, <2>2 DEF FrameOK, DoneOK, k, c
<1>v. ASSUME NEW q \in 1..n PROVE SavedOK(cs, dx, q)
  <2> SUFFICES ASSUME cs[q].fn \in {"call", "destroy"} PROVE SavedOK(cs, dx, q)
      BY DEF SavedOK
  <2>1. q <= p
    <3>1. q \notin p + 1..n /\ q \in Nat /\ p \in Nat
        BY DEF CallFns, n
    <3> QED
        BY <1>0, <3>1
  <2>2. ~(c.caller < q)
    <3>1. q \in Nat /\ p \in Nat
        OBVIOUS
    <3> QED
        BY <1>0, <2>1, <3>1
  <2> QED
      BY <1>0, <1>b, <1>e, <2>2 DEF FrameOK, SavedOK, k, c
<1>x. ASSUME NEW i \in 1..k + 1 PROVE ContextOK(cs, dx, i)
  <2>1. CASE i = k + 1
      BY <1>c, <2>1
  <2>2. CASE i \in 1..k
    <3>1. ContextOK(cs, cx, i) /\ dx[i] = cx[i] /\ \A j \in 1..i - 1 : dx[j] = cx[j]
        BY <1>0, <1>b, <2>2
    <3>2. i > 1 => dx[i - 1] = cx[i - 1]
        BY <1>0, <1>b, <2>2
    <3> QED
        BY <3>1, <3>2 DEF ContextOK
  <2> QED
      BY <1>e, <2>1, <2>2
<1>y. Ordered(dx)
  <2> SUFFICES ASSUME NEW i \in 1..k + 1, NEW j \in 1..k + 1, i < j
               PROVE  dx[i].caller <= dx[j].caller /\ dx[i].saveix <= dx[j].saveix
      BY <1>0 DEF Ordered
  <2>0. i \in 1..k /\ dx[i] = cx[i]
      BY <1>0, <1>b
  <2>1. CASE j = k + 1
    <3>1. cx[i].caller \in 1..n /\ cs[cx[i].caller].fn \in CallFns
        BY <1>0, <2>0 DEF ContextOK, n
    <3>2. cx[i].caller <= p
      <4>1. cx[i].caller \notin p + 1..n /\ p \in Nat
          BY <3>1 DEF n
      <4> QED
          BY <1>0, <3>1, <4>1
    <3>3. c.caller = p /\ cx[i].saveix <= c.saveix
        BY <1>0, <1>s, <2>0
    <3> QED
        BY <2>0, <2>1, <3>2, <3>3 DEF c
  <2>2. CASE j \in 1..k
    <3>1. dx[j] = cx[j] /\ Ordered(cx)
        BY <1>b, <2>2 DEF Shape
    <3> QED
        BY <2>0, <2>2, <3>1 DEF Ordered, k
  <2> QED
      BY <1>e, <2>1, <2>2
<1>z. Shape(cs, dx)
  <2>1. \A q \in 1..n : FrameOK(cs, dx, q)
      BY <1>0, <1>j, <1>p, <1>t, <1>v DEF FrameOK
  <2> QED
      BY <1>0, <1>x, <1>y, <2>1 DEF Shape, n
<1>w. ASSUME NEW q \in 1..n, SubOK(cs, cx, q) PROVE SubOK(cs, dx, q)
  <2>1. \A i \in 1..k : i \in 1..k + 1
      BY <1>0
  <2>2. Len(dx) = k + 1
      BY <1>0
  <2>3. CASE \E i \in 1..k : cx[i].caller = q /\ cx[i].type = "sub"
    <3>1. \E i \in 1..Len(dx) : dx[i].caller = q /\ dx[i].type = "sub"
        BY <1>b, <2>1, <2>2, <2>3
    <3> QED
        BY <3>1 DEF SubOK
  <2>4. CASE ~\E i \in 1..k : cx[i].caller = q /\ cx[i].type = "sub"
      BY <1>o, <1>w, <2>4 DEF SubOK, k
  <2> QED
      BY <2>3, <2>4
<1> QED
    BY <1>z, <1>w DEF Subs, n

\* C functions end, and contexts go, so that what is left of the C stack is ds
\* and of the contexts dx, if nothing that is left waits for what is gone.
Severed(cs, cx, ds, dx) ==
    /\ \A i \in 1..Len(dx) : /\ cx[i].caller <= Len(ds)
                             /\ cx[i].type = "try" => cx[i].catcher <= Len(ds)
    /\ \A q \in 1..Len(ds) : cs[q].fn = "jump" =>
         /\ cs[q].n <= Len(dx)
         /\ q + 3 > Len(ds) /\ q + 3 <= Len(cs) /\ cs[q + 3].fn = "unwind" =>
                \A j \in 1..Len(dx) : j > cs[q].n => cx[j].caller > q
    /\ \A q \in 1..Len(ds) : cs[q].fn \in {"pop", "return"} /\ ~Doomed(ds, cx, q) =>
         \E i \in 1..Len(dx) : /\ Own(cs, cx, i, q) /\ cx[i].type \in Ends(cs, q)
                               /\ q < Len(cs) => cs[q + 1].n = cx[i].saveix
    /\ \A q \in 1..Len(ds) : cs[q].fn = "done" =>
         (q + 3 > Len(ds) /\ q + 3 <= Len(cs) /\ cs[q + 3].fn = "pop" /\ cs[q + 2].fn = "tmps"
              => \A i \in 1..Len(dx) : cx[i].caller # q - 1)

LEMMA Cut ==
    ASSUME NEW cs \in Seq(FrameSet), NEW cx \in Seq(ContextSet), Shape(cs, cx),
           NEW ds \in Seq(FrameSet), Len(ds) <= Len(cs), \A q \in 1..Len(ds) : ds[q] = cs[q],
           NEW dx \in Seq(ContextSet), Len(dx) <= Len(cx), \A i \in 1..Len(dx) : dx[i] = cx[i],
           Severed(cs, cx, ds, dx)
    PROVE  /\ Shape(ds, dx)
           /\ \A q \in 1..Len(ds) : Doomed(ds, cx, q) <=> Doomed(ds, dx, q)
<1> DEFINE n == Len(cs)
           k == Len(cx)
           m == Len(ds)
           h == Len(dx)
<1>0. /\ n \in Nat /\ k \in Nat /\ m \in Nat /\ h \in Nat /\ m <= n /\ h <= k
      /\ \A q \in 1..m : q \in 1..n /\ q \in Nat
      /\ \A i \in 1..h : i \in 1..k /\ i \in Nat
      /\ \A q \in 1..n : FrameOK(cs, cx, q)
      /\ \A i \in 1..k : ContextOK(cs, cx, i)
  <2>1. n \in Nat /\ k \in Nat /\ m \in Nat /\ h \in Nat
      BY FrameTypes, ContextTypes
  <2> QED
      BY <2>1 DEF Shape
<1>a. (\A q \in 1..m : ds[q] = cs[q]) /\ \A i \in 1..h : dx[i] = cx[i]
    OBVIOUS
<1>1. \A i \in 1..h : /\ cx[i].caller <= m
                      /\ cx[i].type = "try" => cx[i].catcher <= m
    BY DEF Severed
<1>2. \A q \in 1..m : cs[q].fn = "jump" =>
          /\ cs[q].n <= h
          /\ q + 3 > m /\ q + 3 <= n /\ cs[q + 3].fn = "unwind" =>
                 \A j \in 1..h : j > cs[q].n => cx[j].caller > q
    BY DEF Severed
<1>3. \A q \in 1..m : cs[q].fn \in {"pop", "return"} /\ ~Doomed(ds, cx, q) =>
          \E i \in 1..h : /\ Own(cs, cx, i, q) /\ cx[i].type \in Ends(cs, q)
                          /\ q < n => cs[q + 1].n = cx[i].saveix
    BY DEF Severed
<1>4. \A q \in 1..m : cs[q].fn = "done" =>
          (q + 3 > m /\ q + 3 <= n /\ cs[q + 3].fn = "pop" /\ cs[q + 2].fn = "tmps"
               => \A i \in 1..h : cx[i].caller # q - 1)
    BY DEF Severed
<1> HIDE DEF n, k, m, h
<1>n. \A q \in 1..m : q < m => q < n /\ ds[q + 1] = cs[q + 1]
  <2>1. \A q \in 1..m : q < m => q < n /\ q + 1 \in 1..m
      BY <1>0
  <2> QED
      BY <1>a, <2>1, Zenon
<1>p. ASSUME NEW q \in 1..m PROVE Placed(ds, q)
  <2>1. Placed(cs, q) /\ q \in 1..n /\ q <= m
      BY <1>0 DEF FrameOK
  <2>2. \A r \in 1..q : r \in 1..m
      BY <1>0
  <2>3. \A r \in 1..q : ds[r] = cs[r]
      BY <1>a, <2>2, Zenon
  <2> QED
      BY <2>1, <2>3, PlacedSame DEF n, m
<1>k. \A q \in 1..m : cs[q].fn = "jump" =>
          cs[q].n \in 1..h /\ cs[q].n \in 1..k /\ dx[cs[q].n] = cx[cs[q].n]
  <2> SUFFICES ASSUME NEW q \in 1..m, cs[q].fn = "jump"
               PROVE  cs[q].n \in 1..h /\ cs[q].n \in 1..k /\ dx[cs[q].n] = cx[cs[q].n]
      OBVIOUS
  <2>1. cs[q].n \in 1..k
      BY <1>0 DEF FrameOK, JumpOK, k
  <2>2. cs[q].n <= h
      BY <1>2, Zenon
  <2>3. cs[q].n \in 1..h
      BY <1>0, <2>1, <2>2
  <2> QED
      BY <1>a, <2>1, <2>3
<1>j. ASSUME NEW q \in 1..m PROVE JumpOK(ds, dx, q)
  <2> SUFFICES ASSUME cs[q].fn = "jump" PROVE JumpOK(ds, dx, q)
      BY <1>a DEF JumpOK
  <2>1. JumpOK(cs, cx, q) /\ ds[q] = cs[q] /\ q \in Nat
      BY <1>0, <1>a DEF FrameOK
  <2>2. cs[q].n \in 1..h /\ dx[cs[q].n] = cx[cs[q].n]
      BY <1>k
  <2>3. \A j \in 1..h : j > cs[q].n /\ dx[j].type \in Evals => dx[j].catcher > q
      BY <1>0, <1>a, <2>1 DEF JumpOK, k
  <2>4. q < m => ds[q + 1].n = dx[cs[q].n].saveix
      BY <1>n, <2>1, <2>2 DEF JumpOK, n
  <2>5. \/ q + 3 <= m /\ ds[q + 3].fn = "unwind"
        \/ \A j \in 1..h : j > cs[q].n => dx[j].caller > q
    <3>1. CASE q + 3 <= n /\ cs[q + 3].fn = "unwind"
      <4>1. CASE q + 3 <= m
        <5>1. q + 3 \in 1..m
            BY <1>0, <2>1, <4>1
        <5> QED
            BY <1>a, <3>1, <4>1, <5>1
      <4>2. CASE ~(q + 3 <= m)
        <5>1. q + 3 > m
            BY <1>0, <2>1, <4>2
        <5> QED
            BY <1>2, <1>a, <3>1, <5>1
      <4> QED
          BY <4>1, <4>2
    <3>2. CASE ~(q + 3 <= n /\ cs[q + 3].fn = "unwind")
        BY <1>0, <1>a, <2>1, <3>2 DEF JumpOK, k, n
    <3> QED
        BY <3>1, <3>2
  <2> QED
      BY <2>1, <2>2, <2>3, <2>4, <2>5 DEF JumpOK, m, h
<1>d. \A q \in 1..m : Doomed(ds, cx, q) <=> Doomed(ds, dx, q)
  <2>1. \A q \in 1..m, r \in 1..m : Dooms(ds, cx, r, q) <=> Dooms(ds, dx, r, q)
    <3> SUFFICES ASSUME NEW q \in 1..m, NEW r \in 1..m, cs[r].fn = "jump"
                 PROVE  Dooms(ds, cx, r, q) <=> Dooms(ds, dx, r, q)
        BY <1>a DEF Dooms
    <3>1. ds[r] = cs[r] /\ dx[cs[r].n] = cx[cs[r].n]
        BY <1>a, <1>k
    <3> QED
        BY <3>1 DEF Dooms
  <2>2. \A q \in 1..m : \A r \in q + 1..m : r \in 1..m
      BY <1>0
  <2> QED
      BY <2>1, <2>2 DEF Doomed, m
<1>q. ASSUME NEW q \in 1..m PROVE PopOK(ds, dx, q)
  <2> SUFFICES ASSUME cs[q].fn \in {"pop", "return"}, ~Doomed(ds, cx, q)
               PROVE  PopOK(ds, dx, q)
      BY <1>a, <1>d DEF PopOK
  <2>1. PICK i \in 1..h : /\ Own(cs, cx, i, q) /\ cx[i].type \in Ends(cs, q)
                          /\ q < n => cs[q + 1].n = cx[i].saveix
      BY <1>3
  <2>2. dx[i] = cx[i] /\ i \in 1..k /\ cx[i].caller \in Nat /\ q \in Nat /\ ds[q] = cs[q]
      BY <1>0, <1>a, ContextTypes DEF k
  <2>3. \A l \in cx[i].caller + 1..q : l \in 1..m
      BY <1>0, <2>2
  <2>4. \A l \in cx[i].caller + 1..q : ds[l] = cs[l]
      BY <1>a, <2>3, Zenon
  <2>5. Own(ds, dx, i, q)
      BY <1>0, <1>a, <2>1, <2>2, <2>4 DEF Own, k, h
  <2>6. q # 1
      BY <1>0 DEF FrameOK, Placed
  <2>7. q - 1 \in 1..m
      BY <1>0, <2>2, <2>6
  <2>8. ds[q - 1] = cs[q - 1]
      BY <1>a, <2>7, Zenon
  <2>9. Ends(ds, q) = Ends(cs, q)
      BY <2>2, <2>8 DEF Ends
  <2> QED
      BY <1>n, <2>1, <2>2, <2>5, <2>9 DEF PopOK, m, h
<1>t. ASSUME NEW q \in 1..m PROVE DoneOK(ds, dx, q)
  <2> SUFFICES ASSUME cs[q].fn = "done" PROVE DoneOK(ds, dx, q)
      BY <1>a DEF DoneOK
  <2>1. DoneOK(cs, cx, q) /\ ds[q] = cs[q] /\ q \in Nat /\ q # 1
      BY <1>0, <1>a DEF FrameOK, Placed
  <2>2. q - 1 \in 1..m
      BY <1>0, <2>1
  <2>3. ds[q - 1] = cs[q - 1]
      BY <1>a, <2>2, Zenon
  <2>4. q < m => ds[q + 1].n = ds[q - 1].n
      BY <1>n, <2>1, <2>3 DEF DoneOK, n
  <2>5. \A i \in 1..h : dx[i].caller = q - 1 => dx[i].type = "destroy"
      BY <1>0, <1>a, <2>1 DEF DoneOK, k
  <2>6. \/ q + 3 <= m /\ ds[q + 3].fn = "pop" /\ ds[q + 2].fn = "tmps"
        \/ \A i \in 1..h : dx[i].caller # q - 1
    <3>1. CASE q + 3 <= n /\ cs[q + 3].fn = "pop" /\ cs[q + 2].fn = "tmps"
      <4>1. CASE q + 3 <= m
        <5>1. q + 3 \in 1..m /\ q + 2 \in 1..m
            BY <1>0, <2>1, <4>1
        <5> QED
            BY <1>a, <3>1, <4>1, <5>1
      <4>2. CASE ~(q + 3 <= m)
        <5>1. q + 3 > m
            BY <1>0, <2>1, <4>2
        <5> QED
            BY <1>4, <1>a, <3>1, <5>1
      <4> QED
          BY <4>1, <4>2
    <3>2. CASE ~(q + 3 <= n /\ cs[q + 3].fn = "pop" /\ cs[q + 2].fn = "tmps")
        BY <1>0, <1>a, <2>1, <3>2 DEF DoneOK, k, n
    <3> QED
        BY <3>1, <3>2
  <2> QED
      BY <2>1, <2>4, <2>5, <2>6 DEF DoneOK, m, h
<1>v. ASSUME NEW q \in 1..m PROVE SavedOK(ds, dx, q)
    BY <1>0, <1>a DEF FrameOK, SavedOK, k, h
<1>x. ASSUME NEW i \in 1..h PROVE ContextOK(ds, dx, i)
  <2>1. ContextOK(cs, cx, i) /\ dx[i] = cx[i] /\ cx[i].caller \in Nat /\ i \in Nat /\ i <= h
      BY <1>0, <1>a, ContextTypes DEF k
  <2>2. cx[i].caller \in 1..m
      BY <1>0, <1>1, <2>1 DEF ContextOK
  <2>3. ds[cx[i].caller] = cs[cx[i].caller]
      BY <1>a, <2>2
  <2>4. cx[i].type = "try" /\ cs[cx[i].caller].fn = "call" =>
            cx[i].catcher <= m /\ ds[cx[i].catcher] = cs[cx[i].catcher]
    <3> SUFFICES ASSUME cx[i].type = "try", cs[cx[i].caller].fn = "call"
                 PROVE  cx[i].catcher \in 1..m
        BY <1>0, <1>a
    <3>1. cx[i].catcher = cx[i].caller + 1 /\ cx[i].catcher <= m
        BY <1>1, <2>1 DEF ContextOK
    <3>2. \A u, v \in Nat : \A w \in 1..u : v = w + 1 /\ v <= u => v \in 1..u
        OBVIOUS
    <3>3. cx[i].catcher \in Nat
        BY <1>0, ContextTypes, Zenon DEF k
    <3> QED
        BY <1>0, <2>2, <3>1, <3>2, <3>3, Zenon
  <2>5. \A j \in 1..i - 1 : j \in 1..h
      BY <1>0, <2>1
  <2>6. \A j \in 1..i - 1 : dx[j] = cx[j]
      BY <1>a, <2>5, Zenon
  <2>7. i > 1 => i - 1 \in 1..i - 1
      BY <2>1
  <2>8. i > 1 => dx[i - 1] = cx[i - 1]
      BY <2>6, <2>7, Zenon
  <2>9. /\ dx[i].caller \in 1..m /\ ds[dx[i].caller].fn \in CallFns
        /\ dx[i].type = "try" =>
              IF ds[dx[i].caller].fn = "call"
              THEN /\ dx[i].catcher = dx[i].caller + 1 /\ dx[i].catcher <= m
                   /\ ds[dx[i].catcher].fn = "docatch"
              ELSE dx[i].catcher = dx[i].caller
      BY <2>1, <2>2, <2>3, <2>4 DEF ContextOK
  <2>10. dx[i].type = "destroy" =>
          /\ ds[dx[i].caller].fn = "destroy" /\ dx[i].catcher = dx[i].caller
          /\ dx[i].saveix = ds[dx[i].caller].n + 1
          /\ \A j \in 1..i - 1 : dx[j].caller < dx[i].caller
      BY <2>1, <2>3, <2>6 DEF ContextOK
  <2>11. dx[i].type = "sub" =>
          \/ ds[dx[i].caller].fn = "call" /\ \A j \in 1..i - 1 : dx[j].caller < dx[i].caller
          \/ /\ ds[dx[i].caller].fn = "destroy"
             /\ i > 1 /\ dx[i - 1].type = "destroy" /\ dx[i - 1].caller = dx[i].caller
      BY <2>1, <2>3, <2>6, <2>8 DEF ContextOK
  <2> QED
      BY <2>9, <2>10, <2>11 DEF ContextOK, m
<1>y. Ordered(dx)
  <2>1. Ordered(cx)
      BY DEF Shape
  <2> QED
      BY <1>0, <1>a, <2>1 DEF Ordered, h, k
<1>z. \A q \in 1..m : FrameOK(ds, dx, q)
    BY <1>p, <1>j, <1>q, <1>t, <1>v DEF FrameOK
<1> QED
    BY <1>d, <1>x, <1>y, <1>z DEF Shape, m, h

\* Without a die among them, what is above does not doom.
LEMMA NoJumpAbove ==
    ASSUME NEW cs \in Seq(FrameSet), NEW cx,
           NEW ds \in Seq(FrameSet), Len(ds) <= Len(cs), \A q \in 1..Len(ds) : ds[q] = cs[q],
           \A r \in Len(ds) + 1..Len(cs) : cs[r].fn # "jump"
    PROVE  \A q \in 1..Len(ds) : Doomed(cs, cx, q) <=> Doomed(ds, cx, q)
<1>1. Len(cs) \in Nat /\ Len(ds) \in Nat
    BY FrameTypes
<1>2. SUFFICES ASSUME NEW q \in 1..Len(ds) PROVE Doomed(cs, cx, q) <=> Doomed(ds, cx, q)
    OBVIOUS
<1>3. \A r \in q + 1..Len(cs) : r \in Len(ds) + 1..Len(cs) \/ r \in q + 1..Len(ds)
    BY <1>1
<1>4. \A r \in q + 1..Len(ds) : r \in q + 1..Len(cs) /\ ds[r] = cs[r]
    BY <1>1
<1> QED
    BY <1>3, <1>4 DEF Doomed, Dooms

\* The C function that is on top has something below.
LEMMA Below1 ==
    ASSUME NEW cs \in Seq(FrameSet), NEW cx, cs # <<>>, Shape(cs, cx),
           cs[Len(cs)].fn # "main"
    PROVE  /\ Len(cs) \in Nat /\ Len(cs) > 1 /\ Len(cs) - 1 \in 1..Len(cs)
           /\ Placed(cs, Len(cs)) /\ FrameOK(cs, cx, Len(cs))
<1>1. Len(cs) \in Nat /\ Len(cs) > 0
    BY FrameTypes
<1>2. FrameOK(cs, cx, Len(cs)) /\ Placed(cs, Len(cs))
    BY <1>1 DEF Shape, FrameOK
<1>3. Len(cs) # 1
    BY <1>2 DEF Placed
<1>a. \A n \in Nat : n > 0 /\ n # 1 => n > 1 /\ n - 1 \in 1..n
    OBVIOUS
<1>4. Len(cs) > 1 /\ Len(cs) - 1 \in 1..Len(cs)
    BY <1>1, <1>3, <1>a, Zenon
<1> QED
    BY <1>1, <1>2, <1>4, Zenon

\* Where a die to an eval ends.
LEMMA EvalAt ==
    ASSUME NEW cs \in Seq(FrameSet), NEW cx \in Seq(ContextSet), NEW i \in 1..Len(cx),
           ContextOK(cs, cx, i), cx[i].type \in Evals
    PROVE  /\ cx[i].caller \in 1..Len(cs) /\ cx[i].catcher \in 1..Len(cs)
           /\ cs[cx[i].catcher].fn \in {"main", "destroy", "docatch"}
           /\ \/ cx[i].catcher = cx[i].caller
              \/ /\ cx[i].catcher = cx[i].caller + 1 /\ cx[i].type = "try"
                 /\ cs[cx[i].catcher].fn = "docatch" /\ cs[cx[i].caller].fn = "call"
<1>1. Len(cs) \in Nat
    BY FrameTypes
<1>2. cx[i].caller \in 1..Len(cs) /\ cs[cx[i].caller].fn \in CallFns
    BY DEF ContextOK
<1>3. CASE cx[i].type = "destroy"
    BY <1>2, <1>3 DEF ContextOK
<1>4. CASE cx[i].type = "try" /\ cs[cx[i].caller].fn = "call"
  <2>1. cx[i].catcher = cx[i].caller + 1 /\ cx[i].catcher <= Len(cs)
        /\ cs[cx[i].catcher].fn = "docatch"
      BY <1>4 DEF ContextOK
  <2>2. cx[i].catcher \in 1..Len(cs)
      BY <1>1, <1>2, <2>1
  <2> QED
      BY <1>2, <1>4, <2>1, <2>2
<1>5. CASE cx[i].type = "try" /\ cs[cx[i].caller].fn # "call"
    BY <1>2, <1>5 DEF ContextOK, CallFns
<1> QED
    BY <1>3, <1>4, <1>5 DEF Evals

\* The function on top that ends a scope finds its context on top.
LEMMA EndOwns ==
    ASSUME NEW cs \in Seq(FrameSet), NEW cx \in Seq(ContextSet), cs # <<>>, Shape(cs, cx),
           cs[Len(cs)].fn \in {"pop", "return"}
    PROVE  /\ Len(cx) > 0 /\ Len(cx) \in 1..Len(cx)
           /\ Own(cs, cx, Len(cx), Len(cs)) /\ cx[Len(cx)].type \in Ends(cs, Len(cs))
<1> DEFINE n == Len(cs)
           k == Len(cx)
<1>0. n \in Nat /\ n > 1 /\ k \in Nat /\ FrameOK(cs, cx, n)
    BY Below1, ContextTypes
<1>1. ~Doomed(cs, cx, n)
    BY <1>0 DEF Doomed
<1>2. PICK i \in 1..k : Own(cs, cx, i, n) /\ cx[i].type \in Ends(cs, n)
    BY <1>0, <1>1 DEF FrameOK, PopOK
<1>3. \A j \in 1..k : cx[j].caller <= n
    BY <1>0 DEF Shape, ContextOK
<1>4. i = k
  <2> SUFFICES ASSUME i # k PROVE FALSE
      OBVIOUS
  <2>1. k \in 1..k /\ k > i
      BY <1>0
  <2>2. cx[k].caller > n /\ cx[k].caller <= n
      BY <1>2, <1>3, <2>1 DEF Own
  <2> QED
      BY <1>0, <2>1, <2>2, ContextTypes
<1> QED
    BY <1>0, <1>2, <1>4

\* What is between such a function and the C call of its context.
Alone(cs, p) == \/ p + 1 = Len(cs)
                \/ p + 2 = Len(cs) /\ cs[p + 1].fn = "docatch"
                \/ /\ p + 4 = Len(cs) /\ cs[p + 4].fn = "pop" /\ cs[p + 1].fn = "done"
                   /\ cs[p + 2].fn = "leave" /\ cs[p + 3].fn = "tmps"

LEMMA OwnAlone ==
    ASSUME NEW cs \in Seq(FrameSet), NEW cx \in Seq(ContextSet), cs # <<>>, Shape(cs, cx),
           cs[Len(cs)].fn \in {"pop", "return"}, NEW p, p = cx[Len(cx)].caller
    PROVE  /\ p \in 1..Len(cs) /\ cs[p].fn \in CallFns
           /\ Alone(cs, p)
<1> DEFINE n == Len(cs)
<1>0. n \in Nat /\ n > 1 /\ Placed(cs, n) /\ n - 1 \in 1..n
    BY Below1
<1>1. /\ p \in 1..n /\ cs[p].fn \in CallFns /\ p < n
      /\ \A m \in p + 1..n : cs[m].fn \notin CallFns
    BY EndOwns DEF Own, Shape, ContextOK
<1>a. p \in Nat /\ n \in Nat /\ p < n
    BY <1>0, <1>1
<1>2. CASE cs[n - 1].fn \in CallFns
  <2>1. n - 1 \notin p + 1..n
      BY <1>1, <1>2
  <2> QED
      BY <1>0, <1>1, <2>1 DEF Alone
<1>3. CASE cs[n - 1].fn = "docatch"
  <2>1. Placed(cs, n - 1)
      BY <1>0 DEF Shape, FrameOK
  <2>2. cs[(n - 1) - 1].fn = "call"
      BY <1>3, <2>1 DEF Placed
  <2>3. n - 2 \notin p + 1..n
    <3>1. cs[n - 2].fn = "call"
        BY <1>0, <2>2
    <3> QED
        BY <1>1, <3>1 DEF CallFns
  <2>4. p # n - 1
      BY <1>1, <1>3 DEF CallFns
  <2>5. p + 2 = n
      BY <1>a, <2>3, <2>4
  <2>6. p + 1 = n - 1
      BY <1>a, <2>5
  <2> QED
      BY <1>1, <1>3, <2>5, <2>6 DEF Alone
<1>4. CASE cs[n - 1].fn \notin Loops
  <2>1. /\ n > 3 /\ cs[n].fn = "pop"
        /\ cs[n - 1].fn = "tmps" /\ cs[n - 2].fn = "leave" /\ cs[n - 3].fn = "done"
      BY <1>0, <1>4 DEF Placed
  <2>2. n - 3 \in 1..n
      BY <1>0, <2>1
  <2>3. Placed(cs, n - 3)
      BY <2>2 DEF Shape, FrameOK
  <2>4. cs[(n - 3) - 1].fn \in {"call", "destroy"}
      BY <2>1, <2>3 DEF Placed
  <2>5. n - 4 \notin p + 1..n
    <3>1. cs[n - 4].fn \in {"call", "destroy"}
        BY <1>0, <2>4
    <3> QED
        BY <1>1, <3>1 DEF CallFns
  <2>6. p # n - 1 /\ p # n - 2 /\ p # n - 3
      BY <1>1, <2>1 DEF CallFns
  <2>7. p + 4 = n
    <3>1. n > 3
        BY <2>1
    <3>2. \A u, v \in Nat : u < v /\ v > 3 /\ v - 4 \notin u + 1..v
                /\ u # v - 1 /\ u # v - 2 /\ u # v - 3 => u + 4 = v
        OBVIOUS
    <3> QED
        BY <1>a, <2>5, <2>6, <3>1, <3>2, Zenon
  <2>8. p + 3 = n - 1 /\ p + 2 = n - 2 /\ p + 1 = n - 3
    <3>1. \A u, v \in Nat : u + 4 = v => u + 3 = v - 1 /\ u + 2 = v - 2 /\ u + 1 = v - 3
        OBVIOUS
    <3> QED
        BY <1>a, <2>7, <3>1, Zenon
  <2> QED
      BY <1>1, <2>1, <2>7, <2>8 DEF Alone
<1> QED
    BY <1>2, <1>3, <1>4 DEF Loops, CallFns

\* A die that has unwound everything ends at the context on top.
LEMMA JumpOwns ==
    ASSUME NEW cs \in Seq(FrameSet), NEW cx \in Seq(ContextSet), cs # <<>>, Shape(cs, cx),
           cs[Len(cs)].fn = "jump"
    PROVE  /\ Len(cx) > 0 /\ Len(cx) \in 1..Len(cx) /\ cs[Len(cs)].n = Len(cx)
           /\ cx[Len(cx)].type \in Evals /\ cx[Len(cx)].catcher < Len(cs)
<1> DEFINE n == Len(cs)
           k == Len(cx)
<1>0. n \in Nat /\ n > 1 /\ k \in Nat /\ FrameOK(cs, cx, n)
    BY Below1, ContextTypes
<1>1. JumpOK(cs, cx, n) /\ ~(n + 3 <= n)
    BY <1>0 DEF FrameOK
<1>2. /\ cs[n].n \in 1..k /\ cx[cs[n].n].type \in Evals /\ cx[cs[n].n].catcher < n
      /\ \A j \in 1..k : j > cs[n].n => cx[j].caller > n
    BY <1>1 DEF JumpOK
<1>3. \A j \in 1..k : cx[j].caller <= n
    BY <1>0 DEF Shape, ContextOK
<1>4. cs[n].n = k
  <2> SUFFICES ASSUME cs[n].n # k PROVE FALSE
      OBVIOUS
  <2>1. k \in 1..k /\ k > cs[n].n
      BY <1>0, <1>2
  <2>2. cx[k].caller > n /\ cx[k].caller <= n
      BY <1>2, <1>3, <2>1
  <2> QED
      BY <1>0, <2>1, <2>2, ContextTypes
<1> QED
    BY <1>0, <1>2, <1>4

\* What a C call's Perl code needs is below the function on top, which is none.
LEMMA BelowTop ==
    ASSUME NEW cs \in Seq(FrameSet), NEW cx \in Seq(ContextSet), Shape(cs, cx),
           NEW n, n = Len(cs),
           cs[n].fn \notin {"main", "call", "destroy", "docatch"}, NEW i \in 1..Len(cx)
    PROVE  /\ cx[i].caller <= n - 1
           /\ cx[i].type \in Evals => cx[i].catcher <= n - 1
<1>1. n \in Nat /\ ContextOK(cs, cx, i)
    BY FrameTypes DEF Shape
<1>2. cx[i].caller \in 1..n /\ cs[cx[i].caller].fn \in CallFns
    BY <1>1 DEF ContextOK
<1>3. cx[i].type \in Evals => cx[i].catcher \in 1..n /\ cx[i].catcher # n
    BY <1>1, EvalAt
<1>4. cx[i].caller # n
    BY <1>2 DEF CallFns
<1>5. \A a \in Nat : \A b \in 1..a : b # a => b <= a - 1
    OBVIOUS
<1> QED
    BY <1>1, <1>2, <1>3, <1>4, <1>5, Zenon

\* leave_scope, FREETMPS or dounwind returns.
LEMMA WorkDone ==
    ASSUME NEW cs \in Seq(FrameSet), NEW cx \in Seq(ContextSet), cs # <<>>,
           Shape(cs, cx), Subs(cs, cx),
           \/ cs[Len(cs)].fn \in {"leave", "tmps"}
           \/ cs[Len(cs)].fn = "unwind" /\ cs[Len(cs)].n = Len(cx),
           NEW ds \in Seq(FrameSet), Len(ds) = Len(cs) - 1, \A q \in 1..Len(ds) : ds[q] = cs[q]
    PROVE  Len(ds) > 0 /\ Shape(ds, cx) /\ Subs(ds, cx)
<1> DEFINE n == Len(cs)
           m == Len(ds)
           k == Len(cx)
<1>0. /\ n \in Nat /\ m \in Nat /\ n > 1 /\ m = n - 1 /\ m < n /\ k \in Nat
      /\ Placed(cs, n) /\ n \in 1..n /\ \A q \in 1..n : FrameOK(cs, cx, q)
    BY FrameTypes, ContextTypes, Below1 DEF Shape
<1>1. \A i \in 1..k : /\ cx[i].caller <= m
                      /\ cx[i].type = "try" => cx[i].catcher <= m
    BY <1>0, BelowTop DEF Evals
<1>a. \A q \in 1..m : q \in 1..n /\ q \in Nat
    BY <1>0
<1>b. \A q \in 1..m : q + 3 > m /\ q + 3 <= n => q + 3 = n /\ q = n - 3
    BY <1>0
<1>2. ASSUME NEW q \in 1..m, cs[q].fn = "jump"
      PROVE  /\ cs[q].n <= k
             /\ q + 3 > m /\ q + 3 <= n /\ cs[q + 3].fn = "unwind" =>
                    \A j \in 1..k : j > cs[q].n => cx[j].caller > q
  <2>1. cs[q].n \in 1..k
      BY <1>0, <1>2, <1>a DEF FrameOK, JumpOK
  <2>2. ASSUME q + 3 > m, q + 3 <= n, cs[q + 3].fn = "unwind" PROVE cs[q].n = k
    <3>1. q + 3 = n /\ q = n - 3
        BY <1>b, <2>2
    <3>2. cs[n].fn = "unwind" /\ cs[n].n = k
        BY <2>2, <3>1
    <3> QED
        BY <1>0, <3>1, <3>2 DEF Placed
  <2> QED
      BY <1>0, <2>1, <2>2
<1>3. \A q \in 1..m : Doomed(cs, cx, q) <=> Doomed(ds, cx, q)
  <2>1. \A r \in m + 1..n : r = n
      BY <1>0
  <2>2. \A r \in m + 1..n : cs[r].fn # "jump"
      BY <2>1
  <2>3. m <= n
      BY <1>0
  <2> QED
      BY <2>2, <2>3, NoJumpAbove, Zenon
<1>4. \A q \in 1..m : cs[q].fn \in {"pop", "return"} /\ ~Doomed(ds, cx, q) =>
          \E i \in 1..k : /\ Own(cs, cx, i, q) /\ cx[i].type \in Ends(cs, q)
                          /\ q < n => cs[q + 1].n = cx[i].saveix
    BY <1>0, <1>3, <1>a DEF FrameOK, PopOK
<1>5. \A q \in 1..m : cs[q].fn = "done" =>
          (q + 3 > m /\ q + 3 <= n /\ cs[q + 3].fn = "pop" /\ cs[q + 2].fn = "tmps"
               => \A i \in 1..k : cx[i].caller # q - 1)
    BY <1>b
<1>6. Shape(ds, cx)
  <2>1. m <= n /\ k <= k /\ \A i \in 1..k : cx[i] = cx[i]
      BY <1>0
  <2>2. Severed(cs, cx, ds, cx)
      BY <1>1, <1>2, <1>4, <1>5 DEF Severed
  <2> QED
      BY <2>1, <2>2, Cut, Zenon
<1>7. ASSUME NEW q \in 1..m PROVE SubOK(ds, cx, q)
  <2>1. SubOK(cs, cx, q) /\ ds[q] = cs[q]
      BY <1>a DEF Subs
  <2>2. q < n /\ cs[q + 1].fn = "done" => q < m /\ ds[q + 1] = cs[q + 1]
    <3> SUFFICES ASSUME cs[q + 1].fn = "done" PROVE q < m /\ ds[q + 1] = cs[q + 1]
        OBVIOUS
    <3>1. q + 1 # n
        OBVIOUS
    <3>2. q < m /\ q + 1 \in 1..m
        BY <1>0, <3>1
    <3> QED
        BY <3>2
  <2> QED
      BY <1>3, <2>1, <2>2 DEF SubOK
<1> QED
    BY <1>0, <1>6, <1>7 DEF Subs

\* call_sv returns.
LEMMA CallOver ==
    ASSUME NEW cs \in Seq(FrameSet), NEW cx \in Seq(ContextSet), cs # <<>>,
           Shape(cs, cx), Subs(cs, cx), cs[Len(cs)].fn = "done",
           NEW ds \in Seq(FrameSet), Len(ds) = Len(cs) - 2, \A q \in 1..Len(ds) : ds[q] = cs[q]
    PROVE  /\ Len(ds) > 0 /\ Shape(ds, cx) /\ Subs(ds, cx)
           /\ ds[Len(ds)].fn \in Loops \cup {"leave", "tmps", "unwind"}
<1> DEFINE n == Len(cs)
           m == Len(ds)
           k == Len(cx)
<1>0. /\ n \in Nat /\ m \in Nat /\ n > 1 /\ m = n - 2 /\ m < n /\ k \in Nat
      /\ Placed(cs, n) /\ n - 1 \in 1..n /\ n \in 1..n /\ \A q \in 1..n : FrameOK(cs, cx, q)
    BY FrameTypes, ContextTypes, Below1 DEF Shape
<1>a. \A q \in 1..m : q \in 1..n /\ q \in Nat
    BY <1>0
<1>b. cs[n].fn = "done" /\ cs[n - 1].fn \in {"call", "destroy"}
    BY <1>0 DEF Placed
<1>c. Placed(cs, n - 1)
    BY <1>0 DEF FrameOK
<1>d. n - 1 # 1 /\ cs[(n - 1) - 1].fn \in Loops \cup {"leave", "tmps", "unwind"}
    BY <1>b, <1>c DEF Placed
<1>e. m > 0 /\ m \in 1..m /\ (n - 1) - 1 = m
    BY <1>0, <1>d
<1>f. \A i \in 1..k : cx[i].caller # n - 1
  <2>1. ~(n + 3 <= n)
      BY <1>0
  <2> QED
      BY <1>0, <1>b, <2>1 DEF FrameOK, DoneOK
<1>1. ASSUME NEW i \in 1..k
      PROVE  /\ cx[i].caller <= m
             /\ cx[i].type = "try" => cx[i].catcher <= m
  <2>1. cx[i].caller <= n - 1 /\ (cx[i].type \in Evals => cx[i].catcher <= n - 1)
      BY <1>b, BelowTop
  <2>2. cx[i].caller \in Nat /\ cx[i].catcher \in Nat /\ cx[i].caller # n - 1
      BY <1>f, ContextTypes
  <2>3. cx[i].caller <= m
      BY <1>0, <2>1, <2>2
  <2>4. ASSUME cx[i].type = "try" PROVE cx[i].catcher <= m
    <3>1. \/ cx[i].catcher = cx[i].caller
          \/ cs[cx[i].catcher].fn = "docatch"
        BY <2>4, EvalAt DEF Evals, Shape
    <3>2. cx[i].catcher # n - 1
        BY <1>b, <2>2, <3>1
    <3> QED
        BY <1>0, <2>1, <2>2, <2>4, <3>2 DEF Evals
  <2> QED
      BY <2>3, <2>4
<1>g. \A q \in 1..m : q + 3 > m /\ q + 3 <= n => q + 3 = n \/ q + 3 = n - 1
    BY <1>0
<1>2. \A q \in 1..m : cs[q].fn = "jump" =>
             /\ cs[q].n <= k
             /\ q + 3 > m /\ q + 3 <= n /\ cs[q + 3].fn = "unwind" =>
                    \A j \in 1..k : j > cs[q].n => cx[j].caller > q
  <2>1. \A q \in 1..m : cs[q].fn = "jump" => cs[q].n <= k
      BY <1>0, <1>a DEF FrameOK, JumpOK
  <2>2. \A q \in 1..m : q + 3 > m /\ q + 3 <= n => cs[q + 3].fn # "unwind"
      BY <1>b, <1>g
  <2> QED
      BY <2>1, <2>2
<1>3. \A q \in 1..m : Doomed(cs, cx, q) <=> Doomed(ds, cx, q)
  <2>1. \A r \in m + 1..n : r = n \/ r = n - 1
      BY <1>0
  <2>2. \A r \in m + 1..n : cs[r].fn # "jump"
      BY <1>b, <2>1
  <2>3. m <= n
      BY <1>0
  <2> QED
      BY <2>2, <2>3, NoJumpAbove, Zenon
<1>4. \A q \in 1..m : cs[q].fn \in {"pop", "return"} /\ ~Doomed(ds, cx, q) =>
          \E i \in 1..k : /\ Own(cs, cx, i, q) /\ cx[i].type \in Ends(cs, q)
                          /\ q < n => cs[q + 1].n = cx[i].saveix
    BY <1>0, <1>3, <1>a DEF FrameOK, PopOK
<1>5. \A q \in 1..m : cs[q].fn = "done" =>
          (q + 3 > m /\ q + 3 <= n /\ cs[q + 3].fn = "pop" /\ cs[q + 2].fn = "tmps"
               => \A i \in 1..k : cx[i].caller # q - 1)
    BY <1>b, <1>g
<1>6. Shape(ds, cx)
  <2>1. m <= n /\ k <= k /\ \A i \in 1..k : cx[i] = cx[i]
      BY <1>0
  <2>2. Severed(cs, cx, ds, cx)
      BY <1>1, <1>2, <1>4, <1>5 DEF Severed
  <2> QED
      BY <2>1, <2>2, Cut, Zenon
<1>7. ASSUME NEW q \in 1..m PROVE SubOK(ds, cx, q)
  <2>1. SubOK(cs, cx, q) /\ ds[q] = cs[q]
      BY <1>a DEF Subs
  <2>2. q < n /\ cs[q + 1].fn = "done" => q < m /\ ds[q + 1] = cs[q + 1]
    <3> SUFFICES ASSUME cs[q + 1].fn = "done" PROVE q < m /\ ds[q + 1] = cs[q + 1]
        OBVIOUS
    <3>1. q + 1 # n - 1
        BY <1>b
    <3>2. q < m /\ q + 1 \in 1..m
        BY <1>0, <3>1
    <3> QED
        BY <3>2
  <2> QED
      BY <1>3, <2>1, <2>2 DEF SubOK
<1>8. ds[m] = cs[m] /\ cs[m].fn \in Loops \cup {"leave", "tmps", "unwind"}
    BY <1>d, <1>e
<1> QED
    BY <1>e, <1>6, <1>7, <1>8 DEF Subs

\* cx_popblock at the end of a block, of an eval or of a DESTROY.
LEMMA PopDone ==
    ASSUME NEW cs \in Seq(FrameSet), NEW cx \in Seq(ContextSet), cs # <<>>,
           Shape(cs, cx), Subs(cs, cx), cs[Len(cs)].fn = "pop",
           NEW ds \in Seq(FrameSet), Len(ds) = Len(cs) - 1, \A q \in 1..Len(ds) : ds[q] = cs[q],
           NEW dx \in Seq(ContextSet), Len(dx) = Len(cx) - 1, \A i \in 1..Len(dx) : dx[i] = cx[i]
    PROVE  Len(ds) > 0 /\ Shape(ds, dx) /\ Subs(ds, dx)
<1> DEFINE n == Len(cs)
           m == Len(ds)
           k == Len(cx)
           h == Len(dx)
<1>0. /\ n \in Nat /\ m \in Nat /\ n > 1 /\ m = n - 1 /\ m < n /\ k \in Nat /\ h \in Nat
      /\ Placed(cs, n) /\ n \in 1..n /\ \A q \in 1..n : FrameOK(cs, cx, q)
  <2>1. cs[n].fn # "main"
      OBVIOUS
  <2>2. n \in Nat /\ m \in Nat /\ k \in Nat /\ h \in Nat
      BY FrameTypes, ContextTypes
  <2>3. n > 1 /\ Placed(cs, n)
      BY <2>1, Below1, Zenon
  <2> QED
      BY <2>2, <2>3 DEF Shape
<1>a. \A q \in 1..m : q \in 1..n /\ q \in Nat
    BY <1>0
<1>b. /\ k \in 1..k /\ Own(cs, cx, k, n) /\ cx[k].type \in Ends(cs, n)
      /\ h = k - 1 /\ h < k /\ \A i \in 1..h : i \in 1..k /\ i < k
  <2>1. k > 0 /\ k \in 1..k /\ Own(cs, cx, k, n) /\ cx[k].type \in Ends(cs, n)
      BY EndOwns
  <2> QED
      BY <1>0, <2>1
<1>p. PICK p : p = cx[k].caller
    OBVIOUS
<1>c. /\ p \in 1..n /\ cs[p].fn \in CallFns
      /\ \/ p + 1 = n
         \/ p + 2 = n /\ cs[p + 1].fn = "docatch"
         \/ /\ p + 4 = n /\ cs[p + 1].fn = "done"
            /\ cs[p + 2].fn = "leave" /\ cs[p + 3].fn = "tmps"
  <2>1. cs[n].fn \in {"pop", "return"}
      OBVIOUS
  <2>2. p \in 1..Len(cs) /\ cs[p].fn \in CallFns /\ Alone(cs, p)
      BY <1>p, <2>1, OwnAlone, Zenon
  <2> QED
      BY <2>2, Zenon DEF Alone
<1>g. p \in Nat
    BY <1>c
<1>t. cs[n].fn = "pop"
    OBVIOUS
<1>x. /\ \A q \in 1..m : ds[q] = cs[q]
      /\ \A i \in 1..h : dx[i] = cx[i]
      /\ ContextOK(cs, cx, k)
    BY <1>b DEF Shape
<1>s. \A q \in 1..n : SubOK(cs, cx, q)
    BY DEF Subs
<1>k. /\ cx[k].type \in {"block", "try", "destroy"}
      /\ cx[k].type \in Evals => cx[k].catcher >= p /\ cx[k].catcher \in Nat
  <2>1. cx[k].type \in {"block", "try", "destroy"}
      BY <1>b, <1>t DEF Ends
  <2>2. cx[k].type \in Evals => cx[k].catcher >= p
    <3> SUFFICES ASSUME cx[k].type \in Evals PROVE cx[k].catcher >= p
        OBVIOUS
    <3>1. \/ cx[k].catcher = cx[k].caller
          \/ cx[k].catcher = cx[k].caller + 1
        BY <1>b, <1>x, EvalAt, Zenon
    <3> QED
        BY <1>c, <1>g, <1>p, <3>1
  <2> QED
      BY <1>b, <2>1, <2>2, ContextTypes
<1>y. \A i \in 1..h : /\ cx[i].caller <= m
                      /\ cx[i].type = "try" => cx[i].catcher <= m
    BY <1>0, <1>b, BelowTop DEF Evals
<1> HIDE DEF n, m, k, h
<1>d. \A q \in 1..m : q > p => cs[q].fn \in {"docatch", "done", "leave", "tmps"}
  <2> SUFFICES ASSUME NEW q \in 1..m, q > p PROVE cs[q].fn \in {"docatch", "done", "leave", "tmps"}
      OBVIOUS
  <2>1. \A u, v, w \in Nat : w > u /\ w <= v - 1 =>
            /\ u + 1 # v
            /\ u + 2 = v => w = u + 1
            /\ u + 4 = v => w = u + 1 \/ w = u + 2 \/ w = u + 3
      OBVIOUS
  <2>2. q \in Nat /\ q <= n - 1
      BY <1>0
  <2>3. /\ p + 1 # n
        /\ p + 2 = n => q = p + 1
        /\ p + 4 = n => q = p + 1 \/ q = p + 2 \/ q = p + 3
      BY <1>0, <1>c, <1>g, <2>1, <2>2, Zenon
  <2> QED
      BY <1>c, <1>g, <2>3, Zenon
<1>e. \A q \in 1..m : cs[q].fn \in {"jump", "pop", "return"} => q < p
  <2> SUFFICES ASSUME NEW q \in 1..m, cs[q].fn \in {"jump", "pop", "return"} PROVE q < p
      OBVIOUS
  <2>1. q # p
      BY <1>c DEF CallFns
  <2>2. ~(q > p)
      BY <1>d
  <2>3. q \in Nat
      BY <1>a
  <2> QED
      BY <1>c, <1>g, <2>1, <2>2, <2>3
<1>f. \A q \in 1..m : q + 3 > m /\ q + 3 <= n => q + 3 = n /\ q = n - 3
    BY <1>0
<1>2. ASSUME NEW q \in 1..m, cs[q].fn = "jump"
      PROVE  /\ cs[q].n <= h
             /\ q + 3 > m /\ q + 3 <= n /\ cs[q + 3].fn = "unwind" =>
                    \A j \in 1..h : j > cs[q].n => cx[j].caller > q
  <2>1. /\ cs[q].n \in 1..k /\ cx[cs[q].n].type \in Evals /\ cx[cs[q].n].catcher < q
        /\ q < p /\ q \in Nat
      BY <1>0, <1>2, <1>a, <1>e DEF FrameOK, JumpOK, k
  <2>2. cs[q].n # k
    <3> SUFFICES ASSUME cs[q].n = k PROVE FALSE
        OBVIOUS
    <3>1. cx[k].catcher < q /\ cx[k].catcher >= p /\ cx[k].catcher \in Nat
        BY <1>k, <2>1
    <3> QED
        BY <1>c, <1>g, <2>1, <3>1
  <2> QED
      BY <1>b, <1>f, <1>t, <2>1, <2>2, <1>0
<1>3. \A q \in 1..m : Doomed(cs, cx, q) <=> Doomed(ds, cx, q)
  <2>1. \A r \in m + 1..n : r = n
      BY <1>0
  <2>2. \A r \in m + 1..n : cs[r].fn # "jump"
      BY <1>t, <2>1
  <2>3. m <= n
      BY <1>0
  <2> QED
      BY <1>x, <2>2, <2>3, NoJumpAbove, Zenon DEF m, n
<1>4. ASSUME NEW q \in 1..m, cs[q].fn \in {"pop", "return"}, ~Doomed(ds, cx, q)
      PROVE  \E i \in 1..h : /\ Own(cs, cx, i, q) /\ cx[i].type \in Ends(cs, q)
                             /\ q < n => cs[q + 1].n = cx[i].saveix
  <2>1. q < p /\ q \in Nat /\ FrameOK(cs, cx, q) /\ ~Doomed(cs, cx, q)
      BY <1>0, <1>3, <1>4, <1>a, <1>e
  <2>2. PICK i \in 1..k : /\ Own(cs, cx, i, q) /\ cx[i].type \in Ends(cs, q)
                          /\ q < n => cs[q + 1].n = cx[i].saveix
      BY <1>4, <2>1 DEF FrameOK, PopOK, k, n
  <2>3. cx[i].caller < q
      BY <2>2 DEF Own
  <2>4. i # k
      BY <1>c, <1>g, <1>p, <2>1, <2>3
  <2>5. i \in 1..h
      BY <1>0, <1>b, <2>4
  <2> QED
      BY <2>2, <2>5
<1>5. ASSUME NEW q \in 1..m, cs[q].fn = "done",
             q + 3 > m /\ q + 3 <= n /\ cs[q + 3].fn = "pop" /\ cs[q + 2].fn = "tmps",
             NEW i \in 1..h
      PROVE  cx[i].caller # q - 1
  <2>1. q + 3 = n /\ q + 2 = n - 1 /\ q \in Nat
      BY <1>0, <1>5, <1>f, <1>a
  <2>2. cs[n - 1].fn = "tmps"
      BY <1>5, <2>1
  <2>3. cx[k].type = "destroy"
      BY <1>b, <1>t, <2>2 DEF Ends
  <2>4. p + 4 = n
    <3>0. \A u, v \in Nat : (u + 1 = v => v - 1 = u) /\ (u + 2 = v => v - 1 = u + 1)
        OBVIOUS
    <3>1. p + 1 = n => cs[n - 1].fn \in CallFns
        BY <1>0, <1>c, <1>g, <3>0, Zenon
    <3>2. p + 2 = n /\ cs[p + 1].fn = "docatch" => cs[n - 1].fn = "docatch"
        BY <1>0, <1>c, <1>g, <3>0, Zenon
    <3> QED
        BY <1>c, <1>g, <2>2, <3>1, <3>2 DEF CallFns
  <2>5. q - 1 = p
      BY <1>c, <1>g, <2>1, <2>4
  <2>6. i \in 1..k - 1
      BY <1>b
  <2>7. cx[i].caller < p
      BY <1>p, <1>x, <2>3, <2>6 DEF ContextOK
  <2>8. cx[i].caller \in Nat
      BY <1>b, ContextTypes DEF k
  <2> QED
      BY <1>c, <1>g, <2>5, <2>7, <2>8
<1>6. Shape(ds, dx) /\ \A q \in 1..m : Doomed(ds, cx, q) <=> Doomed(ds, dx, q)
  <2>1. m <= n /\ h <= k
      BY <1>0, <1>b
  <2>2. \A q \in 1..m : cs[q].fn = "done" =>
            (q + 3 > m /\ q + 3 <= n /\ cs[q + 3].fn = "pop" /\ cs[q + 2].fn = "tmps"
                 => \A i \in 1..h : cx[i].caller # q - 1)
      BY <1>5
  <2>3. Severed(cs, cx, ds, dx)
      BY <1>y, <1>2, <1>4, <2>2 DEF Severed, n, m, k, h
  <2> QED
      BY <1>x, <2>1, <2>3, Cut, Zenon DEF n, m, k, h
<1>7. ASSUME NEW q \in 1..m PROVE SubOK(ds, dx, q)
  <2>1. SubOK(cs, cx, q) /\ ds[q] = cs[q] /\ (Doomed(cs, cx, q) <=> Doomed(ds, dx, q))
      BY <1>3, <1>6, <1>a, <1>s, <1>x
  <2>2. q < n /\ cs[q + 1].fn = "done" => q < m /\ ds[q + 1] = cs[q + 1]
    <3> SUFFICES ASSUME cs[q + 1].fn = "done" PROVE q < m /\ ds[q + 1] = cs[q + 1]
        OBVIOUS
    <3>1. q + 1 # n
        BY <1>t
    <3>2. q < m /\ q + 1 \in 1..m
        BY <1>0, <3>1
    <3> QED
        BY <1>x, <3>2
  <2>3. \A i \in 1..k : cx[i].type = "sub" => i \in 1..h /\ dx[i] = cx[i]
    <3>1. \A i \in 1..k : cx[i].type = "sub" => i # k
        BY <1>k
    <3>2. \A i \in 1..k : i # k => i \in 1..h
        BY <1>0, <1>b
    <3> QED
        BY <1>x, <3>1, <3>2
  <2> QED
      BY <2>1, <2>2, <2>3 DEF SubOK, n, m, k, h
<1> QED
    BY <1>0, <1>6, <1>7 DEF Subs, m

\* dounwind drops a context above the eval.
LEMMA UnwindPops ==
    ASSUME NEW cs \in Seq(FrameSet), NEW cx \in Seq(ContextSet), cs # <<>>,
           Shape(cs, cx), Subs(cs, cx),
           cs[Len(cs)].fn = "unwind", cs[Len(cs)].n < Len(cx),
           NEW dx \in Seq(ContextSet), Len(dx) = Len(cx) - 1, \A i \in 1..Len(dx) : dx[i] = cx[i]
    PROVE  Shape(cs, dx) /\ Subs(cs, dx)
<1> DEFINE n == Len(cs)
           k == Len(cx)
           h == Len(dx)
<1>0. /\ n \in Nat /\ n > 1 /\ k \in Nat /\ h \in Nat /\ Placed(cs, n)
      /\ \A q \in 1..n : FrameOK(cs, cx, q) /\ q \in Nat
  <2>1. cs[n].fn # "main"
      OBVIOUS
  <2>2. n \in Nat /\ k \in Nat /\ h \in Nat
      BY FrameTypes, ContextTypes
  <2>3. n > 1 /\ Placed(cs, n)
      BY <2>1, Below1, Zenon
  <2> QED
      BY <2>2, <2>3 DEF Shape
<1>c. PICK c : c = cs[n].n
    OBVIOUS
<1>r. PICK r : r = n - 3
    OBVIOUS
<1>1. /\ n > 3 /\ r \in 1..n /\ cs[n].fn = "unwind" /\ cs[n - 1].fn = "tmps"
      /\ cs[n - 2].fn = "leave" /\ cs[r].fn = "jump" /\ cs[r].n = c
  <2>1. n > 3
      BY <1>0 DEF Placed
  <2>2. r \in 1..n
      BY <1>0, <1>r, <2>1
  <2> QED
      BY <1>0, <1>c, <1>r, <2>1, <2>2 DEF Placed
<1>x. (\A i \in 1..h : dx[i] = cx[i]) /\ (\A i \in 1..k : ContextOK(cs, cx, i)) /\ Ordered(cx)
    BY DEF Shape
<1>s. \A q \in 1..n : SubOK(cs, cx, q)
    BY DEF Subs
<1>2. /\ c \in 1..k /\ cx[c].type \in Evals /\ cx[c].catcher < r
      /\ \A j \in 1..k : j > c /\ cx[j].type \in Evals => cx[j].catcher > r
  <2>1. JumpOK(cs, cx, r)
      BY <1>0, <1>1 DEF FrameOK
  <2> QED
      BY <1>1, <2>1 DEF JumpOK
<1>b. c < k
    BY <1>c
<1>k. /\ k \in 1..k /\ c \in 1..h /\ h < k /\ h = k - 1
      /\ \A i \in 1..k : i # k => i \in 1..h
      /\ \A i \in 1..h : i \in 1..k
    BY <1>0, <1>2, <1>b
<1>e. /\ cx[c].caller \in 1..n /\ cx[c].catcher \in 1..n
      /\ cs[cx[c].catcher].fn \in {"main", "destroy", "docatch"}
      /\ \/ cx[c].catcher = cx[c].caller
         \/ /\ cx[c].catcher = cx[c].caller + 1
            /\ cs[cx[c].catcher].fn = "docatch" /\ cs[cx[c].caller].fn = "call"
    BY <1>2, <1>x, EvalAt, Zenon
<1>o. cx[c].caller <= cx[k].caller
    BY <1>2, <1>b, <1>k, <1>x DEF Ordered
<1>v. \A i \in 1..k : cx[i].caller \in Nat /\ cx[i].catcher \in Nat
    BY ContextTypes
<1>y. \A i \in 1..h : /\ cx[i].caller <= n
                      /\ cx[i].type = "try" => cx[i].catcher <= n
  <2> SUFFICES ASSUME NEW i \in 1..h
               PROVE  /\ cx[i].caller <= n
                      /\ cx[i].type = "try" => cx[i].catcher <= n
      OBVIOUS
  <2>1. i \in 1..k /\ ContextOK(cs, cx, i)
      BY <1>k, <1>x
  <2>2. cx[i].caller \in 1..n
      BY <2>1 DEF ContextOK
  <2>3. cx[i].type = "try" => cx[i].catcher \in 1..n
      BY <2>1, EvalAt DEF Evals
  <2> QED
      BY <1>0, <2>2, <2>3
<1>f. \A q \in 1..n : ~(q + 3 > n /\ q + 3 <= n)
    BY <1>0
<1> HIDE DEF n, k, h
\* The frames of this die are the last.
<1>l. \A q \in 1..n : cs[q].fn \in {"jump", "pop", "return", "main", "call", "destroy"} => q <= r
  <2> SUFFICES ASSUME NEW q \in 1..n, ~(q <= r)
               PROVE  cs[q].fn \in {"leave", "tmps", "unwind"}
      OBVIOUS
  <2>1. q = n \/ q = n - 1 \/ q = n - 2
      BY <1>0, <1>r
  <2> QED
      BY <1>1, <2>1
<1>3. ASSUME NEW q \in 1..n, cs[q].fn = "jump" PROVE cs[q].n <= h
  <2>1. /\ cs[q].n \in 1..k /\ cx[cs[q].n].type \in Evals /\ cx[cs[q].n].catcher < q
        /\ q <= r /\ q \in Nat
      BY <1>0, <1>3, <1>l DEF FrameOK, JumpOK, k
  <2>2. cs[q].n # k
    <3> SUFFICES ASSUME cs[q].n = k PROVE FALSE
        OBVIOUS
    <3>1. cx[k].catcher < q /\ cx[k].catcher > r /\ cx[k].catcher \in Nat
        BY <1>2, <1>b, <1>k, <1>v, <2>1
    <3> QED
        BY <1>1, <2>1, <3>1
  <2> QED
      BY <1>k, <1>0, <2>1, <2>2
<1>4. ASSUME NEW q \in 1..n, cs[q].fn \in {"pop", "return"}, ~Doomed(cs, cx, q)
      PROVE  \E i \in 1..h : /\ Own(cs, cx, i, q) /\ cx[i].type \in Ends(cs, q)
                             /\ q < n => cs[q + 1].n = cx[i].saveix
  <2>1. q < r /\ q \in Nat /\ r \in q + 1..n
    <3>1. q <= r /\ q # r
        BY <1>1, <1>4, <1>l
    <3> QED
        BY <1>0, <1>1, <3>1
  <2>2. PICK i \in 1..k : /\ Own(cs, cx, i, q) /\ cx[i].type \in Ends(cs, q)
                          /\ q < n => cs[q + 1].n = cx[i].saveix
      BY <1>0, <1>4 DEF FrameOK, PopOK, k, n
  <2>3. ~(cx[c].catcher < q)
    <3>1. ~Dooms(cs, cx, r, q)
        BY <1>4, <2>1 DEF Doomed, n
    <3> QED
        BY <1>1, <3>1 DEF Dooms
  <2>4. ~(cx[c].caller < q)
    <3>1. cx[c].catcher # q
        BY <1>4, <1>e
    <3> QED
        BY <1>e, <2>1, <2>3, <3>1
  <2>5. i # k
    <3> SUFFICES ASSUME i = k PROVE FALSE
        OBVIOUS
    <3>1. cx[k].caller < q
        BY <2>2 DEF Own
    <3> QED
        BY <1>2, <1>k, <1>o, <1>v, <2>1, <2>4, <3>1
  <2> QED
      BY <1>k, <2>2, <2>5
<1>5. Shape(cs, dx) /\ \A q \in 1..n : Doomed(cs, cx, q) <=> Doomed(cs, dx, q)
  <2>1. Severed(cs, cx, cs, dx)
      BY <1>y, <1>3, <1>4, <1>f DEF Severed, n, k, h
  <2>2. n <= n /\ h <= k /\ \A q \in 1..n : cs[q] = cs[q]
      BY <1>0, <1>k
  <2> QED
      BY <1>x, <2>1, <2>2, Cut, Zenon DEF n, k, h
<1>6. ASSUME NEW p \in 1..n PROVE SubOK(cs, dx, p)
  <2> SUFFICES ASSUME cs[p].fn \in {"call", "destroy"}, ~Doomed(cs, cx, p),
                      cx[k].caller = p, cx[k].type = "sub"
               PROVE  FALSE
    <3>1. SubOK(cs, cx, p) /\ (Doomed(cs, cx, p) <=> Doomed(cs, dx, p))
        BY <1>5, <1>s
    <3>2. \A i \in 1..k : i # k => i \in 1..h /\ dx[i] = cx[i]
        BY <1>k, <1>x
    <3> QED
        BY <3>1, <3>2 DEF SubOK, k, h
  <2>1. p < r /\ p \in Nat /\ r \in p + 1..n
    <3>1. p <= r /\ p # r
        BY <1>1, <1>l
    <3> QED
        BY <1>0, <1>1, <3>1
  <2>2. ~(cx[c].catcher < p) /\ ~(cx[c].catcher = p /\ cx[c].type = "destroy")
    <3>1. ~Dooms(cs, cx, r, p)
        BY <2>1 DEF Doomed, n
    <3> QED
        BY <1>1, <3>1 DEF Dooms
  <2>3. cx[c].catcher # cx[c].caller + 1
    <3> SUFFICES ASSUME cx[c].catcher = cx[c].caller + 1 PROVE FALSE
        OBVIOUS
    <3>1. cs[cx[c].catcher].fn = "docatch"
        BY <1>e
    <3>2. cx[c].catcher = p
      <4>1. cx[c].caller <= p /\ cx[c].caller # p
        <5>1. cx[c].caller # p
          <6> SUFFICES ASSUME cx[c].caller = p PROVE FALSE
              OBVIOUS
          <6>1. c \in 1..k - 1
              BY <1>k
          <6>2. cs[p].fn = "call"
              BY <1>e
          <6>3. cx[c].caller < p
              BY <1>k, <1>x, <6>1, <6>2 DEF ContextOK
          <6> QED
              BY <2>1, <6>3
        <5> QED
            BY <1>o, <5>1
      <4> QED
          BY <1>e, <2>1, <2>2, <4>1
    <3> QED
        BY <3>1, <3>2
  <2>4. cx[c].caller = p /\ cx[c].catcher = p
      BY <1>e, <1>o, <2>1, <2>2, <2>3
  <2>5. ~(\A j \in 1..k - 1 : cx[j].caller < p)
    <3>1. c \in 1..k - 1 /\ ~(cx[c].caller < p)
        BY <1>k, <2>1, <2>4
    <3> QED
        BY <3>1
  <2>6. k > 1 /\ cx[k - 1].type = "destroy" /\ cx[k - 1].caller = p
      BY <1>k, <1>x, <2>5 DEF ContextOK
  <2>7. k - 1 \in 1..k /\ h = k - 1
      BY <1>0, <1>k, <2>6
  <2>8. c = k - 1
    <3> SUFFICES ASSUME c # k - 1 PROVE FALSE
        OBVIOUS
    <3>1. c \in 1..(k - 1) - 1
        BY <1>k, <1>0, <2>7
    <3>2. cx[c].caller < p
        BY <1>x, <2>6, <2>7, <3>1 DEF ContextOK
    <3> QED
        BY <2>1, <2>4, <3>2
  <2> QED
      BY <2>2, <2>4, <2>6, <2>8
<1> QED
    BY <1>5, <1>6 DEF Subs, n

\* Perl code goes on in the frame m, without the context on top.
LEMMA Resumed ==
    ASSUME NEW cs \in Seq(FrameSet), NEW cx \in Seq(ContextSet), cs # <<>>, cx # <<>>,
           Shape(cs, cx), Subs(cs, cx), NEW m \in 1..Len(cs), cs[m].fn \in Loops,
           NEW ds \in Seq(FrameSet), Len(ds) = m, \A q \in 1..Len(ds) : ds[q] = cs[q],
           NEW dx \in Seq(ContextSet), Len(dx) = Len(cx) - 1, \A i \in 1..Len(dx) : dx[i] = cx[i],
           \A i \in 1..Len(dx) : /\ cx[i].caller <= m
                                 /\ cx[i].type = "try" => cx[i].catcher <= m,
           \A q \in 1..m : cs[q].fn = "jump" => cs[q].n # Len(cx),
           \A q \in 1..m : q < m => (Doomed(cs, cx, q) <=> Doomed(ds, cx, q)),
           m <= cx[Len(cx)].caller + 1,
           cx[Len(cx)].type = "sub" => cx[Len(cx)].caller = m
    PROVE  /\ Shape(ds, dx)
           /\ \A q \in 1..m : q < m => SubOK(ds, dx, q)
           /\ \A q \in 1..m : Doomed(ds, cx, q) <=> Doomed(ds, dx, q)
<1> DEFINE n == Len(cs)
           k == Len(cx)
           h == Len(dx)
<1>0. /\ n \in Nat /\ k \in Nat /\ h \in Nat /\ m \in Nat /\ m <= n /\ k > 0 /\ h = k - 1
      /\ \A q \in 1..n : FrameOK(cs, cx, q)
      /\ \A q \in 1..m : q \in 1..n /\ q \in Nat
  <2>1. n \in Nat /\ k \in Nat /\ h \in Nat /\ k > 0
      BY FrameTypes, ContextTypes
  <2> QED
      BY <2>1 DEF Shape
<1>k. /\ k \in 1..k /\ h < k
      /\ \A i \in 1..k : i # k => i \in 1..h
      /\ cx[k].caller \in Nat
  <2>1. k \in 1..k
      BY <1>0
  <2> QED
      BY <1>0, <2>1, ContextTypes
<1>x. /\ \A q \in 1..m : ds[q] = cs[q]
      /\ \A i \in 1..h : dx[i] = cx[i]
      /\ Len(ds) = m /\ cs[m].fn \in Loops
    OBVIOUS
<1>s. \A q \in 1..n : SubOK(cs, cx, q)
    BY DEF Subs
<1>1. \A i \in 1..h : /\ cx[i].caller <= m
                      /\ cx[i].type = "try" => cx[i].catcher <= m
    OBVIOUS
<1>2. \A q \in 1..m : cs[q].fn = "jump" => cs[q].n # k
    OBVIOUS
<1>3. \A q \in 1..m : q < m => (Doomed(cs, cx, q) <=> Doomed(ds, cx, q))
    OBVIOUS
<1>4. m <= cx[k].caller + 1 /\ (cx[k].type = "sub" => cx[k].caller = m)
    OBVIOUS
<1> HIDE DEF n, k, h
\* No sequence of C functions has Perl code in the middle.
<1>f. \A q \in 1..m : q + 3 > m /\ q + 3 <= n /\ cs[q].fn \notin Loops =>
          m \in 1..n /\ q + 3 \in 1..n /\ (m = (q + 3) - 1 \/ m = (q + 3) - 2)
  <2> SUFFICES ASSUME NEW q \in 1..m, q + 3 > m, q + 3 <= n, cs[q].fn \notin Loops
               PROVE  m \in 1..n /\ q + 3 \in 1..n /\ (m = (q + 3) - 1 \/ m = (q + 3) - 2)
      OBVIOUS
  <2>1. q # m /\ q \in Nat
      BY <1>0, <1>x
  <2> QED
      BY <1>0, <2>1
<1>5. ASSUME NEW q \in 1..m, cs[q].fn = "jump"
      PROVE  /\ cs[q].n <= h
             /\ q + 3 > m /\ q + 3 <= n /\ cs[q + 3].fn = "unwind" =>
                    \A j \in 1..h : j > cs[q].n => cx[j].caller > q
  <2>1. cs[q].n \in 1..k
      BY <1>0, <1>5 DEF FrameOK, JumpOK, k
  <2>2. cs[q].n <= h
      BY <1>0, <1>2, <1>5, <2>1
  <2>3. ~(q + 3 > m /\ q + 3 <= n /\ cs[q + 3].fn = "unwind")
    <3> SUFFICES ASSUME q + 3 > m, q + 3 <= n, cs[q + 3].fn = "unwind" PROVE FALSE
        OBVIOUS
    <3>1. q + 3 \in 1..n /\ (m = (q + 3) - 1 \/ m = (q + 3) - 2)
        BY <1>5, <1>f DEF Loops
    <3>2. cs[(q + 3) - 1].fn = "tmps" /\ cs[(q + 3) - 2].fn = "leave"
        BY <1>0, <3>1 DEF FrameOK, Placed
    <3> QED
        BY <1>x, <3>1, <3>2 DEF Loops
  <2> QED
      BY <2>2, <2>3
<1>6. ASSUME NEW q \in 1..m, cs[q].fn \in {"pop", "return"}, ~Doomed(ds, cx, q)
      PROVE  \E i \in 1..h : /\ Own(cs, cx, i, q) /\ cx[i].type \in Ends(cs, q)
                             /\ q < n => cs[q + 1].n = cx[i].saveix
  <2>1. q < m /\ q \in Nat
    <3>1. q # m
        BY <1>6, <1>x DEF Loops
    <3> QED
        BY <1>0, <3>1
  <2>2. PICK i \in 1..k : /\ Own(cs, cx, i, q) /\ cx[i].type \in Ends(cs, q)
                          /\ q < n => cs[q + 1].n = cx[i].saveix
      BY <1>0, <1>3, <1>6, <2>1 DEF FrameOK, PopOK, k, n
  <2>3. i # k
    <3> SUFFICES ASSUME i = k PROVE FALSE
        OBVIOUS
    <3>1. cx[k].caller < q
        BY <2>2 DEF Own
    <3> QED
        BY <1>0, <1>4, <1>k, <2>1, <3>1
  <2> QED
      BY <1>k, <2>2, <2>3
<1>7. \A q \in 1..m : cs[q].fn = "done" =>
          (q + 3 > m /\ q + 3 <= n /\ cs[q + 3].fn = "pop" /\ cs[q + 2].fn = "tmps"
               => \A i \in 1..h : cx[i].caller # q - 1)
  <2> SUFFICES ASSUME NEW q \in 1..m, cs[q].fn = "done", q + 3 > m, q + 3 <= n,
                      cs[q + 3].fn = "pop", cs[q + 2].fn = "tmps"
               PROVE  FALSE
      OBVIOUS
  <2>1. q + 3 \in 1..n /\ (m = (q + 3) - 1 \/ m = (q + 3) - 2)
      BY <1>f DEF Loops
  <2>2. (q + 3) - 1 = q + 2
      BY <1>0
  <2>3. cs[(q + 3) - 1].fn = "tmps" /\ cs[(q + 3) - 2].fn = "leave"
      BY <1>0, <2>1, <2>2 DEF FrameOK, Placed, Loops
  <2> QED
      BY <1>x, <2>1, <2>3 DEF Loops
<1>8. Shape(ds, dx) /\ \A q \in 1..m : Doomed(ds, cx, q) <=> Doomed(ds, dx, q)
  <2>1. Severed(cs, cx, ds, dx)
      BY <1>1, <1>5, <1>6, <1>7, <1>x DEF Severed, n, k, h
  <2>2. m <= n /\ h <= k
      BY <1>0, <1>k
  <2> QED
      BY <1>x, <2>1, <2>2, Cut, Zenon DEF n, k, h
<1>9. ASSUME NEW q \in 1..m, q < m PROVE SubOK(ds, dx, q)
  <2>1. SubOK(cs, cx, q) /\ ds[q] = cs[q] /\ (Doomed(cs, cx, q) <=> Doomed(ds, dx, q))
      BY <1>0, <1>3, <1>8, <1>9, <1>s, <1>x
  <2>2. q + 1 \in 1..m /\ ds[q + 1] = cs[q + 1]
    <3>1. q + 1 \in 1..m
        BY <1>0, <1>9
    <3> QED
        BY <1>x, <3>1
  <2>3. \A i \in 1..k : cx[i].caller = q /\ cx[i].type = "sub" => i \in 1..h /\ dx[i] = cx[i]
    <3>1. q # m
        BY <1>0, <1>9
    <3>2. \A i \in 1..k : cx[i].caller = q /\ cx[i].type = "sub" => i # k
        BY <1>4, <3>1
    <3> QED
        BY <1>k, <1>x, <3>2
  <2> QED
      BY <1>9, <1>x, <2>1, <2>2, <2>3 DEF SubOK, k, h
<1> QED
    BY <1>8, <1>9

\* The Perl code of a C call has returned or died: the call ends, which takes
\* its eval with it if that is still there.
IsEnding(cs, cx, p, ds) ==
    /\ ds[p + 1] = CFrame("done", 0) /\ ds[p + 2] = CFrame("leave", cs[p].n)
    /\ ds[p + 3] = CFrame("tmps", 0)
    /\ \/ Len(ds) = p + 3 /\ \A i \in 1..Len(cx) : cx[i].caller # p
       \/ /\ Len(ds) = p + 5
          /\ ds[p + 4] = CFrame("pop", 0) /\ ds[p + 5] = CFrame("leave", cs[p].n + 1)
          /\ cx # <<>> /\ cx[Len(cx)].type = "destroy" /\ cx[Len(cx)].caller = p

LEMMA Ending ==
    ASSUME NEW cs \in Seq(FrameSet), NEW cx \in Seq(ContextSet), cs # <<>>, Shape(cs, cx),
           NEW p, p = Len(cs), cs[p].fn \in {"call", "destroy"},
           \A q \in 1..p : q < p => SubOK(cs, cx, q),
           NEW ds \in Seq(FrameSet), \A q \in 1..p : ds[q] = cs[q],
           IsEnding(cs, cx, p, ds)
    PROVE  Shape(ds, cx) /\ Subs(ds, cx)
<1> DEFINE n == Len(ds)
           k == Len(cx)
<1>e. /\ ds[p + 1] = CFrame("done", 0) /\ ds[p + 2] = CFrame("leave", cs[p].n)
      /\ ds[p + 3] = CFrame("tmps", 0)
      /\ \/ Len(ds) = p + 3 /\ \A i \in 1..Len(cx) : cx[i].caller # p
         \/ /\ Len(ds) = p + 5
            /\ ds[p + 4] = CFrame("pop", 0) /\ ds[p + 5] = CFrame("leave", cs[p].n + 1)
            /\ cx # <<>> /\ cx[Len(cx)].type = "destroy" /\ cx[Len(cx)].caller = p
    BY DEF IsEnding
<1>0. /\ n \in Nat /\ p \in Nat /\ k \in Nat /\ p > 0 /\ p <= n /\ p \in 1..p /\ p \in 1..n
      /\ (n = p + 3 \/ n = p + 5)
    BY <1>e, FrameTypes, ContextTypes
<1>1. /\ ds[p].fn \in {"call", "destroy"} /\ ds[p] = cs[p]
      /\ ds[p + 1].fn = "done" /\ ds[p + 2].fn = "leave" /\ ds[p + 2].n = ds[p].n
      /\ ds[p + 3].fn = "tmps"
    BY <1>e, <1>0 DEF CFrame
<1>2. n = p + 5 => /\ ds[p + 4].fn = "pop" /\ ds[p + 5].fn = "leave"
                   /\ ds[p + 5].n = cs[p].n + 1
                   /\ k > 0 /\ k \in 1..k /\ cx[k].type = "destroy" /\ cx[k].caller = p
    BY <1>e, <1>0 DEF CFrame
<1>3. n = p + 3 => \A i \in 1..k : cx[i].caller # p
    BY <1>e, <1>0
<1>x. /\ \A q \in 1..p : ds[q] = cs[q]
      /\ \A i \in 1..k : ContextOK(cs, cx, i)
      /\ p = Len(cs) /\ n = Len(ds) /\ k = Len(cx)
      /\ \A q \in 1..p : q < p => SubOK(cs, cx, q)
    BY DEF Shape
<1>v. \A i \in 1..k : cx[i].caller \in 1..p
    BY <1>x DEF ContextOK
<1> HIDE DEF n, k
<1>4. \A q \in p + 1..n : \/ q = p + 1 \/ q = p + 2 \/ q = p + 3
                          \/ n = p + 5 /\ (q = p + 4 \/ q = p + 5)
    BY <1>0
<1>f. \A q \in p + 1..n : ds[q].fn \in {"done", "leave", "tmps", "pop"}
    BY <1>1, <1>2, <1>4
<1>5. n = p + 5 => \A i \in 1..k : i # k => cx[i].caller < p
  <2> SUFFICES ASSUME n = p + 5, NEW i \in 1..k, i # k PROVE cx[i].caller < p
      OBVIOUS
  <2>1. i \in 1..k - 1
      BY <1>0
  <2> QED
      BY <1>2, <1>x, <2>1 DEF ContextOK
<1>6. ASSUME NEW q \in p + 1..n PROVE Placed(ds, q)
  <2>1. q # 1
      BY <1>0
  <2>2. CASE q = p + 1
    <3>1. q - 1 = p
        BY <1>0, <2>2
    <3> QED
        BY <1>1, <2>1, <2>2, <3>1 DEF Placed, Loops
  <2>3. CASE q = p + 2
    <3>1. q - 1 = p + 1
        BY <1>0, <2>3
    <3> QED
        BY <1>1, <2>1, <2>3, <3>1 DEF Placed, Loops
  <2>4. CASE q = p + 3
    <3>1. q - 1 = p + 2
        BY <1>0, <2>4
    <3> QED
        BY <1>1, <2>1, <2>4, <3>1 DEF Placed, Loops
  <2>5. CASE n = p + 5 /\ q = p + 4
    <3>1. q - 1 = p + 3 /\ q - 2 = p + 2 /\ q - 3 = p + 1 /\ q > 3
        BY <1>0, <2>5
    <3> QED
        BY <1>1, <1>2, <2>1, <2>5, <3>1 DEF Placed, Loops
  <2>6. CASE n = p + 5 /\ q = p + 5
    <3>1. q - 1 = p + 4
        BY <1>0, <2>6
    <3> QED
        BY <1>2, <2>1, <2>6, <3>1 DEF Placed, Loops
  <2> QED
      BY <1>4, <2>2, <2>3, <2>4, <2>5, <2>6
<1>7. ASSUME NEW q \in p + 1..n PROVE PopOK(ds, cx, q)
  <2> SUFFICES ASSUME ds[q].fn \in {"pop", "return"} PROVE PopOK(ds, cx, q)
      BY DEF PopOK
  <2>1. n = p + 5 /\ q = p + 4
      BY <1>1, <1>2, <1>4
  <2>2. q - 1 = p + 3 /\ q + 1 = p + 5 /\ p < q
      BY <1>0, <2>1
  <2>3. Own(ds, cx, k, q)
    <3>1. \A m \in cx[k].caller + 1..q : m \in p + 1..n
        BY <1>0, <1>2, <2>1
    <3>2. \A m \in cx[k].caller + 1..q : ds[m].fn \notin CallFns
        BY <1>f, <3>1 DEF CallFns
    <3>3. \A j \in 1..k : ~(j > k)
        BY <1>0
    <3> QED
        BY <1>2, <1>x, <2>1, <2>2, <3>2, <3>3 DEF Own
  <2>4. cx[k].type \in Ends(ds, q)
      BY <1>1, <1>2, <2>1, <2>2 DEF Ends
  <2>5. ds[q + 1].n = cx[k].saveix
      BY <1>2, <1>x, <2>1, <2>2 DEF ContextOK
  <2> QED
      BY <1>2, <1>x, <2>1, <2>3, <2>4, <2>5 DEF PopOK
<1>8. ASSUME NEW q \in p + 1..n PROVE DoneOK(ds, cx, q)
  <2> SUFFICES ASSUME ds[q].fn = "done" PROVE DoneOK(ds, cx, q)
      BY DEF DoneOK
  <2>1. q = p + 1
      BY <1>1, <1>2, <1>4
  <2>2. q - 1 = p /\ q + 1 = p + 2 /\ q + 2 = p + 3 /\ q + 3 = p + 4
      BY <1>0, <2>1
  <2>3. \A i \in 1..k : cx[i].caller = p => cx[i].type = "destroy"
    <3>1. n = p + 5 => \A i \in 1..k : cx[i].caller = p => i = k
      <4>1. \A u \in 1..p : u < p => u # p
          BY <1>0
      <4> QED
          BY <1>5, <1>v, <4>1, Zenon
    <3> QED
        BY <1>0, <1>2, <1>3, <3>1, Zenon
  <2>4. \/ q + 3 <= n /\ ds[q + 3].fn = "pop" /\ ds[q + 2].fn = "tmps"
        \/ \A i \in 1..k : cx[i].caller # q - 1
    <3>1. CASE n = p + 5
      <4>1. p + 4 <= n
          BY <1>0, <3>1
      <4> QED
          BY <1>1, <1>2, <2>2, <3>1, <4>1
    <3>2. CASE n = p + 3
        BY <1>3, <2>2, <3>2
    <3> QED
        BY <1>0, <3>1, <3>2
  <2>5. ds[q + 1].n = ds[q - 1].n
      BY <1>1, <2>2
  <2>6. \A i \in 1..k : cx[i].caller = q - 1 => cx[i].type = "destroy"
      BY <2>2, <2>3
  <2> QED
      BY <1>x, <2>4, <2>5, <2>6 DEF DoneOK
<1>9. Shape(ds, cx)
  <2>1. \A q \in p + 1..n : FrameOK(ds, cx, q)
      BY <1>6, <1>7, <1>8, <1>f DEF FrameOK, JumpOK, SavedOK
  <2>2. cs[p].fn \in Loops \cup {"leave", "tmps", "unwind"}
      BY DEF Loops
  <2> QED
      BY <1>0, <1>x, <2>1, <2>2, Extended, Zenon
<1>10. ASSUME NEW q \in 1..n PROVE SubOK(ds, cx, q)
  <2> SUFFICES ASSUME ds[q].fn \in {"call", "destroy"}, ~Doomed(ds, cx, q)
               PROVE  SubOK(ds, cx, q)
      BY DEF SubOK
  <2>1. q \in 1..p /\ q \in Nat
    <3>1. q \notin p + 1..n
        BY <1>f
    <3> QED
        BY <1>0, <3>1
  <2>2. CASE q = p
    <3>1. p < n
        BY <1>0
    <3> QED
        BY <1>1, <1>x, <2>2, <3>1 DEF SubOK
  <2>3. CASE q < p
    <3>1. SubOK(cs, cx, q) /\ ds[q] = cs[q]
        BY <1>x, <2>1, <2>3
    <3>2. ~Doomed(cs, cx, q)
      <4>1. Len(cs) <= Len(ds) /\ (\A l \in 1..Len(cs) : ds[l] = cs[l]) /\ q \in 1..Len(cs)
          BY <1>0, <1>x, <2>1
      <4> QED
          BY <4>1, DoomedStays
    <3>3. q + 1 \in 1..p /\ q < n /\ ds[q + 1] = cs[q + 1]
      <4>1. q + 1 \in 1..p /\ q < n
          BY <1>0, <2>1, <2>3
      <4> QED
          BY <1>x, <4>1
    <3> QED
        BY <1>x, <3>1, <3>2, <3>3 DEF SubOK
  <2> QED
      BY <1>0, <2>1, <2>2, <2>3
<1> QED
    BY <1>9, <1>10, <1>x DEF Subs

\* pp_leavesub: call_sv goes on where it had called the sub.
Returned(cs, p, ds, dx) ==
    /\ cs[p].fn \in {"call", "destroy"}
    /\ Shape(ds, dx)
    /\ \A q \in 1..p : q < p => SubOK(ds, dx, q)
    /\ cs[p].fn = "call" => \A i \in 1..Len(dx) : dx[i].caller # p
    /\ cs[p].fn = "destroy" =>
          dx # <<>> /\ dx[Len(dx)].type = "destroy" /\ dx[Len(dx)].caller = p

LEMMA ReturnDone ==
    ASSUME NEW cs \in Seq(FrameSet), NEW cx \in Seq(ContextSet), cs # <<>>,
           Shape(cs, cx), Subs(cs, cx), cs[Len(cs)].fn = "return",
           NEW p, p = cx[Len(cx)].caller,
           NEW ds \in Seq(FrameSet), Len(ds) = p, \A q \in 1..Len(ds) : ds[q] = cs[q],
           NEW dx \in Seq(ContextSet), Len(dx) = Len(cx) - 1, \A i \in 1..Len(dx) : dx[i] = cx[i]
    PROVE  Returned(cs, p, ds, dx)
<1> DEFINE n == Len(cs)
           k == Len(cx)
           h == Len(dx)
<1>t. cs[n].fn \in {"pop", "return"} /\ cs[n].fn = "return" /\ cs[n].fn # "main"
    OBVIOUS
<1>0. n \in Nat /\ k \in Nat /\ h \in Nat /\ n > 1 /\ \A q \in 1..n : FrameOK(cs, cx, q)
  <2>1. n \in Nat /\ k \in Nat /\ h \in Nat
      BY FrameTypes, ContextTypes
  <2>2. n > 1
      BY <1>t, Below1, Zenon
  <2> QED
      BY <2>1, <2>2 DEF Shape
<1>1. k > 0 /\ k \in 1..k /\ Own(cs, cx, k, n) /\ cx[k].type \in Ends(cs, n)
    BY <1>t, EndOwns, Zenon
<1>2. p \in 1..n /\ cs[p].fn \in CallFns /\ Alone(cs, p)
    BY <1>t, OwnAlone, Zenon
<1>k. /\ h = k - 1 /\ h < k /\ p \in Nat /\ p < n /\ p >= 1 /\ p = cx[k].caller
      /\ \A i \in 1..h : i \in 1..k /\ i < k /\ i \in 1..k - 1
  <2>1. cx[k].caller < n
      BY <1>1 DEF Own
  <2> QED
      BY <1>0, <1>1, <1>2, <2>1
<1>x. /\ \A q \in 1..p : ds[q] = cs[q]
      /\ \A i \in 1..h : dx[i] = cx[i]
      /\ Ordered(cx) /\ \A i \in 1..k : ContextOK(cs, cx, i)
      /\ Len(ds) = p /\ n = Len(cs) /\ k = Len(cx) /\ h = Len(dx)
    BY DEF Shape
<1>3. cx[k].type = "sub"
    BY <1>1, <1>t DEF Ends
<1>4. \/ cs[p].fn = "call" /\ \A j \in 1..k - 1 : cx[j].caller < p
      \/ /\ cs[p].fn = "destroy"
         /\ k > 1 /\ cx[k - 1].type = "destroy" /\ cx[k - 1].caller = p
    BY <1>1, <1>3, <1>k, <1>x DEF ContextOK
<1>v. \A i \in 1..k : cx[i].caller \in Nat /\ cx[i].catcher \in Nat
    BY ContextTypes
<1> HIDE DEF n, k, h
<1>5. ASSUME NEW i \in 1..h
      PROVE  /\ cx[i].caller <= p
             /\ cx[i].type = "try" => cx[i].catcher <= p
  <2>1. cx[i].caller <= p
      BY <1>1, <1>k, <1>x DEF Ordered
  <2>2. ASSUME cx[i].type = "try" PROVE cx[i].catcher <= p
    <3>1. \/ cx[i].catcher = cx[i].caller
          \/ cx[i].catcher = cx[i].caller + 1 /\ cs[cx[i].caller].fn = "call"
      <4>1. i \in 1..k /\ ContextOK(cs, cx, i) /\ cx[i].type \in Evals
          BY <1>k, <1>x, <2>2 DEF Evals
      <4> QED
          BY <1>x, <4>1, EvalAt, Zenon
    <3>2. cx[i].caller = p => cs[p].fn # "call"
      <4> SUFFICES ASSUME cx[i].caller = p, cs[p].fn = "call" PROVE FALSE
          OBVIOUS
      <4>1. cx[i].caller < p
          BY <1>4, <1>k
      <4> QED
          BY <1>k, <4>1
    <3>3. cx[i].caller \in Nat /\ cx[i].catcher \in Nat
        BY <1>k, <1>v
    <3>4. \A u, v, w \in Nat : u <= v /\ (w = u \/ (w = u + 1 /\ u # v)) => w <= v
        OBVIOUS
    <3>5. cx[i].catcher = cx[i].caller \/ (cx[i].catcher = cx[i].caller + 1 /\ cx[i].caller # p)
        BY <3>1, <3>2
    <3> QED
        BY <1>k, <2>1, <3>3, <3>4, <3>5, Zenon
  <2> QED
      BY <2>1, <2>2
<1>6. \A q \in 1..p : cs[q].fn = "jump" => cs[q].n # k
  <2> SUFFICES ASSUME NEW q \in 1..p, cs[q].fn = "jump" PROVE cs[q].n # k
      OBVIOUS
  <2>1. cx[cs[q].n].type \in Evals
      BY <1>0, <1>k DEF FrameOK, JumpOK
  <2> QED
      BY <1>3, <2>1 DEF Evals
<1>7. \A q \in 1..p : Doomed(cs, cx, q) <=> Doomed(ds, cx, q)
  <2>1. \A r \in p + 1..n : cs[r].fn # "jump"
    <3> SUFFICES ASSUME NEW r \in p + 1..n PROVE cs[r].fn # "jump"
        OBVIOUS
    <3>1. CASE p + 1 = n
      <4>1. r = n
          BY <1>0, <1>k, <3>1
      <4> QED
          BY <1>t, <4>1
    <3>2. CASE p + 2 = n /\ cs[p + 1].fn = "docatch"
      <4>1. r = n \/ r = p + 1
        <5>1. \A u, v \in Nat : u + 2 = v => \A l \in u + 1..v : l = v \/ l = u + 1
            OBVIOUS
        <5> QED
            BY <1>0, <1>k, <3>2, <5>1, Zenon
      <4> QED
          BY <1>t, <3>2, <4>1
    <3>3. CASE p + 4 = n /\ cs[p + 4].fn = "pop"
        BY <1>t, <3>3
    <3> QED
        BY <1>2, <1>x, <3>1, <3>2, <3>3 DEF Alone
  <2>2. p <= n
      BY <1>0, <1>k
  <2> QED
      BY <1>x, <2>1, <2>2, NoJumpAbove, Zenon
<1>8. Shape(ds, dx) /\ \A q \in 1..p : q < p => SubOK(ds, dx, q)
  <2>1. p <= cx[k].caller + 1 /\ cs[p].fn \in Loops
      BY <1>4, <1>k DEF Loops
  <2>2. cx # <<>>
      BY <1>1, <1>x
  <2> QED
      BY <1>2, <1>5, <1>6, <1>7, <1>k, <1>x, <2>1, <2>2, Resumed, Zenon
<1>9. cs[p].fn = "call" => \A i \in 1..h : dx[i].caller # p
  <2> SUFFICES ASSUME cs[p].fn = "call", NEW i \in 1..h PROVE cx[i].caller # p
      BY <1>x
  <2>1. cx[i].caller < p
      BY <1>4, <1>k
  <2> QED
      BY <1>k, <2>1
<1>10. cs[p].fn = "destroy" => dx # <<>> /\ dx[h].type = "destroy" /\ dx[h].caller = p
  <2> SUFFICES ASSUME cs[p].fn = "destroy"
               PROVE  dx # <<>> /\ dx[h].type = "destroy" /\ dx[h].caller = p
      OBVIOUS
  <2>1. k > 1 /\ cx[k - 1].type = "destroy" /\ cx[k - 1].caller = p
      BY <1>4
  <2>2. h \in 1..h /\ h > 0 /\ h = k - 1
      BY <1>0, <1>k, <2>1
  <2> QED
      BY <1>x, <2>1, <2>2
<1> QED
    BY <1>4, <1>8, <1>9, <1>10, <1>x DEF Returned

\* die_unwind jumps to where the eval was entered.
Resumes(cs, cx, m, ds, dx) ==
    /\ m \in 1..Len(cs) /\ cs[m].fn \in {"main", "destroy", "docatch"}
    /\ Shape(ds, dx)
    /\ \A q \in 1..m : q < m => SubOK(ds, dx, q)
    /\ cx[Len(cx)].type = "try" => SubOK(ds, dx, m)
    /\ cx[Len(cx)].type = "destroy" =>
          cs[m].fn = "destroy" /\ \A i \in 1..Len(dx) : dx[i].caller # m

LEMMA JumpDone ==
    ASSUME NEW cs \in Seq(FrameSet), NEW cx \in Seq(ContextSet), cs # <<>>,
           Shape(cs, cx), Subs(cs, cx), cs[Len(cs)].fn = "jump",
           NEW m, m = cx[Len(cx)].catcher,
           NEW ds \in Seq(FrameSet), Len(ds) = m, \A q \in 1..Len(ds) : ds[q] = cs[q],
           NEW dx \in Seq(ContextSet), Len(dx) = Len(cx) - 1, \A i \in 1..Len(dx) : dx[i] = cx[i]
    PROVE  Resumes(cs, cx, m, ds, dx)
<1> DEFINE n == Len(cs)
           k == Len(cx)
           h == Len(dx)
<1>t. cs[n].fn = "jump" /\ cs[n].fn # "main"
    OBVIOUS
<1>0. n \in Nat /\ k \in Nat /\ h \in Nat /\ n > 1 /\ \A q \in 1..n : FrameOK(cs, cx, q)
  <2>1. n \in Nat /\ k \in Nat /\ h \in Nat
      BY FrameTypes, ContextTypes
  <2>2. n > 1
      BY <1>t, Below1, Zenon
  <2> QED
      BY <2>1, <2>2 DEF Shape
<1>1. /\ k > 0 /\ k \in 1..k /\ cs[n].n = k
      /\ cx[k].type \in Evals /\ cx[k].catcher < n
    BY <1>t, JumpOwns, Zenon
<1>x. /\ \A q \in 1..m : ds[q] = cs[q]
      /\ \A i \in 1..h : dx[i] = cx[i]
      /\ Ordered(cx) /\ \A i \in 1..k : ContextOK(cs, cx, i)
      /\ Len(ds) = m /\ n = Len(cs) /\ k = Len(cx) /\ h = Len(dx)
      /\ m = cx[k].catcher
      /\ \A q \in 1..n : SubOK(cs, cx, q)
    BY DEF Shape, Subs
<1>p. PICK p : p = cx[k].caller
    OBVIOUS
<1>2. /\ p \in 1..n /\ m \in 1..n /\ cs[m].fn \in {"main", "destroy", "docatch"}
      /\ \/ m = p
         \/ m = p + 1 /\ cs[m].fn = "docatch" /\ cs[p].fn = "call" /\ cx[k].type = "try"
  <2>1. /\ cx[k].caller \in 1..n /\ cx[k].catcher \in 1..n
        /\ cs[cx[k].catcher].fn \in {"main", "destroy", "docatch"}
        /\ \/ cx[k].catcher = cx[k].caller
           \/ /\ cx[k].catcher = cx[k].caller + 1 /\ cx[k].type = "try"
              /\ cs[cx[k].catcher].fn = "docatch" /\ cs[cx[k].caller].fn = "call"
      BY <1>1, <1>x, EvalAt, Zenon
  <2> QED
      BY <1>p, <1>x, <2>1
<1>k. /\ h = k - 1 /\ h < k /\ p \in Nat /\ m \in Nat /\ m < n /\ p <= m /\ m <= p + 1
      /\ \A i \in 1..h : i \in 1..k /\ i < k /\ i \in 1..k - 1
      /\ \A i \in 1..k : i # k => i \in 1..h
    BY <1>0, <1>1, <1>2
<1>v. \A i \in 1..k : cx[i].caller \in Nat /\ cx[i].catcher \in Nat
    BY ContextTypes
<1> HIDE DEF n, k, h
<1>o. \A i \in 1..h : cx[i].caller <= p
    BY <1>1, <1>k, <1>p, <1>x DEF Ordered
<1>d. cx[k].type = "destroy" => /\ cs[m].fn = "destroy" /\ p = m
                                /\ \A j \in 1..k - 1 : cx[j].caller < m
    BY <1>1, <1>p, <1>x, <1>2 DEF ContextOK
<1>5. ASSUME NEW i \in 1..h
      PROVE  /\ cx[i].caller <= m
             /\ cx[i].type = "try" => cx[i].catcher <= m
  <2>1. cx[i].caller <= p /\ cx[i].caller \in Nat /\ cx[i].catcher \in Nat
      BY <1>k, <1>o, <1>v
  <2>2. ASSUME cx[i].type = "try" PROVE cx[i].catcher <= m
    <3>1. \/ cx[i].catcher = cx[i].caller
          \/ cx[i].catcher = cx[i].caller + 1 /\ cs[cx[i].caller].fn = "call"
      <4>1. i \in 1..k /\ ContextOK(cs, cx, i) /\ cx[i].type \in Evals
          BY <1>k, <1>x, <2>2 DEF Evals
      <4> QED
          BY <1>x, <4>1, EvalAt, Zenon
    <3>2. m = p => cs[p].fn # "call"
        BY <1>2
    <3>3. \A u, v, w \in Nat : u <= v /\ (w = u \/ (w = u + 1 /\ u # v)) => w <= v
        OBVIOUS
    <3>4. \A u, v, w \in Nat : u <= v /\ (w = u \/ w = u + 1) => w <= v + 1
        OBVIOUS
    <3>5. CASE m = p
      <4>1. cx[i].catcher = cx[i].caller \/ (cx[i].catcher = cx[i].caller + 1 /\ cx[i].caller # p)
          BY <3>1, <3>2, <3>5
      <4>2. cx[i].catcher <= p
          BY <1>k, <2>1, <3>3, <4>1, Zenon
      <4> QED
          BY <3>5, <4>2
    <3>6. CASE m = p + 1
        BY <1>k, <2>1, <3>1, <3>4, <3>6, Zenon
    <3> QED
        BY <1>2, <3>5, <3>6
  <2>3. cx[i].caller <= m
      BY <1>k, <2>1
  <2> QED
      BY <2>2, <2>3
<1>6. \A q \in 1..m : cs[q].fn = "jump" => cs[q].n # k
  <2> SUFFICES ASSUME NEW q \in 1..m, cs[q].fn = "jump", cs[q].n = k PROVE FALSE
      OBVIOUS
  <2>1. q \in 1..n
      BY <1>0, <1>k
  <2>2. cx[cs[q].n].catcher < q
      BY <1>0, <2>1 DEF FrameOK, JumpOK
  <2> QED
      BY <1>k, <1>x, <2>2
\* The other dies that are above go to the same eval.
<1>7. \A r \in m + 1..n : cs[r].fn = "jump" => cs[r].n = k
  <2> SUFFICES ASSUME NEW r \in m + 1..n, cs[r].fn = "jump", cs[r].n # k PROVE FALSE
      OBVIOUS
  <2>1. r \in 1..n /\ r > m /\ r \in Nat
      BY <1>0, <1>k
  <2>2. JumpOK(cs, cx, r)
      BY <1>0, <2>1 DEF FrameOK
  <2>3. cs[r].n \in 1..k /\ \A j \in 1..k : j > cs[r].n /\ cx[j].type \in Evals => cx[j].catcher > r
      BY <1>x, <2>2 DEF JumpOK
  <2>4. k > cs[r].n
      BY <1>0, <2>3
  <2>5. m > r
      BY <1>1, <1>x, <2>3, <2>4
  <2> QED
      BY <1>k, <2>1, <2>5
<1>8. \A q \in 1..m : Doomed(cs, cx, q) =>
          Doomed(ds, cx, q) \/ (q = m /\ cx[k].type = "destroy")
  <2> SUFFICES ASSUME NEW q \in 1..m, Doomed(cs, cx, q), ~(q = m /\ cx[k].type = "destroy")
               PROVE  Doomed(ds, cx, q)
      OBVIOUS
  <2>1. PICK r \in q + 1..n : Dooms(cs, cx, r, q)
      BY <1>x DEF Doomed
  <2>2. r \notin m + 1..n
    <3> SUFFICES ASSUME r \in m + 1..n PROVE FALSE
        OBVIOUS
    <3>1. cs[r].n = k
        BY <1>7, <2>1 DEF Dooms
    <3>2. m < q \/ (m = q /\ cx[k].type = "destroy")
        BY <1>x, <2>1, <3>1 DEF Dooms
    <3> QED
        BY <1>k, <3>2
  <2>3. r \in q + 1..m /\ r \in 1..m
      BY <1>0, <1>k, <2>2
  <2>4. Dooms(ds, cx, r, q)
      BY <1>x, <2>1, <2>3 DEF Dooms
  <2> QED
      BY <1>x, <2>3, <2>4 DEF Doomed
<1>9. \A q \in 1..m : Doomed(ds, cx, q) => Doomed(cs, cx, q)
  <2>1. m <= n
      BY <1>0, <1>k
  <2> QED
      BY <1>x, <2>1, DoomedStays, Zenon
<1>10. /\ Shape(ds, dx) /\ \A q \in 1..m : q < m => SubOK(ds, dx, q)
       /\ \A q \in 1..m : Doomed(ds, cx, q) <=> Doomed(ds, dx, q)
  <2>1. m <= cx[k].caller + 1 /\ cs[m].fn \in Loops
      BY <1>2, <1>k, <1>p DEF Loops
  <2>2. cx # <<>> /\ cx[k].type # "sub"
      BY <1>1, <1>x DEF Evals
  <2>3. \A q \in 1..m : q < m => (Doomed(cs, cx, q) <=> Doomed(ds, cx, q))
      BY <1>k, <1>8, <1>9
  <2> QED
      BY <1>2, <1>5, <1>6, <1>k, <1>x, <2>1, <2>2, <2>3, Resumed, Zenon
<1>11. ASSUME cx[k].type = "try" PROVE SubOK(ds, dx, m)
  <2>0. m \in 1..m
      BY <1>2, <1>k
  <2> SUFFICES ASSUME cs[m].fn \in {"call", "destroy"}, ~Doomed(ds, cx, m)
               PROVE  \E i \in 1..h : dx[i].caller = m /\ dx[i].type = "sub"
      BY <1>10, <1>x, <2>0 DEF SubOK
  <2>1. m = p /\ m \in 1..n /\ ds[m] = cs[m]
      BY <1>2, <1>x, <2>0
  <2>2. ~Doomed(cs, cx, m)
      BY <1>8, <1>11, <2>0
  <2>3. ~(cs[m + 1].fn = "done")
    <3> SUFFICES ASSUME cs[m + 1].fn = "done" PROVE FALSE
        OBVIOUS
    <3>1. m + 1 \in 1..n /\ (m + 1) - 1 = m
        BY <1>0, <1>k
    <3>2. DoneOK(cs, cx, m + 1)
        BY <1>0, <3>1 DEF FrameOK
    <3>3. cx[k].caller = (m + 1) - 1
        BY <1>p, <2>1, <3>1
    <3>4. cx[k].type = "destroy"
        BY <1>1, <1>x, <3>2, <3>3 DEF DoneOK
    <3> QED
        BY <1>11, <3>4
  <2>4. PICK i \in 1..k : cx[i].caller = m /\ cx[i].type = "sub"
      BY <1>x, <2>1, <2>2, <2>3 DEF SubOK
  <2>5. i # k
      BY <1>11, <2>4
  <2> QED
      BY <1>k, <1>x, <2>4, <2>5
<1>12. ASSUME cx[k].type = "destroy", NEW i \in 1..h PROVE dx[i].caller # m
  <2>1. cx[i].caller < m /\ dx[i] = cx[i]
      BY <1>d, <1>12, <1>k, <1>x
  <2> QED
      BY <1>k, <2>1
<1> QED
    BY <1>2, <1>d, <1>10, <1>11, <1>12, <1>x DEF Resumes

-----------------------------------------------------------------------------
(* Perl code runs: leaves blocks, dies, opens contexts *)

LEMMA CallerIs ==
    ASSUME NEW cs \in Seq(FrameSet), NEW cx, cs # <<>>, Shape(cs, cx),
           NEW p, p = Max({i \in DOMAIN cs : cs[i].fn \in {"main", "call", "destroy"}})
    PROVE  /\ p \in 1..Len(cs) /\ cs[p].fn \in CallFns
           /\ \A q \in p + 1..Len(cs) : cs[q].fn \notin CallFns
<1> DEFINE n == Len(cs)
           S == {i \in DOMAIN cs : cs[i].fn \in {"main", "call", "destroy"}}
<1>1. n \in Nat /\ n > 0 /\ DOMAIN cs = 1..n /\ 1 \in 1..n
    BY FrameTypes
<1>2. cs[1].fn = "main"
    BY <1>1 DEF Shape, FrameOK, Placed
<1>3. S \in SUBSET (1..n) /\ S # {}
    BY <1>1, <1>2
<1>p. p = Max(S)
    OBVIOUS
<1>s. \A i \in 1..n : i \in S <=> cs[i].fn \in CallFns
    BY <1>1 DEF CallFns
<1> HIDE DEF n, S
<1>4. p \in S /\ \A q \in S : q <= p
    BY <1>1, <1>3, <1>p, MaxIs
<1>5. \A q \in p + 1..n : q \notin S /\ q \in 1..n
  <2>1. p \in 1..n
      BY <1>3, <1>4
  <2> QED
      BY <1>1, <1>4, <2>1
<1> QED
    BY <1>3, <1>4, <1>5, <1>s DEF n

\* Perl code finds a context of the C call it runs in on top.
LEMMA TopIsCallers ==
    ASSUME NEW cs \in Seq(FrameSet), NEW cx \in Seq(ContextSet), cs # <<>>, cx # <<>>,
           Shape(cs, cx), Subs(cs, cx), cs[Len(cs)].fn \in Loops,
           NEW p \in 1..Len(cs), cs[p].fn \in CallFns,
           \A q \in p + 1..Len(cs) : cs[q].fn \notin CallFns
    PROVE  Len(cx) \in 1..Len(cx) /\ cx[Len(cx)].caller = p
<1> DEFINE n == Len(cs)
           k == Len(cx)
<1>1. /\ n \in Nat /\ k \in 1..k /\ k \in Nat /\ p \in Nat
      /\ \A i \in 1..k : cx[i].caller \in Nat
    BY FrameTypes, ContextTypes
<1>2. cx[k].caller \in 1..n /\ cs[cx[k].caller].fn \in CallFns
    BY <1>1 DEF Shape, ContextOK
<1>3. cx[k].caller <= p
  <2>1. cx[k].caller \notin p + 1..n
      BY <1>2
  <2> QED
      BY <1>1, <1>2, <2>1
<1>4. p # 1 => cs[p].fn \in {"call", "destroy"}
    BY DEF Shape, FrameOK, Placed, CallFns
<1>5. \/ p = n
      \/ p + 1 = n /\ cs[n].fn = "docatch"
    BY AboveCall
<1>6. cs[n].fn \in Loops
    OBVIOUS
<1>7. SubOK(cs, cx, p) /\ Ordered(cx)
    BY DEF Subs, Shape
<1> HIDE DEF n, k
<1>8. CASE p # 1
  <2>1. ~Doomed(cs, cx, p)
    <3>1. \A r \in p + 1..n : r = n
        BY <1>1, <1>5
    <3> QED
        BY <1>6, <3>1 DEF Doomed, Dooms, Loops, n
  <2>2. ~(p < n /\ cs[p + 1].fn = "done")
      BY <1>1, <1>5
  <2>3. PICK i \in 1..k : cx[i].caller = p
      BY <1>4, <1>7, <1>8, <2>1, <2>2 DEF SubOK, n, k
  <2>4. i < k => cx[i].caller <= cx[k].caller
      BY <1>1, <1>7 DEF Ordered, k
  <2> QED
      BY <1>1, <1>3, <2>3, <2>4 DEF k
<1>9. CASE p = 1
    BY <1>1, <1>2, <1>3, <1>9 DEF k
<1> QED
    BY <1>8, <1>9

\* A function that only works and waits for nothing.
LEMMA Idle ==
    ASSUME NEW cs, NEW cx, NEW q, cs[q].fn \in {"leave", "tmps", "unwind", "docatch"},
           Placed(cs, q)
    PROVE  FrameOK(cs, cx, q) /\ SubOK(cs, cx, q)
    BY DEF FrameOK, SubOK, JumpOK, PopOK, DoneOK, SavedOK

\* pp_nextstate, and docatch.
LEMMA OneCalled ==
    ASSUME NEW cs \in Seq(FrameSet), NEW cx \in Seq(ContextSet), cs # <<>>,
           Shape(cs, cx), Subs(cs, cx), cs[Len(cs)].fn \in Loops,
           NEW ds \in Seq(FrameSet), Len(ds) = Len(cs) + 1, \A q \in 1..Len(cs) : ds[q] = cs[q],
           \/ ds[Len(ds)].fn = "tmps"
           \/ ds[Len(ds)].fn = "docatch" /\ cs[Len(cs)].fn = "call"
    PROVE  Shape(ds, cx) /\ Subs(ds, cx)
<1> DEFINE n == Len(cs)
           m == Len(ds)
<1>1. n \in Nat /\ n > 0 /\ m = n + 1 /\ n \in 1..n /\ n <= m
    BY FrameTypes
<1>2. \A q \in n + 1..m : q = m /\ q # 1 /\ q - 1 = n /\ ds[q - 1] = cs[n]
    BY <1>1
<1>3. cs[n].fn \in Loops
    OBVIOUS
<1>4. ds[m].fn = "tmps" \/ (ds[m].fn = "docatch" /\ cs[n].fn = "call")
    OBVIOUS
<1> HIDE DEF n, m
<1>5. \A q \in n + 1..m : Placed(ds, q) /\ ds[q].fn \in {"leave", "tmps", "unwind", "docatch"}
    BY <1>2, <1>3, <1>4 DEF Placed, Loops
<1>6. \A q \in n + 1..m : FrameOK(ds, cx, q) /\ SubOK(ds, cx, q)
    BY <1>5, Idle
<1>7. Shape(ds, cx)
  <2>1. cs[Len(cs)].fn \in Loops \cup {"leave", "tmps", "unwind"}
      OBVIOUS
  <2> QED
      BY <1>1, <1>6, <2>1, Extended DEF n, m
<1>8. Subs(ds, cx)
    BY <1>1, <1>6, ExtendedSubs DEF n, m
<1> QED
    BY <1>7, <1>8

\* pp_leave, pp_leavetry, pp_leavesub.
LEMMA EndCalled ==
    ASSUME NEW cs \in Seq(FrameSet), NEW cx \in Seq(ContextSet), cs # <<>>, cx # <<>>,
           Shape(cs, cx), Subs(cs, cx), cs[Len(cs)].fn \in Loops,
           NEW p \in 1..Len(cs), cs[p].fn \in CallFns,
           \A q \in p + 1..Len(cs) : cs[q].fn \notin CallFns,
           NEW ds \in Seq(FrameSet), \A q \in 1..Len(cs) : ds[q] = cs[q],
           Len(ds) \in {Len(cs) + 2, Len(cs) + 3},
           \/ ds[Len(cs) + 1].fn = "pop" /\ cx[Len(cx)].type \in {"block", "try"}
           \/ ds[Len(cs) + 1].fn = "return" /\ cx[Len(cx)].type = "sub",
           ds[Len(cs) + 2].fn = "leave", ds[Len(cs) + 2].n = cx[Len(cx)].saveix,
           Len(ds) = Len(cs) + 3 => ds[Len(cs) + 3].fn = "tmps"
    PROVE  Shape(ds, cx) /\ Subs(ds, cx)
<1> DEFINE n == Len(cs)
           m == Len(ds)
           k == Len(cx)
<1>1. n \in Nat /\ n > 0 /\ n <= m /\ n \in 1..n /\ k \in Nat /\ p \in Nat /\ p <= n
    BY FrameTypes, ContextTypes
<1>2. k \in 1..k /\ cx[k].caller = p
    BY TopIsCallers
<1>3. /\ m = n + 2 \/ m = n + 3
      /\ cs[n].fn \in Loops
      /\ \/ ds[n + 1].fn = "pop" /\ cx[k].type \in {"block", "try"}
         \/ ds[n + 1].fn = "return" /\ cx[k].type = "sub"
      /\ ds[n + 2].fn = "leave" /\ ds[n + 2].n = cx[k].saveix
      /\ m = n + 3 => ds[n + 3].fn = "tmps"
    OBVIOUS
<1>4. ds[n] = cs[n]
    BY <1>1
<1>5. \A q \in p + 1..n : ds[q].fn \notin CallFns
  <2>1. \A q \in p + 1..n : q \in 1..n
      BY <1>1
  <2> QED
      BY <2>1
<1> HIDE DEF n, m, k
<1>6. \A q \in n + 1..m : \/ q = n + 1 /\ q - 1 = n
                          \/ q = n + 2 /\ q - 1 = n + 1
                          \/ q = n + 3 /\ q - 1 = n + 2 /\ m = n + 3
  <2>1. \A u \in Nat : \A q \in u + 1..u + 3 : \/ q = u + 1 /\ q - 1 = u
                                               \/ q = u + 2 /\ q - 1 = u + 1
                                               \/ q = u + 3 /\ q - 1 = u + 2
      OBVIOUS
  <2>2. \A q \in n + 1..m : q \in n + 1..n + 3 /\ (q = n + 3 => m = n + 3)
      BY <1>1, <1>3
  <2> QED
      BY <1>1, <2>1, <2>2, Zenon
<1>7. \A q \in n + 1..m : q # 1
    BY <1>1
<1>8. ASSUME NEW q \in n + 1..m PROVE Placed(ds, q)
  <2>1. CASE q = n + 1 /\ q - 1 = n
      BY <1>3, <1>4, <1>7, <2>1 DEF Placed, Loops
  <2>2. CASE q = n + 2 /\ q - 1 = n + 1
      BY <1>3, <1>7, <2>2 DEF Placed, Loops
  <2>3. CASE q = n + 3 /\ q - 1 = n + 2 /\ m = n + 3
      BY <1>3, <1>7, <2>3 DEF Placed, Loops
  <2> QED
      BY <1>6, <2>1, <2>2, <2>3
<1>9. ASSUME NEW q \in n + 1..m PROVE FrameOK(ds, cx, q) /\ SubOK(ds, cx, q)
  <2>1. CASE q # n + 1
    <3>1. ds[q].fn \in {"leave", "tmps", "unwind", "docatch"}
        BY <1>3, <1>6, <2>1
    <3> QED
        BY <1>8, <3>1, Idle
  <2>2. CASE q = n + 1
    <3>1. Own(ds, cx, k, q)
      <4>1. cx[k].caller < q
          BY <1>1, <1>2, <2>2
      <4>2. \A l \in cx[k].caller + 1..q : l \in p + 1..n \/ l = n + 1
          BY <1>1, <1>2, <2>2
      <4>3. \A j \in 1..k : ~(j > k)
          BY <1>1
      <4> QED
          BY <1>3, <1>5, <4>1, <4>2, <4>3 DEF Own, CallFns, k
    <3>2. q - 1 = n
        BY <1>1, <2>2
    <3>3. cx[k].type \in Ends(ds, q)
        BY <1>3, <1>4, <2>2, <3>2 DEF Ends, Loops
    <3>4. q + 1 = n + 2
        BY <1>1, <2>2
    <3>5. PopOK(ds, cx, q)
        BY <1>2, <1>3, <3>1, <3>3, <3>4 DEF PopOK, k
    <3>6. JumpOK(ds, cx, q) /\ DoneOK(ds, cx, q) /\ SavedOK(ds, cx, q) /\ SubOK(ds, cx, q)
        BY <1>3, <2>2 DEF JumpOK, DoneOK, SavedOK, SubOK
    <3> QED
        BY <1>8, <3>5, <3>6 DEF FrameOK
  <2> QED
      BY <2>1, <2>2
<1>10. Shape(ds, cx)
  <2>1. cs[n].fn \in Loops \cup {"leave", "tmps", "unwind"}
      BY <1>3
  <2> QED
      BY <1>1, <1>9, <2>1, Extended, Zenon DEF n, m
<1>11. Subs(ds, cx)
    BY <1>1, <1>9, ExtendedSubs, Zenon DEF n, m
<1> QED
    BY <1>10, <1>11

\* die_unwind.
LEMMA DieCalled ==
    ASSUME NEW cs \in Seq(FrameSet), NEW cx \in Seq(ContextSet), cs # <<>>,
           Shape(cs, cx), Subs(cs, cx), cs[Len(cs)].fn \in Loops,
           NEW c \in 1..Len(cx), cx[c].type \in Evals,
           \A j \in 1..Len(cx) : j > c => cx[j].type \notin Evals,
           NEW ds \in Seq(FrameSet), \A q \in 1..Len(cs) : ds[q] = cs[q],
           Len(ds) = Len(cs) + 4,
           ds[Len(cs) + 1].fn = "jump", ds[Len(cs) + 1].n = c,
           ds[Len(cs) + 2].fn = "leave", ds[Len(cs) + 2].n = cx[c].saveix,
           ds[Len(cs) + 3].fn = "tmps",
           ds[Len(cs) + 4].fn = "unwind", ds[Len(cs) + 4].n = c
    PROVE  Shape(ds, cx) /\ Subs(ds, cx)
<1> DEFINE n == Len(cs)
           m == Len(ds)
           k == Len(cx)
<1>1. n \in Nat /\ n > 0 /\ n <= m /\ n \in 1..n /\ k \in Nat /\ m = n + 4
    BY FrameTypes, ContextTypes
<1>2. cx[c].catcher \in 1..n
    BY EvalAt DEF Shape
<1>3. /\ cs[n].fn \in Loops
      /\ c \in 1..k /\ cx[c].type \in Evals
      /\ \A j \in 1..k : j > c => cx[j].type \notin Evals
      /\ ds[n + 1].fn = "jump" /\ ds[n + 1].n = c
      /\ ds[n + 2].fn = "leave" /\ ds[n + 2].n = cx[c].saveix
      /\ ds[n + 3].fn = "tmps"
      /\ ds[n + 4].fn = "unwind" /\ ds[n + 4].n = c
    OBVIOUS
<1>4. ds[n] = cs[n]
    BY <1>1
<1> HIDE DEF n, m, k
<1>6. \A q \in n + 1..m : \/ q = n + 1 /\ q - 1 = n
                          \/ q = n + 2 /\ q - 1 = n + 1
                          \/ q = n + 3 /\ q - 1 = n + 2
                          \/ /\ q = n + 4 /\ q - 1 = n + 3 /\ q - 2 = n + 2
                             /\ q - 3 = n + 1 /\ q > 3
  <2>1. \A u \in Nat : \A q \in u + 1..u + 4 :
            \/ q = u + 1 /\ q - 1 = u
            \/ q = u + 2 /\ q - 1 = u + 1
            \/ q = u + 3 /\ q - 1 = u + 2
            \/ /\ q = u + 4 /\ q - 1 = u + 3 /\ q - 2 = u + 2
               /\ q - 3 = u + 1 /\ q > 3
      OBVIOUS
  <2> QED
      BY <1>1, <2>1, Zenon
<1>7. \A q \in n + 1..m : q # 1
    BY <1>1
<1>8. ASSUME NEW q \in n + 1..m PROVE Placed(ds, q)
  <2>1. CASE q = n + 1 /\ q - 1 = n
      BY <1>3, <1>4, <1>7, <2>1 DEF Placed, Loops
  <2>2. CASE q = n + 2 /\ q - 1 = n + 1
      BY <1>3, <1>7, <2>2 DEF Placed, Loops
  <2>3. CASE q = n + 3 /\ q - 1 = n + 2
      BY <1>3, <1>7, <2>3 DEF Placed, Loops
  <2>4. CASE q = n + 4 /\ q - 1 = n + 3 /\ q - 2 = n + 2 /\ q - 3 = n + 1 /\ q > 3
      BY <1>3, <1>7, <2>4 DEF Placed, Loops
  <2> QED
      BY <1>6, <2>1, <2>2, <2>3, <2>4
<1>9. ASSUME NEW q \in n + 1..m PROVE FrameOK(ds, cx, q) /\ SubOK(ds, cx, q)
  <2>1. CASE q # n + 1
    <3>1. ds[q].fn \in {"leave", "tmps", "unwind", "docatch"}
        BY <1>3, <1>6, <2>1
    <3> QED
        BY <1>8, <3>1, Idle
  <2>2. CASE q = n + 1
    <3>1. cx[c].catcher < q
        BY <1>1, <1>2, <2>2
    <3>2. q + 1 = n + 2 /\ q + 3 = n + 4 /\ q + 3 <= m
        BY <1>1, <2>2
    <3>3. JumpOK(ds, cx, q)
        BY <1>3, <2>2, <3>1, <3>2 DEF JumpOK, k, m
    <3>4. PopOK(ds, cx, q) /\ DoneOK(ds, cx, q) /\ SavedOK(ds, cx, q) /\ SubOK(ds, cx, q)
        BY <1>3, <2>2 DEF PopOK, DoneOK, SavedOK, SubOK
    <3> QED
        BY <1>8, <3>3, <3>4 DEF FrameOK
  <2> QED
      BY <2>1, <2>2
<1>10. Shape(ds, cx)
  <2>1. cs[n].fn \in Loops \cup {"leave", "tmps", "unwind"}
      BY <1>3
  <2> QED
      BY <1>1, <1>9, <2>1, Extended, Zenon DEF n, m
<1>11. Subs(ds, cx)
    BY <1>1, <1>9, ExtendedSubs, Zenon DEF n, m
<1> QED
    BY <1>10, <1>11

\* A C function calls Perl code, which opens the contexts of the call next.
LEMMA Called ==
    ASSUME NEW cs \in Seq(FrameSet), NEW cx \in Seq(ContextSet), cs # <<>>,
           Shape(cs, cx), Subs(cs, cx),
           cs[Len(cs)].fn \in Loops \cup {"leave", "tmps", "unwind"},
           NEW ds \in Seq(FrameSet), Len(ds) = Len(cs) + 1, \A q \in 1..Len(cs) : ds[q] = cs[q],
           ds[Len(ds)].fn \in {"call", "destroy"},
           \A i \in 1..Len(cx) : cx[i].saveix <= ds[Len(ds)].n
    PROVE  /\ Shape(ds, cx)
           /\ \A q \in 1..Len(ds) : q < Len(ds) => SubOK(ds, cx, q)
<1> DEFINE n == Len(cs)
           m == Len(ds)
<1>1. n \in Nat /\ n > 0 /\ m = n + 1 /\ n \in 1..n /\ n <= m
    BY FrameTypes
<1>2. \A q \in n + 1..m : q = m /\ q # 1 /\ q - 1 = n /\ ds[q - 1] = cs[n]
    BY <1>1
<1>3. /\ cs[n].fn \in Loops \cup {"leave", "tmps", "unwind"}
      /\ ds[m].fn \in {"call", "destroy"}
      /\ \A i \in 1..Len(cx) : cx[i].saveix <= ds[m].n
      /\ Len(ds) = m /\ Len(cs) = n
      /\ \A q \in 1..n : ds[q] = cs[q]
    OBVIOUS
<1>s. \A q \in 1..n : SubOK(cs, cx, q)
    BY DEF Subs
<1> HIDE DEF n, m
<1>4. \A q \in n + 1..m : Placed(ds, q)
    BY <1>2, <1>3 DEF Placed
<1>5. \A q \in n + 1..m : FrameOK(ds, cx, q)
    BY <1>2, <1>3, <1>4 DEF FrameOK, JumpOK, PopOK, DoneOK, SavedOK
<1>6. Shape(ds, cx)
    BY <1>1, <1>3, <1>5, Extended, Zenon
<1>7. ASSUME NEW q \in 1..m, q < m PROVE SubOK(ds, cx, q)
  <2>1. q \in 1..n
      BY <1>1, <1>7
  <2>2. Doomed(cs, cx, q) => Doomed(ds, cx, q)
      BY <1>1, <1>3, <2>1, DoomedStays
  <2>3. q < n => ds[q + 1] = cs[q + 1]
      BY <1>1, <1>3, <2>1
  <2> QED
      BY <1>1, <1>3, <1>7, <1>s, <2>1, <2>2, <2>3 DEF SubOK
<1> QED
    BY <1>3, <1>6, <1>7

\* magic_methcall: a sub.
LEMMA StoreOpened ==
    ASSUME NEW cs \in Seq(FrameSet), NEW cx \in Seq(ContextSet), cs # <<>>, Shape(cs, cx),
           NEW n, n = Len(cs), cs[n].fn = "call",
           \A q \in 1..n : q < n => SubOK(cs, cx, q),
           \A i \in 1..Len(cx) : cx[i].caller < n /\ cx[i].saveix <= cs[n].n,
           NEW dx \in Seq(ContextSet), Len(dx) = Len(cx) + 1, \A i \in 1..Len(cx) : dx[i] = cx[i],
           dx[Len(dx)].type = "sub", dx[Len(dx)].caller = n,
           dx[Len(dx)].saveix = cs[n].n + 1
    PROVE  Shape(cs, dx) /\ Subs(cs, dx)
<1> DEFINE k == Len(cx)
           h == Len(dx)
<1>1. /\ n \in Nat /\ n \in 1..n /\ k \in Nat /\ h = k + 1 /\ cs[n].n \in Nat
      /\ \A i \in 1..k : cx[i].saveix \in Nat
  <2>1. n \in Nat /\ n > 0 /\ k \in Nat
      BY FrameTypes, ContextTypes
  <2> QED
      BY <2>1, FrameTypes, ContextTypes
<1>2. /\ \A i \in 1..k : dx[i] = cx[i]
      /\ dx[h].type = "sub" /\ dx[h].caller = n /\ dx[h].saveix = cs[n].n + 1
      /\ \A i \in 1..k : cx[i].caller < n /\ cx[i].saveix <= cs[n].n
      /\ cs[n].fn = "call" /\ n = Len(cs) /\ k = Len(cx) /\ h = Len(dx)
      /\ \A q \in 1..n : q < n => SubOK(cs, cx, q)
    OBVIOUS
<1> HIDE DEF k, h
<1>3. ContextOK(cs, dx, h)
  <2>1. \A j \in 1..h - 1 : dx[j].caller < n
      BY <1>1, <1>2
  <2> QED
      BY <1>1, <1>2, <2>1 DEF ContextOK, CallFns
<1>4. \A i \in 1..k : cx[i].saveix <= dx[h].saveix
    BY <1>1, <1>2
<1>5. /\ Shape(cs, dx)
      /\ \A q \in 1..n : SubOK(cs, cx, q) => SubOK(cs, dx, q)
  <2>1. cs[n].fn \in Loops /\ cs[n].fn \in CallFns /\ \A q \in n + 1..n : cs[q].fn \notin CallFns
      BY <1>1, <1>2 DEF Loops, CallFns
  <2> QED
      BY <1>1, <1>2, <1>3, <1>4, <2>1, Opened1, Zenon
<1>6. SubOK(cs, dx, n)
  <2>1. h \in 1..h
      BY <1>1
  <2> QED
      BY <1>2, <2>1 DEF SubOK
<1>7. \A q \in 1..n : q < n \/ q = n
    BY <1>1
<1> QED
    BY <1>2, <1>5, <1>6, <1>7 DEF Subs

\* S_curse: an eval, and the sub in it.
LEMMA DestroyOpened ==
    ASSUME NEW cs \in Seq(FrameSet), NEW cx \in Seq(ContextSet), cs # <<>>, Shape(cs, cx),
           NEW n, n = Len(cs), cs[n].fn = "destroy",
           \A q \in 1..n : q < n => SubOK(cs, cx, q),
           \A i \in 1..Len(cx) : cx[i].caller < n /\ cx[i].saveix <= cs[n].n,
           NEW dx \in Seq(ContextSet), Len(dx) = Len(cx) + 2, \A i \in 1..Len(cx) : dx[i] = cx[i],
           dx[Len(cx) + 1].type = "destroy", dx[Len(cx) + 1].caller = n,
           dx[Len(cx) + 1].catcher = n, dx[Len(cx) + 1].saveix = cs[n].n + 1,
           dx[Len(dx)].type = "sub", dx[Len(dx)].caller = n,
           dx[Len(dx)].saveix = cs[n].n + 1
    PROVE  Shape(cs, dx) /\ Subs(cs, dx)
<1> DEFINE k == Len(cx)
           h == Len(dx)
<1>1. /\ n \in Nat /\ n \in 1..n /\ k \in Nat /\ h = k + 2 /\ cs[n].n \in Nat
      /\ \A i \in 1..k : cx[i].saveix \in Nat
  <2>1. n \in Nat /\ n > 0 /\ k \in Nat
      BY FrameTypes, ContextTypes
  <2> QED
      BY <2>1, FrameTypes, ContextTypes
<1>2. /\ \A i \in 1..k : dx[i] = cx[i]
      /\ dx[k + 1].type = "destroy" /\ dx[k + 1].caller = n
      /\ dx[k + 1].catcher = n /\ dx[k + 1].saveix = cs[n].n + 1
      /\ dx[h].type = "sub" /\ dx[h].caller = n /\ dx[h].saveix = cs[n].n + 1
      /\ \A i \in 1..k : cx[i].caller < n /\ cx[i].saveix <= cs[n].n
      /\ cs[n].fn = "destroy" /\ n = Len(cs) /\ k = Len(cx) /\ h = Len(dx)
      /\ \A q \in 1..n : q < n => SubOK(cs, cx, q)
    OBVIOUS
<1>m. PICK ex : ex = SubSeq(dx, 1, k + 1)
    OBVIOUS
<1>e. /\ ex \in Seq(ContextSet) /\ Len(ex) = k + 1 /\ \A i \in 1..k + 1 : ex[i] = dx[i]
  <2>1. k + 1 \in 0..h
      BY <1>1
  <2>2. k + 1 \in 0..Len(dx)
      BY <1>2, <2>1
  <2> QED
      BY <1>m, <2>2, CutOf, Zenon
<1> HIDE DEF k, h
<1>3. ContextOK(cs, ex, k + 1)
  <2>1. \A j \in 1..(k + 1) - 1 : ex[j].caller < n
      BY <1>1, <1>2, <1>e
  <2>2. ex[k + 1] = dx[k + 1]
      BY <1>1, <1>e
  <2> QED
      BY <1>1, <1>2, <2>1, <2>2 DEF ContextOK, CallFns
<1>4. \A i \in 1..k : cx[i].saveix <= cs[n].n + 1 /\ ex[i] = cx[i]
    BY <1>1, <1>2, <1>e
<1>5. ex[k + 1].caller = n /\ ex[k + 1].saveix = cs[n].n + 1
    BY <1>1, <1>2, <1>e
<1>6. cs[n].fn \in Loops /\ cs[n].fn \in CallFns /\ \A q \in n + 1..n : cs[q].fn \notin CallFns
    BY <1>1, <1>2 DEF Loops, CallFns
<1>7. /\ Shape(cs, ex)
      /\ \A q \in 1..n : SubOK(cs, cx, q) => SubOK(cs, ex, q)
  <2>1. /\ Len(ex) = Len(cx) + 1 /\ \A i \in 1..Len(cx) : ex[i] = cx[i]
        /\ ex[Len(ex)].caller = n /\ \A i \in 1..Len(cx) : cx[i].saveix <= ex[Len(ex)].saveix
        /\ ContextOK(cs, ex, Len(ex))
      BY <1>2, <1>3, <1>4, <1>5, <1>e
  <2> QED
      BY <1>1, <1>2, <1>6, <1>e, <2>1, Opened1, Zenon
<1>8. ContextOK(cs, dx, h)
  <2>1. h - 1 = k + 1 /\ h > 1
      BY <1>1
  <2> QED
      BY <1>1, <1>2, <2>1 DEF ContextOK, CallFns
<1>9. h = (k + 1) + 1 /\ \A i \in 1..k + 1 : dx[i] = ex[i] /\ ex[i].saveix <= dx[h].saveix
  <2>1. \A i \in 1..k + 1 : i \in 1..k \/ i = k + 1
      BY <1>1
  <2>2. \A i \in 1..k + 1 : ex[i].saveix <= cs[n].n + 1
    <3>1. cs[n].n + 1 <= cs[n].n + 1
        BY <1>1
    <3> QED
        BY <1>4, <1>5, <2>1, <3>1
  <2> QED
      BY <1>1, <1>2, <1>e, <2>2
<1>10. /\ Shape(cs, dx)
       /\ \A q \in 1..n : SubOK(cs, ex, q) => SubOK(cs, dx, q)
  <2>1. Len(dx) = Len(ex) + 1 /\ \A i \in 1..Len(ex) : dx[i] = ex[i] /\ ex[i].saveix <= dx[Len(dx)].saveix
      BY <1>2, <1>9, <1>e
  <2> QED
      BY <1>1, <1>2, <1>6, <1>7, <1>8, <1>e, <2>1, Opened1, Zenon
<1>11. SubOK(cs, dx, n)
  <2>1. h \in 1..h
      BY <1>1
  <2> QED
      BY <1>2, <2>1 DEF SubOK
<1>12. \A q \in 1..n : q < n \/ q = n
    BY <1>1
<1> QED
    BY <1>2, <1>7, <1>10, <1>11, <1>12 DEF Subs

\* pp_enter, pp_entertry.
LEMMA BlockOpened ==
    ASSUME NEW cs \in Seq(FrameSet), NEW cx \in Seq(ContextSet), cs # <<>>,
           Shape(cs, cx), Subs(cs, cx), cs[Len(cs)].fn \in Loops,
           NEW p \in 1..Len(cs), cs[p].fn \in CallFns,
           \A q \in p + 1..Len(cs) : cs[q].fn \notin CallFns,
           NEW dx \in Seq(ContextSet), Len(dx) = Len(cx) + 1, \A i \in 1..Len(cx) : dx[i] = cx[i],
           dx[Len(dx)].caller = p, \A i \in 1..Len(cx) : cx[i].saveix <= dx[Len(dx)].saveix,
           \/ dx[Len(dx)].type = "block"
           \/ /\ dx[Len(dx)].type = "try" /\ dx[Len(dx)].catcher = Len(cs)
              /\ cs[Len(cs)].fn # "call"
    PROVE  Shape(cs, dx) /\ Subs(cs, dx)
<1>1. Len(cs) \in Nat /\ p \in Nat
    BY FrameTypes
<1>2. \/ p = Len(cs)
      \/ p + 1 = Len(cs) /\ cs[Len(cs)].fn = "docatch" /\ cs[p].fn = "call"
    BY AboveCall
<1>3. ContextOK(cs, dx, Len(dx))
    BY <1>1, <1>2 DEF ContextOK
<1>4. Shape(cs, dx)
    BY <1>3, Opened1
<1>5. Subs(cs, cx) => Subs(cs, dx)
    BY <1>3, Opened1, Zenon
<1> QED
    BY <1>4, <1>5

-----------------------------------------------------------------------------
(* The savestack *)

LEMMA SavedTypes ==
    ASSUME NEW s \in Seq(SavedSet)
    PROVE  /\ Len(s) \in Nat
           /\ \A m \in 1..Len(s) : s[m].what \in {"local", "object", "floor"} /\ s[m].old \in Nat
<1>1. Len(s) \in Nat /\ \A m \in 1..Len(s) : s[m] \in SavedSet
    OBVIOUS
<1> QED
    BY <1>1 DEF SavedSet

\* An entry other than a local is pushed.
LEMMA KeptPush ==
    ASSUME NEW s \in Seq(SavedSet), NEW e \in SavedSet, NEW v, NEW cx \in Seq(ContextSet),
           Kept(s, v, cx), e.what # "local"
    PROVE  Kept(Append(s, e), v, cx)
<1>1. PICK t : t = Append(s, e)
    OBVIOUS
<1>2. Len(t) = Len(s) + 1 /\ Len(s) \in Nat /\ t[Len(s) + 1] = e /\ \A m \in 1..Len(s) : t[m] = s[m]
    BY <1>1, PushOf
<1>3. ASSUME NEW i \in 1..Len(cx) PROVE KeptFor(t, v, cx[i])
  <2>1. cx[i].saveix \in Nat /\ KeptFor(s, v, cx[i])
      BY ContextTypes DEF Kept
  <2>2. cx[i].saveix <= Len(t)
      BY <1>2, <2>1 DEF KeptFor
  <2>3. NoLocal(t, cx[i].saveix) => NoLocal(s, cx[i].saveix)
      BY <1>2 DEF NoLocal
  <2>4. ASSUME NEW m \in 1..Len(t), FirstLocal(t, cx[i].saveix, m) PROVE t[m].old = cx[i].entry
    <3>1. m # Len(s) + 1
        BY <1>2, <2>4 DEF FirstLocal
    <3>2. m \in 1..Len(s) /\ \A l \in 1..m - 1 : l \in 1..Len(s)
        BY <1>2, <3>1
    <3>3. FirstLocal(s, cx[i].saveix, m)
        BY <1>2, <2>4, <3>2 DEF FirstLocal
    <3> QED
        BY <1>2, <2>1, <3>2, <3>3 DEF KeptFor
  <2> QED
      BY <2>1, <2>2, <2>3, <2>4 DEF KeptFor
<1> QED
    BY <1>1, <1>3 DEF Kept

\* local saves the value, and changes it.
LEMMA KeptLocal ==
    ASSUME NEW s \in Seq(SavedSet), NEW v \in Nat, NEW w, NEW cx \in Seq(ContextSet),
           Kept(s, v, cx)
    PROVE  Kept(Append(s, Saved("local", v)), w, cx)
<1>1. PICK t : t = Append(s, Saved("local", v))
    OBVIOUS
<1>2. /\ Len(t) = Len(s) + 1 /\ Len(s) \in Nat /\ \A m \in 1..Len(s) : t[m] = s[m]
      /\ t[Len(s) + 1].what = "local" /\ t[Len(s) + 1].old = v
  <2>1. Saved("local", v) \in SavedSet
      BY DEF Saved, SavedSet
  <2> QED
      BY <1>1, <2>1, PushOf DEF Saved
<1>3. ASSUME NEW i \in 1..Len(cx) PROVE KeptFor(t, w, cx[i])
  <2>1. cx[i].saveix \in Nat /\ KeptFor(s, v, cx[i]) /\ cx[i].saveix <= Len(s)
      BY ContextTypes DEF Kept, KeptFor
  <2>2. cx[i].saveix <= Len(t)
      BY <1>2, <2>1
  <2>3. ~NoLocal(t, cx[i].saveix)
    <3>1. Len(s) + 1 \in 1..Len(t) /\ Len(s) + 1 > cx[i].saveix
        BY <1>2, <2>1
    <3> QED
        BY <1>2, <3>1 DEF NoLocal
  <2>4. ASSUME NEW m \in 1..Len(t), FirstLocal(t, cx[i].saveix, m) PROVE t[m].old = cx[i].entry
    <3>1. CASE m = Len(s) + 1
      <4>1. \A l \in 1..Len(s) : l \in 1..m - 1
          BY <1>2, <3>1
      <4>2. NoLocal(s, cx[i].saveix)
          BY <1>2, <2>4, <4>1 DEF NoLocal, FirstLocal
      <4> QED
          BY <1>2, <2>1, <3>1, <4>2 DEF KeptFor
    <3>2. CASE m # Len(s) + 1
      <4>1. m \in 1..Len(s) /\ \A l \in 1..m - 1 : l \in 1..Len(s)
          BY <1>2, <3>2
      <4>2. FirstLocal(s, cx[i].saveix, m)
          BY <1>2, <2>4, <4>1 DEF FirstLocal
      <4> QED
          BY <1>2, <2>1, <4>1, <4>2 DEF KeptFor
    <3> QED
        BY <3>1, <3>2
  <2> QED
      BY <2>2, <2>3, <2>4 DEF KeptFor
<1> QED
    BY <1>1, <1>3 DEF Kept

\* leave_scope takes an entry off, that no context wants to keep; of a local it
\* restores the value.
LEMMA KeptPop ==
    ASSUME NEW s \in Seq(SavedSet), s # <<>>, NEW v, NEW w, NEW cx \in Seq(ContextSet),
           Kept(s, v, cx), \A i \in 1..Len(cx) : cx[i].saveix <= Len(s) - 1,
           w = IF Last(s).what = "local" THEN Last(s).old ELSE v
    PROVE  Kept(Front(s), w, cx)
<1>1. PICK t : t = Front(s)
    OBVIOUS
<1>2. /\ Len(s) \in Nat /\ Len(s) > 0 /\ Len(t) = Len(s) - 1 /\ Len(t) \in Nat
      /\ \A m \in 1..Len(t) : t[m] = s[m] /\ m \in 1..Len(s)
      /\ w = IF s[Len(s)].what = "local" THEN s[Len(s)].old ELSE v
  <2>1. Len(s) \in Nat \ {0} /\ Len(t) = Len(s) - 1
        /\ (\A m \in 1..Len(s) - 1 : t[m] = s[m]) /\ Last(s) = s[Len(s)]
      BY <1>1, FrontOf
  <2> QED
      BY <2>1
<1>m. \A m \in 1..Len(s) : m \in 1..Len(t) \/ m = Len(s)
    BY <1>2
<1>3. ASSUME NEW i \in 1..Len(cx) PROVE KeptFor(t, w, cx[i])
  <2>1. cx[i].saveix \in Nat /\ KeptFor(s, v, cx[i]) /\ cx[i].saveix <= Len(t)
      BY <1>2, ContextTypes DEF Kept
  <2>2. ASSUME NoLocal(t, cx[i].saveix) PROVE w = cx[i].entry
    <3>1. CASE s[Len(s)].what = "local"
      <4>1. FirstLocal(s, cx[i].saveix, Len(s))
        <5>1. Len(s) > cx[i].saveix
            BY <1>2, <2>1
        <5>2. \A l \in 1..Len(s) - 1 : l \in 1..Len(t)
            BY <1>2
        <5> QED
            BY <1>2, <2>2, <3>1, <5>1, <5>2 DEF FirstLocal, NoLocal
      <4>2. Len(s) \in 1..Len(s)
          BY <1>2
      <4> QED
          BY <1>2, <2>1, <3>1, <4>1, <4>2 DEF KeptFor
    <3>2. CASE s[Len(s)].what # "local"
      <4>1. NoLocal(s, cx[i].saveix)
          BY <1>2, <1>m, <2>2, <3>2 DEF NoLocal
      <4> QED
          BY <1>2, <2>1, <3>2, <4>1 DEF KeptFor
    <3> QED
        BY <3>1, <3>2
  <2>3. ASSUME NEW m \in 1..Len(t), FirstLocal(t, cx[i].saveix, m) PROVE t[m].old = cx[i].entry
    <3>1. \A l \in 1..m - 1 : l \in 1..Len(t)
        BY <1>2
    <3>2. FirstLocal(s, cx[i].saveix, m)
        BY <1>2, <2>3, <3>1 DEF FirstLocal
    <3> QED
        BY <1>2, <2>1, <3>2 DEF KeptFor
  <2> QED
      BY <2>1, <2>2, <2>3 DEF KeptFor
<1> QED
    BY <1>1, <1>3 DEF Kept

\* A context is opened, or contexts go.
LEMMA KeptNew ==
    ASSUME NEW s \in Seq(SavedSet), NEW v, NEW cx \in Seq(ContextSet), NEW dx \in Seq(ContextSet),
           Kept(s, v, cx), \A i \in 1..Len(dx) : i \in 1..Len(cx) => dx[i] = cx[i],
           \A i \in 1..Len(dx) : i \notin 1..Len(cx) => dx[i].saveix = Len(s) /\ dx[i].entry = v
    PROVE  Kept(s, v, dx)
<1>1. Len(s) \in Nat
    BY SavedTypes
<1>2. ASSUME NEW i \in 1..Len(dx) PROVE KeptFor(s, v, dx[i])
  <2>1. CASE i \in 1..Len(cx)
      BY <2>1 DEF Kept
  <2>2. CASE i \notin 1..Len(cx)
    <3>1. dx[i].saveix = Len(s) /\ dx[i].entry = v
        BY <2>2
    <3>2. \A m \in 1..Len(s) : ~(m > Len(s))
        BY <1>1
    <3> QED
        BY <1>1, <3>1, <3>2 DEF KeptFor, FirstLocal
  <2> QED
      BY <2>1, <2>2
<1> QED
    BY <1>2 DEF Kept

\* A context whose scope has been left has its value back.
LEMMA KeptUndone ==
    ASSUME NEW s \in Seq(SavedSet), NEW v, NEW cx \in Seq(ContextSet), Kept(s, v, cx),
           NEW i \in 1..Len(cx), Len(s) <= cx[i].saveix
    PROVE  Len(s) = cx[i].saveix /\ v = cx[i].entry
<1>1. Len(s) \in Nat /\ cx[i].saveix \in Nat /\ KeptFor(s, v, cx[i])
    BY SavedTypes, ContextTypes DEF Kept
<1>2. Len(s) = cx[i].saveix
    BY <1>1 DEF KeptFor
<1>3. \A m \in 1..Len(s) : ~(m > cx[i].saveix)
    BY <1>1, <1>2
<1> QED
    BY <1>1, <1>2, <1>3 DEF KeptFor, NoLocal

\* leave_scope stops where no context has lost anything, at the mark of the one
\* that is to be popped next.
LEMMA LeaveMark ==
    ASSUME NEW cs \in Seq(FrameSet), NEW cx \in Seq(ContextSet), cs # <<>>, Shape(cs, cx),
           cs[Len(cs)].fn = "leave"
    PROVE  /\ \A i \in 1..Len(cx) : cx[i].saveix <= cs[Len(cs)].n
           /\ cs[Len(cs) - 1].fn \in {"pop", "return", "jump"} =>
                 Len(cx) \in 1..Len(cx) /\ cs[Len(cs)].n = cx[Len(cx)].saveix
<1> DEFINE n == Len(cs)
           k == Len(cx)
<1>1. /\ n \in Nat /\ n > 1 /\ n - 1 \in 1..n /\ Placed(cs, n)
      /\ \A q \in 1..n : FrameOK(cs, cx, q)
  <2>1. cs[n].fn # "main"
      OBVIOUS
  <2> QED
      BY <2>1, Below1, Zenon DEF Shape
<1>2. k \in Nat /\ \A i \in 1..k : cx[i].caller \in Nat /\ cx[i].saveix \in Nat
    BY ContextTypes
<1>3. /\ Ordered(cx)
      /\ \A i \in 1..k : cx[i].caller \in 1..n /\ cs[cx[i].caller].fn \in CallFns
      /\ cs[n].fn = "leave" /\ n = Len(cs) /\ k = Len(cx)
    BY DEF Shape, ContextOK
<1>4. cs[n - 1].fn \in {"pop", "return", "jump", "done"}
    BY <1>1, <1>3 DEF Placed
<1>5. PICK m : m = n - 1
    OBVIOUS
<1>6. m \in Nat /\ m \in 1..n /\ m < n /\ m + 1 = n /\ ~(m + 3 <= n) /\ m > 0
    BY <1>1, <1>5
<1> HIDE DEF n, k
<1>7. \A i \in 1..k : cx[i].caller < m
  <2> SUFFICES ASSUME NEW i \in 1..k PROVE cx[i].caller < m
      OBVIOUS
  <2>1. cx[i].caller # n /\ cx[i].caller # m
      BY <1>3, <1>4, <1>5 DEF CallFns
  <2> QED
      BY <1>1, <1>3, <1>5, <2>1
<1>b. \A i \in 1..k : ~(cx[i].caller > m)
  <2>1. \A u, v \in Nat : u < v => ~(u > v)
      OBVIOUS
  <2> QED
      BY <1>2, <1>6, <1>7, <2>1, Zenon
<1>8. CASE cs[m].fn = "done"
  <2>1. m # 1 /\ cs[m - 1].fn \in {"call", "destroy"}
      BY <1>1, <1>6, <1>8 DEF FrameOK, Placed
  <2>2. m - 1 \in 1..n
      BY <1>1, <1>6, <2>1
  <2>3. cs[n].n = cs[m - 1].n /\ \A i \in 1..k : cx[i].caller # m - 1
      BY <1>1, <1>3, <1>6, <1>8 DEF FrameOK, DoneOK
  <2>4. \A i \in 1..k : cx[i].caller < m - 1
      BY <1>2, <1>6, <1>7, <2>3
  <2>5. \A i \in 1..k : cx[i].saveix <= cs[m - 1].n
      BY <1>1, <1>3, <2>1, <2>2, <2>4 DEF FrameOK, SavedOK
  <2> QED
      BY <1>3, <1>5, <1>8, <2>3, <2>5
<1>9. CASE cs[m].fn \in {"pop", "return", "jump"}
  <2>1. \E i \in 1..k : cs[n].n = cx[i].saveix /\ \A j \in 1..k : ~(j > i)
    <3>1. CASE cs[m].fn = "jump"
      <4>1. JumpOK(cs, cx, m)
          BY <1>1, <1>6 DEF FrameOK
      <4>2. /\ cs[m].n \in 1..k /\ cs[n].n = cx[cs[m].n].saveix
            /\ \A j \in 1..k : j > cs[m].n => cx[j].caller > m
          BY <1>3, <1>6, <3>1, <4>1 DEF JumpOK
      <4>3. \A j \in 1..k : ~(j > cs[m].n)
          BY <1>b, <4>2
      <4> QED
          BY <4>2, <4>3
    <3>2. CASE cs[m].fn # "jump"
      <4>1. ~Doomed(cs, cx, m)
        <5>1. \A r \in m + 1..n : r = n
            BY <1>6
        <5> QED
            BY <1>3, <5>1 DEF Doomed, Dooms
      <4>2. PICK i \in 1..k : Own(cs, cx, i, m) /\ cs[n].n = cx[i].saveix
          BY <1>1, <1>3, <1>6, <1>9, <3>2, <4>1 DEF FrameOK, PopOK
      <4>3. \A j \in 1..k : ~(j > i)
        <5>1. \A j \in 1..k : j > i => cx[j].caller > m
            BY <1>3, <4>2 DEF Own
        <5> QED
            BY <1>b, <5>1
      <4> QED
          BY <4>2, <4>3
    <3> QED
        BY <3>1, <3>2
  <2>2. k \in 1..k /\ cs[n].n = cx[k].saveix
    <3>1. PICK i \in 1..k : cs[n].n = cx[i].saveix /\ \A j \in 1..k : ~(j > i)
        BY <2>1
    <3>2. i = k /\ k \in 1..k
        BY <1>2, <3>1
    <3> QED
        BY <3>1, <3>2
  <2>3. \A i \in 1..k : cx[i].saveix <= cx[k].saveix
    <3> SUFFICES ASSUME NEW i \in 1..k PROVE cx[i].saveix <= cx[k].saveix
        OBVIOUS
    <3>1. i < k \/ i = k
        BY <1>2
    <3> QED
        BY <1>2, <1>3, <2>2, <3>1 DEF Ordered
  <2> QED
      BY <1>3, <2>2, <2>3
<1> QED
    BY <1>4, <1>5, <1>8, <1>9

-----------------------------------------------------------------------------
(* The steps *)

\* A function on top that ends no scope.
LEMMA StepIs ==
    ASSUME StackTypes', cstack' # <<>>, Shape(cstack', contexts'), Subs(cstack', contexts'),
           Kept(savestack', value', contexts'),
           cstack'[Len(cstack')].fn \notin {"pop", "return", "jump"}
    PROVE  StackInvariant'
    BY DEF StackInvariant, TopOK

LEMMA RunsIs ==
    ASSUME StackInvariant, Runs
    PROVE  /\ cstack \in Seq(FrameSet) /\ cstack # <<>> /\ Len(cstack) \in 1..Len(cstack)
           /\ cstack[Len(cstack)].fn \in Loops
    BY FrameTypes DEF StackInvariant, StackTypes, Runs, Last

LEMMA LocalStep ==
    ASSUME StackInvariant, Local
    PROVE  StackInvariant'
<1>1. /\ cstack' = cstack /\ contexts' = contexts /\ tmps' = tmps /\ floor' = floor
      /\ savestack' = Append(savestack, Saved("local", value)) /\ value' = value + 1 /\ Runs
    BY DEF Local, MayCall
<1>2. savestack \in Seq(SavedSet) /\ value \in Nat /\ contexts \in Seq(ContextSet)
    BY DEF StackInvariant, StackTypes
<1>3. savestack' \in Seq(SavedSet) /\ value' \in Nat
  <2>1. Saved("local", value) \in SavedSet
      BY <1>2 DEF Saved, SavedSet
  <2> QED
      BY <1>1, <1>2, <2>1, PushOf
<1>4. Kept(savestack', value', contexts')
  <2>1. Kept(savestack, value, contexts)
      BY DEF StackInvariant
  <2> QED
      BY <1>1, <1>2, <2>1, KeptLocal
<1>5. StackTypes'
    BY <1>1, <1>3 DEF StackInvariant, StackTypes
<1>6. cstack[Len(cstack)].fn \in Loops
    BY <1>1, RunsIs
<1> QED
    BY <1>1, <1>4, <1>5, <1>6, StepIs DEF StackInvariant, Loops

LEMMA MyStep ==
    ASSUME StackInvariant, My
    PROVE  StackInvariant'
<1>1. /\ cstack' = cstack /\ contexts' = contexts /\ tmps' = tmps /\ floor' = floor
      /\ savestack' = Append(savestack, Saved("object", 0)) /\ value' = value /\ Runs
    BY DEF My, MayCall
<1>2. savestack \in Seq(SavedSet) /\ value \in Nat /\ contexts \in Seq(ContextSet)
    BY DEF StackInvariant, StackTypes
<1>3. Saved("object", 0) \in SavedSet /\ Saved("object", 0).what # "local"
    BY DEF Saved, SavedSet
<1>4. Kept(savestack', value', contexts') /\ savestack' \in Seq(SavedSet)
  <2>1. Kept(savestack, value, contexts)
      BY DEF StackInvariant
  <2> QED
      BY <1>1, <1>2, <1>3, <2>1, KeptPush, PushOf
<1>5. StackTypes'
    BY <1>1, <1>4 DEF StackInvariant, StackTypes
<1>6. cstack[Len(cstack)].fn \in Loops
    BY <1>1, RunsIs
<1> QED
    BY <1>1, <1>4, <1>5, <1>6, StepIs DEF StackInvariant, Loops

LEMMA TemporaryStep ==
    ASSUME StackInvariant, Temporary
    PROVE  StackInvariant'
<1>1. /\ cstack' = cstack /\ contexts' = contexts /\ tmps' = tmps + 1 /\ floor' = floor
      /\ savestack' = savestack /\ value' = value /\ Runs
    BY DEF Temporary, MayCall
<1>5. StackTypes'
    BY <1>1 DEF StackInvariant, StackTypes
<1>6. cstack[Len(cstack)].fn \in Loops
    BY <1>1, RunsIs
<1> QED
    BY <1>1, <1>5, <1>6, StepIs DEF StackInvariant, Loops

LEMMA FrameIs ==
    ASSUME NEW f \in Loops \cup WorkFns, NEW n \in Nat
    PROVE  CFrame(f, n) \in FrameSet /\ CFrame(f, n).fn = f /\ CFrame(f, n).n = n
    BY DEF CFrame, FrameSet

LEMMA CallerOf ==
    ASSUME StackInvariant, Runs
    PROVE  /\ Caller \in 1..Len(cstack) /\ cstack[Caller].fn \in CallFns
           /\ \A q \in Caller + 1..Len(cstack) : cstack[q].fn \notin CallFns
<1>1. cstack \in Seq(FrameSet) /\ cstack # <<>> /\ Shape(cstack, contexts)
    BY DEF StackInvariant, StackTypes
<1> QED
    BY <1>1, CallerIs DEF Caller

LEMMA NextStatementStep ==
    ASSUME StackInvariant, NextStatement
    PROVE  StackInvariant'
<1>1. /\ Runs /\ cstack' = cstack \o <<CFrame("tmps", 0)>>
      /\ contexts' = contexts /\ tmps' = tmps /\ floor' = floor
      /\ savestack' = savestack /\ value' = value
    BY DEF NextStatement, Then
<1>2. /\ cstack \in Seq(FrameSet) /\ cstack # <<>> /\ contexts \in Seq(ContextSet)
      /\ Shape(cstack, contexts) /\ Subs(cstack, contexts) /\ cstack[Len(cstack)].fn \in Loops
    BY <1>1, RunsIs DEF StackInvariant, StackTypes
<1>3. /\ cstack' \in Seq(FrameSet) /\ Len(cstack') = Len(cstack) + 1 /\ Len(cstack) \in Nat
      /\ \A q \in 1..Len(cstack) : cstack'[q] = cstack[q]
      /\ cstack'[Len(cstack')].fn = "tmps"
  <2>1. CFrame("tmps", 0) \in FrameSet /\ CFrame("tmps", 0).fn = "tmps"
      BY FrameIs DEF WorkFns
  <2>2. PICK t : t = <<CFrame("tmps", 0)>>
      OBVIOUS
  <2>3. t \in Seq(FrameSet) /\ Len(t) = 1 /\ t[1].fn = "tmps"
      BY <2>1, <2>2
  <2> QED
      BY <1>1, <1>2, <2>2, <2>3, JoinOf
<1>4. Shape(cstack', contexts) /\ Subs(cstack', contexts)
    BY <1>2, <1>3, OneCalled
<1>5. StackTypes' /\ cstack' # <<>>
    BY <1>1, <1>3 DEF StackInvariant, StackTypes
<1> QED
    BY <1>1, <1>3, <1>4, <1>5, StepIs DEF StackInvariant

LEMMA LeavesStep ==
    ASSUME StackInvariant, NEW type, NEW last, LeavesBlock(type, last),
           \/ last = CFrame("pop", 0) /\ type \in {"block", "try"}
           \/ last = CFrame("return", 0) /\ type = "sub"
    PROVE  StackInvariant'
<1>1. /\ Runs /\ contexts # <<>> /\ Top.type = type
      /\ contexts' = contexts /\ tmps' = tmps /\ floor' = floor
      /\ savestack' = savestack /\ value' = value
    BY DEF LeavesBlock
<1>2. PICK first \in FreesFirst :
          cstack' = cstack \o (<<last, CFrame("leave", Top.saveix)>> \o first)
    BY DEF LeavesBlock, Then
<1>3. /\ cstack \in Seq(FrameSet) /\ cstack # <<>> /\ contexts \in Seq(ContextSet)
      /\ Shape(cstack, contexts) /\ Subs(cstack, contexts) /\ cstack[Len(cstack)].fn \in Loops
    BY <1>1, RunsIs DEF StackInvariant, StackTypes
<1>4. Top = contexts[Len(contexts)] /\ Top.saveix \in Nat /\ Len(contexts) \in Nat
  <2>1. Len(contexts) \in 1..Len(contexts)
      BY <1>1, <1>3, ContextTypes
  <2> QED
      BY <1>3, <2>1, ContextTypes DEF Top, Last
<1>5. PICK t : t = <<last, CFrame("leave", Top.saveix)>> \o first
    OBVIOUS
<1>6. /\ t \in Seq(FrameSet) /\ Len(t) \in {2, 3}
      /\ t[1] = last /\ t[2].fn = "leave" /\ t[2].n = Top.saveix
      /\ Len(t) = 3 => t[3].fn = "tmps"
      /\ \/ last.fn = "pop" /\ type \in {"block", "try"}
         \/ last.fn = "return" /\ type = "sub"
  <2>1. /\ last \in FrameSet
        /\ \/ last.fn = "pop" /\ type \in {"block", "try"}
           \/ last.fn = "return" /\ type = "sub"
    <3>1. CFrame("pop", 0) \in FrameSet /\ CFrame("pop", 0).fn = "pop"
        BY FrameIs DEF WorkFns
    <3>2. CFrame("return", 0) \in FrameSet /\ CFrame("return", 0).fn = "return"
        BY FrameIs DEF WorkFns
    <3> QED
        BY <3>1, <3>2
  <2>2. /\ CFrame("leave", Top.saveix) \in FrameSet /\ CFrame("leave", Top.saveix).fn = "leave"
        /\ CFrame("leave", Top.saveix).n = Top.saveix
      BY <1>4, FrameIs DEF WorkFns
  <2>3. CFrame("tmps", 0) \in FrameSet /\ CFrame("tmps", 0).fn = "tmps"
      BY FrameIs DEF WorkFns
  <2>4. first = <<CFrame("tmps", 0)>> \/ first = <<>>
      BY DEF FreesFirst
  <2>5. PICK e : e = CFrame("leave", Top.saveix)
      OBVIOUS
  <2>6. PICK f : f = CFrame("tmps", 0)
      OBVIOUS
  <2>7. CASE first = <<f>>
      BY <1>5, <2>1, <2>2, <2>3, <2>5, <2>6, <2>7
  <2>8. CASE first = <<>>
      BY <1>5, <2>1, <2>2, <2>5, <2>8
  <2> QED
      BY <2>4, <2>6, <2>7, <2>8
<1>7. /\ cstack' \in Seq(FrameSet) /\ Len(cstack') = Len(cstack) + Len(t) /\ Len(cstack) \in Nat
      /\ \A q \in 1..Len(cstack) : cstack'[q] = cstack[q]
      /\ \A q \in 1..Len(t) : cstack'[Len(cstack) + q] = t[q]
    BY <1>2, <1>3, <1>5, <1>6, JoinOf
<1>8. /\ Len(cstack') \in {Len(cstack) + 2, Len(cstack) + 3}
      /\ \/ cstack'[Len(cstack) + 1].fn = "pop" /\ Top.type \in {"block", "try"}
         \/ cstack'[Len(cstack) + 1].fn = "return" /\ Top.type = "sub"
      /\ cstack'[Len(cstack) + 2].fn = "leave" /\ cstack'[Len(cstack) + 2].n = Top.saveix
      /\ Len(cstack') = Len(cstack) + 3 => cstack'[Len(cstack) + 3].fn = "tmps"
  <2>1. 1 \in 1..Len(t) /\ 2 \in 1..Len(t) /\ (Len(t) = 3 => 3 \in 1..Len(t))
      BY <1>6
  <2>2. cstack'[Len(cstack) + 1] = t[1] /\ cstack'[Len(cstack) + 2] = t[2]
        /\ (Len(t) = 3 => cstack'[Len(cstack) + 3] = t[3])
      BY <1>7, <2>1, Zenon
  <2>3. Len(cstack') \in {Len(cstack) + 2, Len(cstack) + 3}
        /\ (Len(cstack') = Len(cstack) + 3 => Len(t) = 3)
      BY <1>6, <1>7
  <2> QED
      BY <1>1, <1>6, <2>2, <2>3
<1>9. Shape(cstack', contexts) /\ Subs(cstack', contexts)
  <2>1. PICK p : p = Caller
      OBVIOUS
  <2>2. /\ p \in 1..Len(cstack) /\ cstack[p].fn \in CallFns
        /\ \A q \in p + 1..Len(cstack) : cstack[q].fn \notin CallFns
      BY <1>1, <2>1, CallerOf
  <2> QED
      BY <1>1, <1>3, <1>4, <1>7, <1>8, <2>2, EndCalled
<1>10. StackTypes' /\ cstack' # <<>>
    BY <1>1, <1>7, <1>8 DEF StackInvariant, StackTypes
<1>11. cstack'[Len(cstack')].fn \notin {"pop", "return", "jump"}
    BY <1>8
<1> QED
    BY <1>1, <1>9, <1>10, <1>11, StepIs DEF StackInvariant

LEMMA DieStep ==
    ASSUME StackInvariant, Die
    PROVE  StackInvariant'
<1>1. PICK c : c = Max(Catching)
    OBVIOUS
<1>2. /\ Runs /\ Catching # {} /\ cstack' = cstack \o DieUnwinds(c)
      /\ contexts' = contexts /\ tmps' = tmps /\ floor' = floor
      /\ savestack' = savestack /\ value' = value
    BY <1>1 DEF Die, Then
<1>3. /\ cstack \in Seq(FrameSet) /\ cstack # <<>> /\ contexts \in Seq(ContextSet)
      /\ Shape(cstack, contexts) /\ Subs(cstack, contexts) /\ cstack[Len(cstack)].fn \in Loops
    BY <1>2, RunsIs DEF StackInvariant, StackTypes
<1>4. /\ c \in 1..Len(contexts) /\ contexts[c].type \in Evals /\ Len(contexts) \in Nat
      /\ \A j \in 1..Len(contexts) : j > c => contexts[j].type \notin Evals
  <2>1. Len(contexts) \in Nat /\ DOMAIN contexts = 1..Len(contexts)
      BY <1>3
  <2>2. Catching \in SUBSET (1..Len(contexts))
        /\ \A j \in 1..Len(contexts) : j \in Catching <=> contexts[j].type \in Evals
      BY <2>1 DEF Catching, Evals
  <2>3. PICK C : C = Catching
      OBVIOUS
  <2>4. c \in C /\ \A j \in C : j <= c
      BY <1>1, <1>2, <2>1, <2>2, <2>3, MaxIs
  <2> QED
      BY <2>1, <2>2, <2>3, <2>4
<1>5. PICK s : s = contexts[c].saveix
    OBVIOUS
<1>6. s \in Nat /\ c \in Nat
    BY <1>3, <1>4, <1>5, ContextTypes
<1>7. PICK t : t = DieUnwinds(c)
    OBVIOUS
<1>8. /\ t \in Seq(FrameSet) /\ Len(t) = 4
      /\ t[1].fn = "jump" /\ t[1].n = c /\ t[2].fn = "leave" /\ t[2].n = s
      /\ t[3].fn = "tmps" /\ t[4].fn = "unwind" /\ t[4].n = c
  <2>1. CFrame("jump", c) \in FrameSet /\ CFrame("jump", c).fn = "jump" /\ CFrame("jump", c).n = c
      BY <1>6, FrameIs DEF WorkFns
  <2>2. CFrame("leave", s) \in FrameSet /\ CFrame("leave", s).fn = "leave" /\ CFrame("leave", s).n = s
      BY <1>6, FrameIs DEF WorkFns
  <2>3. CFrame("tmps", 0) \in FrameSet /\ CFrame("tmps", 0).fn = "tmps"
      BY FrameIs DEF WorkFns
  <2>4. CFrame("unwind", c) \in FrameSet /\ CFrame("unwind", c).fn = "unwind" /\ CFrame("unwind", c).n = c
      BY <1>6, FrameIs DEF WorkFns
  <2>5. t = <<CFrame("jump", c), CFrame("leave", s), CFrame("tmps", 0), CFrame("unwind", c)>>
      BY <1>5, <1>7 DEF DieUnwinds
  <2> QED
      BY <2>1, <2>2, <2>3, <2>4, <2>5
<1>9. /\ cstack' \in Seq(FrameSet) /\ Len(cstack') = Len(cstack) + 4 /\ Len(cstack) \in Nat
      /\ \A q \in 1..Len(cstack) : cstack'[q] = cstack[q]
      /\ \A q \in 1..Len(t) : cstack'[Len(cstack) + q] = t[q]
  <2>1. cstack' = cstack \o t
      BY <1>2, <1>7
  <2>2. t \in Seq(FrameSet) /\ Len(t) = 4
      BY <1>8
  <2>3. /\ cstack \o t \in Seq(FrameSet) /\ Len(cstack \o t) = Len(cstack) + Len(t)
        /\ Len(cstack) \in Nat
        /\ \A q \in 1..Len(cstack) : (cstack \o t)[q] = cstack[q]
        /\ \A q \in 1..Len(t) : (cstack \o t)[Len(cstack) + q] = t[q]
    <3>1. cstack \in Seq(FrameSet) /\ t \in Seq(FrameSet)
        BY <1>3, <2>2
    <3> QED
        BY <3>1, JoinOf
  <2> QED
      BY <2>1, <2>2, <2>3, Zenon
<1>10. /\ cstack'[Len(cstack) + 1].fn = "jump" /\ cstack'[Len(cstack) + 1].n = c
       /\ cstack'[Len(cstack) + 2].fn = "leave" /\ cstack'[Len(cstack) + 2].n = contexts[c].saveix
       /\ cstack'[Len(cstack) + 3].fn = "tmps"
       /\ cstack'[Len(cstack) + 4].fn = "unwind" /\ cstack'[Len(cstack) + 4].n = c
  <2>1. 1 \in 1..Len(t) /\ 2 \in 1..Len(t) /\ 3 \in 1..Len(t) /\ 4 \in 1..Len(t)
      BY <1>8
  <2>2. /\ cstack'[Len(cstack) + 1] = t[1] /\ cstack'[Len(cstack) + 2] = t[2]
        /\ cstack'[Len(cstack) + 3] = t[3] /\ cstack'[Len(cstack) + 4] = t[4]
      BY <1>9, <2>1, Zenon
  <2> QED
      BY <1>5, <1>8, <2>2
<1>11. Shape(cstack', contexts) /\ Subs(cstack', contexts)
    BY <1>3, <1>4, <1>9, <1>10, DieCalled
<1>12. StackTypes' /\ cstack' # <<>>
    BY <1>2, <1>9 DEF StackInvariant, StackTypes
<1>13. cstack'[Len(cstack')].fn \notin {"pop", "return", "jump"}
    BY <1>9, <1>10
<1> QED
    BY <1>2, <1>11, <1>12, <1>13, StepIs DEF StackInvariant

\* The C stack may have grown by docatch, as EnterTry's does.
LEMMA OpensStep ==
    ASSUME StackInvariant, Runs, NEW type, NEW catcher \in Nat,
           contexts' = Append(contexts,
               Context(type, Len(savestack), tmps, floor, catcher, Caller)),
           floor' = tmps, value' = value, savestack' = savestack, tmps' = tmps,
           cstack' \in Seq(FrameSet), cstack' # <<>>,
           Shape(cstack', contexts), Subs(cstack', contexts),
           cstack'[Len(cstack')].fn \in Loops,
           Caller \in 1..Len(cstack'), cstack'[Caller].fn \in CallFns,
           \A q \in Caller + 1..Len(cstack') : cstack'[q].fn \notin CallFns,
           \/ type = "block"
           \/ /\ type = "try" /\ catcher = Len(cstack')
              /\ cstack'[Len(cstack')].fn # "call"
    PROVE  StackInvariant'
<1>1. PICK c : c = Context(type, Len(savestack), tmps, floor, catcher, Caller)
    OBVIOUS
<1>2. PICK p : p = Caller
    OBVIOUS
<1>3. /\ savestack \in Seq(SavedSet) /\ contexts \in Seq(ContextSet) /\ value \in Nat
      /\ tmps \in Nat /\ floor \in Nat
    BY DEF StackInvariant, StackTypes
<1>4. /\ c \in ContextSet /\ c.type = type /\ c.saveix = Len(savestack) /\ c.entry = value
      /\ c.caller = p /\ c.catcher = catcher
  <2>1. Len(savestack) \in Nat /\ p \in Nat /\ type \in {"block", "try", "sub", "destroy"}
      BY <1>2, <1>3, SavedTypes
  <2> QED
      BY <1>1, <1>2, <1>3, <2>1 DEF Context, ContextSet
<1>5. /\ contexts' \in Seq(ContextSet) /\ Len(contexts') = Len(contexts) + 1 /\ Len(contexts) \in Nat
      /\ \A i \in 1..Len(contexts) : contexts'[i] = contexts[i]
      /\ contexts'[Len(contexts')] = c
    BY <1>1, <1>3, <1>4, PushOf
<1>6. Kept(savestack, value, contexts)
    BY DEF StackInvariant
<1>7. Shape(cstack', contexts') /\ Subs(cstack', contexts')
  <2>1. \A i \in 1..Len(contexts) : contexts[i].saveix <= Len(savestack)
      BY <1>6 DEF Kept, KeptFor
  <2>2. \/ contexts'[Len(contexts')].type = "block"
        \/ /\ contexts'[Len(contexts')].type = "try" /\ contexts'[Len(contexts')].catcher = Len(cstack')
           /\ cstack'[Len(cstack')].fn # "call"
      BY <1>4, <1>5
  <2>3. /\ p \in 1..Len(cstack') /\ cstack'[p].fn \in CallFns
        /\ \A q \in p + 1..Len(cstack') : cstack'[q].fn \notin CallFns
        /\ contexts'[Len(contexts')].caller = p
        /\ \A i \in 1..Len(contexts) : contexts[i].saveix <= contexts'[Len(contexts')].saveix
      BY <1>2, <1>4, <1>5, <2>1
  <2> QED
      BY <1>3, <1>5, <2>2, <2>3, BlockOpened
<1>8. Kept(savestack', value', contexts')
  <2>1. \A i \in 1..Len(contexts') : i \notin 1..Len(contexts) => i = Len(contexts')
      BY <1>5
  <2>2. \A i \in 1..Len(contexts') : i \notin 1..Len(contexts) =>
            contexts'[i].saveix = Len(savestack) /\ contexts'[i].entry = value
      BY <1>4, <1>5, <2>1
  <2>3. \A i \in 1..Len(contexts') : i \in 1..Len(contexts) => contexts'[i] = contexts[i]
      BY <1>5
  <2>4. Kept(savestack, value, contexts')
      BY <1>3, <1>5, <1>6, <2>2, <2>3, KeptNew, Zenon
  <2> QED
      BY <2>4
<1>9. StackTypes'
    BY <1>3, <1>5 DEF StackTypes
<1> QED
    BY <1>7, <1>8, <1>9, StepIs DEF Loops

LEMMA EnterBlockStep ==
    ASSUME StackInvariant, EnterBlock
    PROVE  StackInvariant'
<1>1. /\ Runs /\ cstack' = cstack /\ tmps' = tmps /\ floor' = tmps
      /\ savestack' = savestack /\ value' = value
      /\ contexts' = Append(contexts, Context("block", Len(savestack), tmps, floor, 0, Caller))
    BY DEF EnterBlock, MayOpen
<1>2. /\ cstack \in Seq(FrameSet) /\ cstack # <<>>
      /\ Shape(cstack, contexts) /\ Subs(cstack, contexts) /\ cstack[Len(cstack)].fn \in Loops
    BY <1>1, RunsIs DEF StackInvariant, StackTypes
<1>3. /\ Caller \in 1..Len(cstack) /\ cstack[Caller].fn \in CallFns
      /\ \A q \in Caller + 1..Len(cstack) : cstack[q].fn \notin CallFns
    BY <1>1, CallerOf
<1> QED
    BY <1>1, <1>2, <1>3, OpensStep

LEMMA EnterTryStep ==
    ASSUME StackInvariant, EnterTry
    PROVE  StackInvariant'
<1>1. PICK ds : ds = Catches
    OBVIOUS
<1>2. PICK c : c = Max(Setjmps(ds))
    OBVIOUS
<1>3. /\ Runs /\ cstack' = ds /\ tmps' = tmps /\ floor' = tmps
      /\ savestack' = savestack /\ value' = value
      /\ contexts' = Append(contexts, Context("try", Len(savestack), tmps, floor, c, Caller))
    BY <1>1, <1>2 DEF EnterTry, MayOpen
<1>4. /\ cstack \in Seq(FrameSet) /\ cstack # <<>> /\ contexts \in Seq(ContextSet)
      /\ Shape(cstack, contexts) /\ Subs(cstack, contexts)
      /\ cstack[Len(cstack)].fn \in Loops /\ Len(cstack) \in Nat
    BY <1>3, RunsIs, FrameTypes DEF StackInvariant, StackTypes
<1>5. PICK p : p = Caller
    OBVIOUS
<1>6. /\ p \in 1..Len(cstack) /\ cstack[p].fn \in CallFns
      /\ \A q \in p + 1..Len(cstack) : cstack[q].fn \notin CallFns
    BY <1>3, <1>5, CallerOf
<1>7. /\ ds \in Seq(FrameSet) /\ ds # <<>> /\ Shape(ds, contexts) /\ Subs(ds, contexts)
      /\ ds[Len(ds)].fn \in {"main", "destroy", "docatch"} /\ Len(ds) \in Nat /\ Len(ds) > 0
      /\ p \in 1..Len(ds) /\ ds[p].fn \in CallFns
      /\ \A q \in p + 1..Len(ds) : ds[q].fn \notin CallFns
  <2>1. CASE cstack[Len(cstack)].fn = "call"
    <3>1. PICK e : e = CFrame("docatch", 0)
        OBVIOUS
    <3>2. e \in FrameSet /\ e.fn = "docatch"
        BY <3>1, FrameIs DEF Loops
    <3>3. ds = Append(cstack, e)
        BY <1>1, <2>1, <3>1, <1>4 DEF Catches, Works, Last
    <3>4. /\ ds \in Seq(FrameSet) /\ Len(ds) = Len(cstack) + 1
          /\ \A q \in 1..Len(cstack) : ds[q] = cstack[q]
          /\ ds[Len(ds)] = e
        BY <1>4, <3>2, <3>3, PushOf
    <3>5. Shape(ds, contexts) /\ Subs(ds, contexts)
        BY <1>4, <2>1, <3>2, <3>4, OneCalled
    <3>6. \A q \in p + 1..Len(ds) : 
            (q \in p + 1..Len(cstack) /\ q \in 1..Len(cstack)) \/ q = Len(ds)
        BY <1>4, <1>6, <3>4
    <3>7. \A q \in p + 1..Len(ds) : ds[q].fn \notin CallFns
        BY <1>6, <3>2, <3>4, <3>6 DEF CallFns
    <3>8. p \in 1..Len(ds) /\ ds[p] = cstack[p] /\ Len(ds) \in Nat /\ Len(ds) > 0 /\ ds # <<>>
        BY <1>4, <1>6, <3>4
    <3> QED
        BY <1>6, <3>2, <3>4, <3>5, <3>7, <3>8
  <2>2. CASE cstack[Len(cstack)].fn # "call"
    <3>1. ds = cstack
        BY <1>1, <2>2, <1>4 DEF Catches, Works, Last
    <3> QED
        BY <1>4, <1>6, <2>2, <3>1 DEF Loops
  <2> QED
      BY <2>1, <2>2
<1>8. c = Len(ds)
  <2>1. PICK S : S = Setjmps(ds)
      OBVIOUS
  <2>2. DOMAIN ds = 1..Len(ds)
      BY <1>7
  <2>3. S \in SUBSET (1..Len(ds)) /\ Len(ds) \in S
      BY <1>7, <2>1, <2>2 DEF Setjmps
  <2>4. c \in S /\ \A m \in S : m <= c
      BY <1>2, <1>7, <2>1, <2>3, MaxIs
  <2> QED
      BY <1>7, <2>3, <2>4
<1>9. ds[Len(ds)].fn \in Loops /\ ds[Len(ds)].fn # "call" /\ c \in Nat
    BY <1>7, <1>8 DEF Loops
<1> QED
    BY <1>3, <1>5, <1>7, <1>8, <1>9, OpensStep

\* STORE is called.
LEMMA CallStoreStep ==
    ASSUME StackInvariant, NEW saved \in Seq(SavedSet), NEW v \in Nat, CallStore(saved, v),
           cstack[Len(cstack)].fn \in Loops \cup {"leave", "tmps", "unwind"},
           \A i \in 1..Len(contexts) : contexts[i].saveix <= Len(saved),
           Kept(saved, v, contexts)
    PROVE  StackInvariant'
<1>1. /\ cstack \in Seq(FrameSet) /\ cstack # <<>> /\ contexts \in Seq(ContextSet)
      /\ Shape(cstack, contexts) /\ Subs(cstack, contexts)
      /\ tmps \in Nat /\ floor \in Nat
    BY DEF StackInvariant, StackTypes
<1>2. PICK c : c = [Context("sub", Len(saved) + 1, tmps, tmps, 0, Len(cstack) + 1)
                        EXCEPT !.entry = v]
    OBVIOUS
<1>3. PICK f : f = CFrame("call", Len(saved))
    OBVIOUS
<1>4. PICK e : e = Saved("floor", floor)
    OBVIOUS
<1>5. /\ value' = v /\ savestack' = Append(saved, e) /\ floor' = tmps /\ tmps' = tmps
      /\ contexts' = Append(contexts, c) /\ cstack' = cstack \o <<f>>
    BY <1>2, <1>3, <1>4 DEF CallStore, Then
<1>6. Len(saved) \in Nat /\ Len(cstack) \in Nat /\ Len(contexts) \in Nat
    BY <1>1, FrameTypes, ContextTypes, SavedTypes
<1>7. /\ c \in ContextSet /\ c.type = "sub" /\ c.saveix = Len(saved) + 1 /\ c.entry = v
      /\ c.caller = Len(cstack) + 1
  <2>1. c = [type |-> "sub", saveix |-> Len(saved) + 1, tmps |-> tmps, oldfloor |-> tmps,
             catcher |-> 0, caller |-> Len(cstack) + 1, entry |-> v]
      BY <1>2 DEF Context
  <2>2. Len(saved) + 1 \in Nat /\ Len(cstack) + 1 \in Nat
      BY <1>6
  <2> QED
      BY <1>1, <2>1, <2>2 DEF ContextSet
<1>8. f \in FrameSet /\ f.fn = "call" /\ f.n = Len(saved)
    BY <1>3, <1>6, FrameIs DEF Loops
<1>9. e \in SavedSet /\ e.what # "local"
    BY <1>1, <1>4 DEF Saved, SavedSet
<1>10. /\ savestack' \in Seq(SavedSet) /\ Len(savestack') = Len(saved) + 1
       /\ Kept(savestack', v, contexts)
    BY <1>1, <1>5, <1>9, PushOf, KeptPush
<1>11. /\ contexts' \in Seq(ContextSet) /\ Len(contexts') = Len(contexts) + 1
       /\ \A i \in 1..Len(contexts) : contexts'[i] = contexts[i]
       /\ contexts'[Len(contexts')] = c
    BY <1>1, <1>5, <1>6, <1>7, PushOf
<1>12. /\ cstack' \in Seq(FrameSet) /\ Len(cstack') = Len(cstack) + 1
       /\ \A q \in 1..Len(cstack) : cstack'[q] = cstack[q]
       /\ cstack'[Len(cstack')] = f /\ cstack' # <<>>
  <2>1. PICK t : t = <<f>>
      OBVIOUS
  <2>2. t \in Seq(FrameSet) /\ Len(t) = 1 /\ t[1] = f
      BY <1>8, <2>1
  <2> QED
      BY <1>1, <1>5, <2>1, <2>2, JoinOf
<1>13. /\ Shape(cstack', contexts)
       /\ \A q \in 1..Len(cstack') : q < Len(cstack') => SubOK(cstack', contexts, q)
  <2>1. /\ cstack'[Len(cstack')].fn \in {"call", "destroy"}
        /\ \A i \in 1..Len(contexts) : contexts[i].saveix <= cstack'[Len(cstack')].n
      BY <1>8, <1>12
  <2> QED
      BY <1>1, <1>12, <2>1, Called
<1>14. Shape(cstack', contexts') /\ Subs(cstack', contexts')
  <2>1. PICK n : n = Len(cstack')
      OBVIOUS
  <2>2. n \in Nat /\ n = Len(cstack) + 1 /\ cstack'[n] = f
      BY <1>6, <1>12, <2>1
  <2>3. \A i \in 1..Len(contexts) : contexts[i].caller < n /\ contexts[i].saveix <= cstack'[n].n
    <3>1. \A i \in 1..Len(contexts) : contexts[i].caller \in 1..Len(cstack)
        BY <1>1 DEF Shape, ContextOK
    <3> QED
        BY <1>6, <1>8, <2>2, <3>1
  <2>4. /\ contexts'[Len(contexts')].type = "sub" /\ contexts'[Len(contexts')].caller = n
        /\ contexts'[Len(contexts')].saveix = cstack'[n].n + 1
      BY <1>7, <1>8, <1>11, <2>2
  <2>5. cstack'[n].fn = "call" /\ \A q \in 1..n : q < n => SubOK(cstack', contexts, q)
      BY <1>8, <1>13, <2>1, <2>2
  <2> QED
      BY <1>1, <1>11, <1>12, <1>13, <2>1, <2>3, <2>4, <2>5, StoreOpened
<1>15. Kept(savestack', value', contexts')
  <2>1. \A i \in 1..Len(contexts') : i \notin 1..Len(contexts) => i = Len(contexts')
      BY <1>6, <1>11
  <2>2. \A i \in 1..Len(contexts') : i \notin 1..Len(contexts) =>
            contexts'[i].saveix = Len(savestack') /\ contexts'[i].entry = v
      BY <1>7, <1>10, <1>11, <2>1
  <2>3. \A i \in 1..Len(contexts') : i \in 1..Len(contexts) => contexts'[i] = contexts[i]
      BY <1>11
  <2>4. Kept(savestack', v, contexts')
      BY <1>1, <1>10, <1>11, <2>2, <2>3, KeptNew, Zenon
  <2> QED
      BY <1>5, <2>4
<1>16. StackTypes'
    BY <1>1, <1>5, <1>10, <1>11, <1>12 DEF StackTypes
<1> QED
    BY <1>8, <1>12, <1>14, <1>15, <1>16, StepIs

\* DESTROY is called.
LEMMA EnterDestroyStep ==
    ASSUME StackInvariant, NEW saved \in Seq(SavedSet), NEW t \in Nat, EnterDestroy(saved, t),
           value' = value,
           cstack[Len(cstack)].fn \in Loops \cup {"leave", "tmps", "unwind"},
           \A i \in 1..Len(contexts) : contexts[i].saveix <= Len(saved),
           Kept(saved, value, contexts)
    PROVE  StackInvariant'
<1>1. /\ cstack \in Seq(FrameSet) /\ cstack # <<>> /\ contexts \in Seq(ContextSet)
      /\ Shape(cstack, contexts) /\ Subs(cstack, contexts)
      /\ value \in Nat /\ floor \in Nat
    BY DEF StackInvariant, StackTypes
<1>2. PICK c : c = Context("destroy", Len(saved) + 1, t, t, Len(cstack) + 1, Len(cstack) + 1)
    OBVIOUS
<1>3. PICK d : d = Context("sub", Len(saved) + 1, t, t, 0, Len(cstack) + 1)
    OBVIOUS
<1>4. PICK f : f = CFrame("destroy", Len(saved))
    OBVIOUS
<1>5. PICK e : e = Saved("floor", floor)
    OBVIOUS
<1>6. /\ savestack' = Append(saved, e) /\ floor' = t /\ tmps' = t
      /\ contexts' = contexts \o <<c, d>> /\ cstack' = cstack \o <<f>>
    BY <1>2, <1>3, <1>4, <1>5 DEF EnterDestroy, Then
<1>7. Len(saved) \in Nat /\ Len(cstack) \in Nat /\ Len(contexts) \in Nat
    BY <1>1, FrameTypes, ContextTypes, SavedTypes
<1>8. /\ c \in ContextSet /\ c.type = "destroy" /\ c.saveix = Len(saved) + 1 /\ c.entry = value
      /\ c.caller = Len(cstack) + 1 /\ c.catcher = Len(cstack) + 1
    BY <1>1, <1>2, <1>7 DEF Context, ContextSet
<1>9. /\ d \in ContextSet /\ d.type = "sub" /\ d.saveix = Len(saved) + 1 /\ d.entry = value
      /\ d.caller = Len(cstack) + 1
    BY <1>1, <1>3, <1>7 DEF Context, ContextSet
<1>10. f \in FrameSet /\ f.fn = "destroy" /\ f.n = Len(saved)
    BY <1>4, <1>7, FrameIs DEF Loops
<1>11. e \in SavedSet /\ e.what # "local"
    BY <1>1, <1>5 DEF Saved, SavedSet
<1>12. /\ savestack' \in Seq(SavedSet) /\ Len(savestack') = Len(saved) + 1
       /\ Kept(savestack', value, contexts)
    BY <1>1, <1>6, <1>11, PushOf, KeptPush
<1>13. /\ contexts' \in Seq(ContextSet) /\ Len(contexts') = Len(contexts) + 2
       /\ \A i \in 1..Len(contexts) : contexts'[i] = contexts[i]
       /\ contexts'[Len(contexts) + 1] = c /\ contexts'[Len(contexts')] = d
  <2>1. PICK u : u = <<c, d>>
      OBVIOUS
  <2>2. u \in Seq(ContextSet) /\ Len(u) = 2 /\ u[1] = c /\ u[2] = d
      BY <1>8, <1>9, <2>1
  <2> QED
      BY <1>1, <1>6, <2>1, <2>2, JoinOf
<1>14. /\ cstack' \in Seq(FrameSet) /\ Len(cstack') = Len(cstack) + 1
       /\ \A q \in 1..Len(cstack) : cstack'[q] = cstack[q]
       /\ cstack'[Len(cstack')] = f /\ cstack' # <<>>
  <2>1. PICK u : u = <<f>>
      OBVIOUS
  <2>2. u \in Seq(FrameSet) /\ Len(u) = 1 /\ u[1] = f
      BY <1>10, <2>1
  <2> QED
      BY <1>1, <1>6, <2>1, <2>2, JoinOf
<1>15. /\ Shape(cstack', contexts)
       /\ \A q \in 1..Len(cstack') : q < Len(cstack') => SubOK(cstack', contexts, q)
  <2>1. /\ cstack'[Len(cstack')].fn \in {"call", "destroy"}
        /\ \A i \in 1..Len(contexts) : contexts[i].saveix <= cstack'[Len(cstack')].n
      BY <1>10, <1>14
  <2> QED
      BY <1>1, <1>14, <2>1, Called
<1>16. Shape(cstack', contexts') /\ Subs(cstack', contexts')
  <2>1. PICK n : n = Len(cstack')
      OBVIOUS
  <2>2. n \in Nat /\ n = Len(cstack) + 1 /\ cstack'[n] = f
      BY <1>7, <1>14, <2>1
  <2>3. \A i \in 1..Len(contexts) : contexts[i].caller < n /\ contexts[i].saveix <= cstack'[n].n
    <3>1. \A i \in 1..Len(contexts) : contexts[i].caller \in 1..Len(cstack)
        BY <1>1 DEF Shape, ContextOK
    <3> QED
        BY <1>7, <1>10, <2>2, <3>1
  <2>4. /\ contexts'[Len(contexts')].type = "sub" /\ contexts'[Len(contexts')].caller = n
        /\ contexts'[Len(contexts')].saveix = cstack'[n].n + 1
      BY <1>9, <1>10, <1>13, <2>2
  <2>5. /\ contexts'[Len(contexts) + 1].type = "destroy" /\ contexts'[Len(contexts) + 1].caller = n
        /\ contexts'[Len(contexts) + 1].catcher = n
        /\ contexts'[Len(contexts) + 1].saveix = cstack'[n].n + 1
      BY <1>8, <1>10, <1>13, <2>2
  <2>6. cstack'[n].fn = "destroy" /\ \A q \in 1..n : q < n => SubOK(cstack', contexts, q)
      BY <1>10, <1>15, <2>1, <2>2
  <2> QED
      BY <1>1, <1>13, <1>14, <1>15, <2>1, <2>3, <2>4, <2>5, <2>6, DestroyOpened
<1>17. Kept(savestack', value', contexts')
  <2>1. \A i \in 1..Len(contexts') : i \notin 1..Len(contexts) =>
            i = Len(contexts') \/ i = Len(contexts) + 1
      BY <1>7, <1>13
  <2>2. \A i \in 1..Len(contexts') : i \notin 1..Len(contexts) =>
            contexts'[i].saveix = Len(savestack') /\ contexts'[i].entry = value
      BY <1>8, <1>9, <1>12, <1>13, <2>1
  <2>3. \A i \in 1..Len(contexts') : i \in 1..Len(contexts) => contexts'[i] = contexts[i]
      BY <1>13
  <2>4. Kept(savestack', value, contexts')
      BY <1>1, <1>12, <1>13, <2>2, <2>3, KeptNew, Zenon
  <2> QED
      BY <2>4
<1>18. StackTypes'
    BY <1>1, <1>6, <1>12, <1>13, <1>14 DEF StackTypes
<1> QED
    BY <1>10, <1>14, <1>16, <1>17, <1>18, StepIs

LEMMA AssignTiedStep ==
    ASSUME StackInvariant, AssignTied
    PROVE  StackInvariant'
<1>1. Runs /\ CallStore(savestack, value)
    BY DEF AssignTied, MayCall
<1>2. /\ savestack \in Seq(SavedSet) /\ value \in Nat /\ contexts \in Seq(ContextSet)
      /\ Kept(savestack, value, contexts)
    BY DEF StackInvariant, StackTypes
<1>3. \A i \in 1..Len(contexts) : contexts[i].saveix <= Len(savestack)
    BY <1>2 DEF Kept, KeptFor
<1>4. cstack[Len(cstack)].fn \in Loops \cup {"leave", "tmps", "unwind"}
    BY <1>1, RunsIs
<1> QED
    BY <1>1, <1>2, <1>3, <1>4, CallStoreStep

\* A C function on top that works.
LEMMA WorksIs ==
    ASSUME StackInvariant, NEW f, Works(f)
    PROVE  /\ cstack \in Seq(FrameSet) /\ cstack # <<>> /\ Len(cstack) \in 1..Len(cstack)
           /\ cstack[Len(cstack)].fn = f /\ Last(cstack) = cstack[Len(cstack)]
           /\ contexts \in Seq(ContextSet) /\ savestack \in Seq(SavedSet)
           /\ Shape(cstack, contexts) /\ Subs(cstack, contexts)
           /\ Kept(savestack, value, contexts)
           /\ value \in Nat /\ tmps \in Nat /\ floor \in Nat
<1>1. cstack \in Seq(FrameSet) /\ cstack # <<>>
    BY DEF StackInvariant, StackTypes
<1> QED
    BY <1>1, FrameTypes DEF StackInvariant, StackTypes, Works, Last

LEMMA UndoStep ==
    ASSUME StackInvariant, Undo, savestack # <<>>,
           cstack[Len(cstack)].fn \in {"leave", "unwind"},
           \A i \in 1..Len(contexts) : contexts[i].saveix <= Len(savestack) - 1
    PROVE  StackInvariant'
<1>1. /\ savestack \in Seq(SavedSet) /\ contexts \in Seq(ContextSet)
      /\ cstack \in Seq(FrameSet) /\ cstack # <<>>
      /\ Shape(cstack, contexts) /\ Subs(cstack, contexts)
      /\ Kept(savestack, value, contexts) /\ value \in Nat /\ tmps \in Nat
    BY DEF StackInvariant, StackTypes
<1>2. PICK rest : rest = Front(savestack)
    OBVIOUS
<1>3. PICK entry : entry = Last(savestack)
    OBVIOUS
<1>4. /\ rest \in Seq(SavedSet) /\ Len(rest) = Len(savestack) - 1
      /\ entry \in SavedSet
    BY <1>1, <1>2, <1>3, FrontOf
<1>5. entry.old \in Nat
    BY <1>4 DEF SavedSet
<1>6. \A i \in 1..Len(contexts) : contexts[i].saveix <= Len(rest)
    BY <1>4
<1>7. cstack[Len(cstack)].fn \in Loops \cup {"leave", "tmps", "unwind"}
    OBVIOUS
<1>8. CASE entry.what = "local" /\ CallStore(rest, entry.old)
  <2>1. Kept(rest, entry.old, contexts)
    <3>1. entry.old = IF Last(savestack).what = "local" THEN Last(savestack).old ELSE value
        BY <1>3, <1>8
    <3> QED
        BY <1>1, <1>2, <3>1, KeptPop, Zenon
  <2> QED
      BY <1>4, <1>5, <1>6, <1>7, <1>8, <2>1, CallStoreStep
<1>b. ASSUME entry.what # "local" PROVE Kept(rest, value, contexts)
  <2>1. value = IF Last(savestack).what = "local" THEN Last(savestack).old ELSE value
      BY <1>3, <1>b
  <2> QED
      BY <1>1, <1>2, <2>1, KeptPop, Zenon
<1>9. CASE entry.what = "object" /\ EnterDestroy(rest, tmps) /\ value' = value
  <2>1. Kept(rest, value, contexts)
      BY <1>b, <1>9
  <2> QED
      BY <1>1, <1>4, <1>6, <1>7, <1>9, <2>1, EnterDestroyStep
<1>10. CASE /\ entry.what = "floor" /\ floor' = entry.old /\ savestack' = rest
            /\ value' = value /\ tmps' = tmps /\ contexts' = contexts /\ cstack' = cstack
  <2>1. Kept(savestack', value', contexts')
      BY <1>b, <1>10
  <2>2. StackTypes' /\ cstack' # <<>>
      BY <1>1, <1>4, <1>5, <1>10 DEF StackTypes
  <2>3. cstack'[Len(cstack')].fn \notin {"pop", "return", "jump"}
      BY <1>10
  <2> QED
      BY <1>1, <1>10, <2>1, <2>2, <2>3, StepIs
<1>11. \/ entry.what = "local" /\ CallStore(rest, entry.old)
       \/ entry.what = "object" /\ EnterDestroy(rest, tmps) /\ value' = value
       \/ /\ entry.what = "floor" /\ floor' = entry.old /\ savestack' = rest
          /\ value' = value /\ tmps' = tmps /\ contexts' = contexts /\ cstack' = cstack
    BY <1>2, <1>3 DEF Undo
<1> QED
    BY <1>8, <1>9, <1>10, <1>11

\* A C function returns: Front of the C stack.
LEMMA DoneIs ==
    ASSUME StackInvariant, Done
    PROVE  /\ cstack' \in Seq(FrameSet) /\ Len(cstack') = Len(cstack) - 1
           /\ \A q \in 1..Len(cstack') : cstack'[q] = cstack[q]
<1>1. cstack \in Seq(FrameSet) /\ cstack # <<>> /\ cstack' = Front(cstack)
    BY DEF StackInvariant, StackTypes, Done
<1> QED
    BY <1>1, FrontOf

LEMMA LeaveScopeStep ==
    ASSUME StackInvariant, LeaveScope
    PROVE  StackInvariant'
<1>1. /\ cstack \in Seq(FrameSet) /\ cstack # <<>> /\ Len(cstack) \in 1..Len(cstack)
      /\ cstack[Len(cstack)].fn = "leave" /\ Last(cstack) = cstack[Len(cstack)]
      /\ contexts \in Seq(ContextSet) /\ savestack \in Seq(SavedSet)
      /\ Shape(cstack, contexts) /\ Subs(cstack, contexts)
      /\ Kept(savestack, value, contexts)
    BY WorksIs DEF LeaveScope
<1>2. PICK m : m = cstack[Len(cstack)].n
    OBVIOUS
<1>3. /\ \A i \in 1..Len(contexts) : contexts[i].saveix <= m
      /\ cstack[Len(cstack) - 1].fn \in {"pop", "return", "jump"} =>
            Len(contexts) \in 1..Len(contexts) /\ m = contexts[Len(contexts)].saveix
    BY <1>1, <1>2, LeaveMark
<1>4. /\ m \in Nat /\ Len(savestack) \in Nat /\ Len(contexts) \in Nat /\ Len(cstack) \in Nat
      /\ \A i \in 1..Len(contexts) : contexts[i].saveix \in Nat
    BY <1>1, <1>2, FrameTypes, SavedTypes, ContextTypes
<1>5. CASE Len(savestack) > m
  <2>1. Undo
      BY <1>1, <1>2, <1>5 DEF LeaveScope
  <2>2. savestack # <<>>
      BY <1>4, <1>5
  <2>3. \A i \in 1..Len(contexts) : contexts[i].saveix <= Len(savestack) - 1
      BY <1>3, <1>4, <1>5
  <2> QED
      BY <1>1, <2>1, <2>2, <2>3, UndoStep
<1>6. CASE ~(Len(savestack) > m)
  <2>1. /\ Done /\ value' = value /\ savestack' = savestack /\ tmps' = tmps
        /\ floor' = floor /\ contexts' = contexts
      BY <1>1, <1>2, <1>6 DEF LeaveScope
  <2>2. /\ cstack' \in Seq(FrameSet) /\ Len(cstack') = Len(cstack) - 1
        /\ \A q \in 1..Len(cstack') : cstack'[q] = cstack[q]
      BY <2>1, DoneIs
  <2>3. Len(cstack') > 0 /\ Shape(cstack', contexts) /\ Subs(cstack', contexts)
      BY <1>1, <2>2, WorkDone
  <2>4. cstack'[Len(cstack')] = cstack[Len(cstack) - 1] /\ cstack' # <<>>
    <3>1. Len(cstack') \in 1..Len(cstack')
        BY <1>4, <2>2, <2>3
    <3> QED
        BY <2>2, <2>3, <3>1
  <2>5. ASSUME cstack'[Len(cstack')].fn \in {"pop", "return", "jump"}
        PROVE  contexts # <<>> /\ Len(savestack) = contexts[Len(contexts)].saveix
    <3>1. Len(contexts) \in 1..Len(contexts) /\ m = contexts[Len(contexts)].saveix
        BY <1>3, <2>4, <2>5
    <3>2. Len(savestack) <= contexts[Len(contexts)].saveix /\ contexts # <<>>
        BY <1>4, <1>6, <3>1
    <3> QED
        BY <1>1, <3>1, <3>2, KeptUndone
  <2>6. StackTypes'
      BY <2>1, <2>2 DEF StackInvariant, StackTypes
  <2> QED
      BY <1>1, <2>1, <2>3, <2>4, <2>5, <2>6 DEF StackInvariant, TopOK
<1> QED
    BY <1>5, <1>6

LEMMA FreeTemporariesStep ==
    ASSUME StackInvariant, FreeTemporaries
    PROVE  StackInvariant'
<1>1. /\ cstack \in Seq(FrameSet) /\ cstack # <<>> /\ Len(cstack) \in 1..Len(cstack)
      /\ cstack[Len(cstack)].fn = "tmps"
      /\ contexts \in Seq(ContextSet) /\ savestack \in Seq(SavedSet)
      /\ Shape(cstack, contexts) /\ Subs(cstack, contexts)
      /\ Kept(savestack, value, contexts)
      /\ value \in Nat /\ tmps \in Nat /\ floor \in Nat
    BY WorksIs DEF FreeTemporaries
<1>2. CASE tmps > floor
  <2>1. EnterDestroy(savestack, tmps - 1) /\ value' = value
      BY <1>2 DEF FreeTemporaries
  <2>2. tmps - 1 \in Nat
      BY <1>1, <1>2
  <2>3. \A i \in 1..Len(contexts) : contexts[i].saveix <= Len(savestack)
      BY <1>1 DEF Kept, KeptFor
  <2>4. cstack[Len(cstack)].fn \in Loops \cup {"leave", "tmps", "unwind"}
      BY <1>1
  <2> QED
      BY <1>1, <2>1, <2>2, <2>3, <2>4, EnterDestroyStep
<1>3. CASE ~(tmps > floor)
  <2>1. /\ Done /\ value' = value /\ savestack' = savestack /\ tmps' = tmps
        /\ floor' = floor /\ contexts' = contexts
      BY <1>3 DEF FreeTemporaries
  <2>2. /\ cstack' \in Seq(FrameSet) /\ Len(cstack') = Len(cstack) - 1
        /\ \A q \in 1..Len(cstack') : cstack'[q] = cstack[q]
      BY <2>1, DoneIs
  <2>3. Len(cstack') > 0 /\ Shape(cstack', contexts) /\ Subs(cstack', contexts)
      BY <1>1, <2>2, WorkDone
  <2>4. cstack'[Len(cstack')] = cstack[Len(cstack) - 1] /\ cstack' # <<>>
    <3>1. Len(cstack') \in 1..Len(cstack')
        BY <1>1, <2>2, <2>3
    <3> QED
        BY <2>2, <2>3, <3>1
  <2>5. cstack[Len(cstack) - 1].fn \in Loops \cup {"leave"}
    <3>1. Placed(cstack, Len(cstack))
        BY <1>1 DEF Shape, FrameOK
    <3> QED
        BY <1>1, <3>1 DEF Placed
  <2>6. cstack'[Len(cstack')].fn \notin {"pop", "return", "jump"}
      BY <2>4, <2>5 DEF Loops
  <2>7. StackTypes'
      BY <2>1, <2>2 DEF StackInvariant, StackTypes
  <2> QED
      BY <1>1, <2>1, <2>3, <2>4, <2>6, <2>7, StepIs
<1> QED
    BY <1>2, <1>3

\* The context that goes leaves the others what they saved.
LEMMA PoppedIs ==
    ASSUME NEW cx \in Seq(ContextSet), cx # <<>>, NEW dx, dx = Front(cx)
    PROVE  /\ dx \in Seq(ContextSet) /\ Len(dx) = Len(cx) - 1 /\ Len(cx) \in Nat
           /\ \A i \in 1..Len(dx) : dx[i] = cx[i] /\ i \in 1..Len(cx)
           /\ Last(cx) = cx[Len(cx)] /\ cx[Len(cx)].oldfloor \in Nat
           /\ \A s \in Seq(SavedSet), v \in Nat : Kept(s, v, cx) => Kept(s, v, dx)
<1>1. /\ dx \in Seq(ContextSet) /\ Len(dx) = Len(cx) - 1 /\ Len(cx) \in Nat /\ Len(cx) > 0
      /\ \A i \in 1..Len(cx) - 1 : dx[i] = cx[i]
      /\ Last(cx) = cx[Len(cx)]
    BY FrontOf
<1>2. \A i \in 1..Len(dx) : dx[i] = cx[i] /\ i \in 1..Len(cx)
    BY <1>1
<1>3. Len(cx) \in 1..Len(cx)
    BY <1>1
<1>4. cx[Len(cx)].oldfloor \in Nat
    BY <1>3, ContextTypes
<1>5. \A s \in Seq(SavedSet), v \in Nat : Kept(s, v, cx) => Kept(s, v, dx)
    BY <1>2 DEF Kept
<1> QED
    BY <1>1, <1>2, <1>4, <1>5

LEMMA UnwindStep ==
    ASSUME StackInvariant, Unwind
    PROVE  StackInvariant'
<1> DEFINE k == Len(contexts)
<1>1. /\ cstack \in Seq(FrameSet) /\ cstack # <<>> /\ Len(cstack) \in 1..Len(cstack)
      /\ cstack[Len(cstack)].fn = "unwind" /\ Last(cstack) = cstack[Len(cstack)]
      /\ contexts \in Seq(ContextSet) /\ savestack \in Seq(SavedSet)
      /\ Shape(cstack, contexts) /\ Subs(cstack, contexts)
      /\ Kept(savestack, value, contexts)
      /\ value \in Nat /\ tmps \in Nat /\ floor \in Nat
    BY WorksIs DEF Unwind
<1>2. PICK c : c = cstack[Len(cstack)].n
    OBVIOUS
<1>3. /\ c \in Nat /\ Len(savestack) \in Nat /\ k \in Nat
      /\ \A i \in 1..k : contexts[i].saveix \in Nat
    BY <1>1, <1>2, FrameTypes, SavedTypes, ContextTypes
<1>4. ASSUME k > c
      PROVE  /\ contexts # <<>> /\ k \in 1..k /\ Top = contexts[k]
             /\ \A i \in 1..k : contexts[i].saveix <= Top.saveix
  <2>1. contexts # <<>> /\ k \in 1..k /\ Top = contexts[k]
      BY <1>3, <1>4 DEF Top, Last
  <2>2. \A i \in 1..k : i < k \/ i = k
      BY <1>3
  <2>3. Ordered(contexts)
      BY <1>1 DEF Shape
  <2> QED
      BY <1>3, <2>1, <2>2, <2>3 DEF Ordered
<1>5. CASE k > c /\ Len(savestack) > Top.saveix /\ Undo
  <2>1. Top.saveix \in Nat /\ savestack # <<>>
      BY <1>1, <1>3, <1>4, <1>5
  <2>2. \A i \in 1..k : contexts[i].saveix <= Len(savestack) - 1
      BY <1>3, <1>4, <1>5, <2>1
  <2> QED
      BY <1>1, <1>5, <2>1, <2>2, UndoStep
<1>6. CASE /\ k > c /\ contexts' = Front(contexts)
           /\ floor' = IF k = c + 1 THEN Top.oldfloor ELSE floor
           /\ value' = value /\ savestack' = savestack /\ tmps' = tmps /\ cstack' = cstack
  <2>1. /\ contexts' \in Seq(ContextSet) /\ Len(contexts') = k - 1
        /\ \A i \in 1..Len(contexts') : contexts'[i] = contexts[i]
        /\ contexts[k].oldfloor \in Nat
        /\ Kept(savestack, value, contexts')
      BY <1>1, <1>4, <1>6, PoppedIs
  <2>2. Shape(cstack, contexts') /\ Subs(cstack, contexts')
    <3>1. cstack[Len(cstack)].n < Len(contexts)
        BY <1>2, <1>3, <1>6
    <3> QED
        BY <1>1, <2>1, <3>1, UnwindPops
  <2>3. StackTypes'
      BY <1>1, <1>4, <1>6, <2>1 DEF StackTypes
  <2> QED
      BY <1>1, <1>6, <2>1, <2>2, <2>3, StepIs
<1>7. CASE /\ k = c /\ Done /\ contexts' = contexts
           /\ value' = value /\ savestack' = savestack /\ tmps' = tmps /\ floor' = floor
  <2>2. /\ cstack' \in Seq(FrameSet) /\ Len(cstack') = Len(cstack) - 1
        /\ \A q \in 1..Len(cstack') : cstack'[q] = cstack[q]
      BY <1>7, DoneIs
  <2>3. Len(cstack') > 0 /\ Shape(cstack', contexts) /\ Subs(cstack', contexts)
      BY <1>1, <1>2, <1>7, <2>2, WorkDone
  <2>4. cstack'[Len(cstack')] = cstack[Len(cstack) - 1] /\ cstack' # <<>>
    <3>1. Len(cstack') \in 1..Len(cstack')
        BY <1>1, <2>2, <2>3
    <3> QED
        BY <2>2, <2>3, <3>1
  <2>5. cstack[Len(cstack) - 1].fn = "tmps"
    <3>1. Placed(cstack, Len(cstack))
        BY <1>1 DEF Shape, FrameOK
    <3> QED
        BY <1>1, <3>1 DEF Placed
  <2>6. cstack'[Len(cstack')].fn \notin {"pop", "return", "jump"}
      BY <2>4, <2>5
  <2>7. StackTypes'
      BY <1>7, <2>2 DEF StackInvariant, StackTypes
  <2> QED
      BY <1>1, <1>7, <2>3, <2>4, <2>6, <2>7, StepIs
<1>8. \/ k > c /\ Len(savestack) > Top.saveix /\ Undo
      \/ /\ k > c /\ contexts' = Front(contexts)
         /\ floor' = IF k = c + 1 THEN Top.oldfloor ELSE floor
         /\ value' = value /\ savestack' = savestack /\ tmps' = tmps /\ cstack' = cstack
      \/ /\ k = c /\ Done /\ contexts' = contexts
         /\ value' = value /\ savestack' = savestack /\ tmps' = tmps /\ floor' = floor
    BY <1>1, <1>2 DEF Unwind
<1> QED
    BY <1>5, <1>6, <1>7, <1>8

LEMMA Pop1Step ==
    ASSUME StackInvariant, Pop1
    PROVE  StackInvariant'
<1>1. /\ cstack \in Seq(FrameSet) /\ cstack # <<>> /\ Len(cstack) \in 1..Len(cstack)
      /\ cstack[Len(cstack)].fn = "pop"
      /\ contexts \in Seq(ContextSet) /\ savestack \in Seq(SavedSet)
      /\ Shape(cstack, contexts) /\ Subs(cstack, contexts)
      /\ Kept(savestack, value, contexts)
      /\ value \in Nat /\ tmps \in Nat /\ floor \in Nat
    BY WorksIs DEF Pop1
<1>2. /\ Done /\ contexts' = Front(contexts) /\ floor' = Top.oldfloor
      /\ value' = value /\ savestack' = savestack /\ tmps' = tmps
    BY DEF Pop1, PopBlock
<1>3. contexts # <<>>
    BY <1>1 DEF StackInvariant, TopOK
<1>4. /\ contexts' \in Seq(ContextSet) /\ Len(contexts') = Len(contexts) - 1
      /\ \A i \in 1..Len(contexts') : contexts'[i] = contexts[i]
      /\ floor' \in Nat /\ Kept(savestack, value, contexts')
    BY <1>1, <1>2, <1>3, PoppedIs DEF Top
<1>5. /\ cstack' \in Seq(FrameSet) /\ Len(cstack') = Len(cstack) - 1
      /\ \A q \in 1..Len(cstack') : cstack'[q] = cstack[q]
    BY <1>2, DoneIs
<1>6. Len(cstack') > 0 /\ Shape(cstack', contexts') /\ Subs(cstack', contexts')
    BY <1>1, <1>4, <1>5, PopDone
<1>7. cstack'[Len(cstack')] = cstack[Len(cstack) - 1] /\ cstack' # <<>>
  <2>1. Len(cstack') \in 1..Len(cstack')
      BY <1>1, <1>5, <1>6
  <2> QED
      BY <1>5, <1>6, <2>1
<1>8. cstack[Len(cstack) - 1].fn \in Loops \cup {"tmps"}
  <2>1. Placed(cstack, Len(cstack))
      BY <1>1 DEF Shape, FrameOK
  <2> QED
      BY <1>1, <2>1 DEF Placed
<1>9. cstack'[Len(cstack')].fn \notin {"pop", "return", "jump"}
    BY <1>7, <1>8 DEF Loops
<1>10. StackTypes'
    BY <1>1, <1>2, <1>4, <1>5 DEF StackTypes
<1> QED
    BY <1>2, <1>4, <1>6, <1>7, <1>9, <1>10, StepIs

LEMMA CallDoneStep ==
    ASSUME StackInvariant, CallDone
    PROVE  StackInvariant'
<1>1. /\ cstack \in Seq(FrameSet) /\ cstack # <<>> /\ Len(cstack) \in 1..Len(cstack)
      /\ cstack[Len(cstack)].fn = "done"
      /\ contexts \in Seq(ContextSet)
      /\ Shape(cstack, contexts) /\ Subs(cstack, contexts)
      /\ Kept(savestack, value, contexts)
    BY WorksIs DEF CallDone
<1>2. /\ cstack' = Front(Front(cstack)) /\ contexts' = contexts
      /\ value' = value /\ savestack' = savestack /\ tmps' = tmps /\ floor' = floor
    BY DEF CallDone
<1>3. Len(cstack) > 1 /\ Len(cstack) \in Nat
    BY <1>1, Below1
<1>4. /\ cstack' \in Seq(FrameSet) /\ Len(cstack') = Len(cstack) - 2
      /\ \A q \in 1..Len(cstack') : cstack'[q] = cstack[q]
  <2>1. PICK s : s = Front(cstack)
      OBVIOUS
  <2>2. /\ s \in Seq(FrameSet) /\ Len(s) = Len(cstack) - 1
        /\ \A q \in 1..Len(cstack) - 1 : s[q] = cstack[q]
      BY <1>1, <2>1, FrontOf
  <2>3. s # <<>>
      BY <1>3, <2>2
  <2>4. /\ Front(s) \in Seq(FrameSet) /\ Len(Front(s)) = Len(s) - 1
        /\ \A q \in 1..Len(s) - 1 : Front(s)[q] = s[q]
      BY <2>2, <2>3, FrontOf
  <2>5. cstack' = Front(s)
      BY <1>2, <2>1
  <2> QED
      BY <1>3, <2>2, <2>4, <2>5
<1>5. /\ Len(cstack') > 0 /\ Shape(cstack', contexts) /\ Subs(cstack', contexts)
      /\ cstack'[Len(cstack')].fn \in Loops \cup {"leave", "tmps", "unwind"}
    BY <1>1, <1>4, CallOver
<1>6. cstack' # <<>> /\ cstack'[Len(cstack')].fn \notin {"pop", "return", "jump"}
    BY <1>4, <1>5 DEF Loops
<1>7. StackTypes'
    BY <1>2, <1>4 DEF StackInvariant, StackTypes
<1> QED
    BY <1>1, <1>2, <1>5, <1>6, <1>7, StepIs

\* The end of call_sv follows on the C call that is cut back to.
CallEnding(ds, cs, m, evals) ==
    /\ ds \in Seq(FrameSet) /\ Len(ds) = m + 3 + Len(evals) /\ Len(evals) \in Nat
    /\ \A q \in 1..m : ds[q] = cs[q]
    /\ ds[m + 1] = CFrame("done", 0) /\ ds[m + 2] = CFrame("leave", cs[m].n)
    /\ ds[m + 3] = CFrame("tmps", 0)
    /\ \A i \in 1..Len(evals) : ds[m + 3 + i] = evals[i]

LEMMA EndFollows ==
    ASSUME NEW cs \in Seq(FrameSet), NEW m \in 1..Len(cs), NEW evals \in Seq(FrameSet)
    PROVE  CallEnding(SubSeq(cs, 1, m) \o CallEnds(cs[m], evals), cs, m, evals)
<1>0. PICK ds : ds = SubSeq(cs, 1, m) \o CallEnds(cs[m], evals)
    OBVIOUS
<1>1. m \in Nat /\ m \in 0..Len(cs) /\ cs[m].n \in Nat
    BY FrameTypes
<1>2. PICK s : s = SubSeq(cs, 1, m)
    OBVIOUS
<1>3. s \in Seq(FrameSet) /\ Len(s) = m /\ \A q \in 1..m : s[q] = cs[q]
    BY <1>1, <1>2, CutOf
<1>4. PICK a : a = CFrame("done", 0)
    OBVIOUS
<1>5. PICK b : b = CFrame("leave", cs[m].n)
    OBVIOUS
<1>6. PICK c : c = CFrame("tmps", 0)
    OBVIOUS
<1>7. a \in FrameSet
    BY <1>4, FrameIs DEF WorkFns
<1>8. b \in FrameSet
    BY <1>1, <1>5, FrameIs DEF WorkFns
<1>9. c \in FrameSet
    BY <1>6, FrameIs DEF WorkFns
<1>10. PICK t : t = <<a, b, c>>
    OBVIOUS
<1>11. t \in Seq(FrameSet) /\ Len(t) = 3 /\ t[1] = a /\ t[2] = b /\ t[3] = c
    BY <1>7, <1>8, <1>9, <1>10
<1>12. PICK u : u = t \o evals
    OBVIOUS
<1>13. /\ u \in Seq(FrameSet) /\ Len(u) = 3 + Len(evals) /\ Len(evals) \in Nat
       /\ \A i \in 1..3 : u[i] = t[i]
       /\ \A i \in 1..Len(evals) : u[3 + i] = evals[i]
  <2>1. t \in Seq(FrameSet)
      BY <1>11
  <2>2. /\ t \o evals \in Seq(FrameSet) /\ Len(t \o evals) = Len(t) + Len(evals)
        /\ Len(evals) \in Nat
        /\ \A i \in 1..Len(t) : (t \o evals)[i] = t[i]
        /\ \A i \in 1..Len(evals) : (t \o evals)[Len(t) + i] = evals[i]
      BY <2>1, JoinOf
  <2>3. /\ u \in Seq(FrameSet) /\ Len(u) = Len(t) + Len(evals)
        /\ Len(evals) \in Nat
        /\ \A i \in 1..Len(t) : u[i] = t[i]
        /\ \A i \in 1..Len(evals) : u[Len(t) + i] = evals[i]
      BY <1>12, <2>2, Zenon
  <2>4. Len(t) = 3
      BY <1>11
  <2> QED
      BY <2>3, <2>4, Zenon
<1>14. ds = s \o u
    BY <1>0, <1>2, <1>4, <1>5, <1>6, <1>10, <1>12 DEF CallEnds
<1>15. /\ ds \in Seq(FrameSet) /\ Len(ds) = m + Len(u)
       /\ \A q \in 1..m : ds[q] = s[q]
       /\ \A i \in 1..Len(u) : ds[m + i] = u[i]
  <2>1. s \in Seq(FrameSet) /\ u \in Seq(FrameSet)
      BY <1>3, <1>13
  <2>2. /\ s \o u \in Seq(FrameSet) /\ Len(s \o u) = Len(s) + Len(u)
        /\ \A i \in 1..Len(s) : (s \o u)[i] = s[i]
        /\ \A i \in 1..Len(u) : (s \o u)[Len(s) + i] = u[i]
      BY <2>1, JoinOf
  <2>3. /\ ds \in Seq(FrameSet) /\ Len(ds) = Len(s) + Len(u)
        /\ \A i \in 1..Len(s) : ds[i] = s[i]
        /\ \A i \in 1..Len(u) : ds[Len(s) + i] = u[i]
      BY <1>14, <2>2, Zenon
  <2>4. Len(s) = m
      BY <1>3
  <2> QED
      BY <2>3, <2>4, Zenon
<1>16. 1 \in 1..Len(u) /\ 2 \in 1..Len(u) /\ 3 \in 1..Len(u)
    BY <1>13
<1>17. ds[m + 1] = u[1] /\ ds[m + 2] = u[2] /\ ds[m + 3] = u[3]
    BY <1>15, <1>16, Zenon
<1>18. u[1] = a /\ u[2] = b /\ u[3] = c
    BY <1>11, <1>13
<1>19. ASSUME NEW i \in 1..Len(evals) PROVE ds[m + 3 + i] = evals[i]
  <2>1. 3 + i \in 1..Len(u) /\ m + (3 + i) = m + 3 + i
      BY <1>1, <1>13
  <2>2. ds[m + (3 + i)] = u[3 + i] /\ u[3 + i] = evals[i]
      BY <1>13, <1>15, <2>1, Zenon
  <2> QED
      BY <2>1, <2>2
<1>20. Len(ds) = m + 3 + Len(evals)
    BY <1>1, <1>13, <1>15
<1>21. CallEnding(ds, cs, m, evals)
    BY <1>3, <1>4, <1>5, <1>6, <1>13, <1>15, <1>17, <1>18, <1>19, <1>20 DEF CallEnding
<1> QED
    BY <1>0, <1>21

LEMMA ReturnSubStep ==
    ASSUME StackInvariant, ReturnSub
    PROVE  StackInvariant'
<1> DEFINE k == Len(contexts)
           n == Len(cstack)
<1>1. /\ cstack \in Seq(FrameSet) /\ cstack # <<>> /\ n \in 1..n /\ n \in Nat
      /\ cstack[n].fn = "return"
      /\ contexts \in Seq(ContextSet) /\ savestack \in Seq(SavedSet)
      /\ Shape(cstack, contexts) /\ Subs(cstack, contexts)
      /\ Kept(savestack, value, contexts)
      /\ value \in Nat /\ tmps \in Nat /\ floor \in Nat
    BY WorksIs, FrameTypes DEF ReturnSub
<1>2. PICK p : p = contexts[k].caller
    OBVIOUS
<1>3. p \in 1..n /\ cstack[p].fn \in CallFns /\ \A q \in p + 1..n : cstack[q].fn \notin CallFns
  <2>1. Own(cstack, contexts, k, n)
      BY <1>1, EndOwns
  <2>2. p \in 1..n /\ cstack[p].fn \in CallFns
      BY <1>1, <1>2, OwnAlone
  <2> QED
      BY <1>2, <2>1, <2>2 DEF Own
<1>4. Caller = p
  <2>1. PICK r : r = Caller
      OBVIOUS
  <2>2. /\ r \in 1..n /\ cstack[r].fn \in CallFns
        /\ \A q \in r + 1..n : cstack[q].fn \notin CallFns
      BY <1>1, <2>1, CallerIs DEF Caller
  <2>3. ~(r > p) /\ ~(p > r)
    <3>1. r > p => r \in p + 1..n
        BY <1>1, <1>3, <2>2
    <3>2. p > r => p \in r + 1..n
        BY <1>1, <1>3, <2>2
    <3> QED
        BY <1>3, <2>2, <3>1, <3>2
  <2> QED
      BY <1>1, <1>3, <2>1, <2>2, <2>3
<1>5. PICK evals : evals = IF cstack[p].fn = "destroy"
                           THEN <<CFrame("pop", 0), CFrame("leave", cstack[p].n + 1)>> ELSE <<>>
    OBVIOUS
<1>6. /\ cstack' = SubSeq(cstack, 1, p) \o CallEnds(cstack[p], evals)
      /\ contexts' = Front(contexts) /\ floor' = Top.oldfloor
      /\ value' = value /\ savestack' = savestack /\ tmps' = tmps
    BY <1>4, <1>5 DEF ReturnSub, PopBlock
<1>7. contexts # <<>>
    BY <1>1 DEF StackInvariant, TopOK
<1>8. /\ contexts' \in Seq(ContextSet) /\ Len(contexts') = Len(contexts) - 1
      /\ \A i \in 1..Len(contexts') : contexts'[i] = contexts[i]
      /\ floor' \in Nat /\ Kept(savestack, value, contexts')
    BY <1>1, <1>6, <1>7, PoppedIs DEF Top
<1>9. PICK es : es = SubSeq(cstack, 1, p)
    OBVIOUS
<1>10. /\ es \in Seq(FrameSet) /\ Len(es) = p /\ p \in Nat /\ es # <<>>
       /\ \A q \in 1..p : es[q] = cstack[q]
  <2>1. p \in 0..n /\ p \in Nat /\ p > 0
      BY <1>1, <1>3
  <2> QED
      BY <1>1, <1>9, <2>1, CutOf
<1>11. /\ cstack[p].fn \in {"call", "destroy"} /\ Shape(es, contexts')
       /\ \A q \in 1..p : q < p => SubOK(es, contexts', q)
       /\ cstack[p].fn = "call" => \A i \in 1..Len(contexts') : contexts'[i].caller # p
       /\ cstack[p].fn = "destroy" => /\ contexts' # <<>>
                                      /\ contexts'[Len(contexts')].type = "destroy"
                                      /\ contexts'[Len(contexts')].caller = p
  <2>1. /\ cstack \in Seq(FrameSet) /\ contexts \in Seq(ContextSet) /\ cstack # <<>>
        /\ Shape(cstack, contexts) /\ Subs(cstack, contexts) /\ cstack[Len(cstack)].fn = "return"
      BY <1>1
  <2>2. /\ p = contexts[Len(contexts)].caller
        /\ es \in Seq(FrameSet) /\ Len(es) = p
        /\ \A q \in 1..Len(es) : es[q] = cstack[q]
      BY <1>2, <1>10
  <2>3. /\ contexts' \in Seq(ContextSet) /\ Len(contexts') = Len(contexts) - 1
        /\ \A i \in 1..Len(contexts') : contexts'[i] = contexts[i]
      BY <1>8
  <2> QED
    <3>1. Returned(cstack, p, es, contexts')
        BY <2>1, <2>2, <2>3, ReturnDone, Zenon
    <3> QED
        BY <3>1 DEF Returned
<1>12. es[p] = cstack[p] /\ cstack[p].n \in Nat
    BY <1>1, <1>3, <1>10, FrameTypes
<1>13. /\ evals \in Seq(FrameSet)
       /\ cstack[p].fn = "destroy" =>
             /\ Len(evals) = 2 /\ evals[1] = CFrame("pop", 0)
             /\ evals[2] = CFrame("leave", cstack[p].n + 1)
       /\ cstack[p].fn # "destroy" => Len(evals) = 0
  <2>1. PICK a : a = CFrame("pop", 0)
      OBVIOUS
  <2>2. PICK b : b = CFrame("leave", cstack[p].n + 1)
      OBVIOUS
  <2>3. a \in FrameSet
      BY <2>1, FrameIs DEF WorkFns
  <2>4. b \in FrameSet
    <3>1. cstack[p].n + 1 \in Nat
        BY <1>12
    <3> QED
        BY <2>2, <3>1, FrameIs DEF WorkFns
  <2>5. CASE cstack[p].fn = "destroy"
    <3>1. evals = <<a, b>>
        BY <1>5, <2>1, <2>2, <2>5
    <3>2. evals \in Seq(FrameSet) /\ Len(evals) = 2 /\ evals[1] = a /\ evals[2] = b
        BY <2>3, <2>4, <3>1
    <3> QED
        BY <2>1, <2>2, <2>5, <3>2
  <2>6. CASE cstack[p].fn # "destroy"
    <3>1. evals = <<>>
        BY <1>5, <2>6
    <3> QED
        BY <2>6, <3>1
  <2> QED
      BY <2>5, <2>6
<1>14. PICK ds : ds = cstack'
    OBVIOUS
<1>15. /\ ds \in Seq(FrameSet) /\ Len(ds) = p + 3 + Len(evals)
       /\ \A q \in 1..p : ds[q] = cstack[q]
       /\ ds[p + 1] = CFrame("done", 0) /\ ds[p + 2] = CFrame("leave", cstack[p].n)
       /\ ds[p + 3] = CFrame("tmps", 0)
       /\ \A i \in 1..Len(evals) : ds[p + 3 + i] = evals[i]
  <2>1. ds = SubSeq(cstack, 1, p) \o CallEnds(cstack[p], evals)
      BY <1>6, <1>14
  <2>2. cstack \in Seq(FrameSet) /\ p \in 1..Len(cstack) /\ evals \in Seq(FrameSet)
      BY <1>1, <1>3, <1>13
  <2>3. CallEnding(ds, cstack, p, evals)
      BY <2>1, <2>2, EndFollows, Zenon
  <2> QED
      BY <2>3 DEF CallEnding
<1>16. \/ Len(ds) = p + 3 /\ \A i \in 1..Len(contexts') : contexts'[i].caller # p
       \/ /\ Len(ds) = p + 5
          /\ ds[p + 4] = CFrame("pop", 0) /\ ds[p + 5] = CFrame("leave", cstack[p].n + 1)
          /\ contexts' # <<>> /\ contexts'[Len(contexts')].type = "destroy"
          /\ contexts'[Len(contexts')].caller = p
  <2>1. CASE cstack[p].fn = "destroy"
    <3>0. Len(evals) = 2
        BY <1>13, <2>1
    <3>1. Len(evals) = 2 /\ 1 \in 1..Len(evals) /\ 2 \in 1..Len(evals)
      <4>1. 1 \in 1..2 /\ 2 \in 1..2
          OBVIOUS
      <4> QED
          BY <3>0, <4>1, Zenon
    <3>2. ds[p + 3 + 1] = evals[1] /\ ds[p + 3 + 2] = evals[2]
        BY <1>15, <3>1, Zenon
    <3>3. p + 3 + 1 = p + 4 /\ p + 3 + 2 = p + 5
        BY <1>10
    <3> QED
        BY <1>11, <1>13, <1>15, <2>1, <3>1, <3>2, <3>3
  <2>2. CASE cstack[p].fn # "destroy"
    <3>1. Len(ds) = p + 3
        BY <1>10, <1>13, <1>15, <2>2
    <3> QED
        BY <1>11, <2>2, <3>1
  <2> QED
      BY <2>1, <2>2
<1>17. Shape(ds, contexts') /\ Subs(ds, contexts')
  <2>1. \A q \in 1..p : ds[q] = es[q]
      BY <1>10, <1>15
  <2>2. /\ p = Len(es) /\ es[p].fn \in {"call", "destroy"} /\ ds \in Seq(FrameSet)
        /\ \A q \in 1..p : ds[q] = es[q]
        /\ ds[p + 1] = CFrame("done", 0) /\ ds[p + 2] = CFrame("leave", es[p].n)
        /\ ds[p + 3] = CFrame("tmps", 0)
      BY <1>10, <1>11, <1>12, <1>15, <2>1, Zenon
  <2>3. IsEnding(es, contexts', p, ds)
    <3>1. CFrame("leave", es[p].n) = CFrame("leave", cstack[p].n)
          /\ CFrame("leave", es[p].n + 1) = CFrame("leave", cstack[p].n + 1)
        BY <1>12
    <3> QED
        BY <1>16, <2>2, <3>1, Zenon DEF IsEnding
  <2>4. contexts' \in Seq(ContextSet) /\ es \in Seq(FrameSet) /\ es # <<>>
      BY <1>8, <1>10
  <2> QED
      BY <1>11, <2>2, <2>3, <2>4, Ending, Zenon
<1>18. ds[Len(ds)].fn \in {"leave", "tmps"} /\ ds # <<>>
  <2>1. /\ CFrame("tmps", 0).fn = "tmps" /\ CFrame("leave", cstack[p].n + 1).fn = "leave"
      BY DEF CFrame
  <2> QED
      BY <1>10, <1>15, <1>16, <2>1
<1>19. StackTypes'
    BY <1>1, <1>6, <1>8, <1>14, <1>15 DEF StackTypes
<1> QED
    BY <1>6, <1>8, <1>14, <1>17, <1>18, <1>19, StepIs

LEMMA JumpStep ==
    ASSUME StackInvariant, Jump
    PROVE  StackInvariant'
<1> DEFINE k == Len(contexts)
           n == Len(cstack)
<1>1. /\ cstack \in Seq(FrameSet) /\ cstack # <<>> /\ n \in 1..n /\ n \in Nat
      /\ cstack[n].fn = "jump"
      /\ contexts \in Seq(ContextSet) /\ savestack \in Seq(SavedSet)
      /\ Shape(cstack, contexts) /\ Subs(cstack, contexts)
      /\ Kept(savestack, value, contexts)
      /\ value \in Nat /\ tmps \in Nat /\ floor \in Nat
    BY WorksIs, FrameTypes DEF Jump
<1>2. PICK m : m = contexts[k].catcher
    OBVIOUS
<1>3. contexts # <<>> /\ contexts[k].type \in Evals
    BY <1>1, JumpOwns DEF StackInvariant, TopOK
<1>4. Top = contexts[k]
    BY DEF Top, Last
<1>5. /\ cstack' = SubSeq(cstack, 1, m) \o
             (IF contexts[k].type = "destroy" THEN CallEnds(cstack[m], <<>>) ELSE <<>>)
      /\ contexts' = Front(contexts) /\ floor' = Top.oldfloor
      /\ value' = value /\ savestack' = savestack /\ tmps' = tmps
    BY <1>2, <1>4 DEF Jump, PopBlock
<1>6. /\ contexts' \in Seq(ContextSet) /\ Len(contexts') = Len(contexts) - 1
      /\ \A i \in 1..Len(contexts') : contexts'[i] = contexts[i]
      /\ floor' \in Nat /\ Kept(savestack, value, contexts')
    BY <1>1, <1>3, <1>5, PoppedIs DEF Top
<1>7. PICK es : es = SubSeq(cstack, 1, m)
    OBVIOUS
<1>8. m \in 1..n /\ m \in Nat /\ m \in 0..n /\ m > 0
  <2>1. ContextOK(cstack, contexts, k) /\ k \in 1..k
      BY <1>1, JumpOwns DEF Shape
  <2>2. m \in 1..n
      BY <1>1, <1>2, <1>3, <2>1, EvalAt
  <2> QED
      BY <1>1, <2>2
<1>9. /\ es \in Seq(FrameSet) /\ Len(es) = m /\ es # <<>>
      /\ \A q \in 1..m : es[q] = cstack[q]
    BY <1>1, <1>7, <1>8, CutOf
<1>10. /\ cstack[m].fn \in {"main", "destroy", "docatch"} /\ Shape(es, contexts')
       /\ \A q \in 1..m : q < m => SubOK(es, contexts', q)
       /\ contexts[k].type = "try" => SubOK(es, contexts', m)
       /\ contexts[k].type = "destroy" =>
             cstack[m].fn = "destroy" /\ \A i \in 1..Len(contexts') : contexts'[i].caller # m
  <2>1. /\ cstack \in Seq(FrameSet) /\ contexts \in Seq(ContextSet) /\ cstack # <<>>
        /\ Shape(cstack, contexts) /\ Subs(cstack, contexts) /\ cstack[Len(cstack)].fn = "jump"
      BY <1>1
  <2>2. /\ m = contexts[Len(contexts)].catcher
        /\ es \in Seq(FrameSet) /\ Len(es) = m
        /\ \A q \in 1..Len(es) : es[q] = cstack[q]
      BY <1>2, <1>9
  <2>3. /\ contexts' \in Seq(ContextSet) /\ Len(contexts') = Len(contexts) - 1
        /\ \A i \in 1..Len(contexts') : contexts'[i] = contexts[i]
      BY <1>6
  <2> QED
    <3>1. Resumes(cstack, contexts, m, es, contexts')
        BY <2>1, <2>2, <2>3, JumpDone, Zenon
    <3> QED
        BY <3>1 DEF Resumes
<1>11. es[m] = cstack[m] /\ cstack[m].n \in Nat
    BY <1>1, <1>8, <1>9, FrameTypes
<1>12. PICK ds : ds = cstack'
    OBVIOUS
<1>13. CASE contexts[k].type = "destroy"
  <2>0. PICK evals : evals = <<>>
      OBVIOUS
  <2>1. ds = SubSeq(cstack, 1, m) \o CallEnds(cstack[m], evals)
      BY <1>5, <1>12, <1>13, <2>0
  <2>2. evals \in Seq(FrameSet) /\ Len(evals) = 0
      BY <2>0
  <2>3. /\ ds \in Seq(FrameSet) /\ Len(ds) = m + 3 + Len(evals)
        /\ \A q \in 1..m : ds[q] = cstack[q]
        /\ ds[m + 1] = CFrame("done", 0) /\ ds[m + 2] = CFrame("leave", cstack[m].n)
        /\ ds[m + 3] = CFrame("tmps", 0)
    <3>1. cstack \in Seq(FrameSet) /\ m \in 1..Len(cstack) /\ evals \in Seq(FrameSet)
        BY <1>1, <1>8, <2>2
    <3>2. CallEnding(ds, cstack, m, evals)
        BY <2>1, <3>1, EndFollows, Zenon
    <3> QED
        BY <3>2 DEF CallEnding
  <2>4. Len(ds) = m + 3 /\ \A i \in 1..Len(contexts') : contexts'[i].caller # m
      BY <1>8, <1>10, <1>13, <2>2, <2>3
  <2>5. Shape(ds, contexts') /\ Subs(ds, contexts')
    <3>1. \A q \in 1..m : ds[q] = es[q]
        BY <1>9, <2>3
    <3>2. es[m].fn \in {"call", "destroy"}
        BY <1>10, <1>11, <1>13
    <3>3. m = Len(es) /\ ds[m + 2] = CFrame("leave", es[m].n)
        BY <1>9, <1>11, <2>3, Zenon
    <3>4. IsEnding(es, contexts', m, ds)
        BY <2>3, <2>4, <3>3 DEF IsEnding
    <3> QED
        BY <1>6, <1>9, <1>10, <2>3, <3>1, <3>2, <3>3, <3>4, Ending, Zenon
  <2>6. ds[Len(ds)].fn = "tmps" /\ ds # <<>>
      BY <1>8, <2>3, <2>4 DEF CFrame
  <2>7. StackTypes'
      BY <1>1, <1>5, <1>6, <1>12, <2>3 DEF StackTypes
  <2> QED
      BY <1>5, <1>6, <1>12, <2>5, <2>6, <2>7, StepIs
<1>14. CASE contexts[k].type = "try"
  <2>1. ds = es
      BY <1>5, <1>7, <1>9, <1>12, <1>14
  <2>2. Subs(ds, contexts')
    <3>1. \A q \in 1..m : q < m \/ q = m
        BY <1>8
    <3> QED
        BY <1>9, <1>10, <1>14, <2>1, <3>1 DEF Subs
  <2>3. ds[Len(ds)].fn \in {"main", "destroy", "docatch"}
      BY <1>9, <1>10, <1>11, <2>1
  <2>4. StackTypes'
      BY <1>1, <1>5, <1>6, <1>9, <1>12, <2>1 DEF StackTypes
  <2>5. Shape(ds, contexts') /\ ds # <<>>
      BY <1>9, <1>10, <2>1
  <2> QED
      BY <1>5, <1>6, <1>12, <2>2, <2>3, <2>4, <2>5, StepIs
<1> QED
    BY <1>3, <1>13, <1>14 DEF Evals

-----------------------------------------------------------------------------
(* The invariant of the specification *)

LEMMA InitInvariant == StackInit => StackInvariant
<1> SUFFICES ASSUME StackInit PROVE StackInvariant
    OBVIOUS
<1>1. PICK f : f = CFrame("main", 0)
    OBVIOUS
<1>2. f \in FrameSet /\ f.fn = "main"
    BY <1>1, FrameIs DEF Loops
<1>3. /\ value = 0 /\ savestack = <<>> /\ tmps = 0 /\ floor = 0 /\ contexts = <<>>
      /\ cstack = <<f>>
    BY <1>1 DEF StackInit
<1>4. /\ cstack \in Seq(FrameSet) /\ Len(cstack) = 1 /\ cstack[1] = f /\ cstack # <<>>
      /\ Len(contexts) = 0 /\ \A q \in 1..Len(cstack) : q = 1
      /\ \A i \in 1..Len(contexts) : FALSE
    BY <1>2, <1>3
<1>5. StackTypes
    BY <1>3, <1>4 DEF StackTypes
<1>6. \A q \in 1..Len(cstack) : FrameOK(cstack, contexts, q) /\ SubOK(cstack, contexts, q)
    BY <1>2, <1>4
       DEF FrameOK, Placed, JumpOK, PopOK, DoneOK, SavedOK, SubOK
<1> QED
    BY <1>2, <1>4, <1>5, <1>6
       DEF StackInvariant, Shape, Subs, Ordered, Kept, TopOK

LEMMA NextInvariant == StackInvariant /\ [StackNext]_StackVars => StackInvariant'
<1> SUFFICES ASSUME StackInvariant, [StackNext]_StackVars PROVE StackInvariant'
    OBVIOUS
<1>1. CASE Local
    BY <1>1, LocalStep
<1>2. CASE My
    BY <1>2, MyStep
<1>3. CASE Temporary
    BY <1>3, TemporaryStep
<1>4. CASE NextStatement
    BY <1>4, NextStatementStep
<1>5. CASE EnterBlock
    BY <1>5, EnterBlockStep
<1>6. CASE EnterTry
    BY <1>6, EnterTryStep
<1>7. CASE AssignTied
    BY <1>7, AssignTiedStep
<1>8. CASE Die
    BY <1>8, DieStep
<1>9. CASE LeaveBlock
    BY <1>9, LeavesStep DEF LeaveBlock
<1>10. CASE LeaveTry
    BY <1>10, LeavesStep DEF LeaveTry
<1>11. CASE LeaveSub
    BY <1>11, LeavesStep DEF LeaveSub
<1>12. CASE LeaveScope
    BY <1>12, LeaveScopeStep
<1>13. CASE FreeTemporaries
    BY <1>13, FreeTemporariesStep
<1>14. CASE Pop1
    BY <1>14, Pop1Step
<1>15. CASE ReturnSub
    BY <1>15, ReturnSubStep
<1>16. CASE CallDone
    BY <1>16, CallDoneStep
<1>17. CASE Unwind
    BY <1>17, UnwindStep
<1>18. CASE Jump
    BY <1>18, JumpStep
<1>19. CASE UNCHANGED StackVars
    BY <1>19 DEF StackVars, StackInvariant, StackTypes, TopOK
<1> QED
    BY <1>1, <1>2, <1>3, <1>4, <1>5, <1>6, <1>7, <1>8, <1>9, <1>10, <1>11, <1>12,
       <1>13, <1>14, <1>15, <1>16, <1>17, <1>18, <1>19 DEF StackNext

\* However the program, its STOREs and its DESTROYs open scopes, leave them and
\* die, the C functions under way, the contexts and the savestack fit together.
THEOREM StackInvariantHolds == StackSpec => []StackInvariant
    BY InitInvariant, NextInvariant, PTL DEF StackSpec

-----------------------------------------------------------------------------
(* What follows from it *)

\* Perl code runs in the C call that started it, no context outlives the C
\* functions that run it, and each eval would be resumed where it was entered.
THEOREM CallersLiveHolds == StackSpec => []CallersLive
<1>1. ASSUME StackInvariant PROVE CallersLive
  <2>1. /\ cstack \in Seq(FrameSet) /\ cstack # <<>> /\ contexts \in Seq(ContextSet)
        /\ Shape(cstack, contexts) /\ Subs(cstack, contexts)
        /\ DOMAIN contexts = 1..Len(contexts) /\ DOMAIN cstack = 1..Len(cstack)
        /\ Len(cstack) \in Nat
      BY <1>1, FrameTypes DEF StackInvariant, StackTypes
  <2>2. PICK p : p = Caller
      OBVIOUS
  <2>3. /\ p \in 1..Len(cstack) /\ cstack[p].fn \in CallFns
        /\ \A q \in p + 1..Len(cstack) : cstack[q].fn \notin CallFns
      BY <2>1, <2>2, CallerIs DEF Caller
  <2>4. ASSUME NEW i \in 1..Len(contexts)
        PROVE  contexts[i].caller <= p /\ cstack[contexts[i].caller].fn \in CallFns
    <3>1. contexts[i].caller \in 1..Len(cstack) /\ cstack[contexts[i].caller].fn \in CallFns
        BY <2>1 DEF Shape, ContextOK
    <3>2. contexts[i].caller \notin p + 1..Len(cstack)
        BY <2>3, <3>1
    <3> QED
        BY <2>1, <2>3, <3>1, <3>2
  <2>5. ASSUME Runs, contexts # <<>> PROVE Top.caller = p
    <3>1. cstack[Len(cstack)].fn \in Loops
        BY <2>5 DEF Runs, Last
    <3>2. contexts[Len(contexts)].caller = p
        BY <2>1, <2>3, <2>5, <3>1, TopIsCallers, Zenon
    <3> QED
        BY <3>2 DEF Top, Last
  <2>6. ASSUME NEW i \in 1..Len(contexts), contexts[i].type \in Evals
        PROVE  contexts[i].catcher \in Setjmps(cstack) /\ contexts[i].catcher >= contexts[i].caller
    <3>1. ContextOK(cstack, contexts, i)
        BY <2>1 DEF Shape
    <3>2. /\ contexts[i].caller \in 1..Len(cstack) /\ contexts[i].catcher \in 1..Len(cstack)
          /\ cstack[contexts[i].catcher].fn \in {"main", "destroy", "docatch"}
          /\ \/ contexts[i].catcher = contexts[i].caller
             \/ contexts[i].catcher = contexts[i].caller + 1
        BY <2>1, <2>6, <3>1, EvalAt
    <3> QED
        BY <2>1, <3>2 DEF Setjmps
  <2> QED
      BY <2>1, <2>2, <2>4, <2>5, <2>6 DEF CallersLive, CallFns, Evals
<1> QED
    BY <1>1, StackInvariantHolds, PTL

LEMMA PushLonger ==
    ASSUME NEW S, NEW s \in Seq(S), NEW e
    PROVE  Len(Append(s, e)) = Len(s) + 1 /\ Len(s) \in Nat
    OBVIOUS

LEMMA JoinLonger ==
    ASSUME NEW S, NEW s \in Seq(S), NEW e, NEW f
    PROVE  Len(s \o <<e, f>>) = Len(s) + 2 /\ Len(s) \in Nat
    OBVIOUS

\* A STORE or a DESTROY that is called ends no scope.
LEMMA CallsGrow ==
    ASSUME StackInvariant,
           \/ \E saved, v : CallStore(saved, v)
           \/ \E saved, t : EnterDestroy(saved, t)
    PROVE  Len(contexts') >= Len(contexts) /\ Len(contexts) \in Nat
<1>1. contexts \in Seq(ContextSet)
    BY DEF StackInvariant, StackTypes
<1>2. (\E e : contexts' = Append(contexts, e)) \/ (\E e, f : contexts' = contexts \o <<e, f>>)
    BY DEF CallStore, EnterDestroy
<1>3. /\ Len(contexts) \in Nat
      /\ Len(contexts') = Len(contexts) + 1 \/ Len(contexts') = Len(contexts) + 2
  <2>1. ASSUME NEW e, contexts' = Append(contexts, e) PROVE Len(contexts') = Len(contexts) + 1
      BY <1>1, <2>1, PushLonger
  <2>2. ASSUME NEW e, NEW f, contexts' = contexts \o <<e, f>>
        PROVE  Len(contexts') = Len(contexts) + 2
      BY <1>1, <2>2, JoinLonger
  <2>3. Len(contexts) \in Nat
      BY <1>1, ContextTypes
  <2> QED
      BY <1>2, <2>1, <2>2, <2>3
<1> QED
    BY <1>3

LEMMA UndoGrows ==
    ASSUME StackInvariant, Undo
    PROVE  Len(contexts') >= Len(contexts) /\ Len(contexts) \in Nat
<1>1. CASE contexts' = contexts
    BY <1>1, ContextTypes DEF StackInvariant, StackTypes
<1>2. CASE contexts' # contexts
    BY <1>2, CallsGrow DEF Undo
<1> QED
    BY <1>1, <1>2

\* The context that is popped has had its scope left.
LEMMA PopUndone ==
    ASSUME StackInvariant, contexts # <<>>, contexts' = Front(contexts),
           Len(savestack) <= contexts[Len(contexts)].saveix,
           savestack' = savestack, value' = value,
           NEW i \in 1..Len(contexts), Len(contexts') < i
    PROVE  Len(savestack') = contexts[i].saveix /\ value' = contexts[i].entry
<1>1. contexts \in Seq(ContextSet) /\ savestack \in Seq(SavedSet) /\ Kept(savestack, value, contexts)
    BY DEF StackInvariant, StackTypes
<1>2. Len(contexts') = Len(contexts) - 1 /\ Len(contexts) \in Nat
    BY <1>1, FrontOf
<1>3. i = Len(contexts)
    BY <1>2
<1>4. Len(savestack) <= contexts[i].saveix
    BY <1>3
<1>5. Len(savestack) = contexts[i].saveix /\ value = contexts[i].entry
    BY <1>1, <1>4, KeptUndone, Zenon
<1> QED
    BY <1>5

\* When a context goes, by its end or by a die, the global has the value and the
\* savestack the height from when it was opened.
THEOREM LocalsUndoneHolds == StackSpec => LocalsUndone
<1> DEFINE Gone == \A i \in DOMAIN contexts : Len(contexts') < i =>
                     /\ Len(savestack') = contexts[i].saveix
                     /\ value' = contexts[i].entry
<1>1. ASSUME StackInvariant, StackNext PROVE Gone
  <2> SUFFICES ASSUME NEW i \in 1..Len(contexts), Len(contexts') < i
               PROVE  Len(savestack') = contexts[i].saveix /\ value' = contexts[i].entry
    <3>1. DOMAIN contexts = 1..Len(contexts)
        BY <1>1 DEF StackInvariant, StackTypes
    <3> QED
        BY <3>1
  <2>1. contexts \in Seq(ContextSet) /\ Len(contexts) \in Nat /\ contexts # <<>>
      BY <1>1, ContextTypes DEF StackInvariant, StackTypes
  <2>2. ~(Len(contexts') >= Len(contexts)) /\ contexts' # contexts
    <3>0. Len(contexts') \in Nat
      <4>1. StackInvariant'
          BY <1>1, NextInvariant
      <4> QED
          BY <4>1, ContextTypes DEF StackInvariant, StackTypes
    <3>1. PICK l : l = Len(contexts')
        OBVIOUS
    <3>2. l < i /\ i <= Len(contexts) /\ l \in Nat /\ i \in Nat
        BY <2>1, <3>0, <3>1
    <3>3. l # Len(contexts)
        BY <2>1, <3>2
    <3> QED
      <4>1. ASSUME l >= Len(contexts) PROVE FALSE
          BY <2>1, <3>2, <4>1
      <4> QED
          BY <3>1, <3>3, <4>1
  <2>3. ~Local /\ ~My /\ ~Temporary /\ ~NextStatement /\ ~Die /\ ~CallDone
      BY <2>2 DEF Local, My, Temporary, NextStatement, Die, CallDone
  <2>4. ~LeaveBlock /\ ~LeaveTry /\ ~LeaveSub
      BY <2>2 DEF LeaveBlock, LeaveTry, LeaveSub, LeavesBlock
  <2>5. ~EnterBlock /\ ~EnterTry
    <3>1. ASSUME NEW e, contexts' = Append(contexts, e) PROVE FALSE
      <4>1. Len(contexts') = Len(contexts) + 1
          BY <2>1, <3>1, PushLonger
      <4> QED
          BY <2>1, <2>2, <4>1
    <3> QED
        BY <3>1, Zenon DEF EnterBlock, EnterTry
  <2>6. ~AssignTied
      BY <1>1, <2>2, CallsGrow, Zenon DEF AssignTied
  <2>7. ~LeaveScope
      BY <1>1, <2>2, UndoGrows DEF LeaveScope
  <2>8. ~FreeTemporaries
      BY <1>1, <2>2, CallsGrow DEF FreeTemporaries
  <2>9. ASSUME cstack[Len(cstack)].fn \in {"pop", "return", "jump"}, PopBlock
        PROVE  Len(savestack') = contexts[i].saveix /\ value' = contexts[i].entry
    <3>1. Len(savestack) = contexts[Len(contexts)].saveix
        BY <1>1, <2>9 DEF StackInvariant, TopOK
    <3>2. Len(savestack) \in Nat /\ Len(savestack) <= contexts[Len(contexts)].saveix
      <4>1. Len(savestack) \in Nat
          BY <1>1, SavedTypes DEF StackInvariant, StackTypes
      <4> QED
          BY <3>1, <4>1
    <3>3. contexts' = Front(contexts) /\ savestack' = savestack /\ value' = value
        BY <2>9 DEF PopBlock
    <3> QED
        BY <1>1, <2>1, <3>2, <3>3, PopUndone, Zenon
  <2>10. CASE Pop1
      BY <1>1, <2>9, <2>10, WorksIs DEF Pop1
  <2>11. CASE ReturnSub
      BY <1>1, <2>9, <2>11, WorksIs DEF ReturnSub
  <2>12. CASE Jump
      BY <1>1, <2>9, <2>12, WorksIs DEF Jump
  <2>13. CASE Unwind
    <3>1. ~Undo
        BY <1>1, <2>2, UndoGrows, Zenon
    <3>2. /\ contexts' = Front(contexts) /\ Len(savestack) <= Top.saveix
          /\ savestack' = savestack /\ value' = value
        BY <2>2, <2>13, <3>1 DEF Unwind
    <3>3. Len(savestack) <= contexts[Len(contexts)].saveix
        BY <3>2 DEF Top, Last
    <3> QED
        BY <1>1, <2>1, <3>2, <3>3, PopUndone, Zenon
  <2> QED
      BY <1>1, <2>3, <2>4, <2>5, <2>6, <2>7, <2>8, <2>10, <2>11, <2>12, <2>13 DEF StackNext
<1>2. ASSUME StackInvariant, [StackNext]_StackVars PROVE [Gone]_StackVars
    BY <1>1, <1>2
<1> QED
    BY <1>2, StackInvariantHolds, PTL DEF StackSpec, LocalsUndone
=============================================================================
