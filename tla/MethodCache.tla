----------------------------- MODULE MethodCache -----------------------------
(***************************************************************************)
(* Finding a method, mro_core.c and gv_fetchmeth_internal of gv.c: the     *)
(* cached linearization of @ISA, PL_isarev (who inherits from a class), the *)
(* method cache in the glob of a class, and the DESTROY cache of its meta.  *)
(*                                                                         *)
(* One method name stands for all of them; as the DESTROY cache holds that  *)
(* of one name, the name is DESTROY.  cache_gen, PL_sub_generation and      *)
(* destroy_gen only grow and are compared for equality: an entry is valid   *)
(* until one of its counters grows, and the model keeps the valid ones.     *)
(* meta->isa is set and dropped together with the linearization: it is the  *)
(* set of its members.                                                     *)
(*                                                                         *)
(* An assignment to @ISA that makes the inheritance recursive croaks half   *)
(* way, and nothing redoes the rest of it before the same @ISA is assigned  *)
(* again: `unlisted` remembers it, for the properties to say what they are  *)
(* about.  No action looks at it.                                          *)
(***************************************************************************)
EXTENDS Naturals, FiniteSets, SequencesExt

CONSTANTS
  Classes,     \* the packages
  Universal,   \* UNIVERSAL
  Parents,     \* Parents[c]: the lists the program assigns to @c::ISA
  Bodies,      \* Bodies[c]: the subs it defines as c's method
  Objects,     \* the classes that objects are blessed into
  NoSub,       \* no sub: a null GvCV
  Unset        \* what is not cached

ASSUME MethodAssumption == /\ IsFiniteSet(Classes) /\ Universal \in Classes
                           /\ Objects \subseteq Classes
                           /\ Parents \in [Classes -> SUBSET Seq(Classes)]
                           /\ \A c \in Classes : NoSub \notin Bodies[c] /\ Unset \notin Bodies[c]

VARIABLES
  isa,      \* @c::ISA
  sub,      \* GvCV of c's glob where GvCVGEN is 0: c's own method
  linear,   \* mro_linear_current, or Unset
  isarev,   \* PL_isarev: isarev[c] is the classes known to inherit from c
  cached,   \* a valid cache entry of c's glob: a sub, NoSub (known missing) or Unset
  destroy,  \* a valid meta->destroy: a sub, NoSub or Unset
  unlisted  \* history: the classes whose last assignment to @ISA croaked

MethodVars == <<isa, sub, linear, isarev, cached, destroy, unlisted>>

Depth == Cardinality(Classes)

\* Everything c inherits from according to the lists i, itself apart.
Upwards(some, i) == some \cup UNION {ToSet(i[d]) : d \in some}
Ancestors(c, i) == LET up[n \in 0..Depth] == IF n = 0 THEN ToSet(i[c]) ELSE Upwards(up[n-1], i)
                   IN IF i[c] = <<>> THEN {} ELSE up[Depth]
Recursive(c, i) == \E d \in {c} \cup Ancestors(c, i) : d \in Ancestors(d, i)

\* The members of t that are not in s, added to s.
Merge(s, t) == FoldLeft(LAMBDA r, d : IF d \in ToSet(r) THEN r ELSE Append(r, d), s, t)

\* mro_get_linear_isa_dfs: the class, then its parents' lists in order, which
\* are taken from the cache l where it has them.  The class itself is not among
\* what the merging compares with: a stale list of a parent may name it again.
Dfs(c, l, i) == LET f[n \in 0..Depth] ==
                        LET prev == f[n-1]
                        IN [d \in Classes |->
                               IF l[d] # Unset THEN l[d]
                               ELSE IF n = 0 \/ i[d] = <<>> THEN <<d>>
                               ELSE <<d>> \o FoldLeft(LAMBDA s, e : Merge(s, prev[e]), <<>>, i[d])]
                IN f[Depth][c]

\* The lists that have to be walked: those that the cache l does not have.
Missing(l, i) == [c \in Classes |-> IF l[c] = Unset THEN i[c] ELSE <<>>]

\* Asking for c's list croaks: Recursive inheritance detected.
Endless(c, l, i) == Recursive(c, Missing(l, i))

\* What asking for the lists of some classes leaves in the cache l.
Linearized(some, l, i) ==
    LET asked[n \in 0..Depth] == IF n = 0 THEN some ELSE Upwards(asked[n-1], Missing(l, i))
        walked == asked[Depth]
    IN [c \in Classes |-> IF c \in walked THEN Dfs(c, l, i) ELSE l[c]]

\* What is left when asking for the lists of some croaks: it has cached the
\* lists of those it came to before the recursion.
CameTo(some, l, i) ==
    {d \in some \cup UNION {Ancestors(c, Missing(l, i)) : c \in some} : ~Endless(d, l, i)}

OnlyUniversal(c) == c = Universal   \* mutant: UNIVERSAL's own parents are forgotten

\* Whether a change in c is one for everybody: PL_sub_generation++.
Global(c) == c = Universal \/ Universal \in isarev[c]

Forget(entries, some) == [c \in Classes |-> IF c \in some THEN Unset ELSE entries[c]]

MethodInit == /\ isa = [c \in Classes |-> <<>>]
              /\ sub = [c \in Classes |-> NoSub]
              /\ linear = [c \in Classes |-> Unset]
              /\ isarev = [c \in Classes |-> {}]
              /\ cached = [c \in Classes |-> Unset]
              /\ destroy = [c \in Classes |-> Unset]
              /\ unlisted = {}

-----------------------------------------------------------------------------
(* @ISA: mro_isa_changed_in *)

OnlySelf(c) == {c}   \* mutant: the subclasses keep their linearizations and caches

\* Whose caches a change of @c::ISA wipes.
Heirs(c) == {c} \cup isarev[c]

\* Those of them whose list is endless by then.
Stuck(c, l, i) == {d \in Heirs(c) : Endless(d, l, i)}

IsarevStruckLast(some, cleaned, l) ==   \* mutant: struck off with those it keeps, too
    [s \in Classes |->
        (isarev[s] \cup {r \in some : s \in ToSet(Tail(l[r]))})
        \ {r \in cleaned : linear[r] # Unset /\ s \in ToSet(linear[r]) \ {r}}]

\* PL_isarev after the lists of the classes in some have become l: each is
\* entered with those it inherits from, and those in cleaned are struck off
\* with their former ones, as far as the old meta->isa is still there to tell
\* (UNIVERSAL is in every one, the new included).
IsarevWith(some, cleaned, l) ==
    [s \in Classes |->
        (isarev[s] \cup {r \in some : s \in ToSet(Tail(l[r]))})
        \ {r \in cleaned : linear[r] # Unset
                            /\ s \in ToSet(linear[r]) \ (ToSet(l[r]) \cup {Universal})}]

\* Assignment to @c::ISA: what it wipes, then what it asks for and enters.
\* The heirs come in the order of a hash, c itself comes last, and the first
\* whose list is endless croaks.
SetIsa(c, list) ==
    LET i     == [isa EXCEPT ![c] = list]
        l     == Forget(linear, Heirs(c))
        stuck == Stuck(c, l, i)
    IN /\ isa' = i
       /\ cached' = Forget(cached, IF Global(c) THEN Classes ELSE Heirs(c))
       /\ destroy' = Forget(destroy, IF Global(c) THEN Classes ELSE {c})
       /\ \/ /\ stuck = {}
             /\ linear' = Linearized(Heirs(c), l, i)
             /\ isarev' = IsarevWith(Heirs(c), Heirs(c), linear')
             /\ unlisted' = unlisted \ {c}
          \/ \E entered \in SUBSET (isarev[c] \ stuck), walked \in SUBSET CameTo(stuck, l, i) :
                /\ stuck # {}
                /\ stuck = {c} /\ c \notin isarev[c] => entered = isarev[c]
                /\ linear' = Linearized(entered \cup walked, l, i)
                /\ isarev' = IsarevWith(entered, entered \ {c}, linear')
                /\ unlisted' = unlisted \cup {c}
       /\ UNCHANGED sub

-----------------------------------------------------------------------------
(* Methods: mro_method_changed_in, gv_method_changed *)

\* Defining, redefining, undefining or deleting c's method.  A glob that has
\* other names too is changed for everybody.
SetSub(c, body, aliased) ==
    LET forgets == IF aliased \/ Global(c) THEN Classes ELSE {c} \cup isarev[c]
    IN /\ body # sub[c]
       /\ sub' = [sub EXCEPT ![c] = body]
       /\ cached' = Forget(cached, forgets)
       /\ destroy' = Forget(destroy, forgets)
       /\ UNCHANGED <<isa, linear, isarev, unlisted>>

-----------------------------------------------------------------------------
(* gv_fetchmeth_internal, S_curse *)

FirstSub(list) == LET n == SelectInSeq(list, LAMBDA c : sub[c] # NoSub)
                  IN IF n = 0 THEN NoSub ELSE sub[list[n]]

\* A lookup that looks at c only: its own sub, or a valid cache entry.
Quick(c) == IF sub[c] # NoSub THEN sub[c] ELSE cached[c]

\* The part of the lookup that walks a list, which is c's.
Walk(list) == FirstSub(Tail(list))

\* UNIVERSAL is asked last.
InUniversal == IF Quick(Universal) # Unset THEN Quick(Universal)
               ELSE Walk(Dfs(Universal, linear, isa))

Answer(c) == IF Quick(c) # Unset THEN Quick(c)
             ELSE LET inherited == Walk(Dfs(c, linear, isa))
                  IN IF inherited # NoSub THEN inherited ELSE InUniversal

\* Whether UNIVERSAL's list is walked too, and the lists that are asked for.
Deeper(c) == /\ Quick(c) = Unset /\ Walk(Dfs(c, linear, isa)) = NoSub
             /\ Quick(Universal) = Unset
Asks(c) == {d \in {c, Universal} : \/ d = c /\ Quick(c) = Unset
                                   \/ d = Universal /\ Deeper(c)}

\* The lookup's effect: it leaves the lists it asked for, and cache entries
\* where there is a glob to keep one (and the sub is no stub): one in c is made
\* for a call but not for DESTROY, one in UNIVERSAL for neither.
LooksUp(c) ==
    /\ \A d \in Asks(c) : ~Endless(d, linear, isa)
    /\ linear' = Linearized(Asks(c), linear, isa)
    /\ \E keeps \in SUBSET Asks(c) :
           cached' = [d \in Classes |-> IF d \notin keeps THEN cached[d]
                                       ELSE IF d = c THEN Answer(c) ELSE InUniversal]
    /\ UNCHANGED <<isa, sub, isarev, unlisted>>

\* A method call; one that c's glob answers changes nothing.
Call(c) == Quick(c) = Unset /\ LooksUp(c) /\ UNCHANGED destroy

\* The last reference to an object of class c goes away.
Destroy(c) == /\ c \in Objects /\ destroy[c] = Unset
              /\ LooksUp(c)
              /\ destroy' = [destroy EXCEPT ![c] = Answer(c)]

\* A lookup that croaks in one of the lists it asks for.
LookupDies(c) == /\ \E d \in Asks(c) : Endless(d, linear, isa)
                 /\ \E walked \in SUBSET CameTo(Asks(c), linear, isa) :
                        linear' = Linearized(walked, linear, isa)
                 /\ UNCHANGED <<isa, sub, isarev, cached, destroy, unlisted>>

-----------------------------------------------------------------------------
MethodNext == \E c \in Classes :
                  \/ \E list \in Parents[c] : SetIsa(c, list)
                  \/ \E body \in Bodies[c] \cup {NoSub}, aliased \in BOOLEAN :
                         SetSub(c, body, aliased)
                  \/ Call(c) \/ Destroy(c) \/ LookupDies(c)

MethodSpec == MethodInit /\ [][MethodNext]_MethodVars

-----------------------------------------------------------------------------
(* Properties *)

\* The method resolution order without any cache, and the method it selects.
Order(c) == Dfs(c, [d \in Classes |-> Unset], isa)
Resolve(c) == FirstSub(Order(c) \o Order(Universal))

\* Neither the last assignment to @c::ISA nor that of any class it inherits
\* from croaked.
Settled(c) == ({c} \cup Ancestors(c, isa)) \cap unlisted = {}

\* A method call runs the sub that the @ISA lists of this moment select, its
\* absence included, though it looks at up to four caches first: whatever
\* was redefined, undefined or inherited anew above the class meanwhile, and
\* whatever croaked elsewhere.
MethodFound == Settled(Universal) => \A c \in Classes : Settled(c) => Answer(c) = Resolve(c)

\* The linearization that is cached is the one of the lists of this moment,
\* for a class that has inherited through a recursion mended since, too.
LinearCurrent == \A c \in Classes : linear[c] # Unset /\ Settled(c) => linear[c] = Order(c)

\* PL_isarev knows every settled class that inherits, however indirectly: a
\* class it misses would keep calling a method that was redefined.
HeirsKnown == \A c \in Classes : Settled(c) => \A s \in Ancestors(c, isa) : c \in isarev[s]

\* mro_core.c: "DESTROY can be cached in meta", and perlobj: a class's DESTROY
\* "will always be called": the cache holds what a method call would find.
DestroyFound == Settled(Universal) => \A c \in Classes : destroy[c] # Unset /\ Settled(c)
                                                            => destroy[c] = Resolve(c)
=============================================================================
