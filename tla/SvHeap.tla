------------------------------- MODULE SvHeap -------------------------------
(***************************************************************************)
(* How SVs live and die, sv.c: reference counts, weak references and the    *)
(* back-references that clear them, mortals, and DESTROY, which is Perl code *)
(* in the middle of a free: it may weaken, copy, bless and drop anything it  *)
(* reaches, and take up a reference to the dying object itself.             *)
(*                                                                         *)
(* An SV here is a scalar that is undefined or a reference.  What sv_clear,  *)
(* free_tmps and SvREFCNT_dec have left to do is a stack of frames; the      *)
(* program runs while the stack is empty, or a DESTROY is on top of it.      *)
(***************************************************************************)
EXTENDS Naturals, FiniteSets, SequencesExt

CONSTANTS
  Svs,        \* the SV heads
  Packages,   \* the classes with a DESTROY
  Into,       \* Into[s]: those the program blesses s into
  NoSv,       \* a null SvRV
  NoPackage   \* an SV that is no object

ASSUME SvAssumption == IsFiniteSet(Svs) /\ NoSv \notin Svs /\ NoPackage \notin Packages
                    /\ Into \in [Svs -> SUBSET Packages]

VARIABLES
  refcnt,    \* SvREFCNT; the heads of freed SVs have none
  alive,     \* the SVs that are not freed
  rv,        \* SvRV, or NoSv where SvROK is off
  weak,      \* the SVs whose SvWEAKREF is on
  backrefs,  \* backrefs[s]: the array (or the one RV) in s's backref magic
  stash,     \* SvSTASH of an object
  pad,       \* the SVs a pad, a glob or a container has a count on
  mortals,   \* PL_tmps_stack
  frames     \* what is under way, the innermost first

SvVars == <<refcnt, alive, rv, weak, backrefs, stash, pad, mortals, frames>>

\* "dec": decrement sv.  "clear": sv_clear is at sv, of which the DESTROY of ran
\* has been called.  "DESTROY": that call.  "tmps": free_tmps, down to floor.
Frame(what, s, class, n) == [do |-> what, sv |-> s, ran |-> class, floor |-> n]
Dec(s) == Frame("dec", s, NoPackage, 0)
Push(f) == frames' = <<f>> \o frames
Pop == frames' = Tail(frames)
InFrame(what) == frames # <<>> /\ Head(frames).do = what

PerlRuns == frames = <<>> \/ InFrame("DESTROY")
Floor == IF frames = <<>> THEN 0 ELSE Head(frames).floor   \* PL_tmps_floor

\* What the running code reaches: by variables, by $_[0], and by following
\* references, of which each set closed under rv has all.
AtHand == pad \cup (IF InFrame("DESTROY") THEN {Head(frames).sv} ELSE {})
Followed(some) == \A s \in some : rv[s] # NoSv => rv[s] \in some
Reached == {s \in Svs : \A some \in SUBSET Svs :
                            AtHand \subseteq some /\ Followed(some) => s \in some}

SvInit == /\ refcnt = [s \in Svs |-> 0]
          /\ alive = {} /\ weak = {} /\ pad = {}
          /\ rv = [s \in Svs |-> NoSv]
          /\ backrefs = [s \in Svs |-> {}]
          /\ stash = [s \in Svs |-> NoPackage]
          /\ mortals = <<>> /\ frames = <<>>

-----------------------------------------------------------------------------
(* The program *)

\* A new variable or element.
NewSv(s) == /\ PerlRuns /\ s \notin alive
            /\ alive' = alive \cup {s} /\ pad' = pad \cup {s}
            /\ refcnt' = [refcnt EXCEPT ![s] = 1]
            /\ UNCHANGED <<rv, weak, backrefs, stash, mortals, frames>>

Strong(r) == rv[r] # NoSv /\ r \notin weak

NeverMortal(r) == FALSE   \* mutant: sv_unref decrements the last count too

\* sv_unref: the last count of what r refers to is made mortal, so that
\* $r = $$r still finds its right side.
MakesMortal(r) == Strong(r) /\ refcnt[rv[r]] = 1

BackrefsKept(r) == backrefs   \* mutant: sv_del_backref forgotten

\* sv_del_backref, where r is weak.
BackrefsWithout(r) == IF r \in weak THEN [backrefs EXCEPT ![rv[r]] = @ \ {r}] ELSE backrefs

\* $r = \$t, $r = $q where $q refers to t: sv_setsv.
AssignRef(r, t) ==
    LET given   == [refcnt EXCEPT ![t] = @ + 1]
        dropped == Strong(r) /\ ~MakesMortal(r)
    IN /\ PerlRuns /\ {r, t} \subseteq Reached
       /\ refcnt' = IF dropped THEN [given EXCEPT ![rv[r]] = @ - 1] ELSE given
       /\ mortals' = IF MakesMortal(r) THEN Append(mortals, rv[r]) ELSE mortals
       /\ backrefs' = BackrefsWithout(r)
       /\ rv' = [rv EXCEPT ![r] = t]
       /\ weak' = weak \ {r}
       /\ UNCHANGED <<alive, stash, pad, frames>>

\* r's reference is gone before its count is.
LetsGo(r) == \/ Strong(r) /\ Push(Dec(rv[r]))
             \/ ~Strong(r) /\ UNCHANGED frames

\* The same between scalars without a body, which r may be unless it is blessed
\* or weakly referred to: the last count goes at once, but after the assignment.
AssignBodyless(r, t) == /\ PerlRuns /\ stash[r] = NoPackage /\ backrefs[r] = {}
                        /\ {r, t} \subseteq Reached
                        /\ refcnt' = [refcnt EXCEPT ![t] = @ + 1]
                        /\ backrefs' = BackrefsWithout(r)
                        /\ rv' = [rv EXCEPT ![r] = t]
                        /\ weak' = weak \ {r}
                        /\ LetsGo(r)
                        /\ UNCHANGED <<alive, stash, pad, mortals>>

\* undef $r: sv_unref with SV_IMMEDIATE_UNREF.
Undef(r) == /\ PerlRuns /\ rv[r] # NoSv /\ r \in Reached
            /\ rv' = [rv EXCEPT ![r] = NoSv]
            /\ weak' = weak \ {r}
            /\ LetsGo(r)
            /\ backrefs' = BackrefsWithout(r)
            /\ UNCHANGED <<refcnt, alive, stash, pad, mortals>>

\* sv_rvweaken: the decrement comes last, and may free what r refers to.
Weaken(r) == /\ PerlRuns /\ Strong(r) /\ r \in Reached
             /\ backrefs' = [backrefs EXCEPT ![rv[r]] = @ \cup {r}]
             /\ weak' = weak \cup {r}
             /\ Push(Dec(rv[r]))
             /\ UNCHANGED <<refcnt, alive, rv, stash, pad, mortals>>

\* sv_rvunweaken.
Unweaken(r) == /\ PerlRuns /\ r \in weak /\ r \in Reached
               /\ refcnt' = [refcnt EXCEPT ![rv[r]] = @ + 1]
               /\ backrefs' = BackrefsWithout(r)
               /\ weak' = weak \ {r}
               /\ UNCHANGED <<alive, rv, stash, pad, mortals, frames>>

\* sv_bless.
Bless(t, class) == /\ PerlRuns /\ stash[t] # class /\ t \in Reached
                   /\ stash' = [stash EXCEPT ![t] = class]
                   /\ UNCHANGED <<refcnt, alive, rv, weak, backrefs, pad, mortals, frames>>

\* A variable nobody refers to is cleared in place at the end of its scope:
\* weak references to it are cleared, then its value goes.
ClearInPlace(s) ==
    LET others == [r \in Svs |-> IF r \in backrefs[s] THEN NoSv ELSE rv[r]]
    IN /\ PerlRuns /\ s \in pad /\ refcnt[s] = 1 /\ stash[s] = NoPackage
       /\ rv' = [others EXCEPT ![s] = NoSv]
       /\ weak' = weak \ (backrefs[s] \cup {s})
       /\ backrefs' = [BackrefsWithout(s) EXCEPT ![s] = {}]
       /\ LetsGo(s)
       /\ UNCHANGED <<refcnt, alive, stash, pad, mortals>>

\* Any other variable is left to those who refer to it; so is what is deleted.
Abandon(s) == /\ PerlRuns /\ s \in pad
              /\ pad' = pad \ {s}
              /\ Push(Dec(s))
              /\ UNCHANGED <<refcnt, alive, rv, weak, backrefs, stash, mortals>>

\* The end of a statement.
FreeTmps == /\ PerlRuns /\ Len(mortals) > Floor
            /\ Push(Frame("tmps", NoSv, NoPackage, Floor))
            /\ UNCHANGED <<refcnt, alive, rv, weak, backrefs, stash, pad, mortals>>

\* The program ends, and the interpreter with what it leaked; how global
\* destruction goes about it is not modelled.
Exits == /\ frames = <<>> /\ mortals = <<>> /\ pad = {}
         /\ refcnt' = [s \in Svs |-> 0] /\ alive' = {}
         /\ rv' = [s \in Svs |-> NoSv] /\ weak' = {}
         /\ backrefs' = [s \in Svs |-> {}]
         /\ stash' = [s \in Svs |-> NoPackage]
         /\ UNCHANGED <<pad, mortals, frames>>

-----------------------------------------------------------------------------
(* The interpreter *)

\* free_tmps: a mortal is popped before it is decremented.
TmpsStep == /\ InFrame("tmps")
            /\ \/ /\ Len(mortals) > Head(frames).floor
                  /\ mortals' = Front(mortals)
                  /\ Push(Dec(Last(mortals)))
               \/ /\ Len(mortals) = Head(frames).floor
                  /\ Pop
                  /\ UNCHANGED mortals
            /\ UNCHANGED <<refcnt, alive, rv, weak, backrefs, stash, pad>>

\* SvREFCNT_dec: sv_free2 when it is the last count.
DecStep == LET s == Head(frames).sv IN
           /\ InFrame("dec") /\ refcnt[s] > 0
           /\ refcnt' = [refcnt EXCEPT ![s] = @ - 1]
           /\ frames' = (IF refcnt[s] = 1 THEN <<Frame("clear", s, NoPackage, 0)>> ELSE <<>>)
                           \o Tail(frames)
           /\ UNCHANGED <<alive, rv, weak, backrefs, stash, pad, mortals>>

\* S_curse calls DESTROY, and again while it has changed the class; a new
\* reference, which is $_[0], keeps the object meanwhile.
CallDestroy == LET s == Head(frames).sv IN
               /\ InFrame("clear") /\ stash[s] # NoPackage /\ stash[s] # Head(frames).ran
               /\ refcnt' = [refcnt EXCEPT ![s] = @ + 1]
               /\ frames' = <<Frame("DESTROY", s, NoPackage, Len(mortals)),
                              [Head(frames) EXCEPT !.ran = stash[s]]>> \o Tail(frames)
               /\ UNCHANGED <<alive, rv, weak, backrefs, stash, pad, mortals>>

KeepsTmpref == /\ InFrame("DESTROY") /\ Len(mortals) = Floor   \* mutant: no SvREFCNT(sv)--
               /\ Pop
               /\ UNCHANGED <<refcnt, alive, rv, weak, backrefs, stash, pad, mortals>>

DestroyReturns == LET s == Head(frames).sv IN
                  /\ InFrame("DESTROY") /\ Len(mortals) = Floor
                  /\ refcnt' = [refcnt EXCEPT ![s] = @ - 1]
                  /\ Pop
                  /\ UNCHANGED <<alive, rv, weak, backrefs, stash, pad, mortals>>

\* DESTROY gave the object new lease on life.
Resurrect == LET s == Head(frames).sv IN
             /\ InFrame("clear") /\ stash[s] = Head(frames).ran /\ refcnt[s] > 0
             /\ Pop
             /\ UNCHANGED <<refcnt, alive, rv, weak, backrefs, stash, pad, mortals>>

\* The rest of sv_clear: curse it, clear the weak references to it, free it,
\* and go on with what it refers to.
FreeSv == LET s      == Head(frames).sv
              others == [r \in Svs |-> IF r \in backrefs[s] THEN NoSv ELSE rv[r]]
          IN /\ InFrame("clear") /\ stash[s] = Head(frames).ran /\ refcnt[s] = 0
             /\ alive' = alive \ {s}
             /\ stash' = [stash EXCEPT ![s] = NoPackage]
             /\ rv' = [others EXCEPT ![s] = NoSv]
             /\ weak' = weak \ (backrefs[s] \cup {s})
             /\ backrefs' = [BackrefsWithout(s) EXCEPT ![s] = {}]
             /\ frames' = (IF Strong(s) THEN <<Dec(rv[s])>> ELSE <<>>) \o Tail(frames)
             /\ UNCHANGED <<refcnt, pad, mortals>>

-----------------------------------------------------------------------------
SvNext == \/ \E s \in Svs : \/ NewSv(s) \/ Undef(s) \/ Weaken(s) \/ Unweaken(s)
                            \/ ClearInPlace(s) \/ Abandon(s)
                            \/ \E t \in Svs : AssignRef(s, t) \/ AssignBodyless(s, t)
                            \/ \E class \in Into[s] : Bless(s, class)
          \/ Exits \/ FreeTmps \/ TmpsStep \/ DecStep
          \/ CallDestroy \/ DestroyReturns \/ Resurrect \/ FreeSv

SvSpec == SvInit /\ [][SvNext]_SvVars

-----------------------------------------------------------------------------
(* Properties *)

Frames(what, s) == {n \in DOMAIN frames : frames[n].do = what /\ frames[n].sv = s}

\* SvREFCNT is the number of those who hold the SV, at every step of every
\* free and of the DESTROYs in it: variables, strong references, mortals,
\* pending decrements, and DESTROY's $_[0].  One more leaks it, one less frees
\* it under somebody.
SvCounted ==
    \A s \in alive :
        refcnt[s] = Cardinality({p \in pad : p = s})
                  + Cardinality({r \in alive : rv[r] = s /\ r \notin weak})
                  + Cardinality({n \in DOMAIN mortals : mortals[n] = s})
                  + Cardinality(Frames("dec", s)) + Cardinality(Frames("DESTROY", s))

\* No reference, strong or weak, outlives what it refers to; a weak one is known
\* to its target, which will clear it, and only weak ones are (sv_del_backref
\* panics at others).  DESTROY may turn one into the other half way.
SvWeakCoherent ==
    \A r \in Svs : /\ rv[r] # NoSv => r \in alive /\ rv[r] \in alive
                   /\ \A t \in Svs : r \in backrefs[t] <=> r \in weak /\ rv[r] = t

\* An SV without a count is being freed, once: sv_clear does not meet it again
\* further in, though its DESTROY gives it a count and takes it away.
SvFreedOnce ==
    \A s \in Svs : /\ Cardinality(Frames("clear", s)) <= 1
                   /\ Frames("clear", s) # {} => s \in alive
                   /\ s \in alive /\ refcnt[s] = 0 => Frames("clear", s) # {}
=============================================================================
