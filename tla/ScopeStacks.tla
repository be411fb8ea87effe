----------------------------- MODULE ScopeStacks -----------------------------
(***************************************************************************)
(* The stacks the interpreter unwinds, pp_ctl.c, scope.c, perl.c: what      *)
(* blocks, evals and subs opened (the context stack), what their end undoes  *)
(* (the savestack), the temporaries of the statement under way, and the C    *)
(* functions between them: a tied STORE or a DESTROY is Perl code run by C   *)
(* code in the middle of a statement, of the end of a scope, or of a die.    *)
(* A die unwinds the Perl stacks first and then jumps over the C functions.  *)
(***************************************************************************)
EXTENDS Naturals, FiniteSets, SequencesExt

CONSTANTS
  MaxContexts,  \* blocks and evals that the program has open, one less in each
                \* further C call
  MaxSaved,     \* entries of the savestack when the program adds one
  MaxTmps,      \* temporaries
  MaxCalls      \* C calls under way in code that makes further ones

ASSUME StackAssumption == {MaxContexts, MaxSaved, MaxTmps, MaxCalls} \subseteq Nat

VARIABLES
  value,      \* of a tied global, which program code only changes by local
  savestack,  \* PL_savestack: [what, old], "local", "object" (a my variable
              \* with an object in it) or "floor" (SAVETMPS)
  tmps,       \* PL_tmps_ix; every temporary is an object
  floor,      \* PL_tmps_floor
  contexts,   \* cxstack, of all stackinfos
  cstack      \* the C functions, the innermost last

StackVars == <<value, savestack, tmps, floor, contexts, cstack>>

\* Loops run Perl code: the program's, that of a STORE ("call"), of a DESTROY,
\* or docatch's.  n is the savestack index at their ENTER.  The others work:
\* "leave" is leave_scope down to n, "tmps" FREETMPS, "unwind" dounwind down to
\* context n, "jump" the end of a die_unwind to it.
CFrame(f, n) == [fn |-> f, n |-> n]
Loops == {"main", "call", "destroy", "docatch"}
Runs == Last(cstack).fn \in Loops
Works(f) == Last(cstack).fn = f
Then(todo) == cstack' = cstack \o todo
Done == cstack' = Front(cstack)

\* The C call whose Perl code runs: docatch runs on with that of its caller.
Caller == Max({i \in DOMAIN cstack : cstack[i].fn \in {"main", "call", "destroy"}})

CallsRunning == {i \in DOMAIN cstack : cstack[i].fn \in {"call", "destroy"}}
MayCall == Runs /\ contexts # <<>> /\ Cardinality(CallsRunning) < MaxCalls

Top == Last(contexts)
Opened == {i \in DOMAIN contexts : /\ contexts[i].caller = Caller
                                  /\ contexts[i].type \in {"block", "try"}}
MayOpen == Runs /\ Cardinality(Opened) + Cardinality(CallsRunning) < MaxContexts
Saved(what, old) == [what |-> what, old |-> old]

\* cx_pushblock, after saving s entries and with t temporaries.  catcher is the
\* index of the loop a die is to resume; caller and entry are not in the code.
Context(type, s, t, old, catcher, caller) ==
    [type |-> type, saveix |-> s, tmps |-> t, oldfloor |-> old,
     catcher |-> catcher, caller |-> caller, entry |-> value]

StackInit == /\ value = 0 /\ savestack = <<>> /\ tmps = 0 /\ floor = 0
             /\ contexts = <<>> /\ cstack = <<CFrame("main", 0)>>

-----------------------------------------------------------------------------
(* The program *)

Local == /\ MayCall /\ Len(savestack) < MaxSaved
         /\ savestack' = Append(savestack, Saved("local", value))
         /\ value' = value + 1
         /\ UNCHANGED <<tmps, floor, contexts, cstack>>

My == /\ MayCall /\ Len(savestack) < MaxSaved
      /\ savestack' = Append(savestack, Saved("object", 0))
      /\ UNCHANGED <<value, tmps, floor, contexts, cstack>>

Temporary == /\ MayCall /\ tmps < MaxTmps
             /\ tmps' = tmps + 1
             /\ UNCHANGED <<value, savestack, floor, contexts, cstack>>

\* pp_nextstate.
NextStatement == /\ Runs /\ tmps > floor
                 /\ Then(<<CFrame("tmps", 0)>>)
                 /\ UNCHANGED <<value, savestack, tmps, floor, contexts>>

\* pp_enter.
EnterBlock == /\ MayOpen
              /\ contexts' = Append(contexts,
                     Context("block", Len(savestack), tmps, floor, 0, Caller))
              /\ floor' = tmps
              /\ UNCHANGED <<value, savestack, tmps, cstack>>

NeverCatches == cstack   \* mutant: pp_entertry without RUN_PP_CATCHABLY

\* je_mustcatch is on: no setjmp since the C call, and docatch makes one.
Catches == IF Works("call") THEN Append(cstack, CFrame("docatch", 0)) ELSE cstack

\* pp_entertry, create_eval_scope.
Setjmps(stack) == {i \in DOMAIN stack : stack[i].fn \in {"main", "destroy", "docatch"}}
EnterTry == /\ MayOpen
            /\ cstack' = Catches
            /\ contexts' = Append(contexts,
                   Context("try", Len(savestack), tmps, floor, Max(Setjmps(Catches)), Caller))
            /\ floor' = tmps
            /\ UNCHANGED <<value, savestack, tmps>>

\* pp_leave, pp_leavetry, pp_leavesub: leave_adjust_stacks frees the temporaries
\* that are not returned; in void context only the end of an eval does.
FreesFirst == {<<CFrame("tmps", 0)>>} \cup (IF Top.type = "try" THEN {} ELSE {<<>>})
LeavesBlock(type, last) ==
    /\ Runs /\ contexts # <<>> /\ Top.type = type
    /\ \E first \in FreesFirst :
         Then(<<last, CFrame("leave", Top.saveix)>> \o first)
    /\ UNCHANGED <<value, savestack, tmps, floor, contexts>>
LeaveBlock == LeavesBlock("block", CFrame("pop", 0))
LeaveTry == LeavesBlock("try", CFrame("pop", 0))
LeaveSub == LeavesBlock("sub", CFrame("return", 0))

\* A tied STORE: magic_setpack, magic_methcall, call_sv without G_EVAL, from
\* code that has brought the savestack to saved and the variable to v.
CallStore(saved, v) ==
    /\ value' = v
    /\ savestack' = Append(saved, Saved("floor", floor))
    /\ floor' = tmps
    /\ contexts' = Append(contexts,
           [Context("sub", Len(saved) + 1, tmps, tmps, 0, Len(cstack) + 1) EXCEPT !.entry = v])
    /\ Then(<<CFrame("call", Len(saved))>>)
    /\ UNCHANGED tmps

AssignTied == /\ MayCall
              /\ CallStore(savestack, value)

\* die, caught: Perl_die_unwind.  A die that nobody catches ends the program.
Catching == {i \in DOMAIN contexts : contexts[i].type \in {"try", "destroy"}}

\* Mutants: die_unwind without its FREETMPS, and without leaving the eval's scope.
FreesLate(c) == <<CFrame("jump", c), CFrame("leave", contexts[c].saveix), CFrame("unwind", c)>>
LeavesNothing(c) == <<CFrame("jump", c), CFrame("tmps", 0), CFrame("unwind", c)>>

DieUnwinds(c) == <<CFrame("jump", c), CFrame("leave", contexts[c].saveix),
                   CFrame("tmps", 0), CFrame("unwind", c)>>
Die == /\ Runs /\ Catching # {}
       /\ Then(DieUnwinds(Max(Catching)))
       /\ UNCHANGED <<value, savestack, tmps, floor, contexts>>

-----------------------------------------------------------------------------
(* What the C functions do *)

\* S_curse: DESTROY is called with G_EVAL and G_KEEPERR, when the savestack has
\* been brought to saved and t temporaries are left.
EnterDestroy(saved, t) ==
    /\ savestack' = Append(saved, Saved("floor", floor))
    /\ tmps' = t /\ floor' = t
    /\ contexts' = contexts \o
         <<Context("destroy", Len(saved) + 1, t, t, Len(cstack) + 1, Len(cstack) + 1),
           Context("sub", Len(saved) + 1, t, t, 0, Len(cstack) + 1)>>
    /\ Then(<<CFrame("destroy", Len(saved))>>)

\* leave_scope, the topmost entry: it is off the stack before it is undone.
Undo == LET entry == Last(savestack)
            rest  == Front(savestack)
        IN \/ /\ entry.what = "local"   \* mg_set of a tied variable calls STORE
              /\ CallStore(rest, entry.old)
           \/ /\ entry.what = "object"
              /\ EnterDestroy(rest, tmps)
              /\ UNCHANGED value
           \/ /\ entry.what = "floor"
              /\ floor' = entry.old
              /\ savestack' = rest
              /\ UNCHANGED <<value, tmps, contexts, cstack>>

LeaveScope == /\ Works("leave")
              /\ IF Len(savestack) > Last(cstack).n
                 THEN Undo
                 ELSE Done /\ UNCHANGED <<value, savestack, tmps, floor, contexts>>

\* free_tmps.
FreeTemporaries == /\ Works("tmps")
                   /\ IF tmps > floor
                      THEN EnterDestroy(savestack, tmps - 1) /\ UNCHANGED value
                      ELSE Done /\ UNCHANGED <<value, savestack, tmps, floor, contexts>>

\* cx_popblock and CX_POP.
PopBlock == /\ contexts' = Front(contexts)
            /\ floor' = Top.oldfloor
            /\ UNCHANGED <<value, savestack, tmps>>

Pop1 == /\ Works("pop") /\ PopBlock /\ Done

\* The rest of call_sv, with G_DISCARD: FREETMPS and LEAVE, after
\* delete_eval_scope if the eval's scope is still there.
CallEnds(loop, evals) ==
    <<CFrame("done", 0), CFrame("leave", loop.n), CFrame("tmps", 0)>> \o evals

ReturnSub == /\ Works("return") /\ PopBlock
             /\ LET loop == cstack[Caller]
                IN cstack' = SubSeq(cstack, 1, Caller) \o
                     CallEnds(loop, IF loop.fn = "destroy"
                                    THEN <<CFrame("pop", 0), CFrame("leave", loop.n + 1)>>
                                    ELSE <<>>)

CallDone == /\ Works("done")
            /\ cstack' = Front(Front(cstack))
            /\ UNCHANGED <<value, savestack, tmps, floor, contexts>>

\* dounwind: each context's scope is left while it is the topmost, but only the
\* last is popped by cx_popblock.
Unwind == LET c == Last(cstack).n
          IN /\ Works("unwind")
             /\ \/ /\ Len(contexts) > c /\ Len(savestack) > Top.saveix
                   /\ Undo
                \/ /\ Len(contexts) > c /\ Len(savestack) <= Top.saveix
                   /\ contexts' = Front(contexts)
                   /\ floor' = IF Len(contexts) = c + 1 THEN Top.oldfloor ELSE floor
                   /\ UNCHANGED <<value, savestack, tmps, cstack>>
                \/ /\ Len(contexts) = c /\ Done
                   /\ UNCHANGED <<value, savestack, tmps, floor, contexts>>

\* cx_popeval, cx_popblock and JMPENV_JUMP(3): those who catch it in between
\* pass it on.  The eval of a DESTROY ends with its call.
Jump == /\ Works("jump") /\ PopBlock
        /\ cstack' = SubSeq(cstack, 1, Top.catcher) \o
              IF Top.type = "destroy" THEN CallEnds(cstack[Top.catcher], <<>>) ELSE <<>>

StackNext == \/ Local \/ My \/ Temporary \/ NextStatement
             \/ EnterBlock \/ EnterTry \/ AssignTied \/ Die
             \/ LeaveBlock \/ LeaveTry \/ LeaveSub
             \/ LeaveScope \/ FreeTemporaries \/ Pop1 \/ ReturnSub \/ CallDone
             \/ Unwind \/ Jump

StackSpec == StackInit /\ [][StackNext]_StackVars
-----------------------------------------------------------------------------
(* Properties *)

\* When a context goes, by its end or by a die, whatever it saved is undone:
\* the global has the value from before and the savestack its height (the assert
\* in cx_popblock), though STORE and DESTROY run and die in the middle.
LocalsUndone == [][\A i \in DOMAIN contexts : Len(contexts') < i =>
                     /\ Len(savestack') = contexts[i].saveix
                     /\ value' = contexts[i].entry]_StackVars

\* Perl code runs in the C call that started it, and each eval would be resumed
\* where it was entered: no context outlives the C functions that run it.
CallersLive ==
    /\ \A i \in DOMAIN contexts :
         /\ contexts[i].caller <= Caller
         /\ cstack[contexts[i].caller].fn \in {"main", "call", "destroy"}
    /\ Runs /\ contexts # <<>> => Top.caller = Caller
    /\ \A i \in DOMAIN contexts : contexts[i].type \in {"try", "destroy"} =>
         /\ contexts[i].catcher \in Setjmps(cstack)
         /\ contexts[i].catcher >= contexts[i].caller

\* No temporary outlives the eval it was made in, or its DESTROY would clobber
\* the $@ that the eval leaves.  The exception is a die in a STORE that the eval's
\* code called: SAVETMPS hides the temporaries from the FREETMPS of die_unwind.
DiedInStore(c) == \E i \in DOMAIN cstack : i > contexts[c].catcher /\ cstack[i].fn = "call"
FreedInTime == [][\A i \in DOMAIN contexts :
                    contexts[i].type = "try" /\ Len(contexts') < i
                      => tmps <= contexts[i].tmps \/ DiedInStore(i)]_StackVars
=============================================================================
