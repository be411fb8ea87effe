---------------------------- MODULE SafeSignals ----------------------------
(***************************************************************************)
(* Deferred ("safe") signals of one interpreter: mg.c csighandler,         *)
(* despatch_signals, sighandler and magic_setsig, the clearing of pending  *)
(* signals in the child of a fork (pp_sys.c) and the signals that other    *)
(* threads emulate with $thr->kill (dist/threads/threads.xs).              *)
(*                                                                         *)
(* The operating system may run csighandler between any two steps here.    *)
(* frames is what the C stack of the interpreter holds of this machinery:  *)
(* a despatch loop, which may be in the Perl handler it called, and the    *)
(* magic of an assignment to an element of %SIG.  Perl code runs when      *)
(* there is no frame or when the last one is in a handler, and may then    *)
(* check for signals or assign to %SIG, which nests.  A frame blocks its   *)
(* signal before it has the unblocking on the savestack, and leave_scope   *)
(* takes that off before it is done; an exception leaves its frames one    *)
(* by one in the same way, and csighandler may croak in between.           *)
(***************************************************************************)
EXTENDS Integers, Sequences, SequencesExt, FiniteSets

CONSTANTS LastSignal,  \* the signals are 1..LastSignal, in the despatch order
          Virtual,     \* those that other threads send; their handlers stay
          Dying,       \* those whose handler may die
          ClearsLater, \* a handler may clear the handler of a later signal
          DieCount,    \* SIG_PENDING_DIE_COUNT
          MaxSent,     \* bound: signals sent
          MaxFrames,   \* bound: nested despatches and assignments
          NoSignal

Signals == 1..LastSignal

ASSUME SignalsAssumption == /\ LastSignal \in Nat \ {0} /\ NoSignal \notin Signals
                            /\ Virtual \subseteq Signals /\ Dying \subseteq Signals
                            /\ ClearsLater \in BOOLEAN
                            /\ DieCount \in Nat \ {0} /\ MaxSent \in Nat /\ MaxFrames \in Nat

VARIABLES
  sent,      \* how many signals were sent
  raised,    \* the operating system's pending signals
  mask,      \* the signal mask of the process
  os,        \* os[s]: catch (csighandler), ignore or default
  handler,   \* PL_psig_ptr[s]: code, string ("IGNORE", "DEFAULT") or null
  pend,      \* the signals with PL_psig_pend[s] > 0
  pending,   \* PL_sig_pending
  frames,    \* despatch loops and assignments to %SIG, the innermost last
  killing,   \* the signal that another thread is sending, with what it has done
  unwinding, \* how many of them, the innermost, an exception is leaving
  stuck,     \* the signals whose csighandler was left by a croak
  unowed,    \* history: those whose unblocking a croak of csighandler has lost
  ended      \* "no", or why the process ended

masks == <<mask, stuck, unowed>>
osvars == <<raised, os, masks>>
perlvars == <<handler, pend, pending, frames, unwinding>>
vars == <<sent, osvars, perlvars, killing, ended>>

Despatch(s, step, was) == [kind |-> "despatch", sig |-> s, step |-> step, was |-> was]
Setsig(i, step, to, save) == [kind |-> "setsig", sig |-> i, step |-> step, to |-> to, save |-> save]

Alive == ended = "no"

Top == Last(frames)
At(step) == Alive /\ frames # <<>> /\ Top.step = step
On(kind, step) == unwinding = 0 /\ At(step) /\ Top.kind = kind
Replace(f) == frames' = Append(Front(frames), f)
MoveTo(step) == Replace([Top EXCEPT !.step = step])

\* Perl code is running.
Running == (Alive /\ frames = <<>>) \/ On("despatch", "run")

Init == /\ sent = 0 /\ raised = {} /\ mask = {} /\ stuck = {} /\ unowed = {}
        /\ os = [s \in Signals |-> "catch"]
        /\ handler = [s \in Signals |-> "code"]
        /\ pend = {} /\ pending = 0 /\ frames = <<>> /\ unwinding = 0
        /\ killing = [sig |-> NoSignal, counted |-> FALSE]
        /\ ended = "no"

-----------------------------------------------------------------------------
(* The operating system *)

Send(s) == /\ Alive /\ sent < MaxSent /\ s \notin Virtual \cup raised /\ os[s] # "ignore"
           /\ sent' = sent + 1
           /\ raised' = raised \cup {s}
           /\ UNCHANGED <<masks, os, perlvars, killing, ended>>

Deliverable(s) == Alive /\ s \in raised \ mask

\* csighandler: the flag of the signal, then the flag that there is one.
Catch(s) == /\ Deliverable(s) /\ os[s] = "catch" /\ pending + 1 < DieCount
            /\ raised' = raised \ {s}
            /\ pend' = pend \cup {s}
            /\ pending' = pending + 1
            /\ UNCHANGED <<sent, masks, os, handler, frames, unwinding, killing, ended>>

Terminate(s) == /\ Deliverable(s) /\ os[s] = "default"
                /\ ended' = "default action"
                /\ raised' = raised \ {s}
                /\ UNCHANGED <<sent, masks, os, perlvars, killing>>

-----------------------------------------------------------------------------
(* Leaving a frame *)

UnwindForgetting(f, m) == m   \* mutant: the destructor does nothing

\* The mask after the destructor of frame f, unblock_sigmask or restore_sigmask,
\* has run with mask m.  There is none if the loop found its signal blocked.
Unwind(f, m) == CASE f.kind = "setsig" -> f.save
                  [] f.kind = "despatch" /\ f.was -> m
                  [] OTHER -> m \ {f.sig}

\* What stays blocked if that destructor never runs.
Lost(f) == {f.sig} \ Unwind(f, {f.sig})

\* LEAVE: leave_scope takes the destructor off the savestack ...
Leave == /\ unwinding = 0 /\ At("done") /\ MoveTo("leave")
         /\ UNCHANGED <<sent, osvars, handler, pend, pending, unwinding, killing, ended>>

\* ... and calls it.  The loop goes on, the assignment is over.
Unblock == /\ unwinding = 0 /\ At("leave")
           /\ mask' = Unwind(Top, mask)
           /\ IF Top.kind = "despatch" THEN Replace(Despatch(Top.sig + 1, "scan", FALSE))
              ELSE frames' = Front(frames)
           /\ UNCHANGED <<sent, raised, os, stuck, unowed, handler, pend, pending, unwinding,
                          killing, ended>>

\* An exception does the same to a frame, and goes on to the next.
UnwindLeave == /\ Alive /\ unwinding > 0 /\ Top.step \notin {"scan", "leave"}
               /\ MoveTo("leave")
               /\ UNCHANGED <<sent, osvars, handler, pend, pending, unwinding, killing, ended>>

UnwindFrame == /\ unwinding > 0 /\ (At("scan") \/ At("leave"))
               /\ mask' = IF Top.step = "scan" THEN mask ELSE Unwind(Top, mask)
               /\ frames' = Front(frames)
               /\ unwinding' = unwinding - 1
               /\ UNCHANGED <<sent, raised, os, stuck, unowed, handler,
                              pend, pending, killing, ended>>

\* An exception reaches an eval: in the program, or in a handler that runs.
Catches(n) == /\ n \in 1..Len(frames)
              /\ n < Len(frames) => frames[Len(frames) - n].step = "run"

\* A handler dies.  The call is under G_EVAL, then sighandler dies again in
\* its caller; every handler it passes on the way must itself let it go.
HandlerDies ==
    /\ On("despatch", "run")
    /\ \E n \in 1..Len(frames) :
          /\ Catches(n)
          /\ \A i \in Len(frames) - n + 1..Len(frames) :
                frames[i].step = "run" => frames[i].sig \in Dying
          /\ unwinding' = n
    /\ UNCHANGED <<sent, osvars, handler, pend, pending, frames, killing, ended>>

\* csighandler croaks when too many signals are pending.  It leaves the C
\* signal handler by a longjmp that restores no mask (SCOPE_SAVES_SIGNAL_MASK
\* is 0), so what the kernel blocked for the handler stays blocked; and so does
\* the signal of a frame whose unblocking is not on the savestack: that frame
\* has nothing left to unwind.  An exception under way gives way to the croak.
CatchCroaks(s) ==
    /\ Deliverable(s) /\ os[s] = "catch" /\ pending + 1 >= DieCount
    /\ raised' = raised \ {s}
    /\ pend' = pend \cup {s}
    /\ pending' = pending + 1
    /\ stuck' = stuck \cup {s} /\ mask' = mask \cup {s}
    /\ \E n \in unwinding..Len(frames) :
          /\ IF n = 0 THEN Running ELSE Catches(n)
          /\ IF At("blocked") \/ At("leave")
             THEN /\ frames' = Front(frames) /\ unwinding' = n - 1
                  /\ unowed' = unowed \cup Lost(Top)
             ELSE unwinding' = n /\ UNCHANGED <<frames, unowed>>
    /\ UNCHANGED <<sent, os, handler, killing, ended>>

-----------------------------------------------------------------------------
(* despatch_signals *)

Enter(f) == Len(frames) < MaxFrames /\ pending # 0 /\ pending' = 0 /\ frames' = Append(frames, f)

\* PERL_ASYNC_CHECK: "PL_sig_pending = 0", and the loop begins.
AsyncCheck == /\ Running /\ Enter(Despatch(1, "scan", FALSE))
              /\ UNCHANGED <<sent, osvars, handler, pend, unwinding, killing, ended>>

ScanTooFar ==   \* mutant: the loop runs to sig <= SIG_SIZE
    /\ On("despatch", "scan")
    /\ IF Top.sig > LastSignal + 1 THEN frames' = Front(frames) /\ UNCHANGED mask
       ELSE IF Top.sig \notin pend
            THEN Replace(Despatch(Top.sig + 1, "scan", FALSE)) /\ UNCHANGED mask
            ELSE /\ mask' = mask \cup {Top.sig}
                 /\ Replace(Despatch(Top.sig, "blocked", Top.sig \in mask))
    /\ UNCHANGED <<sent, raised, os, stuck, unowed, handler,
                   pend, pending, unwinding, killing, ended>>

ScanOpen ==   \* mutant: the signal is not blocked
    /\ On("despatch", "scan")
    /\ IF Top.sig > LastSignal THEN frames' = Front(frames)
       ELSE Replace(IF Top.sig \notin pend THEN Despatch(Top.sig + 1, "scan", FALSE)
                    ELSE Despatch(Top.sig, "blocked", TRUE))
    /\ UNCHANGED <<sent, osvars, handler, pend, pending, unwinding, killing, ended>>

\* One turn of the loop: a flagged signal is blocked before its flag is reset.
Scan == /\ On("despatch", "scan")
        /\ IF Top.sig > LastSignal THEN frames' = Front(frames) /\ UNCHANGED mask
           ELSE IF Top.sig \notin pend
                THEN Replace(Despatch(Top.sig + 1, "scan", FALSE)) /\ UNCHANGED mask
                ELSE /\ mask' = mask \cup {Top.sig}   \* SIG_BLOCK
                     /\ Replace(Despatch(Top.sig, "blocked", Top.sig \in mask))
        /\ UNCHANGED <<sent, raised, os, stuck, unowed, handler,
                       pend, pending, unwinding, killing, ended>>

\* SAVEDESTRUCTOR_X: from here on the savestack knows of the unblocking.
Note == /\ unwinding = 0 /\ At("blocked")
        /\ MoveTo(IF Top.kind = "despatch" THEN "call" ELSE "check")
        /\ UNCHANGED <<sent, osvars, handler, pend, pending, unwinding, killing, ended>>

\* "PL_psig_pend[sig] = 0", and sighandler: no handler at all ends the
\* process, a name that is no sub is only warned of.
Call == /\ On("despatch", "call")
        /\ pend' = pend \ {Top.sig}
        /\ IF handler[Top.sig] = "null" THEN ended' = "no handler" /\ UNCHANGED frames
           ELSE /\ MoveTo(IF handler[Top.sig] = "code" THEN "run" ELSE "done")
                /\ UNCHANGED ended
        /\ UNCHANGED <<sent, osvars, handler, pending, unwinding, killing>>

HandlerReturns == /\ On("despatch", "run") /\ MoveTo("done")
                  /\ UNCHANGED <<sent, osvars, handler, pend, pending, unwinding, killing, ended>>

-----------------------------------------------------------------------------
(* magic_setsig: $SIG{i} = to, or its deletion, also at the end of a local *)

Dispositions == {"code", "IGNORE", "DEFAULT", "deleted"}

\* The assignments a program makes here: it keeps the handlers of Virtual
\* signals, and a handler may be kept from clearing that of a later signal.
Allowed(i, to) == to # "code" => /\ i \notin Virtual
                                 /\ frames # <<>> => ClearsLater \/ i <= Top.sig

\* The signal is blocked "to avoid having it arrive at a bad time".
SetsigBegins(i, to) ==
    /\ Running /\ Len(frames) + 1 < MaxFrames /\ Allowed(i, to)
    /\ mask' = mask \cup {i}
    /\ frames' = Append(frames, Setsig(i, "blocked", to, mask))
    /\ UNCHANGED <<sent, raised, os, stuck, unowed, handler,
                   pend, pending, unwinding, killing, ended>>

SetsigSkipsCheck ==   \* mutant: no PERL_ASYNC_CHECK
    /\ On("setsig", "check")
    /\ MoveTo("install")
    /\ UNCHANGED <<sent, osvars, handler, pend, pending, unwinding, killing, ended>>

\* PERL_ASYNC_CHECK within: what is pending is despatched to the old handler.
SetsigChecks ==
    /\ On("setsig", "check")
    /\ LET f == Setsig(Top.sig, "install", Top.to, Top.save)
       IN IF pending = 0 THEN Replace(f) /\ UNCHANGED pending
          ELSE /\ pending' = 0
               /\ frames' = Append(Append(Front(frames), f), Despatch(1, "scan", FALSE))
    /\ UNCHANGED <<sent, osvars, handler, pend, unwinding, killing, ended>>

SetsigInstalls ==
    /\ On("setsig", "install")
    /\ handler' = [handler EXCEPT ![Top.sig] = CASE Top.to = "code" -> "code"
                                                 [] Top.to = "deleted" -> "null"
                                                 [] OTHER -> "string"]
    /\ MoveTo("rsignal")
    /\ UNCHANGED <<sent, osvars, pend, pending, unwinding, killing, ended>>

\* rsignal, which makes the system forget a signal it now ignores.
SetsigEnds ==
    /\ On("setsig", "rsignal")
    /\ os' = [os EXCEPT ![Top.sig] = CASE Top.to = "code" -> "catch"
                                       [] Top.to = "IGNORE" -> "ignore"
                                       [] OTHER -> "default"]
    /\ raised' = IF Top.to = "IGNORE" THEN raised \ {Top.sig} ELSE raised
    /\ MoveTo("done")
    /\ UNCHANGED <<sent, masks, handler, pend, pending, unwinding, killing, ended>>

-----------------------------------------------------------------------------
(* fork and $thr->kill *)

ForkKeepsFlags(p) == p   \* mutant: PL_psig_pend is not cleared in the child

\* What the child of a fork keeps of PL_psig_pend.
InChild(p) == {}

\* The run goes on in the child: with all signals masked it forgets what was
\* pending in the parent, and the other threads are gone.
Fork == /\ Running
        /\ pending' = 0 /\ pend' = InChild(pend) /\ raised' = {}
        /\ killing' = [sig |-> NoSignal, counted |-> FALSE]
        /\ UNCHANGED <<sent, masks, os, handler, frames, unwinding, ended>>

\* Another thread, with the ithread's mutex but not the interpreter's leave.
KillChecks(s) == /\ Alive /\ killing.sig = NoSignal /\ sent < MaxSent
                 /\ s \in Virtual /\ handler[s] # "null"
                 /\ sent' = sent + 1
                 /\ killing' = [sig |-> s, counted |-> FALSE]
                 /\ UNCHANGED <<osvars, perlvars, ended>>

KillCounts == /\ Alive /\ killing.sig # NoSignal /\ ~killing.counted
              /\ pend' = pend \cup {killing.sig}
              /\ killing' = [killing EXCEPT !.counted = TRUE]
              /\ UNCHANGED <<sent, osvars, handler, pending, frames, unwinding, ended>>

KillForgetsFlag ==   \* mutant: PL_sig_pending is not set
    /\ Alive /\ killing.counted
    /\ killing' = [sig |-> NoSignal, counted |-> FALSE]
    /\ UNCHANGED <<sent, osvars, perlvars, ended>>

KillFlags == /\ Alive /\ killing.counted
             /\ pending' = 1
             /\ killing' = [sig |-> NoSignal, counted |-> FALSE]
             /\ UNCHANGED <<sent, osvars, handler, pend, frames, unwinding, ended>>

-----------------------------------------------------------------------------
Interpret == \/ AsyncCheck \/ Scan \/ Note \/ Call \/ SetsigChecks \/ SetsigInstalls \/ SetsigEnds
             \/ Leave \/ Unblock \/ UnwindLeave \/ UnwindFrame

Program == HandlerReturns \/ HandlerDies \/ Fork
           \/ \E i \in Signals, to \in Dispositions : SetsigBegins(i, to)

Interrupt == \E s \in Signals : Send(s) \/ Catch(s) \/ CatchCroaks(s) \/ Terminate(s)

Kill == KillCounts \/ KillFlags \/ \E s \in Virtual : KillChecks(s)

Next == Interpret \/ Program \/ Interrupt \/ Kill

Spec == Init /\ [][Next]_vars

\* Perl code keeps coming to safe points, a handler comes to its end whatever
\* it calls on the way, the kernel delivers what is not blocked, and a thread
\* finishes its call of kill.
Fairness == /\ WF_vars(Interpret) /\ SF_vars(HandlerReturns)
            /\ \A s \in Signals : WF_vars(Catch(s) \/ CatchCroaks(s) \/ Terminate(s))
            /\ WF_vars(KillCounts \/ KillFlags)

FairSpec == Spec /\ Fairness

-----------------------------------------------------------------------------
(* Properties *)

TypeOK ==
    /\ sent \in 0..MaxSent
    /\ raised \subseteq Signals /\ mask \subseteq Signals
    /\ stuck \subseteq Signals /\ unowed \subseteq Signals
    /\ os \in [Signals -> {"catch", "ignore", "default"}]
    /\ handler \in [Signals -> {"code", "string", "null"}]
    /\ pend \subseteq Signals /\ pending \in 0..MaxSent
    /\ unwinding \in 0..Len(frames) /\ Len(frames) <= MaxFrames
    /\ \A i \in DOMAIN frames :
          frames[i] \in [kind : {"despatch"}, sig : 1..LastSignal + 1,
                        step : {"scan", "blocked", "call", "run", "done", "leave"}, was : BOOLEAN]
                       \cup [kind : {"setsig"}, sig : Signals, to : Dispositions,
                            step : {"blocked", "check", "install", "rsignal", "done", "leave"},
                            save : SUBSET Signals]
    /\ killing \in [sig : Signals \cup {NoSignal}, counted : BOOLEAN]
    /\ ended \in {"no", "default action", "no handler"}

\* The loop of frame f will still look at signal s.
WillReach(f, s) == /\ f.kind = "despatch"
                   /\ IF f.step \in {"run", "done", "leave"} THEN f.sig < s ELSE f.sig <= s

\* A signal that is flagged will be found: by a loop under way, or because
\* PL_sig_pending makes the next safe point look.  A loop that a handler left
\* by dying would break this for the signals after its own.
NoneStranded ==
    \A s \in pend : \/ pending > 0
                    \/ \E i \in 1..Len(frames) - unwinding : WillReach(frames[i], s)
                    \/ killing = [sig |-> s, counted |-> TRUE]

\* A signal is despatched to a handler: none that was caught before %SIG was
\* changed finds its handler gone.  (A croak of csighandler for one signal can
\* cut short the assignment of another, so what follows it is left out.)
HandlerFound == On("despatch", "call") /\ stuck = {} => handler[Top.sig] = "code"

\* Every signal that is blocked will be unblocked by a frame that is left to
\* unwind, however the frames nest and whatever dies.  Only a croak of
\* csighandler leaves a signal blocked: its own, or that of a frame which has
\* blocked it and not yet put the unblocking on the savestack, or has taken it
\* off and not yet done it.  And no frame runs with its signal open.
MaskOwed ==
    LET Owed == {frames[i].sig : i \in {j \in DOMAIN frames : frames[j].step # "scan"}}
    IN mask \ (stuck \cup unowed) \subseteq Owed /\ Owed \subseteq mask

\* "Signal routines normally execute with the signal that caused their
\* invocation blocked": the handler of a signal does not interrupt itself,
\* unless the signal was sent by a thread, past the mask.
OneAtATime ==
    \A i, j \in DOMAIN frames :
        /\ i < j /\ frames[i].step = "run" /\ frames[j].step = "run"
        /\ frames[i].sig = frames[j].sig
        => frames[i].sig \in Virtual

\* perlipc: at safe points "the flags are checked and the Perl level handler
\* from %SIG is executed".
HandlerRuns == \A s \in Signals : (s \in pend) ~> (s \notin pend \/ ~Alive)

=============================================================================
