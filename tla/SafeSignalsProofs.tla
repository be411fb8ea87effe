------------------------- MODULE SafeSignalsProofs -------------------------
(***************************************************************************)
(* For any signals, any number of them sent and any depth of nesting: the  *)
(* types, the signal mask that is owed to the frames, and handlers that do *)
(* not interrupt themselves, whatever dies and wherever csighandler comes  *)
(* in; and, when only the handler of the last signal may die, no flagged   *)
(* signal is stranded and, when no handler is cleared in front of a loop,  *)
(* each signal finds its handler.  The runs SafeSignalsLost and            *)
(* SafeSignalsClear show that those two need the conditions.               *)
(***************************************************************************)
EXTENDS SafeSignals, FiniteSetTheorems, TLAPS

(* The stack of frames and the signal mask, whatever may die *)

LoopSteps == {"scan", "blocked", "call", "run", "done", "leave"}
SetSteps == {"blocked", "check", "install", "rsignal", "done", "leave"}
FrameSet == [kind : {"despatch"}, sig : 1..LastSignal + 1, step : LoopSteps, was : BOOLEAN]
            \cup [kind : {"setsig"}, sig : Signals, to : Dispositions, step : SetSteps,
                  save : SUBSET Signals]

\* The signals that a frame, and those that the frames 1..k of fs, unblock
\* when they are left.
Debt(f) == IF f.step = "scan" THEN {} ELSE {f.sig}
Owes(fs, k) == {fs[i].sig : i \in {j \in 1..k : fs[j].step # "scan"}}

\* Frame f stands right for the mask above the first k frames of fs: leaving it
\* gives back the mask that they need, but for the signals in held.
Saves(fs, k, f, held) ==
    /\ f.kind = "setsig" => Owes(fs, k) \subseteq f.save /\ f.save \subseteq Owes(fs, k) \cup held
    /\ f.kind = "despatch" /\ f.step # "scan" =>
          IF f.was THEN f.sig \in Owes(fs, k) \cup held ELSE f.sig \notin Owes(fs, k)

\* Perl code, or the check for signals in an assignment to %SIG, put it there.
Stands(fs, k, f) ==
    k > 0 => \/ fs[k].kind = "despatch" /\ fs[k].step = "run"
             \/ fs[k].kind = "setsig" /\ fs[k].step = "install" /\ f.kind = "despatch"

\* The handler that runs in it is the only one of its signal to run, and the
\* signal has no flag.
Single(fs, k, f, flags) ==
    f.step = "run" /\ f.sig \notin Virtual =>
        f.sig \notin flags /\ \A i \in 1..k : fs[i].step = "run" => fs[i].sig # f.sig

Fits(fs, k, f, held, flags) ==
    /\ f \in FrameSet /\ (f.sig > LastSignal => f.step = "scan")
    /\ Saves(fs, k, f, held) /\ Stands(fs, k, f) /\ Single(fs, k, f, flags)

FitAll(fs, held, flags) ==
    fs \in Seq(FrameSet) /\ \A i \in 1..Len(fs) : Fits(fs, i - 1, fs[i], held, flags)

\* The mask is what the frames will unblock, and what is held.
Masks(fs, m, held) == Owes(fs, Len(fs)) \subseteq m /\ m \subseteq Owes(fs, Len(fs)) \cup held

LEMMA FrameFacts ==
    ASSUME NEW f \in FrameSet
    PROVE  /\ f.kind \in {"despatch", "setsig"} /\ f.sig \in 1..LastSignal + 1
           /\ f.kind = "despatch" => f.step \in LoopSteps /\ f.was \in BOOLEAN
           /\ f.kind = "setsig" => /\ f.sig \in Signals /\ f.to \in Dispositions
                                   /\ f.step \in SetSteps /\ f.save \in SUBSET Signals
BY SignalsAssumption DEF FrameSet, Signals

\* A frame goes to another step and keeps the rest.
LEMMA StepFacts ==
    ASSUME NEW f \in FrameSet,
           NEW step \in IF f.kind = "despatch" THEN LoopSteps ELSE SetSteps
    PROVE  LET g == [f EXCEPT !.step = step]
           IN  /\ g \in FrameSet /\ g.kind = f.kind /\ g.sig = f.sig /\ g.step = step
               /\ f.kind = "despatch" => g.was = f.was
               /\ f.kind = "setsig" => g.to = f.to /\ g.save = f.save
<1>1. CASE f.kind = "despatch"
  <2>1. f \in [kind : {"despatch"}, sig : 1..LastSignal + 1, step : LoopSteps, was : BOOLEAN]
      BY <1>1 DEF FrameSet
  <2> QED
      BY <1>1, <2>1 DEF FrameSet
<1>2. CASE f.kind # "despatch"
  <2>1. f \in [kind : {"setsig"}, sig : Signals, to : Dispositions, step : SetSteps,
               save : SUBSET Signals]
      BY <1>2 DEF FrameSet
  <2> QED
      BY <1>2, <2>1 DEF FrameSet
<1> QED
    BY <1>1, <1>2

\* What the first k frames owe depends on them only.
LEMMA OwesSame ==
    ASSUME NEW fs, NEW gs, NEW k \in Nat, \A i \in 1..k : gs[i] = fs[i]
    PROVE  Owes(gs, k) = Owes(fs, k)
BY DEF Owes

LEMMA FitsSame ==
    ASSUME NEW fs, NEW gs, NEW k \in Nat, \A i \in 1..k : gs[i] = fs[i],
           NEW f, NEW held, NEW flags, Fits(fs, k, f, held, flags)
    PROVE  Fits(gs, k, f, held, flags)
<1>1. Owes(gs, k) = Owes(fs, k)
    BY OwesSame
<1>2. Stands(gs, k, f)
    BY DEF Fits, Stands
<1>3. Saves(gs, k, f, held)
    BY <1>1 DEF Fits, Saves
<1>4. Single(gs, k, f, flags)
    BY DEF Fits, Single
<1> QED
    BY <1>2, <1>3, <1>4 DEF Fits

\* One frame more.
LEMMA FitPush ==
    ASSUME NEW fs, NEW held, NEW flags, NEW f,
           FitAll(fs, held, flags), Fits(fs, Len(fs), f, held, flags)
    PROVE  LET gs == Append(fs, f)
           IN  /\ FitAll(gs, held, flags)
               /\ Len(gs) = Len(fs) + 1 /\ gs[Len(gs)] = f
               /\ \A i \in 1..Len(fs) : gs[i] = fs[i]
               /\ Owes(gs, Len(gs)) = Owes(fs, Len(fs)) \cup Debt(f)
<1> DEFINE gs == Append(fs, f)
<1>1. fs \in Seq(FrameSet) /\ f \in FrameSet /\ Len(fs) \in Nat
    BY DEF FitAll, Fits
<1>2. /\ gs \in Seq(FrameSet) /\ Len(gs) = Len(fs) + 1 /\ gs[Len(gs)] = f
      /\ \A i \in 1..Len(fs) : gs[i] = fs[i]
    BY <1>1
<1> HIDE DEF gs
<1>3. ASSUME NEW i \in 1..Len(gs)
      PROVE  Fits(gs, i - 1, gs[i], held, flags)
  <2>1. i - 1 \in Nat /\ \A j \in 1..i - 1 : gs[j] = fs[j]
      BY <1>1, <1>2
  <2>2. Fits(fs, i - 1, gs[i], held, flags)
    <3>1. CASE i = Len(gs)
      <4>1. i - 1 = Len(fs) /\ gs[i] = f
          BY <1>1, <1>2, <3>1
      <4> QED
          BY <4>1
    <3>2. CASE i # Len(gs)
      <4>1. i \in 1..Len(fs) /\ gs[i] = fs[i]
          BY <1>1, <1>2, <3>2
      <4> QED
          BY <4>1 DEF FitAll
    <3> QED
        BY <3>1, <3>2
  <2> QED
      BY <2>1, <2>2, FitsSame
<1>4. Owes(gs, Len(gs)) = Owes(fs, Len(fs)) \cup Debt(f)
    BY <1>1, <1>2 DEF Owes, Debt
<1> QED
    BY <1>2, <1>3, <1>4 DEF gs, FitAll

\* The innermost frames are gone.
LEMMA FitCut ==
    ASSUME NEW fs, NEW held, NEW flags, FitAll(fs, held, flags), NEW n \in 0..Len(fs)
    PROVE  LET gs == SubSeq(fs, 1, n)
           IN  /\ FitAll(gs, held, flags)
               /\ Len(gs) = n /\ \A i \in 1..n : gs[i] = fs[i]
               /\ Owes(gs, n) = Owes(fs, n)
<1> DEFINE gs == SubSeq(fs, 1, n)
<1>1. fs \in Seq(FrameSet)
    BY DEF FitAll
<1>2. gs \in Seq(FrameSet) /\ Len(gs) = n /\ \A i \in 1..n : gs[i] = fs[i]
    BY <1>1
<1> HIDE DEF gs
<1>3. ASSUME NEW i \in 1..n
      PROVE  Fits(gs, i - 1, gs[i], held, flags)
  <2>1. i - 1 \in Nat /\ \A j \in 1..i - 1 : gs[j] = fs[j]
      BY <1>2
  <2>2. i \in 1..Len(fs)
      BY <1>1
  <2>3. Fits(fs, i - 1, gs[i], held, flags)
      BY <1>2, <2>2 DEF FitAll
  <2> QED
      BY <2>1, <2>3, FitsSame
<1>4. Owes(gs, n) = Owes(fs, n)
    BY <1>2, OwesSame
<1> QED
    BY <1>2, <1>3, <1>4 DEF gs, FitAll

\* The stack is the innermost frame above the rest.
LEMMA FitTop ==
    ASSUME NEW fs, NEW held, NEW flags, FitAll(fs, held, flags), fs # <<>>
    PROVE  LET gs == Front(fs)
               f == Last(fs)
           IN  /\ FitAll(gs, held, flags) /\ Fits(gs, Len(gs), f, held, flags)
               /\ Len(fs) = Len(gs) + 1 /\ fs[Len(fs)] = f /\ Len(gs) \in Nat
               /\ \A i \in 1..Len(gs) : gs[i] = fs[i]
               /\ Owes(fs, Len(fs)) = Owes(gs, Len(gs)) \cup Debt(f)
<1> DEFINE gs == Front(fs)
           f == Last(fs)
           n == Len(fs) - 1
<1>1. fs \in Seq(FrameSet) /\ Len(fs) \in Nat \ {0}
    BY DEF FitAll
<1>2. gs = SubSeq(fs, 1, n) /\ n \in 0..Len(fs) /\ Len(fs) = n + 1
    BY <1>1 DEF Front
<1>3. f = fs[Len(fs)]
    BY DEF Last
<1> HIDE DEF gs, f, n
<1>4. /\ FitAll(gs, held, flags) /\ Len(gs) = n /\ \A i \in 1..n : gs[i] = fs[i]
      /\ Owes(gs, n) = Owes(fs, n)
    BY <1>2, FitCut
<1>5. Fits(gs, n, f, held, flags)
  <2>1. Fits(fs, n, f, held, flags)
    <3>1. Len(fs) \in 1..Len(fs) /\ Len(fs) - 1 = n
        BY <1>1, <1>2
    <3> QED
        BY <1>3, <3>1 DEF FitAll
  <2>2. n \in Nat /\ \A i \in 1..n : gs[i] = fs[i]
      BY <1>1, <1>2, <1>4
  <2> QED
      BY <2>1, <2>2, FitsSame, Zenon
<1>6. Owes(fs, Len(fs)) = Owes(fs, n) \cup Debt(f)
  <2>1. 1..Len(fs) = 1..n \cup {Len(fs)}
      BY <1>1, <1>2
  <2> QED
      BY <1>3, <2>1 DEF Owes, Debt
<1> QED
    BY <1>2, <1>3, <1>4, <1>5, <1>6 DEF gs, f

\* More signals held, and other flags, as long as none is raised for a signal
\* that the frames will unblock.
LEMMA FitFlags ==
    ASSUME NEW fs, NEW held, NEW flags, FitAll(fs, held, flags),
           NEW holds, held \subseteq holds,
           NEW flag, \A s \in flag \ flags : s \in Virtual \/ s \notin Owes(fs, Len(fs))
    PROVE  FitAll(fs, holds, flag)
<1>1. fs \in Seq(FrameSet) /\ Len(fs) \in Nat
    BY DEF FitAll
<1>2. ASSUME NEW i \in 1..Len(fs)
      PROVE  Fits(fs, i - 1, fs[i], holds, flag)
  <2>1. Fits(fs, i - 1, fs[i], held, flags)
      BY DEF FitAll
  <2>2. fs[i].step # "scan" => fs[i].sig \in Owes(fs, Len(fs))
      BY DEF Owes
  <2>3. Saves(fs, i - 1, fs[i], holds)
      BY <2>1 DEF Fits, Saves
  <2>4. Single(fs, i - 1, fs[i], flag)
      BY <2>1, <2>2 DEF Fits, Single
  <2> QED
      BY <2>1, <2>3, <2>4 DEF Fits
<1> QED
    BY <1>1, <1>2 DEF FitAll

-----------------------------------------------------------------------------
(* Unwinding *)

\* The frame f above the stack fs is left, by the destructor that it noted.
LEMMA UnwindOne ==
    ASSUME NEW fs, NEW f, NEW held, NEW flags, Fits(fs, Len(fs), f, held, flags),
           f.step # "scan", NEW m, Owes(fs, Len(fs)) \cup {f.sig} \subseteq m,
           m \subseteq Owes(fs, Len(fs)) \cup {f.sig} \cup held
    PROVE  Masks(fs, Unwind(f, m), held)
<1> DEFINE O == Owes(fs, Len(fs))
<1>1. f.kind \in {"despatch", "setsig"} /\ (f.kind = "despatch" => f.was \in BOOLEAN)
    BY FrameFacts DEF Fits
<1>2. Saves(fs, Len(fs), f, held)
    BY DEF Fits
<1>3. CASE f.kind = "setsig"
    BY <1>2, <1>3 DEF Unwind, Saves, Masks
<1>4. CASE f.kind = "despatch" /\ f.was
  <2>1. f.sig \in O \cup held /\ Unwind(f, m) = m
      BY <1>2, <1>4 DEF Unwind, Saves
  <2> QED
      BY <2>1 DEF Masks
<1>5. CASE f.kind = "despatch" /\ ~f.was
  <2>1. f.sig \notin O /\ Unwind(f, m) = m \ {f.sig}
      BY <1>2, <1>5 DEF Unwind, Saves
  <2> QED
      BY <2>1 DEF Masks
<1> QED
    BY <1>1, <1>3, <1>4, <1>5

\* The frame f is dropped with its destructor: it stays blocked what the frames
\* below do not owe.
LEMMA UnwindNone ==
    ASSUME NEW fs, NEW f, NEW held, NEW flags, Fits(fs, Len(fs), f, held, flags),
           f.step # "scan", NEW m, Owes(fs, Len(fs)) \cup {f.sig} \subseteq m,
           m \subseteq Owes(fs, Len(fs)) \cup {f.sig} \cup held,
           NEW holds, held \cup Lost(f) \subseteq holds
    PROVE  Masks(fs, m, holds)
<1> DEFINE O == Owes(fs, Len(fs))
<1>1. f.kind \in {"despatch", "setsig"} /\ (f.kind = "despatch" => f.was \in BOOLEAN)
    BY FrameFacts DEF Fits
<1>2. Saves(fs, Len(fs), f, held)
    BY DEF Fits
<1>3. f.sig \in O \cup holds
  <2>1. CASE f.kind = "setsig"
    <3>1. Lost(f) = {f.sig} \ f.save /\ f.save \subseteq O \cup held
        BY <1>2, <2>1 DEF Lost, Unwind, Saves
    <3> QED
        BY <3>1
  <2>2. CASE f.kind = "despatch" /\ f.was
      BY <1>2, <2>2 DEF Saves
  <2>3. CASE f.kind = "despatch" /\ ~f.was
      BY <2>3 DEF Lost, Unwind
  <2> QED
      BY <1>1, <2>1, <2>2, <2>3
<1> QED
    BY <1>3 DEF Masks

-----------------------------------------------------------------------------
(* TypeOK, MaskOwed and OneAtATime *)

\* The signals that croaks of csighandler have left blocked.
Held == stuck \cup unowed

Types ==
    /\ raised \subseteq Signals /\ mask \subseteq Signals
    /\ stuck \subseteq Signals /\ unowed \subseteq Signals
    /\ os \in [Signals -> {"catch", "ignore", "default"}]
    /\ handler \in [Signals -> {"code", "string", "null"}]
    /\ pend \subseteq Signals
    /\ killing \in [sig : Virtual \cup {NoSignal}, counted : BOOLEAN]
    /\ killing.counted => killing.sig # NoSignal
    /\ ended \in {"no", "default action", "no handler"}

\* A signal has its flag until sighandler is called for it.
CallFlagged == On("despatch", "blocked") \/ On("despatch", "call") => Top.sig \in pend

\* An exception is on its way to an eval.
Leaving == unwinding \in 0..Len(frames) /\ (unwinding # 0 => Catches(unwinding))

FrameInvariant == /\ Types /\ CallFlagged /\ Leaving
                  /\ FitAll(frames, Held, pend) /\ Masks(frames, mask, Held)

\* What is known of the innermost frame.
LEMMA TopFits ==
    ASSUME FrameInvariant, frames # <<>>
    PROVE  LET gs == Front(frames)
           IN  /\ Top \in FrameSet /\ (Top.sig > LastSignal => Top.step = "scan")
               /\ Saves(gs, Len(gs), Top, Held) /\ Stands(gs, Len(gs), Top)
               /\ Single(gs, Len(gs), Top, pend) /\ Fits(gs, Len(gs), Top, Held, pend)
               /\ FitAll(gs, Held, pend) /\ Len(gs) \in Nat /\ Len(frames) = Len(gs) + 1
               /\ \A i \in 1..Len(gs) : gs[i] = frames[i]
               /\ Owes(gs, Len(gs)) \cup Debt(Top) \subseteq mask
               /\ mask \subseteq Owes(gs, Len(gs)) \cup Debt(Top) \cup Held
BY FitTop DEF FrameInvariant, Fits, Top, Masks

\* Perl code runs: nothing unwinds, and another frame may be pushed.
LEMMA RunningStands ==
    ASSUME FrameInvariant, Running
    PROVE  unwinding = 0 /\ \A f : Stands(frames, Len(frames), f)
<1>1. Len(frames) \in Nat /\ (frames = <<>> => Len(frames) = 0)
    BY DEF FrameInvariant, FitAll
<1>2. unwinding = 0
    BY <1>1 DEF Running, On, FrameInvariant, Leaving
<1> QED
    BY <1>1, <1>2 DEF Running, On, At, Top, Last, Stands

\* What a step makes of the stack.
LEMMA Pushed ==
    ASSUME FrameInvariant, NEW f, frames' = Append(frames, f),
           Fits(frames, Len(frames), f, Held, pend), UNCHANGED <<Held, pend>>,
           Owes(frames, Len(frames)) \cup Debt(f) \subseteq mask',
           mask' \subseteq Owes(frames, Len(frames)) \cup Debt(f) \cup Held
    PROVE  /\ FitAll(frames', Held', pend') /\ Masks(frames', mask', Held')
           /\ frames' # <<>> /\ Top' = f /\ Len(frames') \in Nat
<1>1. FitAll(frames, Held, pend)
    BY DEF FrameInvariant
<1>2. /\ FitAll(frames', Held, pend)
      /\ Len(frames') = Len(frames) + 1 /\ frames'[Len(frames')] = f
      /\ Owes(frames', Len(frames')) = Owes(frames, Len(frames)) \cup Debt(f)
    BY <1>1, FitPush
<1>3. frames' # <<>> /\ Len(frames') \in Nat
    BY <1>1, <1>2 DEF FitAll
<1> QED
    BY <1>2, <1>3 DEF Masks, Top, Last

LEMMA Replaced ==
    ASSUME FrameInvariant, frames # <<>>, NEW f, frames' = Append(Front(frames), f),
           Fits(Front(frames), Len(Front(frames)), f, Held, pend'),
           UNCHANGED Held, pend' \subseteq pend,
           Owes(Front(frames), Len(Front(frames))) \cup Debt(f) \subseteq mask',
           mask' \subseteq Owes(Front(frames), Len(Front(frames))) \cup Debt(f) \cup Held
    PROVE  /\ FitAll(frames', Held', pend') /\ Masks(frames', mask', Held')
           /\ frames' # <<>> /\ Top' = f /\ Len(frames') = Len(frames) /\ Len(frames) \in Nat
           /\ \A i \in 1..Len(frames) - 1 : frames'[i] = frames[i]
<1> DEFINE gs == Front(frames)
<1>1. /\ FitAll(gs, Held, pend) /\ Len(frames) = Len(gs) + 1 /\ Len(gs) \in Nat
      /\ \A i \in 1..Len(gs) : gs[i] = frames[i]
    BY TopFits
<1>2. FitAll(gs, Held, pend')
    BY <1>1, FitFlags
<1> HIDE DEF gs
<1>3. /\ FitAll(Append(gs, f), Held, pend')
      /\ Len(Append(gs, f)) = Len(gs) + 1 /\ Append(gs, f)[Len(Append(gs, f))] = f
      /\ \A i \in 1..Len(gs) : Append(gs, f)[i] = gs[i]
      /\ Owes(Append(gs, f), Len(Append(gs, f))) = Owes(gs, Len(gs)) \cup Debt(f)
    BY <1>2, FitPush DEF gs
<1>4. frames' = Append(gs, f)
    BY DEF gs
<1>5. frames' # <<>>
    BY <1>1, <1>3, <1>4 DEF FitAll
<1> QED
    BY <1>1, <1>3, <1>4, <1>5 DEF Masks, Top, Last, gs

LEMMA Popped ==
    ASSUME FrameInvariant, frames # <<>>, frames' = Front(frames), Held \subseteq Held',
           \A s \in pend' \ pend : s \in Virtual \/ s \notin mask,
           Masks(Front(frames), mask', Held')
    PROVE  /\ FitAll(frames', Held', pend') /\ Masks(frames', mask', Held')
           /\ frames' # <<>> => Top'.step \in {"run", "install"}
           /\ Len(frames) = Len(frames') + 1 /\ Len(frames') \in Nat
           /\ \A i \in 1..Len(frames') : frames'[i] = frames[i]
<1>1. /\ FitAll(frames', Held, pend) /\ Len(frames) = Len(frames') + 1 /\ Len(frames') \in Nat
      /\ \A i \in 1..Len(frames') : frames'[i] = frames[i]
      /\ Stands(frames', Len(frames'), Top) /\ Owes(frames', Len(frames')) \subseteq mask
    BY TopFits
<1>2. FitAll(frames', Held', pend')
    BY <1>1, FitFlags
<1>3. frames' # <<>> => Len(frames') > 0
    BY <1>1 DEF FitAll
<1>4. frames' # <<>> => Top'.step \in {"run", "install"}
    BY <1>1, <1>3 DEF Stands, Top, Last
<1> QED
    BY <1>1, <1>2, <1>4

\* A frame goes to another step, in which it still owes its signal.
LEMMA MovesOn ==
    ASSUME FrameInvariant, frames # <<>>, Top.step # "scan",
           NEW step \in IF Top.kind = "despatch" THEN LoopSteps \ {"scan"} ELSE SetSteps,
           MoveTo(step), UNCHANGED <<Held, mask>>, pend' \subseteq pend,
           step = "run" => Top.sig \in pend \ pend'
    PROVE  /\ FitAll(frames', Held', pend') /\ Masks(frames', mask', Held')
           /\ frames' # <<>> /\ Len(frames') = Len(frames) /\ Len(frames) \in Nat
           /\ \A i \in 1..Len(frames) - 1 : frames'[i] = frames[i]
           /\ Top'.kind = Top.kind /\ Top'.sig = Top.sig /\ Top'.step = step
           /\ Top.kind = "setsig" => Top'.to = Top.to /\ Top'.save = Top.save
<1> DEFINE gs == Front(frames)
<1>1. PICK f : f = [Top EXCEPT !.step = step]
    OBVIOUS
<1>2. /\ Top \in FrameSet /\ ~(Top.sig > LastSignal) /\ Debt(Top) = {Top.sig}
      /\ Fits(gs, Len(gs), Top, Held, pend) /\ FitAll(gs, Held, pend)
      /\ Owes(gs, Len(gs)) \cup {Top.sig} \subseteq mask
      /\ mask \subseteq Owes(gs, Len(gs)) \cup {Top.sig} \cup Held
    BY TopFits DEF Debt
<1>3. step \in (IF Top.kind = "despatch" THEN LoopSteps ELSE SetSteps) /\ step # "scan"
    BY DEF SetSteps
<1>4. /\ f \in FrameSet /\ f.kind = Top.kind /\ f.sig = Top.sig /\ f.step = step
      /\ Top.kind = "despatch" => f.was = Top.was
      /\ Top.kind = "setsig" => f.to = Top.to /\ f.save = Top.save
    BY <1>1, <1>2, <1>3, StepFacts
<1>5. frames' = Append(gs, f)
    BY <1>1 DEF MoveTo, Replace
<1> HIDE DEF gs
<1>6. Saves(gs, Len(gs), f, Held)
    BY <1>2, <1>3, <1>4 DEF Fits, Saves
<1>7. Stands(gs, Len(gs), f)
    BY <1>2, <1>4 DEF Fits, Stands
<1>8. Single(gs, Len(gs), f, pend')
  <2> SUFFICES ASSUME step = "run", Top.sig \notin Virtual, NEW i \in 1..Len(gs),
                      gs[i].step = "run"
               PROVE  gs[i].sig # Top.sig
      BY <1>4 DEF Single
  <2>1. Fits(gs, i - 1, gs[i], Held, pend)
      BY <1>2 DEF FitAll
  <2> QED
      BY <2>1 DEF Fits, Single
<1>9. Fits(gs, Len(gs), f, Held, pend') /\ Debt(f) = {Top.sig}
    BY <1>2, <1>3, <1>4, <1>6, <1>7, <1>8 DEF Fits, Debt
<1>10. /\ FitAll(frames', Held', pend') /\ Masks(frames', mask', Held')
       /\ frames' # <<>> /\ Top' = f /\ Len(frames') = Len(frames) /\ Len(frames) \in Nat
       /\ \A i \in 1..Len(frames) - 1 : frames'[i] = frames[i]
    BY <1>2, <1>5, <1>9, Replaced DEF gs
<1> QED
    BY <1>4, <1>10

\* An exception that has left the innermost frame, or that changed it, is still
\* on its way to the eval where it was going.
LEMMA LeavesOne ==
    ASSUME NEW n \in 1..Len(frames), Catches(n), Len(frames) \in Nat,
           Len(frames) = Len(frames') + 1, \A i \in 1..Len(frames') : frames'[i] = frames[i],
           unwinding' = n - 1
    PROVE  Leaving'
BY DEF Leaving, Catches

LEMMA LeavesOn ==
    ASSUME Leaving, Len(frames) \in Nat, Len(frames') = Len(frames),
           \A i \in 1..Len(frames) - 1 : frames'[i] = frames[i], UNCHANGED unwinding
    PROVE  Leaving'
BY DEF Leaving, Catches

LEMMA LeavesNone ==
    ASSUME unwinding' = 0, Len(frames') \in Nat
    PROVE  Leaving'
BY DEF Leaving

\* Steps that leave the stack and the mask alone: signals that arrive, the
\* other threads' kill, and a fork, which only drops flags.
LEMMA ArrivalFits ==
    ASSUME FrameInvariant, NEW s \in Signals,
           \/ Send(s) \/ Catch(s) \/ Terminate(s) \/ (s \in Virtual /\ KillChecks(s))
           \/ KillCounts \/ KillFlags \/ Fork
    PROVE  FrameInvariant'
<1> USE SignalsAssumption DEF FrameInvariant
<1>1. UNCHANGED <<frames, unwinding, mask, Held, stuck, unowed, os, handler>>
    BY DEF Send, Catch, Terminate, KillChecks, KillCounts, KillFlags, Fork, perlvars, osvars, masks,
           Held
<1>2. Types'
  <2> USE DEF Types
  <2>1. CASE Send(s) \/ Catch(s)
      BY <1>1, <2>1 DEF Send, Catch, perlvars
  <2>2. CASE Terminate(s)
      BY <1>1, <2>2 DEF Terminate, perlvars
  <2>3. CASE s \in Virtual /\ KillChecks(s)
      BY <1>1, <2>3 DEF KillChecks, perlvars, osvars
  <2>4. CASE KillCounts
      BY <1>1, <2>4 DEF KillCounts, osvars
  <2>5. CASE KillFlags
    <3>1. killing' = [sig |-> NoSignal, counted |-> FALSE]
        BY <2>5 DEF KillFlags
    <3>2. UNCHANGED <<raised, pend, ended>>
        BY <2>5 DEF KillFlags, osvars
    <3> QED
        BY <1>1, <3>1, <3>2
  <2>6. CASE Fork
      BY <1>1, <2>6 DEF Fork, InChild
  <2> QED
      BY <2>1, <2>2, <2>3, <2>4, <2>5, <2>6
<1>3. \A x \in pend' \ pend : x \in Virtual \/ x \notin mask
  <2>1. CASE Send(s) \/ Terminate(s) \/ KillChecks(s) \/ KillFlags \/ Fork
      BY <2>1 DEF Send, Terminate, KillChecks, KillFlags, Fork, InChild, perlvars
  <2>2. CASE Catch(s)
      BY <2>2 DEF Catch, Deliverable
  <2>3. CASE KillCounts
      BY <2>3 DEF KillCounts, Types
  <2> QED
      BY <2>1, <2>2, <2>3
<1>4. FitAll(frames', Held', pend') /\ Masks(frames', mask', Held')
  <2>1. \A x \in pend' \ pend : x \in Virtual \/ x \notin Owes(frames, Len(frames))
      BY <1>3 DEF Masks
  <2>2. FitAll(frames, Held, pend')
      BY <2>1, FitFlags
  <2> QED
      BY <1>1, <2>2
<1>5. CallFlagged'
  <2>1. CASE Fork
      BY <1>1, <2>1 DEF Fork, Running, CallFlagged, On, At, Top, Last, Alive
  <2>2. CASE ~Fork
    <3>1. pend \subseteq pend' /\ Alive
        BY <2>2 DEF Send, Catch, Terminate, KillChecks, KillCounts, KillFlags, perlvars, Deliverable
    <3> QED
        BY <1>1, <3>1 DEF CallFlagged, On, At, Top, Last
  <2> QED
      BY <2>1, <2>2
<1>6. Leaving'
    BY <1>1 DEF Leaving, Catches
<1> QED
    BY <1>2, <1>4, <1>5, <1>6

\* The loop begins, and goes past signals.
LEMMA ScanFits ==
    ASSUME FrameInvariant, AsyncCheck \/ Scan
    PROVE  FrameInvariant'
<1>0. LastSignal \in Nat \ {0}
    BY SignalsAssumption
<1>1. /\ UNCHANGED <<raised, os, stuck, unowed, Held, handler, pend, killing, ended>>
      /\ UNCHANGED unwinding /\ unwinding = 0
      /\ mask' \in SUBSET Signals => Types'
    BY RunningStands DEF AsyncCheck, Scan, On, osvars, masks, Held, FrameInvariant, Types
<1>2. CASE AsyncCheck
  <2> DEFINE f == Despatch(1, "scan", FALSE)
  <2>1. frames' = Append(frames, f) /\ UNCHANGED mask /\ Running
      BY <1>2 DEF AsyncCheck, Enter, osvars, masks
  <2>2. f \in FrameSet /\ f.kind = "despatch" /\ f.step = "scan" /\ Debt(f) = {}
      BY <1>0 DEF Despatch, FrameSet, LoopSteps, Debt
  <2> HIDE DEF f
  <2>3. Fits(frames, Len(frames), f, Held, pend)
      BY <2>1, <2>2, RunningStands DEF Fits, Saves, Single
  <2>4. /\ FitAll(frames', Held', pend') /\ Masks(frames', mask', Held') /\ Top' = f
        /\ Len(frames') \in Nat
      BY <1>1, <2>1, <2>2, <2>3, Pushed DEF FrameInvariant, Masks
  <2>5. CallFlagged' /\ Leaving'
      BY <1>1, <2>2, <2>4, LeavesNone DEF CallFlagged, On, At
  <2> QED
      BY <1>1, <2>1, <2>4, <2>5 DEF FrameInvariant, Types
<1>3. CASE Scan
  <2> DEFINE gs == Front(frames)
  <2>1. frames # <<>> /\ Top.kind = "despatch" /\ Top.step = "scan" /\ Debt(Top) = {}
      BY <1>3 DEF Scan, On, At, Debt
  <2>2. /\ Top.sig \in 1..LastSignal + 1 /\ Stands(gs, Len(gs), Top)
        /\ Owes(gs, Len(gs)) \subseteq mask /\ mask \subseteq Owes(gs, Len(gs)) \cup Held
      BY <2>1, TopFits, FrameFacts
  <2> HIDE DEF gs
  <2>3. CASE Top.sig > LastSignal
    <3>1. frames' = gs /\ UNCHANGED mask
        BY <1>3, <2>3 DEF Scan, gs
    <3>2. Masks(gs, mask', Held)
        BY <2>2, <3>1 DEF Masks
    <3>3. /\ FitAll(frames', Held', pend') /\ Masks(frames', mask', Held')
          /\ frames' # <<>> => Top'.step \in {"run", "install"}
          /\ Len(frames') \in Nat
        BY <1>1, <2>1, <3>1, <3>2, Popped DEF gs
    <3>4. CallFlagged' /\ Leaving'
        BY <1>1, <3>3, LeavesNone DEF CallFlagged, On, At
    <3> QED
        BY <1>1, <3>1, <3>3, <3>4 DEF FrameInvariant, Types
  <2>4. CASE Top.sig <= LastSignal /\ Top.sig \notin pend
    <3> DEFINE f == Despatch(Top.sig + 1, "scan", FALSE)
    <3>1. ~(Top.sig > LastSignal)
        BY <1>0, <2>2, <2>4
    <3>2. frames' = Append(gs, f) /\ UNCHANGED mask
        BY <1>3, <2>4, <3>1, Zenon DEF Scan, Replace, gs
    <3>3. f \in FrameSet /\ f.kind = "despatch" /\ f.step = "scan" /\ Debt(f) = {}
        BY <1>0, <2>2, <2>4 DEF Despatch, FrameSet, LoopSteps, Debt
    <3> HIDE DEF f
    <3>4. Fits(gs, Len(gs), f, Held, pend')
        BY <2>1, <2>2, <3>3 DEF Fits, Saves, Single, Stands
    <3>5. /\ FitAll(frames', Held', pend') /\ Masks(frames', mask', Held') /\ Top' = f
          /\ Len(frames') \in Nat
        BY <1>1, <2>1, <2>2, <3>2, <3>3, <3>4, Replaced DEF gs
    <3>6. CallFlagged' /\ Leaving'
        BY <1>1, <3>3, <3>5, LeavesNone DEF CallFlagged, On, At
    <3> QED
        BY <1>1, <3>2, <3>5, <3>6 DEF FrameInvariant, Types
  <2>5. CASE Top.sig <= LastSignal /\ Top.sig \in pend
    <3> DEFINE f == Despatch(Top.sig, "blocked", Top.sig \in mask)
    <3>1. ~(Top.sig > LastSignal) /\ Top.sig \in Signals
        BY <1>0, <2>2, <2>5 DEF Signals
    <3>2. frames' = Append(gs, f) /\ mask' = mask \cup {Top.sig}
        BY <1>3, <2>5, <3>1, Zenon DEF Scan, Replace, gs
    <3>3. /\ f \in FrameSet /\ f.kind = "despatch" /\ f.step = "blocked" /\ Debt(f) = {Top.sig}
          /\ f.sig = Top.sig /\ f.was = (Top.sig \in mask)
        BY <1>0, <2>2 DEF Despatch, FrameSet, LoopSteps, Debt
    <3> HIDE DEF f
    <3>4. Saves(gs, Len(gs), f, Held)
        BY <2>2, <3>3 DEF Saves
    <3>5. Fits(gs, Len(gs), f, Held, pend')
        BY <2>1, <2>2, <3>1, <3>3, <3>4 DEF Fits, Single, Stands
    <3>6. /\ FitAll(frames', Held', pend') /\ Masks(frames', mask', Held') /\ Top' = f
          /\ Len(frames') \in Nat
        BY <1>1, <2>1, <2>2, <3>2, <3>3, <3>5, Replaced DEF gs
    <3>7. CallFlagged' /\ Leaving'
        BY <1>1, <2>5, <3>3, <3>6, LeavesNone DEF CallFlagged
    <3>8. mask' \in SUBSET Signals
        BY <3>1, <3>2 DEF FrameInvariant, Types
    <3> QED
        BY <1>1, <3>6, <3>7, <3>8 DEF FrameInvariant
  <2> QED
      BY <1>0, <2>2, <2>3, <2>4, <2>5
<1> QED
    BY <1>2, <1>3

\* The unblocking is noted, the handler is called and returns, leave_scope
\* begins, in the course of things or of an exception.
LEMMA StepFits ==
    ASSUME FrameInvariant, Note \/ Call \/ HandlerReturns \/ Leave \/ UnwindLeave
    PROVE  FrameInvariant'
<1>1. /\ UNCHANGED <<raised, mask, os, stuck, unowed, Held, handler, unwinding, killing>>
      /\ pend' \subseteq pend /\ ended' \in {ended, "no handler"} /\ Alive
    BY DEF Note, Call, HandlerReturns, Leave, UnwindLeave, On, At, osvars, masks, Held
<1>2. Types'
    BY <1>1 DEF FrameInvariant, Types
<1>3. Len(frames) \in Nat /\ Leaving /\ (frames # <<>> <=> Len(frames) > 0)
    BY DEF FrameInvariant, FitAll
<1>4. CASE Call /\ handler[Top.sig] = "null"
  <2>1. UNCHANGED frames /\ ended' = "no handler"
      BY <1>4 DEF Call
  <2>2. FitAll(frames, Held, pend')
      BY <1>1, FitFlags DEF FrameInvariant
  <2>3. CallFlagged' /\ Leaving'
      BY <1>1, <1>3, <2>1, LeavesOn DEF CallFlagged, On, At, Alive
  <2>4. FitAll(frames', Held', pend') /\ Masks(frames', mask', Held')
      BY <1>1, <2>1, <2>2 DEF FrameInvariant
  <2> QED
      BY <1>2, <2>3, <2>4 DEF FrameInvariant
<1>5. ASSUME NEW step \in IF Top.kind = "despatch" THEN LoopSteps \ {"scan"} ELSE SetSteps,
             frames # <<>>, Top.step # "scan",
             MoveTo(step), step = "run" => Top.sig \in pend \ pend',
             unwinding = 0 /\ Top.kind = "despatch" /\ step \in {"blocked", "call"}
                 => Top.sig \in pend'
      PROVE  FrameInvariant'
  <2>1. /\ FitAll(frames', Held', pend') /\ Masks(frames', mask', Held')
        /\ frames' # <<>> /\ Len(frames') = Len(frames)
        /\ \A i \in 1..Len(frames) - 1 : frames'[i] = frames[i]
        /\ Top'.kind = Top.kind /\ Top'.sig = Top.sig /\ Top'.step = step
      BY <1>1, <1>5, MovesOn
  <2>2. CallFlagged' /\ Leaving'
      BY <1>1, <1>3, <1>5, <2>1, LeavesOn DEF CallFlagged, On, At
  <2> QED
      BY <1>2, <2>1, <2>2 DEF FrameInvariant
<1> USE DEF LoopSteps, SetSteps
<1>6. CASE Note
  <2>1. /\ frames # <<>> /\ Top.step = "blocked" /\ unwinding = 0 /\ UNCHANGED pend
        /\ MoveTo(IF Top.kind = "despatch" THEN "call" ELSE "check")
      BY <1>6 DEF Note, At
  <2>2. Top.kind = "despatch" => Top.sig \in pend
      BY <1>1, <2>1 DEF FrameInvariant, CallFlagged, On, At
  <2>3. CASE Top.kind = "despatch"
      BY <1>5, <2>1, <2>2, <2>3
  <2>4. CASE Top.kind # "despatch"
      BY <1>5, <2>1, <2>4
  <2> QED
      BY <2>3, <2>4
<1>7. CASE Call /\ handler[Top.sig] # "null"
  <2>1. /\ frames # <<>> /\ Top.kind = "despatch" /\ Top.step = "call" /\ pend' = pend \ {Top.sig}
        /\ MoveTo(IF handler[Top.sig] = "code" THEN "run" ELSE "done")
      BY <1>7 DEF Call, On, At
  <2>2. Top.sig \in pend
      BY <1>7 DEF Call, FrameInvariant, CallFlagged
  <2>3. CASE handler[Top.sig] = "code"
      BY <1>5, <2>1, <2>2, <2>3
  <2>4. CASE handler[Top.sig] # "code"
      BY <1>5, <2>1, <2>4
  <2> QED
      BY <2>3, <2>4
<1>8. CASE HandlerReturns \/ Leave \/ UnwindLeave
  <2>1. PICK step \in {"done", "leave"} : MoveTo(step)
      BY <1>8 DEF HandlerReturns, Leave, UnwindLeave
  <2>2. frames # <<>>
    <3>1. CASE UnwindLeave
        BY <1>3, <3>1 DEF UnwindLeave, Leaving
    <3>2. CASE HandlerReturns \/ Leave
        BY <3>2 DEF HandlerReturns, Leave, On, At
    <3> QED
        BY <1>8, <3>1, <3>2
  <2>3. Top.step # "scan"
      BY <1>8 DEF HandlerReturns, Leave, UnwindLeave, On, At
  <2> QED
      BY <1>5, <2>1, <2>2, <2>3
<1> QED
    BY <1>4, <1>6, <1>7, <1>8

\* The destructor runs, and the frame is over or its loop goes on.
LEMMA UnblockFits ==
    ASSUME FrameInvariant, Unblock \/ UnwindFrame
    PROVE  FrameInvariant'
<1> DEFINE gs == Front(frames)
<1>1. /\ frames # <<>> /\ Alive
      /\ UNCHANGED <<raised, os, stuck, unowed, Held, handler, pend, killing, ended>>
    BY DEF Unblock, UnwindFrame, At, Held
<1>2. /\ Top \in FrameSet /\ (Top.sig > LastSignal => Top.step = "scan")
      /\ Stands(gs, Len(gs), Top) /\ Fits(gs, Len(gs), Top, Held, pend)
      /\ Owes(gs, Len(gs)) \cup Debt(Top) \subseteq mask
      /\ mask \subseteq Owes(gs, Len(gs)) \cup Debt(Top) \cup Held
    BY <1>1, TopFits
<1>3. Len(frames) \in Nat /\ Leaving
    BY DEF FrameInvariant, FitAll
<1> HIDE DEF gs
<1>4. ASSUME Top.step # "scan"
      PROVE  Masks(gs, Unwind(Top, mask), Held)
  <2>1. Debt(Top) = {Top.sig}
      BY <1>4 DEF Debt
  <2> QED
      BY <1>2, <1>4, <2>1, UnwindOne
<1>5. ASSUME Top.step = "scan"
      PROVE  Masks(gs, mask, Held)
    BY <1>2, <1>5 DEF Debt, Masks
<1>6. Unwind(Top, mask) \in SUBSET Signals
  <2>1. mask \in SUBSET Signals
      BY DEF FrameInvariant, Types
  <2>2. Top.kind = "setsig" => Top.save \in SUBSET Signals
      BY <1>2, FrameFacts
  <2> QED
      BY <2>1, <2>2 DEF Unwind
<1>7. Masks(gs, mask', Held) /\ mask' \in SUBSET Signals
    BY <1>4, <1>5, <1>6 DEF Unblock, UnwindFrame, At, FrameInvariant, Types
<1>8. Types'
    BY <1>1, <1>7 DEF FrameInvariant, Types
<1>9. ASSUME frames' = gs
      PROVE  /\ FitAll(frames', Held', pend') /\ Masks(frames', mask', Held')
             /\ frames' # <<>> => Top'.step \in {"run", "install"}
             /\ Len(frames) = Len(frames') + 1 /\ Len(frames') \in Nat
             /\ \A i \in 1..Len(frames') : frames'[i] = frames[i]
    BY <1>1, <1>7, <1>9, Popped DEF gs
<1>10. CASE UnwindFrame
  <2>1. frames' = gs /\ unwinding' = unwinding - 1 /\ unwinding > 0
      BY <1>10 DEF UnwindFrame, gs
  <2>2. unwinding \in 1..Len(frames) /\ Catches(unwinding)
      BY <1>3, <2>1 DEF Leaving
  <2>3. Leaving'
      BY <1>3, <1>9, <2>1, <2>2, LeavesOne
  <2>4. CallFlagged'
      BY <1>9, <2>1 DEF CallFlagged, On, At
  <2> QED
      BY <1>8, <1>9, <2>1, <2>3, <2>4 DEF FrameInvariant
<1>11. CASE Unblock /\ Top.kind # "despatch"
  <2>1. frames' = gs /\ unwinding' = 0
      BY <1>11 DEF Unblock, gs
  <2>2. CallFlagged' /\ Leaving'
      BY <1>9, <2>1, LeavesNone DEF CallFlagged, On, At
  <2> QED
      BY <1>8, <1>9, <2>1, <2>2 DEF FrameInvariant
<1>12. CASE Unblock /\ Top.kind = "despatch"
  <2>0. Top.step = "leave" /\ unwinding' = 0
      BY <1>12 DEF Unblock, At
  <2>1. PICK f : f = Despatch(Top.sig + 1, "scan", FALSE)
      OBVIOUS
  <2>2. Top.sig + 1 \in 1..LastSignal + 1
      BY <1>2, <2>0, FrameFacts, SignalsAssumption
  <2>3. f \in FrameSet /\ f.kind = "despatch" /\ f.step = "scan" /\ Debt(f) = {}
      BY <2>1, <2>2 DEF Despatch, FrameSet, LoopSteps, Debt
  <2>4. Fits(gs, Len(gs), f, Held, pend')
      BY <1>2, <1>12, <2>3 DEF Fits, Saves, Single, Stands
  <2>5. frames' = Append(gs, f)
      BY <1>12, <2>1 DEF Unblock, Replace, gs
  <2>6. /\ FitAll(frames', Held', pend') /\ Masks(frames', mask', Held') /\ Top' = f
        /\ Len(frames') \in Nat
      BY <1>1, <1>3, <1>7, <2>3, <2>4, <2>5, Replaced DEF gs, Masks
  <2>7. CallFlagged' /\ Leaving'
      BY <2>0, <2>3, <2>6, LeavesNone DEF CallFlagged, On, At
  <2> QED
      BY <1>8, <2>6, <2>7 DEF FrameInvariant
<1> QED
    BY <1>10, <1>11, <1>12

\* The magic of %SIG.
LEMMA SetsigFits ==
    ASSUME FrameInvariant, NEW i \in Signals, NEW to \in Dispositions,
           SetsigBegins(i, to) \/ SetsigChecks \/ SetsigInstalls \/ SetsigEnds
    PROVE  FrameInvariant'
<1> DEFINE gs == Front(frames)
           O == Owes(gs, Len(gs))
<1>0. LastSignal \in Nat \ {0} /\ \A j \in Signals : ~(j > LastSignal) /\ j \in 1..LastSignal + 1
    BY SignalsAssumption DEF Signals
<1>1. /\ UNCHANGED <<stuck, unowed, Held, pend, killing, ended, unwinding>> /\ unwinding = 0
    BY RunningStands DEF SetsigBegins, SetsigChecks, SetsigInstalls, SetsigEnds, On, osvars, masks,
                         Held
<1>2. CASE SetsigBegins(i, to)
  <2> DEFINE f == Setsig(i, "blocked", to, mask)
  <2>1. /\ frames' = Append(frames, f) /\ mask' = mask \cup {i} /\ Running
        /\ UNCHANGED <<raised, os, handler>>
      BY <1>2 DEF SetsigBegins
  <2>2. /\ f \in FrameSet /\ f.kind = "setsig" /\ f.step = "blocked" /\ f.sig = i /\ f.save = mask
        /\ Debt(f) = {i}
      BY DEF Setsig, FrameSet, SetSteps, Debt, FrameInvariant, Types
  <2> HIDE DEF f
  <2>3. Fits(frames, Len(frames), f, Held, pend)
      BY <1>0, <2>1, <2>2, RunningStands DEF Fits, Saves, Single, FrameInvariant, Masks
  <2>4. /\ FitAll(frames', Held', pend') /\ Masks(frames', mask', Held') /\ Top' = f
        /\ Len(frames') \in Nat
      BY <1>1, <2>1, <2>2, <2>3, Pushed DEF FrameInvariant, Masks
  <2>5. CallFlagged' /\ Leaving'
      BY <1>1, <2>2, <2>4, LeavesNone DEF CallFlagged, On, At
  <2> QED
      BY <1>1, <2>1, <2>4, <2>5 DEF FrameInvariant, Types
<1>3. CASE SetsigChecks \/ SetsigInstalls \/ SetsigEnds
  <2>1. /\ frames # <<>> /\ Top.kind = "setsig"
        /\ Top.step = IF SetsigChecks THEN "check"
                       ELSE IF SetsigInstalls THEN "install" ELSE "rsignal"
        /\ UNCHANGED mask
      BY <1>3 DEF SetsigChecks, SetsigInstalls, SetsigEnds, On, At, osvars, masks
  <2>2. /\ Top \in FrameSet /\ Top.sig \in Signals /\ Top.to \in Dispositions
        /\ Top.save \in SUBSET Signals /\ Debt(Top) = {Top.sig}
        /\ Saves(gs, Len(gs), Top, Held) /\ Stands(gs, Len(gs), Top)
        /\ FitAll(gs, Held, pend) /\ Len(gs) \in Nat
        /\ O \cup {Top.sig} \subseteq mask /\ mask \subseteq O \cup {Top.sig} \cup Held
    <3>1. Top \in FrameSet
        BY <2>1, TopFits
    <3>2. /\ Top.sig \in Signals /\ Top.to \in Dispositions /\ Top.save \in SUBSET Signals
          /\ Debt(Top) = {Top.sig}
        BY <2>1, <3>1, FrameFacts DEF Debt
    <3> QED
        BY <2>1, <3>1, <3>2, TopFits
  <2> HIDE DEF gs
  <2>3. ASSUME NEW step \in {"install", "rsignal", "done"}, MoveTo(step), Types'
        PROVE  FrameInvariant'
    <3>1. /\ step \in (IF Top.kind = "despatch" THEN LoopSteps \ {"scan"} ELSE SetSteps)
          /\ step # "run"
        BY <2>1, <2>3 DEF SetSteps
    <3>2. Top.step # "scan"
        BY <2>1
    <3>3. /\ FitAll(frames', Held', pend') /\ Masks(frames', mask', Held')
          /\ Len(frames') = Len(frames) /\ Len(frames) \in Nat
          /\ Top'.kind = Top.kind
        BY <1>1, <2>1, <2>3, <3>1, <3>2, MovesOn
    <3>4. CallFlagged' /\ Leaving'
        BY <1>1, <2>1, <3>3, LeavesNone DEF CallFlagged, On
    <3> QED
        BY <2>3, <3>3, <3>4 DEF FrameInvariant
  <2>4. CASE SetsigChecks
    <3>0. UNCHANGED <<raised, os, handler>> /\ Types'
        BY <1>1, <2>1, <2>4 DEF SetsigChecks, osvars, FrameInvariant, Types
    <3>1. PICK f, d, fs : /\ f = Setsig(Top.sig, "install", Top.to, Top.save)
                          /\ d = Despatch(1, "scan", FALSE) /\ fs = Append(gs, f)
        OBVIOUS
    <3>2. frames' = IF pending = 0 THEN fs ELSE Append(fs, d)
        BY <2>4, <3>1 DEF SetsigChecks, Replace, gs
    <3>3. /\ f \in FrameSet /\ f.kind = "setsig" /\ f.step = "install" /\ f.sig = Top.sig
          /\ f.save = Top.save /\ Debt(f) = {Top.sig}
        BY <2>2, <3>1 DEF Setsig, FrameSet, SetSteps, Debt
    <3>4. Fits(gs, Len(gs), f, Held, pend)
        BY <1>0, <2>1, <2>2, <3>3 DEF Fits, Saves, Stands, Single
    <3>5. d \in FrameSet /\ d.kind = "despatch" /\ d.step = "scan" /\ Debt(d) = {}
        BY <1>0, <3>1 DEF Despatch, FrameSet, LoopSteps, Debt
    <3>6. /\ FitAll(fs, Held, pend) /\ Len(fs) = Len(gs) + 1 /\ fs[Len(fs)] = f
          /\ Owes(fs, Len(fs)) = O \cup {Top.sig}
        BY <2>2, <3>1, <3>3, <3>4, FitPush
    <3>7. Fits(fs, Len(fs), d, Held, pend)
        BY <3>3, <3>5, <3>6 DEF Fits, Saves, Stands, Single
    <3>8. /\ FitAll(frames', Held, pend) /\ Len(frames') \in Nat
          /\ Top'.step \in {"install", "scan"}
          /\ Owes(frames', Len(frames')) = O \cup {Top.sig}
      <4>1. CASE pending = 0
          BY <2>2, <3>2, <3>3, <3>6, <4>1 DEF Top, Last
      <4>2. CASE pending # 0
        <5>1. /\ FitAll(frames', Held, pend) /\ Len(frames') = Len(fs) + 1
              /\ frames'[Len(frames')] = d
              /\ Owes(frames', Len(frames')) = O \cup {Top.sig}
            BY <3>2, <3>5, <3>6, <3>7, <4>2, FitPush
        <5> QED
            BY <2>2, <3>5, <3>6, <5>1 DEF Top, Last
      <4> QED
          BY <4>1, <4>2
    <3>9. FitAll(frames', Held', pend') /\ Masks(frames', mask', Held')
        BY <1>1, <2>1, <2>2, <3>8 DEF Masks
    <3>10. CallFlagged' /\ Leaving'
        BY <1>1, <3>8, LeavesNone DEF CallFlagged, On, At
    <3> QED
        BY <3>0, <3>9, <3>10 DEF FrameInvariant
  <2>5. CASE SetsigInstalls
    <3>1. MoveTo("rsignal") /\ UNCHANGED <<raised, os>>
        BY <2>5 DEF SetsigInstalls, osvars
    <3>2. handler' \in [Signals -> {"code", "string", "null"}]
        BY <2>5 DEF SetsigInstalls, FrameInvariant, Types
    <3>3. Types'
        BY <1>1, <2>1, <3>1, <3>2 DEF FrameInvariant, Types
    <3> QED
        BY <2>3, <3>1, <3>3
  <2>6. CASE SetsigEnds
    <3>1. MoveTo("done") /\ UNCHANGED handler /\ raised' \subseteq raised
        BY <2>6 DEF SetsigEnds
    <3>2. os' \in [Signals -> {"catch", "ignore", "default"}]
        BY <2>6 DEF SetsigEnds, FrameInvariant, Types
    <3>3. Types'
        BY <1>1, <2>1, <3>1, <3>2 DEF FrameInvariant, Types
    <3> QED
        BY <2>3, <3>1, <3>3
  <2> QED
      BY <1>3, <2>4, <2>5, <2>6
<1> QED
    BY <1>2, <1>3

\* Exceptions: a handler that dies, and csighandler that croaks.
LEMMA ExceptionFits ==
    ASSUME FrameInvariant, NEW c \in Signals, HandlerDies \/ CatchCroaks(c)
    PROVE  FrameInvariant'
<1>0. Len(frames) \in Nat /\ unwinding \in Nat /\ (frames # <<>> <=> Len(frames) > 0)
    BY DEF FrameInvariant, FitAll, Leaving
<1>1. CASE HandlerDies
  <2>1. PICK n \in 1..Len(frames) : Catches(n) /\ unwinding' = n
      BY <1>1 DEF HandlerDies
  <2>2. UNCHANGED <<frames, mask, pend, Held>> /\ Types'
      BY <1>1 DEF HandlerDies, osvars, masks, Held, FrameInvariant, Types
  <2>3. Leaving'
      BY <2>1, <2>2 DEF Leaving, Catches
  <2>4. CallFlagged'
      BY <2>1 DEF CallFlagged, On
  <2> QED
      BY <2>2, <2>3, <2>4 DEF FrameInvariant
<1>2. CASE CatchCroaks(c)
  <2>1. /\ Alive /\ c \notin mask /\ pend' = pend \cup {c} /\ stuck' = stuck \cup {c}
        /\ mask' = mask \cup {c} /\ raised' \subseteq raised
        /\ UNCHANGED <<os, handler, killing, ended>>
      BY <1>2 DEF CatchCroaks, Deliverable
  <2>2. PICK n \in unwinding..Len(frames) :
            /\ IF n = 0 THEN Running ELSE Catches(n)
            /\ IF At("blocked") \/ At("leave")
               THEN /\ frames' = Front(frames) /\ unwinding' = n - 1
                    /\ unowed' = unowed \cup Lost(Top)
               ELSE unwinding' = n /\ UNCHANGED <<frames, unowed>>
      BY <1>2 DEF CatchCroaks
  <2>3. n \in Nat /\ n <= Len(frames)
      BY <1>0, <2>2
  <2>4. CASE At("blocked") \/ At("leave")
    <3>1. /\ frames # <<>> /\ Top.step # "scan" /\ frames' = Front(frames) /\ unwinding' = n - 1
          /\ unowed' = unowed \cup Lost(Top)
        BY <2>2, <2>4 DEF At
    <3>2. n \in 1..Len(frames) /\ Catches(n)
        BY <1>0, <2>2, <2>3, <2>4 DEF Running, On, At
    <3>3. Held \cup Lost(Top) \subseteq Held' /\ c \in Held'
        BY <2>1, <3>1 DEF Held
    <3>4. Debt(Top) = {Top.sig}
        BY <3>1 DEF Debt
    <3>5. Masks(Front(frames), mask', Held')
      <4> DEFINE gs == Front(frames)
      <4>1. /\ Fits(gs, Len(gs), Top, Held, pend)
            /\ Owes(gs, Len(gs)) \cup {Top.sig} \subseteq mask
            /\ mask \subseteq Owes(gs, Len(gs)) \cup {Top.sig} \cup Held
          BY <3>1, <3>4, TopFits
      <4> HIDE DEF gs
      <4>2. Masks(gs, mask, Held')
          BY <3>1, <3>3, <4>1, UnwindNone
      <4> QED
          BY <2>1, <3>3, <4>2 DEF Masks, gs
    <3>6. /\ FitAll(frames', Held', pend') /\ Masks(frames', mask', Held')
          /\ frames' # <<>> => Top'.step \in {"run", "install"}
          /\ Len(frames) = Len(frames') + 1 /\ Len(frames') \in Nat
          /\ \A i \in 1..Len(frames') : frames'[i] = frames[i]
        BY <2>1, <3>1, <3>3, <3>5, Popped
    <3>7. Leaving'
        BY <1>0, <3>1, <3>2, <3>6, LeavesOne
    <3>8. CallFlagged'
        BY <3>6 DEF CallFlagged, On, At
    <3>9. unowed' \subseteq Signals
      <4>1. Top.sig \in Signals
          BY <3>1, TopFits, FrameFacts, SignalsAssumption DEF Signals
      <4>2. Lost(Top) \subseteq Signals
          BY <4>1 DEF Lost
      <4> QED
          BY <3>1, <4>2 DEF FrameInvariant, Types
    <3>10. Types'
        BY <2>1, <3>9 DEF FrameInvariant, Types
    <3> QED
        BY <3>6, <3>7, <3>8, <3>10 DEF FrameInvariant
  <2>5. CASE ~(At("blocked") \/ At("leave"))
    <3>1. UNCHANGED <<frames, unowed>> /\ unwinding' = n
        BY <2>2, <2>5
    <3>2. Held' = Held \cup {c}
        BY <2>1, <3>1 DEF Held
    <3>3. FitAll(frames', Held', pend')
      <4>1. c \notin Owes(frames, Len(frames))
          BY <2>1 DEF FrameInvariant, Masks
      <4> QED
          BY <2>1, <3>1, <3>2, <4>1, FitFlags DEF FrameInvariant
    <3>4. Masks(frames', mask', Held')
        BY <2>1, <3>1, <3>2 DEF FrameInvariant, Masks
    <3>5. Leaving'
        BY <2>2, <2>3, <3>1 DEF Leaving, Catches
    <3>6. CallFlagged'
      <4>1. CASE n = 0
          BY <2>2, <3>1, <4>1 DEF Running, CallFlagged, On, At, Top
      <4>2. CASE n # 0
          BY <3>1, <4>2 DEF CallFlagged, On
      <4> QED
          BY <4>1, <4>2
    <3>7. Types'
        BY <2>1, <3>1 DEF FrameInvariant, Types
    <3> QED
        BY <3>3, <3>4, <3>5, <3>6, <3>7 DEF FrameInvariant
  <2> QED
      BY <2>4, <2>5
<1> QED
    BY <1>1, <1>2

-----------------------------------------------------------------------------
(* What a step does to the stack, frame by frame *)

Moves(fs, gs, f) ==
    /\ gs \in Seq(FrameSet) /\ Len(gs) = Len(fs) /\ gs[Len(fs)] = f
    /\ \A i \in 1..Len(fs) - 1 : gs[i] = fs[i]
Pushes(fs, gs, f) ==
    /\ gs \in Seq(FrameSet) /\ Len(gs) = Len(fs) + 1 /\ gs[Len(fs) + 1] = f
    /\ \A i \in 1..Len(fs) : gs[i] = fs[i]
Drops(fs, gs) ==
    /\ gs \in Seq(FrameSet) /\ Len(gs) = Len(fs) - 1
    /\ \A i \in 1..Len(fs) - 1 : gs[i] = fs[i]

\* The innermost frame goes to another step.
Goes(step) ==
    \E g \in FrameSet : /\ Moves(frames, frames', g)
                        /\ g.kind = Top.kind /\ g.sig = Top.sig /\ g.step = step
                        /\ Top.kind = "setsig" => g.to = Top.to

LEMMA Indexing ==
    ASSUME NEW fs \in Seq(FrameSet), NEW f \in FrameSet
    PROVE  /\ Pushes(fs, Append(fs, f), f)
           /\ fs # <<>> => Drops(fs, Front(fs)) /\ Moves(fs, Append(Front(fs), f), f)
<1>1. ASSUME NEW gs \in Seq(FrameSet)
      PROVE  /\ Append(gs, f) \in Seq(FrameSet)
             /\ Len(Append(gs, f)) = Len(gs) + 1 /\ Append(gs, f)[Len(gs) + 1] = f
             /\ \A i \in 1..Len(gs) : Append(gs, f)[i] = gs[i]
    OBVIOUS
<1>2. ASSUME fs # <<>>
      PROVE  /\ Front(fs) \in Seq(FrameSet) /\ Len(Front(fs)) = Len(fs) - 1
             /\ \A i \in 1..Len(fs) - 1 : Front(fs)[i] = fs[i]
  <2>1. Len(fs) \in Nat /\ Len(fs) - 1 \in 0..Len(fs)
      BY <1>2
  <2>2. Front(fs) = SubSeq(fs, 1, Len(fs) - 1)
      BY DEF Front
  <2>3. ASSUME NEW m \in 0..Len(fs)
        PROVE  /\ SubSeq(fs, 1, m) \in Seq(FrameSet) /\ Len(SubSeq(fs, 1, m)) = m
               /\ \A i \in 1..m : SubSeq(fs, 1, m)[i] = fs[i]
      OBVIOUS
  <2> QED
      BY <2>1, <2>2, <2>3
<1>3. ASSUME fs # <<>>
      PROVE  /\ Append(Front(fs), f) \in Seq(FrameSet)
             /\ Len(Append(Front(fs), f)) = Len(fs)
             /\ Append(Front(fs), f)[Len(fs)] = f
             /\ \A i \in 1..Len(fs) - 1 : Append(Front(fs), f)[i] = fs[i]
  <2> DEFINE gs == Front(fs)
  <2>1. gs \in Seq(FrameSet) /\ Len(gs) = Len(fs) - 1 /\ \A i \in 1..Len(fs) - 1 : gs[i] = fs[i]
      BY <1>2, <1>3
  <2> HIDE DEF gs
  <2>2. /\ Append(gs, f) \in Seq(FrameSet)
        /\ Len(Append(gs, f)) = Len(gs) + 1 /\ Append(gs, f)[Len(gs) + 1] = f
        /\ \A i \in 1..Len(gs) : Append(gs, f)[i] = gs[i]
      BY <1>1, <2>1
  <2>3. Len(fs) \in Nat /\ Len(gs) + 1 = Len(fs)
      BY <2>1
  <2> QED
      BY <2>1, <2>2, <2>3 DEF gs
<1> QED
    BY <1>1, <1>2, <1>3 DEF Pushes, Drops, Moves

LEMMA TypeFacts ==
    ASSUME FrameInvariant
    PROVE  /\ LastSignal \in Nat \ {0} /\ LastSignal \in Signals /\ Virtual \subseteq Signals
           /\ pend \subseteq Signals /\ mask \subseteq Signals
           /\ \A s \in Signals : s \in Nat \ {0} /\ s <= LastSignal
<1>1. pend \subseteq Signals /\ mask \subseteq Signals
    BY Zenon DEF FrameInvariant, Types
<1> QED
    BY <1>1, SignalsAssumption DEF Signals

\* The frames and where they stand, with types at hand.
LEMMA StackFacts ==
    ASSUME FrameInvariant
    PROVE  /\ frames \in Seq(FrameSet) /\ Len(frames) \in Nat
           /\ (frames # <<>> <=> Len(frames) > 0) /\ Top = frames[Len(frames)]
           /\ unwinding \in 0..Len(frames) /\ (unwinding # 0 => Catches(unwinding))
           /\ \A k \in 1..Len(frames) : /\ frames[k] \in FrameSet
                                        /\ Stands(frames, k - 1, frames[k])
                                        /\ frames[k].step # "scan" =>
                                              frames[k].sig \in mask /\ frames[k].sig \in Signals
<1>1. frames \in Seq(FrameSet) /\ Len(frames) \in Nat /\ (frames # <<>> <=> Len(frames) > 0)
    BY DEF FrameInvariant, FitAll
<1>2. \A k \in 1..Len(frames) : /\ frames[k] \in FrameSet /\ Stands(frames, k - 1, frames[k])
                                /\ frames[k].sig > LastSignal => frames[k].step = "scan"
    BY DEF FrameInvariant, FitAll, Fits
<1>3. \A k \in 1..Len(frames) : frames[k].step # "scan" => frames[k].sig \in mask
    BY DEF FrameInvariant, Masks, Owes
<1>4. mask \subseteq Signals
    BY TypeFacts
<1> QED
    BY <1>1, <1>2, <1>3, <1>4 DEF Top, Last, FrameInvariant, Leaving

\* The same of the next state: the innermost frame after a step.
LEMMA NextTop ==
    ASSUME frames' \in Seq(FrameSet)
    PROVE  (frames' # <<>> <=> Len(frames') > 0) /\ Top' = frames'[Len(frames')]
           /\ Len(frames') \in Nat
BY DEF Top, Last

\* Under the innermost frame Perl code runs, or an assignment checks.
LEMMA DropsTo ==
    ASSUME FrameInvariant, frames # <<>>, Drops(frames, frames')
    PROVE  frames' # <<>> => Top'.step \in {"run", "install"}
<1>1. Len(frames) \in Nat \ {0} /\ Top = frames[Len(frames)]
    BY StackFacts
<1>2. Stands(frames, Len(frames) - 1, Top)
    BY <1>1, StackFacts
<1>3. frames' # <<>> => Top' = frames[Len(frames) - 1] /\ Len(frames) - 1 > 0
    BY <1>1, NextTop DEF Drops
<1> QED
    BY <1>2, <1>3 DEF Stands

LEMMA Going ==
    ASSUME FrameInvariant, frames # <<>>,
           NEW step \in IF Top.kind = "despatch" THEN LoopSteps ELSE SetSteps, MoveTo(step)
    PROVE  Goes(step)
<1>1. PICK g : g = [Top EXCEPT !.step = step]
    OBVIOUS
<1>2. Top \in FrameSet
    BY TopFits
<1>3. /\ g \in FrameSet /\ g.kind = Top.kind /\ g.sig = Top.sig /\ g.step = step
      /\ Top.kind = "setsig" => g.to = Top.to
    BY <1>1, <1>2, StepFacts
<1>4. frames' = Append(Front(frames), g)
    BY <1>1 DEF MoveTo, Replace
<1>5. Moves(frames, frames', g)
    BY <1>3, <1>4, Indexing, StackFacts
<1> QED
    BY <1>3, <1>5 DEF Goes

\* Steps within a frame.
LEMMA GoingSteps ==
    ASSUME FrameInvariant
    PROVE  /\ Note => /\ Top.step = "blocked"
                      /\ Goes(IF Top.kind = "despatch" THEN "call" ELSE "check")
           /\ Call /\ handler[Top.sig] # "null" =>
                 Goes(IF handler[Top.sig] = "code" THEN "run" ELSE "done")
           /\ HandlerReturns => Goes("done")
           /\ Leave => Top.step = "done" /\ Goes("leave")
           /\ UnwindLeave => Goes("leave")
           /\ SetsigChecks /\ pending = 0 => Goes("install")
           /\ SetsigInstalls => Goes("rsignal")
           /\ SetsigEnds => Goes("done")
           /\ Note \/ Call \/ HandlerReturns \/ Leave \/ UnwindLeave \/ SetsigChecks
                   \/ SetsigInstalls \/ SetsigEnds => frames # <<>>
<1>1. frames # <<>> => Top \in FrameSet
    BY TopFits
<1>2. frames # <<>> => /\ Top.kind \in {"despatch", "setsig"}
                       /\ Top.kind = "despatch"
                             => {"call", "run", "done", "leave"} \subseteq LoopSteps
                       /\ Top.kind # "despatch" => {"check", "install", "rsignal", "done", "leave"}
                                                       \subseteq SetSteps
    BY <1>1, FrameFacts DEF LoopSteps, SetSteps
<1>3. UnwindLeave => frames # <<>>
    BY StackFacts DEF UnwindLeave
<1>4. Note => Top.step = "blocked" /\ Goes(IF Top.kind = "despatch" THEN "call" ELSE "check")
    BY <1>2, Going DEF Note, At
<1>5. Call /\ handler[Top.sig] # "null" => Goes(IF handler[Top.sig] = "code" THEN "run" ELSE "done")
    BY <1>2, Going DEF Call, On, At
<1>6. /\ HandlerReturns => Goes("done")
      /\ Leave => Top.step = "done" /\ Goes("leave")
      /\ UnwindLeave => Goes("leave")
    BY <1>2, <1>3, Going DEF HandlerReturns, Leave, UnwindLeave, On, At
<1>7. /\ SetsigInstalls => Goes("rsignal")
      /\ SetsigEnds => Goes("done")
    BY <1>2, Going DEF SetsigInstalls, SetsigEnds, On, At
<1>8. SetsigChecks /\ pending = 0 => Goes("install")
  <2> SUFFICES ASSUME SetsigChecks, pending = 0 PROVE Goes("install")
      OBVIOUS
  <2>1. PICK f : f = Setsig(Top.sig, "install", Top.to, Top.save)
      OBVIOUS
  <2>2. frames # <<>> /\ Top.kind = "setsig" /\ frames' = Append(Front(frames), f)
      BY <2>1 DEF SetsigChecks, On, At, Replace
  <2>3. Top.sig \in Signals /\ Top.to \in Dispositions /\ Top.save \in SUBSET Signals
      BY <1>1, <2>2, FrameFacts
  <2>4. /\ f \in FrameSet /\ f.kind = Top.kind /\ f.sig = Top.sig /\ f.step = "install"
        /\ f.to = Top.to
      BY <2>1, <2>2, <2>3 DEF Setsig, FrameSet, SetSteps
  <2>5. Moves(frames, frames', f)
      BY <2>2, <2>4, Indexing, StackFacts
  <2> QED
      BY <2>4, <2>5 DEF Goes
<1>9. Note \/ Call \/ HandlerReturns \/ Leave \/ SetsigChecks \/ SetsigInstalls \/ SetsigEnds
          => frames # <<>>
    BY Zenon DEF Note, Call, HandlerReturns, Leave, SetsigChecks, SetsigInstalls, SetsigEnds, On, At
<1> QED
    BY <1>3, <1>4, <1>5, <1>6, <1>7, <1>8, <1>9

\* A loop scans: it is over, or it goes on with a frame f that still looks at
\* every flagged signal that it looked at.
LEMMA ScanShape ==
    ASSUME FrameInvariant, Scan
    PROVE  /\ frames # <<>> /\ Top.kind = "despatch"
           /\ Top.sig > LastSignal => /\ Drops(frames, frames')
                                      /\ \A s \in pend : ~WillReach(Top, s)
           /\ ~(Top.sig > LastSignal) =>
                 \E f \in FrameSet : /\ f.kind = "despatch" /\ f.step \in {"scan", "blocked"}
                                     /\ Moves(frames, frames', f)
                                     /\ \A s \in pend : WillReach(Top, s) => WillReach(f, s)
<1>1. frames # <<>> /\ Top.kind = "despatch" /\ Top.step = "scan"
    BY DEF Scan, On, At
<1>2. Top.sig \in 1..LastSignal + 1 /\ LastSignal \in Nat /\ \A s \in pend : s \in 1..LastSignal
    BY <1>1, TopFits, FrameFacts, TypeFacts DEF Signals
<1>3. ASSUME Top.sig > LastSignal
      PROVE  Drops(frames, frames') /\ \A s \in pend : ~WillReach(Top, s)
  <2>1. frames' = Front(frames)
      BY <1>3 DEF Scan
  <2>2. Top \in FrameSet
      BY <1>1, TopFits
  <2>3. Drops(frames, frames')
      BY <1>1, <2>1, <2>2, Indexing, StackFacts
  <2> QED
      BY <1>1, <1>2, <1>3, <2>3 DEF WillReach
<1>4. ASSUME ~(Top.sig > LastSignal)
      PROVE  \E f \in FrameSet : /\ f.kind = "despatch" /\ f.step \in {"scan", "blocked"}
                                 /\ Moves(frames, frames', f)
                                 /\ \A s \in pend : WillReach(Top, s) => WillReach(f, s)
  <2>1. PICK f : f = IF Top.sig \notin pend THEN Despatch(Top.sig + 1, "scan", FALSE)
                     ELSE Despatch(Top.sig, "blocked", Top.sig \in mask)
      OBVIOUS
  <2>2. frames' = Append(Front(frames), f)
      BY <1>4, <2>1, Zenon DEF Scan, Replace
  <2>3. /\ f \in FrameSet /\ f.kind = "despatch" /\ f.step \in {"scan", "blocked"}
        /\ f.sig = IF Top.sig \notin pend THEN Top.sig + 1 ELSE Top.sig
      BY <1>2, <1>4, <2>1 DEF Despatch, FrameSet, LoopSteps
  <2>4. \A s \in pend : WillReach(Top, s) => WillReach(f, s)
      BY <1>1, <1>2, <2>3 DEF WillReach
  <2>5. Moves(frames, frames', f)
      BY <1>1, <2>2, <2>3, Indexing, StackFacts
  <2> QED
      BY <2>3, <2>4, <2>5
<1> QED
    BY <1>1, <1>3, <1>4

\* The destructor of the innermost frame runs.
LEMMA UnblockShape ==
    ASSUME FrameInvariant
    PROVE  /\ Unblock /\ Top.kind = "despatch" =>
                 \E f \in FrameSet : /\ f.kind = "despatch" /\ f.step = "scan"
                                     /\ Moves(frames, frames', f)
                                     /\ \A s \in pend : WillReach(Top, s) => WillReach(f, s)
           /\ Unblock /\ Top.kind # "despatch" => Drops(frames, frames')
           /\ UnwindFrame => Drops(frames, frames')
           /\ Unblock \/ UnwindFrame => frames # <<>>
<1>1. Unblock \/ UnwindFrame => frames # <<>>
    BY DEF Unblock, UnwindFrame, At
<1>2. frames # <<>> => Top \in FrameSet
    BY TopFits
<1>3. (Unblock /\ Top.kind # "despatch") \/ UnwindFrame => Drops(frames, frames')
    BY <1>1, <1>2, Indexing, StackFacts DEF Unblock, UnwindFrame
<1>4. ASSUME Unblock, Top.kind = "despatch"
      PROVE  \E f \in FrameSet : /\ f.kind = "despatch" /\ f.step = "scan"
                                 /\ Moves(frames, frames', f)
                                 /\ \A s \in pend : WillReach(Top, s) => WillReach(f, s)
  <2>1. PICK f : f = Despatch(Top.sig + 1, "scan", FALSE)
      OBVIOUS
  <2>2. frames' = Append(Front(frames), f) /\ frames # <<>> /\ Top.step = "leave"
      BY <1>4, <2>1 DEF Unblock, Replace, At
  <2>3. Top.sig \in Signals /\ LastSignal \in Nat /\ pend \subseteq Signals
      BY <2>2, StackFacts, TypeFacts
  <2>4. f \in FrameSet /\ f.kind = "despatch" /\ f.step = "scan" /\ f.sig = Top.sig + 1
      BY <2>1, <2>3 DEF Despatch, FrameSet, LoopSteps, Signals
  <2>5. \A s \in pend : WillReach(Top, s) => WillReach(f, s)
      BY <1>4, <2>2, <2>3, <2>4 DEF WillReach, Signals
  <2>6. Moves(frames, frames', f)
      BY <2>2, <2>4, Indexing, StackFacts
  <2> QED
      BY <2>4, <2>5, <2>6
<1> QED
    BY <1>1, <1>3, <1>4

\* A frame more, above Perl code or the check in an assignment.
LEMMA PushShape ==
    ASSUME FrameInvariant
    PROVE  /\ AsyncCheck =>
                 \E d \in FrameSet : /\ d.kind = "despatch" /\ d.step = "scan"
                                     /\ Pushes(frames, frames', d)
                                     /\ \A s \in pend : WillReach(d, s)
           /\ \A i \in Signals, to \in Dispositions : SetsigBegins(i, to) =>
                 \E f \in FrameSet : /\ f.kind = "setsig" /\ f.step = "blocked"
                                     /\ f.sig = i /\ f.to = to
                                     /\ Pushes(frames, frames', f)
           /\ SetsigChecks /\ pending # 0 =>
                 \E gs \in Seq(FrameSet), f \in FrameSet, d \in FrameSet :
                     /\ f.kind = "setsig" /\ f.sig = Top.sig /\ f.to = Top.to
                     /\ f.step = "install" /\ Moves(frames, gs, f)
                     /\ d.kind = "despatch" /\ d.step = "scan" /\ Pushes(gs, frames', d)
                     /\ \A s \in pend : WillReach(d, s)
<1>0. LastSignal \in Nat \ {0} /\ pend \subseteq Signals /\ mask \in SUBSET Signals
    BY TypeFacts
<1>1. PICK d : d = Despatch(1, "scan", FALSE)
    OBVIOUS
<1>2. d \in FrameSet /\ d.kind = "despatch" /\ d.step = "scan" /\ \A s \in pend : WillReach(d, s)
    BY <1>0, <1>1 DEF Despatch, FrameSet, LoopSteps, WillReach, Signals
<1>3. ASSUME AsyncCheck
      PROVE  Pushes(frames, frames', d)
  <2>1. frames' = Append(frames, d)
      BY <1>1, <1>3 DEF AsyncCheck, Enter
  <2> QED
      BY <1>2, <2>1, Indexing, StackFacts
<1>4. ASSUME NEW i \in Signals, NEW to \in Dispositions, SetsigBegins(i, to)
      PROVE  \E f \in FrameSet : /\ f.kind = "setsig" /\ f.step = "blocked"
                                 /\ f.sig = i /\ f.to = to
                                 /\ Pushes(frames, frames', f)
  <2>1. PICK f : f = Setsig(i, "blocked", to, mask)
      OBVIOUS
  <2>2. f \in FrameSet /\ f.kind = "setsig" /\ f.step = "blocked" /\ f.sig = i /\ f.to = to
      BY <1>0, <2>1 DEF Setsig, FrameSet, SetSteps
  <2>3. frames' = Append(frames, f)
      BY <1>4, <2>1 DEF SetsigBegins
  <2>4. Pushes(frames, frames', f)
      BY <2>2, <2>3, Indexing, StackFacts
  <2> QED
      BY <2>2, <2>4
<1>5. ASSUME SetsigChecks, pending # 0
      PROVE  \E gs \in Seq(FrameSet), f \in FrameSet :
                 /\ f.kind = "setsig" /\ f.sig = Top.sig /\ f.to = Top.to
                 /\ f.step = "install" /\ Moves(frames, gs, f) /\ Pushes(gs, frames', d)
  <2>1. PICK f : f = Setsig(Top.sig, "install", Top.to, Top.save)
      OBVIOUS
  <2>2. PICK gs : gs = Append(Front(frames), f)
      OBVIOUS
  <2>3. frames # <<>> /\ Top.kind = "setsig" /\ frames' = Append(gs, d)
      BY <1>1, <1>5, <2>1, <2>2 DEF SetsigChecks, On, At
  <2>4. Top \in FrameSet
      BY <2>3, TopFits
  <2>5. Top.sig \in Signals /\ Top.to \in Dispositions /\ Top.save \in SUBSET Signals
      BY <2>3, <2>4, FrameFacts
  <2>6. /\ f \in FrameSet /\ f.kind = "setsig" /\ f.sig = Top.sig /\ f.step = "install"
        /\ f.to = Top.to
      BY <2>1, <2>5 DEF Setsig, FrameSet, SetSteps
  <2>7. Moves(frames, gs, f)
      BY <2>2, <2>3, <2>6, Indexing, StackFacts
  <2>8. gs \in Seq(FrameSet)
      BY <2>7 DEF Moves
  <2>9. Pushes(gs, frames', d)
      BY <1>2, <2>3, <2>8, Indexing
  <2> QED
      BY <2>6, <2>7, <2>8, <2>9
<1> QED
    BY <1>2, <1>3, <1>4, <1>5, Zenon

\* The signals in flight, in csighandler's count or in another thread's kill
\* were all sent, and a frame is pushed only where there is room.
InFlight == pending + Cardinality(raised) + (IF killing.sig = NoSignal THEN 0 ELSE 1)
Counted == sent \in 0..MaxSent /\ pending \in Nat /\ InFlight <= sent
Deep == /\ Len(frames) <= MaxFrames
        /\ frames # <<>> /\ Top.kind = "setsig" /\ Top.step \in {"blocked", "check"}
               => Len(frames) < MaxFrames

LEMMA SignalsFinite ==
    ASSUME NEW S, S \subseteq Signals
    PROVE  /\ IsFiniteSet(S) /\ Cardinality(S) \in Nat
           /\ \A T : T \subseteq S => Cardinality(T) <= Cardinality(S) /\ Cardinality(T) \in Nat
           /\ \A s : s \in S => Cardinality(S \ {s}) = Cardinality(S) - 1
           /\ \A s \in Signals : s \notin S => Cardinality(S \cup {s}) = Cardinality(S) + 1
<1>1. LastSignal \in Int /\ 1 \in Int
    BY SignalsAssumption
<1>2. IsFiniteSet(Signals)
    BY <1>1, FS_Interval DEF Signals
<1>3. IsFiniteSet(S)
    BY <1>2, FS_Subset
<1>4. Cardinality(S) \in Nat
    BY <1>3, FS_CardinalityType
<1>5. \A T : T \subseteq S => IsFiniteSet(T) /\ Cardinality(T) <= Cardinality(S)
    BY <1>3, FS_Subset
<1>6. \A T : T \subseteq S => Cardinality(T) \in Nat
    BY <1>5, FS_CardinalityType
<1>7. \A s : s \in S => Cardinality(S \ {s}) = Cardinality(S) - 1
    BY <1>3, FS_RemoveElement
<1>8. \A s \in Signals : s \notin S => Cardinality(S \cup {s}) = Cardinality(S) + 1
    BY <1>3, FS_AddElement
<1> QED
    BY <1>3, <1>4, <1>5, <1>6, <1>7, <1>8

LEMMA CountedStep ==
    ASSUME Types, Counted, [Next]_vars
    PROVE  Counted'
<1> DEFINE K == IF killing.sig = NoSignal THEN 0 ELSE 1
           C == Cardinality(raised)
<1>0. /\ MaxSent \in Nat /\ sent \in Nat /\ sent <= MaxSent /\ pending \in Nat /\ K \in {0, 1}
      /\ raised \subseteq Signals /\ C \in Nat /\ pending + C + K <= sent
  <2>1. MaxSent \in Nat /\ sent \in 0..MaxSent /\ pending \in Nat /\ raised \subseteq Signals
      BY SignalsAssumption DEF Types, Counted
  <2>2. C \in Nat
      BY <2>1, SignalsFinite
  <2>3. pending + C + K <= sent
      BY DEF Counted, InFlight
  <2> QED
      BY <2>1, <2>2, <2>3
<1>1. ASSUME UNCHANGED sent, raised' \subseteq raised, pending' \in {0, pending},
             killing'.sig \in {killing.sig, NoSignal}
      PROVE  Counted'
  <2>1. Cardinality(raised') \in Nat /\ Cardinality(raised') <= C
      BY <1>0, <1>1, SignalsFinite
  <2> DEFINE L == IF killing'.sig = NoSignal THEN 0 ELSE 1
  <2>2. L \in {0, 1} /\ L <= K
      BY <1>1
  <2> HIDE DEF K, L, C
  <2>3. pending' + Cardinality(raised') + L <= sent
      BY <1>0, <1>1, <2>1, <2>2
  <2>4. InFlight' <= sent /\ pending' \in Nat /\ sent' = sent
      BY <1>0, <1>1, <2>3 DEF InFlight, L
  <2> QED
      BY <1>0, <2>4 DEF Counted
<1>2. ASSUME NEW s \in raised, UNCHANGED <<sent, killing>>, raised' = raised \ {s},
             pending' = pending + 1
      PROVE  Counted'
  <2>1. Cardinality(raised') = C - 1
      BY <1>0, <1>2, SignalsFinite
  <2>2. pending' + Cardinality(raised') + K <= sent
    <3> HIDE DEF K, C
    <3> QED
        BY <1>0, <1>2, <2>1
  <2> QED
      BY <1>0, <1>2, <2>2 DEF Counted, InFlight
<1>3. ASSUME NEW s \in Signals, Send(s)
      PROVE  Counted'
  <2>1. /\ sent' = sent + 1 /\ sent < MaxSent /\ raised' = raised \cup {s} /\ s \notin raised
        /\ UNCHANGED <<pending, killing>>
      BY <1>3 DEF Send, perlvars
  <2>2. Cardinality(raised') = C + 1
      BY <1>0, <2>1, SignalsFinite
  <2>3. pending' + Cardinality(raised') + K <= sent' /\ sent' \in 0..MaxSent
    <3> HIDE DEF K, C
    <3> QED
        BY <1>0, <2>1, <2>2
  <2> QED
      BY <1>0, <2>1, <2>3 DEF Counted, InFlight
<1>4. ASSUME NEW s \in Virtual, KillChecks(s)
      PROVE  Counted'
  <2>1. /\ sent' = sent + 1 /\ sent < MaxSent /\ K = 0
        /\ UNCHANGED <<pending, raised>>
      BY <1>4 DEF KillChecks, perlvars, osvars
  <2>2. pending + C + 1 <= sent' /\ sent' \in 0..MaxSent
    <3> HIDE DEF K, C
    <3> QED
        BY <1>0, <2>1
  <2>3. InFlight' <= pending + C + 1
    <3> DEFINE L == IF killing'.sig = NoSignal THEN 0 ELSE 1
    <3>1. L \in {0, 1} /\ InFlight' = pending + C + L
        BY <2>1 DEF InFlight
    <3> HIDE DEF L, C
    <3> QED
        BY <1>0, <3>1
  <2>4. InFlight' \in Int
    <3> DEFINE L == IF killing'.sig = NoSignal THEN 0 ELSE 1
    <3>1. L \in {0, 1} /\ InFlight' = pending + C + L
        BY <2>1 DEF InFlight
    <3> HIDE DEF L, C
    <3> QED
        BY <1>0, <3>1
  <2> HIDE DEF C
  <2>5. InFlight' <= sent'
      BY <1>0, <2>2, <2>3, <2>4
  <2> QED
      BY <1>0, <2>1, <2>2, <2>5 DEF Counted
<1>5. ASSUME KillFlags
      PROVE  Counted'
  <2>1. /\ pending' = 1 /\ killing'.sig = NoSignal /\ K = 1 /\ UNCHANGED <<sent, raised>>
      BY <1>5 DEF KillFlags, Types, osvars
  <2>2. 1 + C + 0 <= sent
    <3> HIDE DEF K, C
    <3> QED
        BY <1>0, <2>1
  <2> QED
      BY <1>0, <2>1, <2>2 DEF Counted, InFlight
<1>6. CASE UNCHANGED vars
    BY <1>1, <1>6 DEF vars, osvars, perlvars
<1>7. CASE Interpret
  <2>1. CASE AsyncCheck
      BY <1>1, <2>1 DEF AsyncCheck, Enter, osvars
  <2>2. CASE Scan \/ Call \/ Note
      BY <1>1, <2>2 DEF Scan, Call, Note, osvars
  <2>3. CASE SetsigChecks
      BY <1>1, <2>3 DEF SetsigChecks, osvars
  <2>4. CASE SetsigInstalls
      BY <1>1, <2>4 DEF SetsigInstalls, osvars
  <2>5. CASE SetsigEnds
      BY <1>1, <2>5 DEF SetsigEnds
  <2>6. CASE Leave \/ Unblock
      BY <1>1, <2>6 DEF Leave, Unblock, osvars
  <2>7. CASE UnwindLeave \/ UnwindFrame
      BY <1>1, <2>7 DEF UnwindLeave, UnwindFrame, osvars
  <2> QED
      BY <1>7, <2>1, <2>2, <2>3, <2>4, <2>5, <2>6, <2>7 DEF Interpret
<1>8. CASE Program
  <2>1. CASE HandlerReturns \/ HandlerDies
      BY <1>1, <2>1 DEF HandlerReturns, HandlerDies, osvars
  <2>2. CASE Fork
      BY <1>1, <2>2 DEF Fork
  <2>3. ASSUME NEW i \in Signals, NEW to \in Dispositions, SetsigBegins(i, to)
        PROVE  Counted'
      BY <1>1, <2>3 DEF SetsigBegins
  <2> QED
      BY <1>8, <2>1, <2>2, <2>3 DEF Program
<1>9. CASE Interrupt
  <2>1. ASSUME NEW s \in Signals, Catch(s) \/ CatchCroaks(s)
        PROVE  Counted'
      BY <1>2, <2>1 DEF Catch, CatchCroaks, Deliverable
  <2>2. ASSUME NEW s \in Signals, Terminate(s)
        PROVE  Counted'
      BY <1>1, <2>2 DEF Terminate, perlvars
  <2> QED
      BY <1>3, <1>9, <2>1, <2>2 DEF Interrupt
<1>10. CASE Kill
  <2>1. CASE KillCounts
      BY <1>1, <2>1 DEF KillCounts, osvars, Types
  <2> QED
      BY <1>4, <1>5, <1>10, <2>1 DEF Kill
<1> QED
    BY <1>6, <1>7, <1>8, <1>9, <1>10 DEF Next


LEMMA DeepStep ==
    ASSUME FrameInvariant, Deep, [Next]_vars
    PROVE  Deep'
<1>0. /\ Len(frames) \in Nat /\ MaxFrames \in Nat /\ (frames # <<>> <=> Len(frames) > 0)
      /\ frames \in Seq(FrameSet) /\ Top = frames[Len(frames)]
    BY StackFacts, SignalsAssumption
<1>1. ASSUME UNCHANGED frames
      PROVE  Deep'
    BY <1>1 DEF Deep, Top
<1>2. ASSUME NEW g, Moves(frames, frames', g), frames # <<>>,
             g.kind = "setsig" /\ g.step \in {"blocked", "check"} =>
                 Top.kind = "setsig" /\ Top.step \in {"blocked", "check"}
      PROVE  Deep'
  <2>1. Len(frames') = Len(frames) /\ Top' = g
      BY <1>2, NextTop DEF Moves
  <2> QED
      BY <1>2, <2>1 DEF Deep
<1>3. ASSUME NEW step, Goes(step), frames # <<>>,
             \/ Top.kind = "despatch" \/ step \notin {"blocked", "check"}
             \/ Top.step \in {"blocked", "check"}
      PROVE  Deep'
  <2>1. PICK g \in FrameSet : Moves(frames, frames', g) /\ g.kind = Top.kind /\ g.step = step
      BY <1>3 DEF Goes
  <2> QED
      BY <1>2, <1>3, <2>1
<1>4. ASSUME Drops(frames, frames'), frames # <<>>
      PROVE  Deep'
  <2>1. Len(frames') = Len(frames) - 1
      BY <1>4 DEF Drops
  <2>2. frames' # <<>> => Top'.step \in {"run", "install"}
      BY <1>4, DropsTo
  <2> QED
      BY <1>0, <2>1, <2>2 DEF Deep
<1>5. CASE UNCHANGED vars
    BY <1>1, <1>5 DEF vars, perlvars
<1>6. CASE Interpret
  <2>1. CASE AsyncCheck
    <3>1. PICK d \in FrameSet : d.kind = "despatch" /\ Pushes(frames, frames', d)
        BY <2>1, PushShape
    <3>2. Len(frames) < MaxFrames
        BY <2>1 DEF AsyncCheck, Enter
    <3>3. Len(frames') = Len(frames) + 1 /\ Top' = d
        BY <3>1, NextTop DEF Pushes
    <3> QED
        BY <1>0, <3>1, <3>2, <3>3 DEF Deep
  <2>2. CASE Scan
    <3>1. CASE Top.sig > LastSignal
        BY <1>4, <2>2, <3>1, ScanShape
    <3>2. CASE ~(Top.sig > LastSignal)
        BY <1>2, <2>2, <3>2, ScanShape
    <3> QED
        BY <3>1, <3>2
  <2>3. CASE Note
      BY <1>3, <2>3, GoingSteps
  <2>4. CASE Call
    <3>1. CASE handler[Top.sig] = "null"
        BY <1>1, <2>4, <3>1 DEF Call
    <3>2. CASE handler[Top.sig] # "null"
        BY <1>3, <2>4, <3>2, GoingSteps
    <3> QED
        BY <3>1, <3>2
  <2>5. CASE SetsigChecks
    <3>1. CASE pending = 0
        BY <1>3, <2>5, <3>1, GoingSteps
    <3>2. CASE pending # 0
      <4>1. PICK gs \in Seq(FrameSet), f \in FrameSet, d \in FrameSet :
                Moves(frames, gs, f) /\ d.kind = "despatch" /\ Pushes(gs, frames', d)
          BY <2>5, <3>2, PushShape
      <4>2. Len(frames') = Len(frames) + 1 /\ Top' = d
          BY <4>1, NextTop DEF Pushes, Moves
      <4>3. Len(frames) < MaxFrames
          BY <2>5 DEF SetsigChecks, On, At, Deep
      <4> QED
          BY <1>0, <4>1, <4>2, <4>3 DEF Deep
    <3> QED
        BY <3>1, <3>2
  <2>6. CASE SetsigInstalls \/ SetsigEnds \/ Leave \/ UnwindLeave
      BY <1>3, <2>6, GoingSteps
  <2>7. CASE Unblock \/ UnwindFrame
    <3>1. CASE Unblock /\ Top.kind = "despatch"
        BY <1>2, <3>1, UnblockShape
    <3>2. CASE ~(Unblock /\ Top.kind = "despatch")
        BY <1>4, <2>7, <3>2, UnblockShape
    <3> QED
        BY <3>1, <3>2
  <2> QED
      BY <1>6, <2>1, <2>2, <2>3, <2>4, <2>5, <2>6, <2>7 DEF Interpret
<1>7. CASE Program
  <2>1. CASE HandlerReturns
      BY <1>3, <2>1, GoingSteps
  <2>2. CASE HandlerDies \/ Fork
      BY <1>1, <2>2 DEF HandlerDies, Fork
  <2>3. ASSUME NEW i \in Signals, NEW to \in Dispositions, SetsigBegins(i, to)
        PROVE  Deep'
    <3>1. PICK f \in FrameSet : Pushes(frames, frames', f)
        BY <2>3, PushShape
    <3>2. Len(frames) + 1 < MaxFrames /\ Len(frames') = Len(frames) + 1
        BY <2>3, <3>1 DEF SetsigBegins, Pushes
    <3> QED
        BY <1>0, <3>2 DEF Deep
  <2> QED
      BY <1>7, <2>1, <2>2, <2>3 DEF Program
<1>8. CASE Interrupt
  <2>1. ASSUME NEW s \in Signals, CatchCroaks(s)
        PROVE  Deep'
    <3>1. CASE UNCHANGED frames
        BY <1>1, <3>1
    <3>2. CASE ~UNCHANGED frames
      <4>1. frames # <<>> /\ frames' = Front(frames)
          BY <2>1, <3>2 DEF CatchCroaks, At
      <4>2. Drops(frames, frames')
          BY <1>0, <4>1, TopFits, Indexing
      <4> QED
          BY <1>4, <4>1, <4>2
    <3> QED
        BY <3>1, <3>2
  <2>2. ASSUME NEW s \in Signals, Send(s) \/ Catch(s) \/ Terminate(s)
        PROVE  Deep'
      BY <1>1, <2>2 DEF Send, Catch, Terminate, perlvars
  <2> QED
      BY <1>8, <2>1, <2>2 DEF Interrupt
<1>9. CASE Kill
  <2>1. UNCHANGED frames
      BY <1>9 DEF Kill, KillChecks, KillCounts, KillFlags, perlvars
  <2> QED
      BY <1>1, <2>1
<1> QED
    BY <1>5, <1>6, <1>7, <1>8, <1>9 DEF Next

\* The inductive invariant, for any handlers that die and any assignments.
SignalInvariant == FrameInvariant /\ Counted /\ Deep

LEMMA FrameStep == FrameInvariant /\ [Next]_vars => FrameInvariant'
<1> SUFFICES ASSUME FrameInvariant, [Next]_vars PROVE FrameInvariant'
    OBVIOUS
<1>0. 1 \in Signals /\ Virtual \subseteq Signals /\ "code" \in Dispositions
    BY SignalsAssumption DEF Signals, Dispositions
<1>1. CASE Interpret
    BY <1>0, <1>1, ScanFits, StepFits, UnblockFits, SetsigFits DEF Interpret
<1>2. CASE Program
    BY <1>0, <1>2, StepFits, SetsigFits, ExceptionFits, ArrivalFits DEF Program
<1>3. CASE Interrupt
    BY <1>3, ArrivalFits, ExceptionFits DEF Interrupt
<1>4. CASE Kill
    BY <1>0, <1>4, ArrivalFits DEF Kill
<1>5. CASE UNCHANGED vars
  <2>1. /\ UNCHANGED <<raised, os, mask, stuck, unowed>>
        /\ UNCHANGED <<handler, pend, frames, unwinding, killing, ended>>
      BY <1>5 DEF vars, osvars, perlvars, masks
  <2>2. UNCHANGED Held /\ (Types' <=> Types)
      BY <2>1, Zenon DEF Held, Types
  <2>3. (CallFlagged' <=> CallFlagged) /\ (Leaving' <=> Leaving)
      BY <2>1 DEF CallFlagged, Leaving, Catches, On, At, Alive, Top
  <2> QED
      BY <2>1, <2>2, <2>3 DEF FrameInvariant
<1> QED
    BY <1>1, <1>2, <1>3, <1>4, <1>5 DEF Next

LEMMA SignalInvariantHolds == Spec => []SignalInvariant
<1>1. Init => SignalInvariant
  <2> SUFFICES ASSUME Init PROVE SignalInvariant
      OBVIOUS
  <2>1. frames = <<>> /\ frames \in Seq(FrameSet) /\ Len(frames) = 0
      BY DEF Init
  <2>2. FitAll(frames, Held, pend)
      BY <2>1 DEF FitAll
  <2>3. Masks(frames, mask, Held)
      BY <2>1 DEF Masks, Owes, Init
  <2>4. Types
      BY DEF Init, Types
  <2>5. CallFlagged /\ Deep /\ Leaving
      BY <2>1, SignalsAssumption DEF CallFlagged, On, At, Deep, Leaving, Init
  <2>6. Counted
    <3>1. Cardinality(raised) = 0 /\ sent = 0 /\ pending = 0 /\ killing.sig = NoSignal
        BY FS_EmptySet DEF Init
    <3> QED
        BY <3>1, SignalsAssumption DEF Counted, InFlight
  <2> QED
      BY <2>2, <2>3, <2>4, <2>5, <2>6 DEF SignalInvariant, FrameInvariant
<1>2. SignalInvariant /\ [Next]_vars => SignalInvariant'
    BY FrameStep, CountedStep, DeepStep DEF SignalInvariant, FrameInvariant
<1> QED
    BY <1>1, <1>2, PTL DEF Spec

\* Whatever dies, the count of csighandler and the stack stay within what was
\* sent and what may nest, and everything has the type mg.c means it to have.
THEOREM SignalsTypeOK == Spec => []TypeOK
<1>1. SignalInvariant => TypeOK
  <2> SUFFICES ASSUME SignalInvariant PROVE TypeOK
      OBVIOUS
  <2>1. /\ frames \in Seq(FrameSet) /\ Len(frames) <= MaxFrames /\ unwinding \in 0..Len(frames)
        /\ \A i \in DOMAIN frames : frames[i] \in FrameSet
      BY DEF SignalInvariant, FrameInvariant, FitAll, Deep, Leaving
  <2>2. pending \in 0..MaxSent /\ sent \in 0..MaxSent
    <3> DEFINE C == Cardinality(raised)
               K == IF killing.sig = NoSignal THEN 0 ELSE 1
    <3>1. C \in Nat /\ K \in {0, 1}
        BY SignalsFinite DEF SignalInvariant, FrameInvariant, Types
    <3>2. pending + C + K <= sent /\ sent \in 0..MaxSent /\ pending \in Nat
        BY DEF SignalInvariant, Counted, InFlight
    <3> HIDE DEF C, K
    <3> QED
        BY <3>1, <3>2, SignalsAssumption
  <2>3. killing \in [sig : Signals \cup {NoSignal}, counted : BOOLEAN]
      BY SignalsAssumption DEF SignalInvariant, FrameInvariant, Types
  <2>4. Types
      BY DEF SignalInvariant, FrameInvariant
  <2>5. \A i \in DOMAIN frames :
            frames[i] \in [kind : {"despatch"}, sig : 1..LastSignal + 1,
                          step : {"scan", "blocked", "call", "run", "done", "leave"}, was : BOOLEAN]
                         \cup [kind : {"setsig"}, sig : Signals, to : Dispositions,
                              step : {"blocked", "check", "install", "rsignal", "done", "leave"},
                              save : SUBSET Signals]
      BY <2>1 DEF FrameSet, LoopSteps, SetSteps
  <2> QED
      BY <2>1, <2>2, <2>3, <2>4, <2>5, Zenon DEF TypeOK, Types
<1> QED
    BY <1>1, SignalInvariantHolds, PTL

\* mg.c: however despatch loops, handlers and assignments to %SIG nest, and
\* wherever an exception goes, the mask is what their frames will unblock, but
\* for the signals whose own csighandler croaked and those of a frame that a
\* croak of csighandler caught before the unblocking was on the savestack, or
\* after leave_scope had taken it off.
THEOREM MaskIsOwed == Spec => []MaskOwed
<1>1. SignalInvariant => MaskOwed
  <2> SUFFICES ASSUME SignalInvariant PROVE MaskOwed
      OBVIOUS
  <2>1. DOMAIN frames = 1..Len(frames)
      BY DEF SignalInvariant, FrameInvariant, FitAll
  <2> QED
      BY <2>1 DEF MaskOwed, SignalInvariant, FrameInvariant, Masks, Owes, Held
<1> QED
    BY <1>1, SignalInvariantHolds, PTL

\* perlipc: a signal's handler does not interrupt itself, unless another thread
\* sent the signal past the mask.
THEOREM HandlersAlone == Spec => []OneAtATime
<1>1. SignalInvariant => OneAtATime
  <2> SUFFICES ASSUME SignalInvariant, NEW i \in DOMAIN frames, NEW j \in DOMAIN frames, i < j,
                      frames[i].step = "run", frames[j].step = "run",
                      frames[i].sig = frames[j].sig
               PROVE  frames[i].sig \in Virtual
      BY DEF OneAtATime
  <2>1. i \in 1..j - 1 /\ j \in 1..Len(frames)
      BY DEF SignalInvariant, FrameInvariant, FitAll
  <2>2. Fits(frames, j - 1, frames[j], Held, pend)
      BY <2>1 DEF SignalInvariant, FrameInvariant, FitAll
  <2> QED
      BY <2>1, <2>2 DEF Fits, Single
<1> QED
    BY <1>1, SignalInvariantHolds, PTL

-----------------------------------------------------------------------------
(* NoneStranded, when only the last handler may die *)

\* The frames that no exception is leaving, and a loop of them that will still
\* look at s.
Live == Len(frames) - unwinding
Sought(fs, n, s) == \E i \in 1..n : WillReach(fs[i], s)

\* NoneStranded, signal by signal.
Found(s) == pending > 0 \/ Sought(frames, Live, s) \/ killing = [sig |-> s, counted |-> TRUE]

LEMMA FoundAll == NoneStranded <=> \A s \in pend : Found(s)
BY DEF NoneStranded, Found, Sought, Live

\* What every step has to see to for the signals that stay flagged.
LEMMA StaysFound ==
    ASSUME NoneStranded, UNCHANGED <<pending, killing>>, pend' \subseteq pend,
           \A s \in pend' : Sought(frames, Live, s) => Sought(frames', Live', s)
    PROVE  NoneStranded'
<1>1. \A s \in pend : Found(s)
    BY FoundAll
<1>2. \A s \in pend' : \/ pending' > 0 \/ Sought(frames', Live', s)
                       \/ killing' = [sig |-> s, counted |-> TRUE]
    BY <1>1 DEF Found
<1> QED
    BY <1>2, Zenon DEF NoneStranded, Sought, Live

\* The innermost frame of those that stay goes on, and looks at what it did.
LEMMA MoveFinds ==
    ASSUME FrameInvariant, NoneStranded, unwinding = 0, unwinding' = 0, frames # <<>>,
           NEW g, Moves(frames, frames', g), UNCHANGED <<pending, killing>>, pend' \subseteq pend,
           \A s \in pend' : WillReach(Top, s) => WillReach(g, s)
    PROVE  NoneStranded'
<1>1. Live = Len(frames) /\ Live' = Len(frames) /\ Len(frames) \in Nat /\ Top = frames[Len(frames)]
    BY StackFacts DEF Live, Moves
<1>2. ASSUME NEW s \in pend', NEW i \in 1..Len(frames), WillReach(frames[i], s)
      PROVE  WillReach(frames'[i], s)
  <2>1. CASE i = Len(frames)
      BY <1>1, <1>2, <2>1 DEF Moves
  <2>2. CASE i # Len(frames)
    <3>1. i \in 1..Len(frames) - 1
        BY <1>1, <2>2
    <3>2. frames'[i] = frames[i]
        BY <3>1 DEF Moves
    <3> QED
        BY <1>2, <3>2
  <2> QED
      BY <2>1, <2>2
<1>3. \A s \in pend' : Sought(frames, Live, s) => Sought(frames', Live', s)
    BY <1>1, <1>2 DEF Sought
<1> QED
    BY <1>3, StaysFound

\* The frames that stay are as they were, or one that seeks nothing is gone.
LEMMA LiveFinds ==
    ASSUME FrameInvariant, NoneStranded, UNCHANGED <<pending, killing>>, pend' \subseteq pend,
           Live' \in Nat, \A i \in 1..Live' : frames'[i] = frames[i],
           \A i \in Live' + 1..Live, s \in pend' : ~WillReach(frames[i], s)
    PROVE  NoneStranded'
<1>1. Live \in Nat
    BY StackFacts DEF Live
<1>2. ASSUME NEW s \in pend', NEW i \in 1..Live, WillReach(frames[i], s)
      PROVE  i \in 1..Live' /\ WillReach(frames'[i], s)
  <2>1. PICK m \in Nat : m = Live'
      OBVIOUS
  <2>2. i \in 1..m \/ i \in m + 1..Live
      BY <1>1
  <2>3. i \in 1..Live'
      BY <1>2, <2>1, <2>2
  <2> QED
      BY <1>2, <2>3
<1>3. \A s \in pend' : Sought(frames, Live, s) => Sought(frames', Live', s)
    BY <1>2 DEF Sought
<1> QED
    BY <1>3, StaysFound

\* A new loop looks at every signal.
LEMMA LoopFinds ==
    ASSUME unwinding' = 0, Len(frames') \in Nat, NEW i \in 1..Len(frames'),
           \A s \in pend' : WillReach(frames'[i], s)
    PROVE  NoneStranded'
<1>1. i \in 1..Live'
    BY DEF Live
<1>2. \A s \in pend' : Sought(frames', Live', s)
    BY <1>1 DEF Sought
<1> QED
    BY <1>2, Zenon DEF NoneStranded, Sought, Live

\* Signals that arrive, the other threads' kill, and a fork.
LEMMA ArrivalFinds ==
    ASSUME FrameInvariant, pending \in Nat, NoneStranded, NEW s \in Signals,
           \/ Send(s) \/ Catch(s) \/ CatchCroaks(s) \/ Terminate(s)
           \/ (s \in Virtual /\ KillChecks(s)) \/ KillCounts \/ KillFlags \/ Fork
    PROVE  NoneStranded'
<1>1. \A x \in pend : Found(x)
    BY FoundAll
<1>2. /\ killing \in [sig : Virtual \cup {NoSignal}, counted : BOOLEAN]
      /\ NoSignal \notin Signals /\ pend \subseteq Signals
    BY TypeFacts, SignalsAssumption, Zenon DEF FrameInvariant, Types
<1>3. ASSUME UNCHANGED <<frames, unwinding, pending>>,
             \A x \in pend' : x \in pend \/ killing' = [sig |-> x, counted |-> TRUE],
             \A x \in pend : killing # [sig |-> x, counted |-> TRUE]
      PROVE  NoneStranded'
  <2>1. \A x \in pend' : \/ pending' > 0 \/ Sought(frames', Live', x)
                         \/ killing' = [sig |-> x, counted |-> TRUE]
      BY <1>1, <1>3 DEF Found, Live
  <2> QED
      BY <2>1, Zenon DEF NoneStranded, Sought, Live
<1>4. CASE Send(s) \/ Terminate(s)
  <2>1. UNCHANGED <<pend, pending, killing, frames, unwinding>>
      BY <1>4, Zenon DEF Send, Terminate, perlvars
  <2>2. UNCHANGED Live
      BY <2>1 DEF Live
  <2> QED
      BY <2>1, <2>2, StaysFound
<1>5. CASE Catch(s) \/ CatchCroaks(s) \/ KillFlags
  <2>1. pending' = pending + 1 \/ pending' = 1
      BY <1>5, Zenon DEF Catch, CatchCroaks, KillFlags
  <2>2. pending' > 0
      BY <2>1
  <2> QED
      BY <2>2 DEF NoneStranded
<1>6. CASE s \in Virtual /\ KillChecks(s)
  <2>1. UNCHANGED <<pend, pending, frames, unwinding>> /\ killing.sig = NoSignal
      BY <1>6 DEF KillChecks, perlvars
  <2>2. \A x \in pend : killing # [sig |-> x, counted |-> TRUE]
      BY <1>2, <2>1
  <2> QED
      BY <1>3, <2>1, <2>2
<1>7. CASE KillCounts
  <2>1. /\ pend' = pend \cup {killing.sig} /\ UNCHANGED <<pending, frames, unwinding>>
        /\ ~killing.counted /\ killing' = [killing EXCEPT !.counted = TRUE]
      BY <1>7 DEF KillCounts
  <2>2. killing' = [sig |-> killing.sig, counted |-> TRUE]
      BY <1>2, <2>1
  <2>3. \A x \in pend : killing # [sig |-> x, counted |-> TRUE]
      BY <2>1
  <2> QED
      BY <1>3, <2>1, <2>2, <2>3
<1>8. CASE Fork
  <2>1. pend' = {}
      BY <1>8 DEF Fork, InChild
  <2> QED
      BY <2>1 DEF NoneStranded
<1> QED
    BY <1>4, <1>5, <1>6, <1>7, <1>8

\* An exception that passes a loop passes its handler, which may die only if
\* there is no signal behind it.
LEMMA ExceptionFinds ==
    ASSUME FrameInvariant, NoneStranded, Dying \subseteq {LastSignal},
           HandlerDies \/ UnwindLeave \/ UnwindFrame
    PROVE  NoneStranded'
<1>0. UNCHANGED <<pend, pending, killing>>
    BY Zenon DEF HandlerDies, UnwindLeave, UnwindFrame
<1>1. /\ Len(frames) \in Nat /\ unwinding \in 0..Len(frames) /\ pend \subseteq Signals
      /\ LastSignal \in Nat /\ \A s \in Signals : s \in Nat /\ s <= LastSignal
    BY StackFacts, TypeFacts
<1>2. CASE HandlerDies
  <2>1. PICK n \in 1..Len(frames) :
            /\ \A i \in Len(frames) - n + 1..Len(frames) :
                  frames[i].step = "run" => frames[i].sig \in Dying
            /\ unwinding' = n
      BY <1>2 DEF HandlerDies
  <2>2. UNCHANGED frames /\ unwinding = 0 /\ Top.step = "run"
      BY <1>2 DEF HandlerDies, On, At
  <2>3. Live' = Len(frames) - n /\ Live = Len(frames)
      BY <1>1, <2>1, <2>2 DEF Live
  <2>4. ASSUME NEW s \in Signals, NEW i \in Len(frames) - n + 1..Len(frames)
        PROVE  ~WillReach(frames[i], s)
    <3>1. i \in 1..Len(frames)
        BY <1>1
    <3>2. CASE frames[i].step = "run"
      <4>1. frames[i].sig = LastSignal
          BY <2>1, <3>2
      <4> QED
          BY <1>1, <3>2, <4>1 DEF WillReach
    <3>3. CASE frames[i].step # "run"
      <4>1. i # Len(frames)
          BY <2>2, <3>3, StackFacts
      <4>2. i + 1 \in 1..Len(frames) /\ i + 1 - 1 = i /\ i > 0
          BY <1>1, <3>1, <4>1
      <4>3. Stands(frames, i, frames[i + 1])
          BY <4>2, StackFacts
      <4> QED
          BY <3>3, <4>2, <4>3 DEF Stands, WillReach
    <3> QED
        BY <3>2, <3>3
  <2>5. \A i \in Live' + 1..Live, s \in pend' : ~WillReach(frames[i], s)
      BY <1>0, <1>1, <2>3, <2>4
  <2>6. Live' \in Nat /\ \A i \in 1..Live' : frames'[i] = frames[i]
      BY <1>1, <2>1, <2>2, <2>3
  <2> QED
      BY <1>0, <2>5, <2>6, LiveFinds
<1>3. CASE UnwindLeave \/ UnwindFrame
  <2>1. /\ Live' = Live /\ Live \in Nat
        /\ \A i \in 1..Live : frames'[i] = frames[i]
    <3>1. CASE UnwindLeave
      <4>1. unwinding > 0 /\ UNCHANGED unwinding
          BY <3>1, Zenon DEF UnwindLeave
      <4>2. \E g \in FrameSet : Moves(frames, frames', g)
          BY <3>1, GoingSteps DEF Goes
      <4> QED
          BY <1>1, <4>1, <4>2 DEF Live, Moves
    <3>2. CASE UnwindFrame
      <4>1. unwinding > 0 /\ unwinding' = unwinding - 1
          BY <3>2, Zenon DEF UnwindFrame
      <4>2. Drops(frames, frames')
          BY <3>2, UnblockShape
      <4> QED
          BY <1>1, <4>1, <4>2 DEF Live, Drops
    <3> QED
        BY <1>3, <3>1, <3>2
  <2>2. \A i \in Live' + 1..Live, s \in pend' : ~WillReach(frames[i], s)
      BY <2>1
  <2> QED
      BY <1>0, <2>1, <2>2, LiveFinds
<1> QED
    BY <1>2, <1>3

\* The despatch loop and the magic of %SIG.
LEMMA FrameFinds ==
    ASSUME FrameInvariant, NoneStranded,
           \/ AsyncCheck \/ Scan \/ Note \/ Call \/ HandlerReturns \/ Leave \/ Unblock
           \/ SetsigChecks \/ SetsigInstalls \/ SetsigEnds
           \/ \E i \in Signals, to \in Dispositions : SetsigBegins(i, to)
    PROVE  NoneStranded'
<1>0. unwinding = 0 /\ unwinding' = 0 /\ UNCHANGED killing /\ pend' \subseteq pend
  <2>1. AsyncCheck \/ (\E i \in Signals, to \in Dispositions : SetsigBegins(i, to)) => Running
      BY DEF AsyncCheck, SetsigBegins
  <2>2. unwinding = 0
      BY <2>1, RunningStands DEF Scan, Note, Call, HandlerReturns, Leave, Unblock, SetsigChecks,
                                 SetsigInstalls, SetsigEnds, On
  <2>3. UNCHANGED <<unwinding, killing>> /\ (UNCHANGED pend \/ pend' = pend \ {Top.sig})
      BY Zenon DEF AsyncCheck, Scan, Note, Call, HandlerReturns, Leave, Unblock, SetsigBegins,
                   SetsigChecks, SetsigInstalls, SetsigEnds
  <2> QED
      BY <2>2, <2>3
<1>1. /\ Len(frames) \in Nat /\ pend \subseteq Signals /\ Live = Len(frames)
      /\ \A s \in Signals : s \in Nat /\ s <= LastSignal
    BY <1>0, StackFacts, TypeFacts DEF Live
<1>2. CASE AsyncCheck
  <2>1. PICK d \in FrameSet : Pushes(frames, frames', d) /\ \A s \in pend : WillReach(d, s)
      BY <1>2, PushShape
  <2>2. Len(frames) + 1 \in 1..Len(frames') /\ Len(frames') \in Nat /\ frames'[Len(frames) + 1] = d
      BY <1>1, <2>1 DEF Pushes
  <2> QED
      BY <1>0, <2>1, <2>2, LoopFinds
<1>3. CASE SetsigChecks /\ pending # 0
  <2>1. PICK gs \in Seq(FrameSet), f \in FrameSet, d \in FrameSet :
            Moves(frames, gs, f) /\ Pushes(gs, frames', d) /\ \A s \in pend : WillReach(d, s)
      BY <1>3, PushShape
  <2>2. Len(frames) + 1 \in 1..Len(frames') /\ Len(frames') \in Nat /\ frames'[Len(frames) + 1] = d
      BY <1>1, <2>1 DEF Pushes, Moves
  <2> QED
      BY <1>0, <2>1, <2>2, LoopFinds
<1>4. ASSUME ~AsyncCheck, ~(SetsigChecks /\ pending # 0)
      PROVE  UNCHANGED pending
    BY <1>4, Zenon DEF Scan, Note, Call, HandlerReturns, Leave, Unblock, SetsigBegins,
                       SetsigChecks, SetsigInstalls, SetsigEnds
<1>5. ASSUME UNCHANGED pending, frames # <<>>, NEW step, Goes(step), Top.kind = "setsig"
      PROVE  NoneStranded'
  <2>1. PICK g : Moves(frames, frames', g)
      BY <1>5 DEF Goes
  <2>2. \A s : ~WillReach(Top, s)
      BY <1>5 DEF WillReach
  <2> QED
      BY <1>0, <1>5, <2>1, <2>2, MoveFinds
<1>6. ASSUME UNCHANGED pending, frames # <<>>, NEW step, Goes(step), Top.kind # "setsig",
             step \in {"run", "done", "leave"} =>
                 Top.step \in {"run", "done", "leave"} \/ Top.sig \notin pend'
      PROVE  NoneStranded'
  <2>1. PICK g \in FrameSet : /\ Moves(frames, frames', g)
                              /\ g.kind = Top.kind /\ g.sig = Top.sig /\ g.step = step
      BY <1>6 DEF Goes
  <2>2. Top.sig \in Int
      BY <1>6, TopFits, FrameFacts, SignalsAssumption
  <2>3. \A s \in pend' : WillReach(Top, s) => WillReach(g, s)
      BY <1>0, <1>1, <1>6, <2>1, <2>2 DEF WillReach
  <2> QED
      BY <1>0, <1>6, <2>1, <2>3, MoveFinds
<1>7. ASSUME UNCHANGED pending, frames # <<>>, Drops(frames, frames'),
             \A s \in pend : ~WillReach(Top, s)
      PROVE  NoneStranded'
  <2>1. /\ Live' = Len(frames) - 1 /\ Live' \in Nat /\ Top = frames[Len(frames)]
        /\ \A i \in 1..Live' : frames'[i] = frames[i]
      BY <1>0, <1>7, StackFacts DEF Live, Drops
  <2>2. \A i \in Live' + 1..Live : i = Len(frames)
      BY <1>1, <2>1
  <2>3. \A i \in Live' + 1..Live, s \in pend' : ~WillReach(frames[i], s)
      BY <1>0, <1>7, <2>1, <2>2
  <2> QED
      BY <1>0, <1>7, <2>1, <2>3, LiveFinds
<1>8. CASE Scan
  <2>1. UNCHANGED <<pend, pending>>
      BY <1>8 DEF Scan
  <2>2. CASE Top.sig > LastSignal
      BY <1>7, <1>8, <2>1, <2>2, ScanShape
  <2>3. CASE ~(Top.sig > LastSignal)
    <3>1. PICK f \in FrameSet : /\ Moves(frames, frames', f)
                                /\ \A s \in pend : WillReach(Top, s) => WillReach(f, s)
        BY <1>8, <2>3, ScanShape
    <3> QED
        BY <1>0, <1>8, <2>1, <3>1, ScanShape, MoveFinds
  <2> QED
      BY <2>2, <2>3
<1>9. CASE Note \/ HandlerReturns \/ Leave
  <2>1. UNCHANGED pending /\ frames # <<>>
      BY <1>9, GoingSteps, Zenon DEF Note, HandlerReturns, Leave
  <2>2. PICK step : Goes(step) /\ (step \in {"run", "done", "leave"} /\ Top.kind # "setsig"
                                      => Top.step \in {"run", "done", "leave"})
    <3>1. CASE Note
      <4>1. Top.kind # "despatch" => Top.kind = "setsig"
          BY <2>1, TopFits, FrameFacts
      <4> QED
          BY <3>1, <4>1, GoingSteps
    <3>2. CASE HandlerReturns \/ Leave
      <4>1. Top.step \in {"run", "done"}
          BY <3>2 DEF HandlerReturns, Leave, On, At
      <4> QED
          BY <3>2, <4>1, GoingSteps
    <3> QED
        BY <1>9, <3>1, <3>2
  <2> QED
      BY <1>5, <1>6, <2>1, <2>2
<1>10. CASE Call
  <2>1. UNCHANGED pending /\ frames # <<>> /\ Top.kind # "setsig" /\ pend' = pend \ {Top.sig}
      BY <1>10 DEF Call, On, At
  <2>2. CASE handler[Top.sig] = "null"
    <3>1. UNCHANGED frames
        BY <1>10, <2>2 DEF Call
    <3>2. UNCHANGED Live
        BY <1>0, <3>1 DEF Live
    <3> QED
        BY <1>0, <2>1, <3>1, <3>2, StaysFound
  <2>3. CASE handler[Top.sig] # "null"
      BY <1>6, <1>10, <2>1, <2>3, GoingSteps
  <2> QED
      BY <2>2, <2>3
<1>11. CASE Unblock
  <2>1. UNCHANGED <<pend, pending>>
      BY <1>11, Zenon DEF Unblock
  <2>2. CASE Top.kind = "despatch"
    <3>1. PICK f \in FrameSet : /\ Moves(frames, frames', f)
                                /\ \A s \in pend : WillReach(Top, s) => WillReach(f, s)
        BY <1>11, <2>2, UnblockShape
    <3> QED
        BY <1>0, <1>11, <2>1, <3>1, UnblockShape, MoveFinds
  <2>3. CASE Top.kind # "despatch"
    <3>1. \A s \in pend : ~WillReach(Top, s)
        BY <2>3 DEF WillReach
    <3> QED
        BY <1>7, <1>11, <2>1, <2>3, <3>1, UnblockShape
  <2> QED
      BY <2>2, <2>3
<1>12. CASE (SetsigChecks /\ pending = 0) \/ SetsigInstalls \/ SetsigEnds
  <2>1. UNCHANGED pending /\ Top.kind = "setsig"
      BY <1>12 DEF SetsigChecks, SetsigInstalls, SetsigEnds, On
  <2> QED
      BY <1>5, <1>12, <2>1, GoingSteps
<1>13. ASSUME NEW i \in Signals, NEW to \in Dispositions, SetsigBegins(i, to)
       PROVE  NoneStranded'
  <2>1. PICK f \in FrameSet : Pushes(frames, frames', f)
      BY <1>13, PushShape
  <2>2. UNCHANGED <<pending, pend>>
      BY <1>13 DEF SetsigBegins
  <2>3. Live' = Live + 1 /\ \A j \in 1..Live : frames'[j] = frames[j]
      BY <1>0, <1>1, <2>1 DEF Live, Pushes
  <2>4. \A s \in pend' : Sought(frames, Live, s) => Sought(frames', Live', s)
    <3>1. 1..Live \subseteq 1..Live'
        BY <1>1, <2>3
    <3> QED
        BY <2>3, <3>1 DEF Sought
  <2> QED
      BY <1>0, <2>2, <2>4, StaysFound
<1> QED
    BY <1>2, <1>3, <1>8, <1>9, <1>10, <1>11, <1>12, <1>13

\* mg.c: as long as no handler dies in front of a signal still to come, every
\* signal with PL_psig_pend set will be looked at, by a loop under way, by the
\* next safe point, or when the thread that sends it sets PL_sig_pending.
THEOREM NoSignalStranded ==
    ASSUME Dying \subseteq {LastSignal}
    PROVE  Spec => []NoneStranded
<1>1. Init => NoneStranded
    BY DEF Init, NoneStranded
<1>2. SignalInvariant /\ NoneStranded /\ [Next]_vars => NoneStranded'
  <2> SUFFICES ASSUME SignalInvariant, NoneStranded, [Next]_vars PROVE NoneStranded'
      OBVIOUS
  <2>0. FrameInvariant /\ pending \in Nat /\ 1 \in Signals /\ Virtual \subseteq Signals
      BY SignalsAssumption DEF SignalInvariant, Counted, Signals
  <2>1. CASE Interpret
      BY <2>0, <2>1, FrameFinds, ExceptionFinds DEF Interpret
  <2>2. CASE Program
      BY <2>0, <2>2, FrameFinds, ExceptionFinds, ArrivalFinds DEF Program
  <2>3. CASE Interrupt
      BY <2>0, <2>3, ArrivalFinds DEF Interrupt
  <2>4. CASE Kill
      BY <2>0, <2>4, ArrivalFinds DEF Kill
  <2>5. CASE UNCHANGED vars
    <3>1. UNCHANGED <<pend, pending, killing, frames, unwinding>>
        BY <2>5, Zenon DEF vars, perlvars
    <3>2. UNCHANGED Live
        BY <3>1 DEF Live
    <3> QED
        BY <3>1, <3>2, StaysFound
  <2> QED
      BY <2>1, <2>2, <2>3, <2>4, <2>5 DEF Next
<1> QED
    BY <1>1, <1>2, SignalInvariantHolds, PTL DEF Spec

-----------------------------------------------------------------------------
(* HandlerFound, when only the last handler may die and none is cleared in *)
(* front of a loop                                                         *)

\* The innermost loop of the first n frames will still look at s; an assignment
\* to %SIG stands on top of it at most.
Looks(fs, n, s) ==
    n > 0 /\ IF fs[n].kind = "despatch" THEN WillReach(fs[n], s)
             ELSE n > 1 /\ WillReach(fs[n - 1], s)

\* The kth of n frames may take the handler of its signal away: no loop below
\* looks at it again, and once the check for signals is over a flag that it has
\* is for the loop which that check began.
Clears(fs, n, k, flags) ==
    fs[k].kind = "setsig" /\ fs[k].to # "code" =>
        /\ fs[k].sig \notin Virtual
        /\ k > 1 => fs[k].sig <= fs[k - 1].sig
        /\ fs[k].step \notin {"blocked", "check"} /\ fs[k].sig \in flags
               => k < n /\ WillReach(fs[k + 1], fs[k].sig)

InLoop == pending = 0 => \A s \in pend \ Virtual : Looks(frames, Live, s)
ClearsAll == \A k \in 1..Live : Clears(frames, Live, k, pend)

\* The system catches a signal only if it has a handler, but for the moment
\* between PL_psig_ptr and rsignal.
OsAgrees ==
    /\ frames # <<>> /\ Top.step = "rsignal" =>
           unwinding = 0 /\ (Top.to = "code" <=> handler[Top.sig] = "code")
    /\ \A s \in Signals : handler[s] # "code" /\ os[s] = "catch" =>
          frames # <<>> /\ Top.step = "rsignal" /\ Top.sig = s

FlagsHandled == \A s \in pend \cup Virtual : handler[s] = "code"

HandlerInvariant == stuck = {} => InLoop /\ ClearsAll /\ OsAgrees /\ FlagsHandled

LEMMA ClearsKept ==
    ASSUME NEW fs, NEW gs, NEW n, NEW m, NEW k \in Nat \ {0},
           gs[k] = fs[k], k > 1 => gs[k - 1] = fs[k - 1],
           k < n => k < m /\ gs[k + 1] = fs[k + 1],
           NEW flags, NEW flag, Clears(fs, n, k, flags),
           fs[k].kind = "setsig" /\ fs[k].sig \in flag /\ fs[k].sig \notin Virtual
              => fs[k].sig \in flags
    PROVE  Clears(gs, m, k, flag)
BY DEF Clears

\* Away from rsignal what the system catches is what has a handler.
LEMMA OsSame ==
    ASSUME OsAgrees, UNCHANGED <<os, handler>>,
           frames # <<>> => Top.step # "rsignal", frames' # <<>> => Top'.step # "rsignal"
    PROVE  OsAgrees'
BY DEF OsAgrees

LEMMA FlagsSame ==
    ASSUME FlagsHandled, UNCHANGED handler, pend' \subseteq pend
    PROVE  FlagsHandled'
BY DEF FlagsHandled

\* The innermost frame goes on: a loop that still looks at what is flagged, or
\* an assignment, whose check for signals is over when there is none pending.
LEMMA FrameMoved ==
    ASSUME FrameInvariant, InLoop, ClearsAll, unwinding = 0, unwinding' = 0, frames # <<>>,
           NEW g \in FrameSet, Moves(frames, frames', g), g.kind = Top.kind,
           pend' \subseteq pend, UNCHANGED pending,
           Top.kind = "despatch" => \A s \in pend' : WillReach(Top, s) => WillReach(g, s),
           Top.kind = "setsig" =>
               /\ g.sig = Top.sig /\ g.to = Top.to
               /\ Top.step \in {"blocked", "check"} /\ g.step \notin {"blocked", "check"}
                     => pending = 0
    PROVE  InLoop' /\ ClearsAll'
<1> DEFINE n == Len(frames)
<1>1. /\ n \in Nat \ {0} /\ Top = frames[n] /\ Live = n /\ Live' = n
      /\ Top \in FrameSet /\ Stands(frames, n - 1, Top)
    BY StackFacts DEF Live, Moves
<1>2. frames'[n] = g /\ \A i \in 1..n - 1 : frames'[i] = frames[i]
    BY DEF Moves
<1>3. n > 1 => n - 1 \in 1..n - 1 /\ frames'[n - 1] = frames[n - 1] /\ frames[n - 1] \in FrameSet
    BY <1>1, <1>2, StackFacts
<1>4. Top.kind = "setsig" /\ n > 1 => frames[n - 1].kind = "despatch" /\ frames[n - 1].step = "run"
    BY <1>1 DEF Stands
<1>5. Top.kind \in {"despatch", "setsig"}
    BY <1>1, FrameFacts
<1>6. \A s \in pend' : Looks(frames, n, s) => Looks(frames', n, s)
    BY <1>1, <1>2, <1>3, <1>5 DEF Looks
<1>7. InLoop'
    BY <1>1, <1>6 DEF InLoop
<1>8. Clears(frames', n, n, pend')
  <2> SUFFICES ASSUME Top.kind = "setsig", Top.to # "code"
               PROVE  Clears(frames', n, n, pend')
      BY <1>1, <1>2, <1>5 DEF Clears
  <2>1. Clears(frames, n, n, pend)
      BY <1>1 DEF ClearsAll
  <2>2. Top.sig \notin Virtual /\ (n > 1 => Top.sig <= frames[n - 1].sig)
      BY <1>1, <2>1 DEF Clears
  <2>3. ASSUME g.step \notin {"blocked", "check"}, Top.sig \in pend PROVE FALSE
    <3>1. CASE Top.step \notin {"blocked", "check"}
      <4>1. n < n
          BY <1>1, <2>1, <2>3, <3>1 DEF Clears
      <4> QED
          BY <1>1, <4>1
    <3>2. CASE Top.step \in {"blocked", "check"}
      <4>1. Looks(frames, n, Top.sig)
          BY <1>1, <2>2, <2>3, <3>2 DEF InLoop
      <4>2. n > 1 /\ frames[n - 1].sig < Top.sig
          BY <1>1, <1>4, <4>1 DEF Looks, WillReach
      <4>3. frames[n - 1].sig \in Int /\ Top.sig \in Int
          BY <1>1, <1>3, <4>2, FrameFacts, SignalsAssumption
      <4> QED
          BY <2>2, <4>2, <4>3
    <3> QED
        BY <3>1, <3>2
  <2> QED
      BY <1>1, <1>2, <1>3, <2>2, <2>3 DEF Clears
<1>9. ASSUME NEW k \in 1..n, k # n PROVE Clears(frames', n, k, pend')
  <2>1. /\ k \in Nat \ {0} /\ frames'[k] = frames[k] /\ Clears(frames, n, k, pend)
        /\ k > 1 => frames'[k - 1] = frames[k - 1]
    <3>1. k \in 1..n - 1 /\ (k > 1 => k - 1 \in 1..n - 1)
        BY <1>1, <1>9
    <3> QED
        BY <1>1, <1>2, <3>1 DEF ClearsAll
  <2>2. CASE k = n - 1
    <3>1. frames[k + 1] = Top /\ frames'[k + 1] = g /\ k < n
        BY <1>1, <1>2, <2>2
    <3>2. frames[k].kind = "setsig" => Top.kind = "despatch"
        BY <1>1, <1>4, <1>5, <1>9, <2>2
    <3> QED
        BY <2>1, <3>1, <3>2 DEF Clears
  <2>3. CASE k # n - 1
    <3>1. k < n => frames'[k + 1] = frames[k + 1]
      <4>1. k + 1 \in 1..n - 1
          BY <1>1, <1>9, <2>3
      <4> QED
          BY <1>2, <4>1
    <3> QED
        BY <2>1, <3>1, ClearsKept
  <2> QED
      BY <2>2, <2>3
<1>10. ClearsAll'
    BY <1>1, <1>8, <1>9 DEF ClearsAll
<1> QED
    BY <1>7, <1>10

\* The innermost frame is gone, and was no loop that would still look.
LEMMA FrameGone ==
    ASSUME FrameInvariant, InLoop, ClearsAll, unwinding = 0, unwinding' = 0, frames # <<>>,
           Drops(frames, frames'), UNCHANGED <<pend, pending>>,
           Top.kind = "despatch" => \A s \in pend : ~WillReach(Top, s)
    PROVE  InLoop' /\ ClearsAll'
<1> DEFINE n == Len(frames)
<1>1. /\ n \in Nat \ {0} /\ Top = frames[n] /\ Live = n /\ Live' = n - 1
      /\ \A i \in 1..n - 1 : frames'[i] = frames[i]
    BY StackFacts DEF Live, Drops
<1>2. InLoop'
  <2> SUFFICES ASSUME pending = 0, NEW s \in pend \ Virtual
               PROVE  Looks(frames', n - 1, s)
      BY <1>1 DEF InLoop
  <2>1. Looks(frames, n, s)
      BY <1>1 DEF InLoop
  <2>2. Top.kind # "despatch" /\ n > 1 /\ WillReach(frames[n - 1], s)
      BY <1>1, <2>1 DEF Looks
  <2>3. n - 1 \in 1..n - 1 /\ n - 1 > 0 /\ frames'[n - 1] = frames[n - 1]
      BY <1>1, <2>2
  <2> QED
      BY <2>2, <2>3 DEF Looks, WillReach
<1>3. ASSUME NEW k \in 1..n - 1
      PROVE  Clears(frames', n - 1, k, pend)
  <2>1. /\ Clears(frames, n, k, pend) /\ k \in Nat \ {0} /\ frames'[k] = frames[k]
        /\ k > 1 => frames'[k - 1] = frames[k - 1]
    <3>1. k \in 1..n /\ (k > 1 => k - 1 \in 1..n - 1)
        BY <1>1
    <3> QED
        BY <1>1, <3>1 DEF ClearsAll
  <2>2. CASE k = n - 1
    <3>1. frames[k + 1] = Top
        BY <1>1, <2>2
    <3>2. frames[k].sig \in pend => ~WillReach(Top, frames[k].sig)
        BY DEF WillReach
    <3> QED
        BY <2>1, <3>1, <3>2 DEF Clears
  <2>3. CASE k # n - 1
    <3>1. k + 1 \in 1..n - 1 /\ k < n - 1
        BY <1>1, <2>3
    <3>2. frames'[k + 1] = frames[k + 1]
        BY <1>1, <3>1
    <3> QED
        BY <2>1, <3>1, <3>2 DEF Clears
  <2> QED
      BY <2>2, <2>3
<1>4. ClearsAll'
    BY <1>1, <1>3 DEF ClearsAll
<1> QED
    BY <1>2, <1>4

\* A frame is pushed: a new loop, or the start of an assignment.
LEMMA FramePushed ==
    ASSUME FrameInvariant, InLoop, ClearsAll, Running, unwinding' = 0,
           NEW f \in FrameSet, Pushes(frames, frames', f), UNCHANGED pend,
           \/ f.kind = "despatch" /\ f.step = "scan" /\ \A s \in pend : WillReach(f, s)
           \/ /\ f.kind = "setsig" /\ f.step = "blocked" /\ UNCHANGED pending
              /\ f.to # "code" => f.sig \notin Virtual /\ (frames # <<>> => f.sig <= Top.sig)
    PROVE  InLoop' /\ ClearsAll'
<1> DEFINE n == Len(frames)
<1>1. /\ n \in Nat /\ (frames # <<>> <=> n > 0) /\ Top = frames[n] /\ Live = n /\ Live' = n + 1
      /\ frames'[n + 1] = f /\ \A i \in 1..n : frames'[i] = frames[i]
    BY StackFacts, RunningStands DEF Live, Pushes
<1>2. n > 0 => frames[n].kind = "despatch" /\ frames[n].step = "run" /\ frames'[n] = frames[n]
    BY <1>1 DEF Running, On, At
<1>3. InLoop'
  <2> SUFFICES ASSUME pending' = 0, NEW s \in pend \ Virtual
               PROVE  Looks(frames', n + 1, s)
      BY <1>1 DEF InLoop
  <2>1. CASE f.kind = "despatch"
      BY <1>1, <2>1 DEF Looks
  <2>2. CASE f.kind = "setsig"
    <3>1. n > 0 /\ WillReach(frames[n], s)
        BY <1>1, <1>2, <2>2 DEF InLoop, Looks
    <3> QED
        BY <1>1, <1>2, <2>2, <3>1 DEF Looks
  <2> QED
      BY <2>1, <2>2
<1>4. ASSUME NEW k \in 1..n + 1
      PROVE  Clears(frames', n + 1, k, pend)
  <2>1. CASE k = n + 1
    <3>1. frames'[k] = f /\ (k > 1 => frames'[k - 1] = Top /\ frames # <<>>)
        BY <1>1, <2>1
    <3> QED
        BY <3>1 DEF Clears
  <2>2. CASE k # n + 1
    <3>1. /\ k \in 1..n /\ k \in Nat \ {0} /\ frames'[k] = frames[k] /\ (k > 1 => k - 1 \in 1..n)
          /\ (k < n => k + 1 \in 1..n /\ k < n + 1)
        BY <1>1, <2>2
    <3>2. Clears(frames, n, k, pend)
        BY <1>1, <3>1 DEF ClearsAll
    <3>3. /\ k > 1 => frames'[k - 1] = frames[k - 1]
          /\ k < n => k < n + 1 /\ frames'[k + 1] = frames[k + 1]
        BY <1>1, <3>1
    <3> QED
        BY <3>1, <3>2, <3>3, ClearsKept
  <2> QED
      BY <2>1, <2>2
<1>5. ClearsAll'
    BY <1>1, <1>4 DEF ClearsAll
<1> QED
    BY <1>3, <1>5

\* The frames stay, and so do the handlers; a flag is raised only for a signal
\* that is not blocked or that another thread sent.
LEMMA HandlersArrival ==
    ASSUME FrameInvariant, pending \in Nat, HandlerInvariant, NEW s \in Signals,
           \/ Send(s) \/ Catch(s) \/ Terminate(s) \/ (s \in Virtual /\ KillChecks(s))
           \/ KillCounts \/ KillFlags \/ Fork
    PROVE  HandlerInvariant'
<1>1. UNCHANGED <<frames, unwinding, stuck, os, handler>>
    BY DEF Send, Catch, Terminate, KillChecks, KillCounts, KillFlags, Fork, perlvars, osvars, masks
<1>2. UNCHANGED Live
    BY <1>1 DEF Live
<1> SUFFICES ASSUME stuck = {} PROVE InLoop' /\ ClearsAll' /\ OsAgrees' /\ FlagsHandled'
    BY <1>1 DEF HandlerInvariant
<1> USE DEF HandlerInvariant
<1>3. OsAgrees'
    BY <1>1 DEF OsAgrees, Top
<1>4. ASSUME \A x \in pend' : x \in pend \/ x \in Virtual \/ (x \notin mask /\ handler[x] = "code"),
             pending' = 0 => pending = 0 /\ pend' \subseteq pend \cup Virtual
      PROVE  InLoop' /\ ClearsAll' /\ FlagsHandled'
  <2>1. InLoop'
      BY <1>1, <1>2, <1>4 DEF InLoop
  <2>2. ASSUME NEW k \in 1..Live
        PROVE  Clears(frames, Live, k, pend')
    <3>1. Clears(frames, Live, k, pend) /\ k \in 1..Len(frames) /\ k \in Nat \ {0}
        BY StackFacts DEF ClearsAll, Live
    <3>2. frames[k].kind = "setsig" => frames[k].sig \in mask
      <4>1. frames[k].kind = "setsig" => frames[k].step # "scan"
          BY <3>1, StackFacts, FrameFacts DEF SetSteps
      <4> QED
          BY <3>1, <4>1, StackFacts
    <3>3. frames[k].kind = "setsig" /\ frames[k].sig \in pend' /\ frames[k].sig \notin Virtual
              => frames[k].sig \in pend
        BY <1>4, <3>2
    <3> QED
        BY <3>1, <3>3, ClearsKept
  <2>3. ClearsAll'
      BY <1>1, <1>2, <2>2 DEF ClearsAll
  <2>4. FlagsHandled'
      BY <1>1, <1>4 DEF FlagsHandled
  <2> QED
      BY <2>1, <2>3, <2>4
<1>5. CASE Send(s) \/ Terminate(s) \/ KillChecks(s)
  <2>1. UNCHANGED <<pend, pending>>
      BY <1>5, Zenon DEF Send, Terminate, KillChecks, perlvars
  <2> QED
      BY <1>3, <1>4, <2>1
<1>6. CASE Catch(s)
  <2>1. pend' = pend \cup {s} /\ pending' = pending + 1 /\ s \notin mask /\ os[s] = "catch"
      BY <1>6 DEF Catch, Deliverable
  <2>2. handler[s] = "code"
    <3>1. frames # <<>> /\ Top.step = "rsignal" /\ Top.sig = s => s \in mask
        BY StackFacts
    <3> QED
        BY <2>1, <3>1 DEF OsAgrees
  <2>3. pending' # 0
      BY <2>1
  <2> QED
      BY <1>3, <1>4, <2>1, <2>2, <2>3
<1>7. CASE KillCounts
  <2>1. pend' = pend \cup {killing.sig} /\ UNCHANGED pending /\ killing.counted = FALSE
      BY <1>7 DEF KillCounts, FrameInvariant, Types
  <2>2. killing.sig \in Virtual
      BY <1>7 DEF KillCounts, FrameInvariant, Types
  <2> QED
      BY <1>3, <1>4, <2>1, <2>2
<1>8. CASE KillFlags
  <2>1. UNCHANGED pend /\ pending' = 1
      BY <1>8 DEF KillFlags
  <2> QED
      BY <1>3, <1>4, <2>1
<1>9. CASE Fork
  <2>1. pend' = {}
      BY <1>9 DEF Fork, InChild
  <2>2. InLoop' /\ FlagsHandled'
      BY <1>1, <2>1 DEF InLoop, FlagsHandled
  <2>3. \A k \in 1..Live : Clears(frames, Live, k, {})
      BY DEF ClearsAll, Clears
  <2>4. ClearsAll'
      BY <1>1, <1>2, <2>1, <2>3 DEF ClearsAll
  <2> QED
      BY <1>3, <2>2, <2>4
<1> QED
    BY <1>5, <1>6, <1>7, <1>8, <1>9

\* The despatch loop, and what Perl code does in it.
LEMMA HandlersDespatch ==
    ASSUME FrameInvariant, HandlerInvariant,
           AsyncCheck \/ Scan \/ Note \/ Call \/ HandlerReturns \/ Leave \/ Unblock
    PROVE  HandlerInvariant'
<1>1. UNCHANGED <<stuck, os, handler, unwinding>> /\ (UNCHANGED pend \/ pend' = pend \ {Top.sig})
    BY DEF AsyncCheck, Scan, Note, Call, HandlerReturns, Leave, Unblock, osvars, masks
<1>2. unwinding = 0 /\ unwinding' = 0 /\ pend' \subseteq pend
    BY <1>1, RunningStands DEF AsyncCheck, Scan, Note, Call, HandlerReturns, Leave, Unblock, On
<1> SUFFICES ASSUME stuck = {} PROVE HandlerInvariant'
    BY <1>1 DEF HandlerInvariant
<1>3. InLoop /\ ClearsAll /\ OsAgrees /\ FlagsHandled
    BY DEF HandlerInvariant
<1>4. FlagsHandled'
    BY <1>1, <1>2, <1>3, FlagsSame
<1>5. pend \subseteq Signals /\ \A s \in Signals : s \in Nat
    BY TypeFacts
<1>6. ASSUME InLoop' /\ ClearsAll', frames # <<>> => Top.step # "rsignal",
             frames' # <<>> => Top'.step # "rsignal"
      PROVE  HandlerInvariant'
    BY <1>1, <1>3, <1>4, <1>6, OsSame DEF HandlerInvariant
<1>7. ASSUME frames # <<>>, Top.step # "rsignal", UNCHANGED pending,
             NEW g \in FrameSet, Moves(frames, frames', g), g.kind = Top.kind, g.step # "rsignal",
             Top.kind = "despatch" => \A s \in pend' : WillReach(Top, s) => WillReach(g, s),
             Top.kind = "setsig" =>
                 /\ g.sig = Top.sig /\ g.to = Top.to
                 /\ Top.step \in {"blocked", "check"} => g.step \in {"blocked", "check"}
      PROVE  HandlerInvariant'
  <2>1. InLoop' /\ ClearsAll'
      BY <1>2, <1>3, <1>7, FrameMoved
  <2>2. Top' = g
      BY <1>7, NextTop DEF Moves
  <2> QED
      BY <1>6, <1>7, <2>1, <2>2
<1>8. ASSUME frames # <<>>, Top.step # "rsignal", UNCHANGED <<pend, pending>>,
             Drops(frames, frames'), Top.kind = "despatch" => \A s \in pend : ~WillReach(Top, s)
      PROVE  HandlerInvariant'
  <2>1. InLoop' /\ ClearsAll'
      BY <1>2, <1>3, <1>8, FrameGone
  <2>2. frames' # <<>> => Top'.step # "rsignal"
      BY <1>8, DropsTo
  <2> QED
      BY <1>6, <1>8, <2>1, <2>2
<1>9. ASSUME frames # <<>>, Top.step # "rsignal", UNCHANGED pending, NEW step, Goes(step),
             step \in {"call", "check", "run", "done", "leave"},
             Top.kind = "despatch" /\ step \in {"run", "done", "leave"} =>
                 Top.step \in {"run", "done", "leave"} \/ Top.sig \notin pend',
             Top.kind = "setsig" /\ Top.step \in {"blocked", "check"} => step = "check"
      PROVE  HandlerInvariant'
  <2>1. PICK g \in FrameSet : /\ Moves(frames, frames', g)
                              /\ g.kind = Top.kind /\ g.sig = Top.sig /\ g.step = step
                              /\ Top.kind = "setsig" => g.to = Top.to
      BY <1>9 DEF Goes
  <2>2. Top.sig \in Int
      BY <1>9, TopFits, FrameFacts, SignalsAssumption
  <2>3. Top.kind = "despatch" => \A s \in pend' : WillReach(Top, s) => WillReach(g, s)
      BY <1>2, <1>5, <1>9, <2>1, <2>2 DEF WillReach
  <2> QED
      BY <1>7, <1>9, <2>1, <2>3
<1>10. CASE AsyncCheck
  <2>1. PICK d \in FrameSet : /\ d.kind = "despatch" /\ d.step = "scan"
                              /\ Pushes(frames, frames', d) /\ \A s \in pend : WillReach(d, s)
      BY <1>10, PushShape
  <2>2. Running /\ UNCHANGED pend
      BY <1>10 DEF AsyncCheck
  <2>3. InLoop' /\ ClearsAll'
      BY <1>2, <1>3, <2>1, <2>2, FramePushed
  <2>4. Top' = d
      BY <2>1, NextTop DEF Pushes
  <2>5. frames # <<>> => Top.step # "rsignal"
      BY <2>2 DEF Running, On, At
  <2> QED
      BY <1>6, <2>1, <2>3, <2>4, <2>5
<1>11. CASE Scan
  <2>1. Top.step = "scan" /\ UNCHANGED <<pend, pending>>
      BY <1>11 DEF Scan, On, At
  <2>2. CASE Top.sig > LastSignal
      BY <1>8, <1>11, <2>1, <2>2, ScanShape
  <2>3. CASE ~(Top.sig > LastSignal)
      BY <1>7, <1>11, <2>1, <2>3, ScanShape
  <2> QED
      BY <2>2, <2>3
<1>12. CASE Note
  <2>1. UNCHANGED pending /\ frames # <<>> /\ Top.step = "blocked"
      BY <1>12, GoingSteps DEF Note
  <2>2. Top.kind \in {"despatch", "setsig"}
      BY <2>1, TopFits, FrameFacts
  <2>3. Goes(IF Top.kind = "despatch" THEN "call" ELSE "check")
      BY <1>12, GoingSteps
  <2> QED
      BY <1>9, <2>1, <2>2, <2>3
<1>13. CASE Call
  <2>1. /\ UNCHANGED pending /\ frames # <<>> /\ Top.kind = "despatch" /\ Top.step = "call"
        /\ pend' = pend \ {Top.sig}
      BY <1>13 DEF Call, On, At
  <2>2. CASE handler[Top.sig] = "null"
    <3>1. UNCHANGED frames
        BY <1>13, <2>2 DEF Call
    <3>2. UNCHANGED <<Live, Top>>
        BY <1>1, <3>1 DEF Live, Top
    <3>3. InLoop'
        BY <1>3, <2>1, <3>1, <3>2 DEF InLoop
    <3>4. \A k \in 1..Live : Clears(frames, Live, k, pend')
        BY <1>3, <2>1 DEF ClearsAll, Clears
    <3>5. ClearsAll'
        BY <3>1, <3>2, <3>4 DEF ClearsAll
    <3> QED
        BY <1>6, <2>1, <3>2, <3>3, <3>5
  <2>3. CASE handler[Top.sig] # "null"
      BY <1>9, <1>13, <2>1, <2>3, GoingSteps
  <2> QED
      BY <2>2, <2>3
<1>14. CASE HandlerReturns \/ Leave
  <2>1. UNCHANGED pending /\ frames # <<>> /\ Top.step \in {"run", "done"}
      BY <1>14 DEF HandlerReturns, Leave, On, At
  <2>2. PICK step \in {"done", "leave"} : Goes(step)
      BY <1>14, GoingSteps
  <2> QED
      BY <1>9, <2>1, <2>2
<1>15. CASE Unblock
  <2>1. Top.step = "leave" /\ UNCHANGED <<pend, pending>>
      BY <1>15 DEF Unblock, At
  <2>2. CASE Top.kind = "despatch"
      BY <1>7, <1>15, <2>1, <2>2, UnblockShape
  <2>3. CASE Top.kind # "despatch"
      BY <1>8, <1>15, <2>1, <2>3, UnblockShape
  <2> QED
      BY <2>2, <2>3
<1> QED
    BY <1>10, <1>11, <1>12, <1>13, <1>14, <1>15

\* A handler that dies leaves nothing for its loop, and unwinding changes no
\* frame that stays.
LEMMA HandlersException ==
    ASSUME FrameInvariant, HandlerInvariant, Dying \subseteq {LastSignal}, NEW c \in Signals,
           HandlerDies \/ CatchCroaks(c) \/ UnwindLeave \/ UnwindFrame
    PROVE  HandlerInvariant'
<1>0. /\ Len(frames) \in Nat /\ unwinding \in 0..Len(frames) /\ Live = Len(frames) - unwinding
      /\ (frames # <<>> <=> Len(frames) > 0) /\ Top = frames[Len(frames)]
      /\ unwinding # 0 => Catches(unwinding)
    BY StackFacts DEF Live
<1>1. CASE CatchCroaks(c)
  <2>1. stuck' # {}
      BY <1>1 DEF CatchCroaks
  <2> QED
      BY <2>1 DEF HandlerInvariant
<1>2. ASSUME ~CatchCroaks(c)
      PROVE  UNCHANGED <<os, stuck, handler, pend, pending>>
    BY <1>2 DEF HandlerDies, UnwindLeave, UnwindFrame, osvars, masks
<1>3. CASE HandlerDies
  <2> SUFFICES ASSUME stuck = {}, ~CatchCroaks(c)
               PROVE  InLoop' /\ ClearsAll' /\ OsAgrees' /\ FlagsHandled'
      BY <1>1, <1>2 DEF HandlerInvariant
  <2>1. InLoop /\ ClearsAll /\ OsAgrees /\ FlagsHandled
      BY DEF HandlerInvariant
  <2>2. PICK d \in 1..Len(frames) :
            /\ Catches(d) /\ unwinding' = d
            /\ \A i \in Len(frames) - d + 1..Len(frames) :
                  frames[i].step = "run" => frames[i].sig \in Dying
      BY <1>3 DEF HandlerDies
  <2>3. PICK m : m = Len(frames) - d
      OBVIOUS
  <2>4. /\ UNCHANGED frames /\ Live = Len(frames) /\ Live' = m /\ m \in 0..Len(frames) - 1
        /\ Top.kind = "despatch" /\ Top.step = "run" /\ unwinding = 0
        /\ m > 0 => frames[m].step = "run"
      BY <1>0, <1>3, <2>2, <2>3 DEF HandlerDies, On, At, Live, Catches
  <2>5. Top.sig = LastSignal
    <3>1. Len(frames) \in Len(frames) - d + 1..Len(frames)
        BY <1>0, <2>2
    <3> QED
        BY <1>0, <2>2, <2>4, <3>1
  <2>6. InLoop'
    <3>1. \A s \in Signals : ~WillReach(Top, s)
        BY <2>4, <2>5, TypeFacts DEF WillReach
    <3>2. pending = 0 => pend \ Virtual = {}
        BY <1>0, <2>1, <2>4, <3>1, TypeFacts DEF InLoop, Looks
    <3> QED
        BY <1>2, <3>2 DEF InLoop
  <2>7. ASSUME NEW k \in 1..m
        PROVE  Clears(frames, m, k, pend)
    <3>1. k \in 1..Live /\ k \in Nat \ {0} /\ frames[k] \in FrameSet
        BY <1>0, <2>4, StackFacts
    <3>2. Clears(frames, Live, k, pend)
        BY <2>1, <3>1 DEF ClearsAll
    <3>3. CASE k = m
      <4>1. frames[k].kind # "setsig"
          BY <2>4, <3>1, <3>3, FrameFacts DEF SetSteps
      <4> QED
          BY <4>1 DEF Clears
    <3>4. CASE k # m
      <4>1. k < m
          BY <2>4, <3>4
      <4> QED
          BY <3>2, <4>1 DEF Clears
    <3> QED
        BY <3>3, <3>4
  <2>8. ClearsAll'
      BY <1>2, <2>4, <2>7 DEF ClearsAll
  <2>9. UNCHANGED Top
      BY <2>4 DEF Top
  <2> QED
      BY <1>2, <2>1, <2>4, <2>6, <2>8, <2>9, OsSame, FlagsSame
<1>4. CASE UnwindLeave \/ UnwindFrame
  <2> SUFFICES ASSUME stuck = {}, ~CatchCroaks(c)
               PROVE  InLoop' /\ ClearsAll' /\ OsAgrees' /\ FlagsHandled'
      BY <1>1, <1>2 DEF HandlerInvariant
  <2>1. InLoop /\ ClearsAll /\ OsAgrees /\ FlagsHandled
      BY DEF HandlerInvariant
  <2>2. unwinding > 0 /\ unwinding \in Nat /\ frames # <<>>
      BY <1>0, <1>4 DEF UnwindLeave, UnwindFrame, At
  <2>3. Top.step # "rsignal"
      BY <2>1, <2>2 DEF OsAgrees
  <2>4. /\ Live' = Live /\ \A i \in 1..Live : frames'[i] = frames[i]
        /\ frames' # <<>> => Top'.step # "rsignal"
    <3>1. CASE UnwindLeave
      <4>1. UNCHANGED unwinding
          BY <3>1, Zenon DEF UnwindLeave
      <4>2. PICK g \in FrameSet : Moves(frames, frames', g) /\ g.step = "leave"
          BY <3>1, GoingSteps DEF Goes
      <4>3. Top' = g /\ Len(frames') = Len(frames)
          BY <1>0, <4>2, NextTop DEF Moves
      <4>4. \A i \in 1..Live : i \in 1..Len(frames) - 1
          BY <1>0, <2>2
      <4> QED
          BY <1>0, <4>1, <4>2, <4>3, <4>4 DEF Live, Moves
    <3>2. CASE UnwindFrame
      <4>1. unwinding' = unwinding - 1
          BY <3>2, Zenon DEF UnwindFrame
      <4>2. Drops(frames, frames')
          BY <3>2, UnblockShape
      <4>3. \A i \in 1..Live : i \in 1..Len(frames) - 1
          BY <1>0, <2>2
      <4>4. frames' # <<>> => Top'.step # "rsignal"
          BY <2>2, <4>2, DropsTo
      <4> QED
          BY <1>0, <2>2, <4>1, <4>2, <4>3, <4>4 DEF Live, Drops
    <3> QED
        BY <1>4, <3>1, <3>2
  <2>5. InLoop'
    <3>1. \A s : Looks(frames, Live, s) => Looks(frames', Live, s)
      <4>1. Live \in Nat
          BY <1>0
      <4>2. /\ Live > 0 => Live \in 1..Live /\ frames'[Live] = frames[Live]
            /\ Live > 1 => Live - 1 \in 1..Live /\ frames'[Live - 1] = frames[Live - 1]
          BY <2>4, <4>1
      <4> QED
          BY <4>2 DEF Looks
    <3> QED
        BY <1>2, <2>1, <2>4, <3>1 DEF InLoop
  <2>6. ASSUME NEW k \in 1..Live
        PROVE  Clears(frames', Live, k, pend)
    <3>1. Live \in Nat /\ k \in Nat \ {0} /\ frames'[k] = frames[k]
        BY <1>0, <2>4
    <3>2. /\ k > 1 => frames'[k - 1] = frames[k - 1]
          /\ k < Live => frames'[k + 1] = frames[k + 1]
      <4>1. (k > 1 => k - 1 \in 1..Live) /\ (k < Live => k + 1 \in 1..Live)
          BY <3>1
      <4> QED
          BY <2>4, <4>1
    <3>3. Clears(frames, Live, k, pend)
        BY <2>1 DEF ClearsAll
    <3> QED
        BY <3>1, <3>2, <3>3 DEF Clears
  <2>7. ClearsAll'
      BY <1>2, <2>4, <2>6 DEF ClearsAll
  <2> QED
      BY <1>2, <2>1, <2>3, <2>4, <2>5, <2>7, OsSame, FlagsSame
<1> QED
    BY <1>1, <1>3, <1>4

\* The magic of %SIG.
LEMMA HandlersSetsig ==
    ASSUME FrameInvariant, HandlerInvariant, ~ClearsLater,
           \/ \E i \in Signals, to \in Dispositions : SetsigBegins(i, to)
           \/ SetsigChecks \/ SetsigInstalls \/ SetsigEnds
    PROVE  HandlerInvariant'
<1>1. UNCHANGED <<stuck, pend, unwinding>>
    BY DEF SetsigBegins, SetsigChecks, SetsigInstalls, SetsigEnds, osvars, masks
<1>2. unwinding = 0 /\ unwinding' = 0
    BY <1>1, RunningStands DEF SetsigBegins, SetsigChecks, SetsigInstalls, SetsigEnds, On
<1> SUFFICES ASSUME stuck = {} PROVE HandlerInvariant'
    BY <1>1 DEF HandlerInvariant
<1>3. InLoop /\ ClearsAll /\ OsAgrees /\ FlagsHandled
    BY DEF HandlerInvariant
<1> DEFINE n == Len(frames)
<1>4. n \in Nat /\ (frames # <<>> <=> n > 0) /\ Top = frames[n] /\ Live = n
    BY <1>2, StackFacts DEF Live
<1>5. ASSUME NEW i \in Signals, NEW to \in Dispositions, SetsigBegins(i, to)
      PROVE  HandlerInvariant'
  <2>1. PICK f \in FrameSet : /\ f.kind = "setsig" /\ f.step = "blocked"
                              /\ f.sig = i /\ f.to = to /\ Pushes(frames, frames', f)
      BY <1>5, PushShape
  <2>2. Running /\ Allowed(i, to) /\ UNCHANGED <<os, handler, pending>>
      BY <1>5 DEF SetsigBegins
  <2>3. f.to # "code" => f.sig \notin Virtual /\ (frames # <<>> => f.sig <= Top.sig)
      BY <2>1, <2>2 DEF Allowed
  <2>4. InLoop' /\ ClearsAll'
      BY <1>1, <1>2, <1>3, <2>1, <2>2, <2>3, FramePushed
  <2>5. Top' = f
      BY <2>1, NextTop DEF Pushes
  <2>6. frames # <<>> => Top.step # "rsignal"
      BY <2>2 DEF Running, On, At
  <2> QED
      BY <1>1, <1>3, <2>1, <2>2, <2>4, <2>5, <2>6, OsSame, FlagsSame DEF HandlerInvariant
<1>6. ASSUME NEW step, Goes(step), frames # <<>>, Top.kind = "setsig", UNCHANGED pending,
             Top.step \in {"blocked", "check"} => pending = 0
      PROVE  /\ InLoop' /\ ClearsAll' /\ frames' # <<>>
             /\ Top'.step = step /\ Top'.sig = Top.sig /\ Top'.to = Top.to
  <2>1. PICK g \in FrameSet : /\ Moves(frames, frames', g)
                              /\ g.kind = Top.kind /\ g.sig = Top.sig /\ g.step = step
                              /\ Top.kind = "setsig" => g.to = Top.to
      BY <1>6 DEF Goes
  <2>2. InLoop' /\ ClearsAll'
      BY <1>1, <1>2, <1>3, <1>6, <2>1, FrameMoved
  <2>3. Top' = g /\ frames' # <<>>
      BY <1>4, <1>6, <2>1, NextTop DEF Moves
  <2> QED
      BY <1>6, <2>1, <2>2, <2>3
<1>7. CASE SetsigChecks
  <2>1. /\ frames # <<>> /\ Top.kind = "setsig" /\ Top.step = "check"
        /\ UNCHANGED <<os, handler>>
      BY <1>7 DEF SetsigChecks, On, At, osvars
  <2>2. CASE pending = 0
    <3>1. UNCHANGED pending
        BY <1>7, <2>2 DEF SetsigChecks
    <3>2. Goes("install")
        BY <1>7, <2>2, GoingSteps
    <3>3. InLoop' /\ ClearsAll' /\ Top'.step = "install"
        BY <1>6, <2>1, <2>2, <3>1, <3>2
    <3> QED
        BY <1>1, <1>3, <2>1, <3>3, OsSame, FlagsSame DEF HandlerInvariant
  <2>3. CASE pending # 0
    <3>1. PICK gs \in Seq(FrameSet), f \in FrameSet, d \in FrameSet :
              /\ f.kind = "setsig" /\ f.sig = Top.sig /\ f.to = Top.to
              /\ f.step = "install" /\ Moves(frames, gs, f)
              /\ d.kind = "despatch" /\ d.step = "scan" /\ Pushes(gs, frames', d)
              /\ \A s \in pend : WillReach(d, s)
        BY <1>7, <2>3, PushShape
    <3>2. /\ Len(frames') = n + 1 /\ frames'[n + 1] = d /\ frames'[n] = f
          /\ \A i \in 1..n - 1 : frames'[i] = frames[i]
      <4>1. /\ Len(gs) = n /\ gs[n] = f /\ \A i \in 1..n - 1 : gs[i] = frames[i]
            /\ Len(frames') = n + 1 /\ frames'[n + 1] = d /\ \A i \in 1..n : frames'[i] = gs[i]
          BY <3>1 DEF Moves, Pushes
      <4>2. n \in 1..n /\ 1..n - 1 \subseteq 1..n
          BY <1>4, <2>1
      <4> QED
          BY <4>1, <4>2
    <3>3. Live' = n + 1
        BY <1>2, <1>4, <3>2 DEF Live
    <3>4. InLoop'
        BY <1>1, <1>4, <3>1, <3>2, <3>3 DEF InLoop, Looks
    <3>5. n > 1 => frames'[n - 1] = frames[n - 1] /\ frames[n - 1].kind = "despatch"
      <4>1. n > 1 => n - 1 \in 1..n - 1 /\ n - 1 > 0 /\ n \in 1..n
          BY <1>4
      <4>2. n > 1 => Stands(frames, n - 1, Top)
          BY <1>4, <4>1, StackFacts
      <4> QED
          BY <2>1, <3>2, <4>1, <4>2 DEF Stands
    <3>6. Clears(frames', n + 1, n, pend)
      <4>1. Clears(frames, n, n, pend)
          BY <1>3, <1>4, <2>1 DEF ClearsAll
      <4>2. f.to # "code" => f.sig \notin Virtual /\ (n > 1 => f.sig <= frames[n - 1].sig)
          BY <1>4, <2>1, <3>1, <4>1 DEF Clears
      <4> QED
          BY <1>4, <3>1, <3>2, <3>5, <4>2 DEF Clears
    <3>7. Clears(frames', n + 1, n + 1, pend)
        BY <3>1, <3>2 DEF Clears
    <3>8. ASSUME NEW k \in 1..n - 1
          PROVE  Clears(frames', n + 1, k, pend)
      <4>1. /\ k \in 1..n /\ k \in Nat \ {0} /\ frames'[k] = frames[k] /\ k < n
            /\ k > 1 => frames'[k - 1] = frames[k - 1]
        <5>1. k > 1 => k - 1 \in 1..n - 1
            BY <1>4
        <5> QED
            BY <1>4, <3>2, <5>1
      <4>2. Clears(frames, n, k, pend)
          BY <1>3, <1>4, <4>1 DEF ClearsAll
      <4>3. CASE k = n - 1
          BY <1>4, <3>5, <4>1, <4>3 DEF Clears
      <4>4. CASE k # n - 1
        <5>1. k + 1 \in 1..n - 1 /\ k < n + 1
            BY <1>4, <4>4
        <5>2. frames'[k + 1] = frames[k + 1]
            BY <3>2, <5>1
        <5> QED
            BY <4>1, <4>2, <5>1, <5>2 DEF Clears
      <4> QED
          BY <4>3, <4>4
    <3>9. ClearsAll'
      <4>1. \A k \in 1..n + 1 : k = n + 1 \/ k = n \/ k \in 1..n - 1
          BY <1>4
      <4>2. \A k \in 1..n + 1 : Clears(frames', n + 1, k, pend)
          BY <3>6, <3>7, <3>8, <4>1
      <4> QED
          BY <1>1, <3>3, <4>2 DEF ClearsAll
    <3>10. Top' = d
        BY <3>1, <3>2, NextTop DEF Pushes
    <3> QED
        BY <1>1, <1>3, <2>1, <3>1, <3>4, <3>9, <3>10, OsSame, FlagsSame DEF HandlerInvariant
  <2> QED
      BY <2>2, <2>3
<1>8. CASE SetsigInstalls
  <2>1. /\ frames # <<>> /\ Top.kind = "setsig" /\ Top.step = "install"
        /\ UNCHANGED <<os, pending>>
      BY <1>8 DEF SetsigInstalls, On, At, osvars
  <2>2. /\ InLoop' /\ ClearsAll' /\ frames' # <<>>
        /\ Top'.step = "rsignal" /\ Top'.sig = Top.sig /\ Top'.to = Top.to
    <3>1. Goes("rsignal")
        BY <1>8, GoingSteps
    <3> QED
        BY <1>6, <2>1, <3>1
  <2>3. Top.to # "code" => Top.sig \notin Virtual \cup pend
    <3>1. Clears(frames, n, n, pend)
        BY <1>3, <1>4, <2>1 DEF ClearsAll
    <3> QED
        BY <1>4, <2>1, <3>1 DEF Clears
  <2>4. Top.sig \in Signals
      BY <1>4, <2>1, StackFacts
  <2>5. handler \in [Signals -> {"code", "string", "null"}]
      BY Zenon DEF FrameInvariant, Types
  <2>6. /\ handler'[Top.sig] = "code" <=> Top.to = "code"
        /\ \A s \in Signals \ {Top.sig} : handler'[s] = handler[s]
      BY <1>8, <2>4, <2>5 DEF SetsigInstalls
  <2>7. OsAgrees'
      BY <1>2, <1>3, <2>1, <2>2, <2>6 DEF OsAgrees
  <2>8. FlagsHandled'
      BY <1>1, <1>3, <2>3, <2>6, TypeFacts DEF FlagsHandled
  <2> QED
      BY <2>2, <2>7, <2>8 DEF HandlerInvariant
<1>9. CASE SetsigEnds
  <2>1. /\ frames # <<>> /\ Top.kind = "setsig" /\ Top.step = "rsignal"
        /\ UNCHANGED <<handler, pending>>
      BY <1>9 DEF SetsigEnds, On, At
  <2>2. InLoop' /\ ClearsAll' /\ Top'.step = "done"
    <3>1. Goes("done")
        BY <1>9, GoingSteps
    <3> QED
        BY <1>6, <2>1, <3>1
  <2>3. Top.sig \in Signals
      BY <1>4, <2>1, StackFacts
  <2>4. os \in [Signals -> {"catch", "ignore", "default"}]
      BY Zenon DEF FrameInvariant, Types
  <2>5. /\ os'[Top.sig] = "catch" => Top.to = "code"
        /\ \A s \in Signals \ {Top.sig} : os'[s] = os[s]
      BY <1>9, <2>3, <2>4 DEF SetsigEnds
  <2>6. ASSUME NEW s \in Signals, handler[s] # "code", os'[s] = "catch" PROVE FALSE
    <3>1. CASE s = Top.sig
        BY <1>3, <2>1, <2>5, <2>6, <3>1 DEF OsAgrees
    <3>2. CASE s # Top.sig
      <4>1. os[s] = "catch"
          BY <2>5, <2>6, <3>2
      <4> QED
          BY <1>3, <2>6, <3>2, <4>1 DEF OsAgrees
    <3> QED
        BY <3>1, <3>2
  <2>7. OsAgrees'
      BY <2>1, <2>2, <2>6 DEF OsAgrees
  <2> QED
      BY <1>1, <1>3, <2>1, <2>2, <2>7, FlagsSame DEF HandlerInvariant
<1> QED
    BY <1>5, <1>7, <1>8, <1>9

LEMMA HandlerStep ==
    ASSUME FrameInvariant, pending \in Nat, HandlerInvariant, Dying \subseteq {LastSignal},
           ~ClearsLater, [Next]_vars
    PROVE  HandlerInvariant'
<1>0. LastSignal \in Signals /\ Virtual \subseteq Signals
    BY TypeFacts
<1>1. CASE Interpret
    BY <1>0, <1>1, HandlersDespatch, HandlersSetsig, HandlersException DEF Interpret
<1>2. CASE Program
    BY <1>0, <1>2, HandlersDespatch, HandlersSetsig, HandlersException, HandlersArrival DEF Program
<1>3. CASE Interrupt
    BY <1>3, HandlersArrival, HandlersException DEF Interrupt
<1>4. CASE Kill
    BY <1>0, <1>4, HandlersArrival DEF Kill
<1>5. CASE UNCHANGED vars
  <2>1. UNCHANGED <<stuck, os, handler, pend, pending, frames, unwinding>>
      BY <1>5, Zenon DEF vars, osvars, perlvars, masks
  <2>2. UNCHANGED <<Live, Top>>
      BY <2>1 DEF Live, Top
  <2>3. (InLoop' <=> InLoop) /\ (FlagsHandled' <=> FlagsHandled)
      BY <2>1, <2>2 DEF InLoop, FlagsHandled
  <2>4. (ClearsAll' <=> ClearsAll) /\ (OsAgrees' <=> OsAgrees)
      BY <2>1, <2>2 DEF ClearsAll, OsAgrees
  <2> QED
      BY <2>1, <2>3, <2>4 DEF HandlerInvariant
<1> QED
    BY <1>1, <1>2, <1>3, <1>4, <1>5 DEF Next

\* mg.c magic_setsig despatches what is pending before it takes a handler away,
\* and blocks the signal meanwhile: what was caught is not lost, however
\* despatches, handlers and assignments nest.  A handler that dies early, or
\* that clears the handler of a later signal, is what loses one.
THEOREM HandlersFound ==
    ASSUME Dying \subseteq {LastSignal}, ~ClearsLater
    PROVE  Spec => []HandlerFound
<1>1. Init => HandlerInvariant
  <2> SUFFICES ASSUME Init PROVE HandlerInvariant
      OBVIOUS
  <2>1. frames = <<>> /\ Live = 0 /\ pend = {}
      BY DEF Init, Live
  <2>2. handler = [s \in Signals |-> "code"]
      BY DEF Init
  <2>3. OsAgrees /\ FlagsHandled
      BY <2>1, <2>2, SignalsAssumption DEF OsAgrees, FlagsHandled
  <2>4. InLoop /\ ClearsAll
      BY <2>1 DEF InLoop, ClearsAll
  <2> QED
      BY <2>3, <2>4 DEF HandlerInvariant
<1>2. SignalInvariant /\ HandlerInvariant /\ [Next]_vars => HandlerInvariant'
    BY HandlerStep DEF SignalInvariant, Counted
<1>3. SignalInvariant /\ HandlerInvariant => HandlerFound
    BY DEF SignalInvariant, FrameInvariant, CallFlagged, HandlerInvariant, FlagsHandled,
           HandlerFound
<1> QED
    BY <1>1, <1>2, <1>3, SignalInvariantHolds, PTL DEF Spec
=============================================================================
