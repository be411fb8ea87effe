# A TLA+ verification development for cperl

cperl is an implementation of Perl 5 in C. Most of it is a sequential
translator and interpreter. What is hard to test in it is where several actors
meet: interpreter threads that share variables and refer to one another, the
operating system that interrupts an interpreter between any two instructions,
destructors and handlers that run Perl code in the middle of C code; and where
one thread of control leaves state behind that a later step relies on: caches,
iterators, counts, saved values. These modules model that part of the program,
the configurations check it with TLC, and the proofs, checked by TLAPS, extend
the central results to any number of threads and variables.

Contents:

1. [The system and its components](#1-the-system-and-its-components)
2. [Which module models what](#2-which-module-models-what)
3. [What each run checks and shows](#3-what-each-run-checks-and-shows)
4. [What is proved](#4-what-is-proved)
5. [Where the code and its documentation disagree](#5-where-the-code-and-its-documentation-disagree)
6. [What is not modelled, and why](#6-what-is-not-modelled-and-why)
7. [Plan](#7-plan)

Run everything from this directory:

    tlc -workers 2 -config SharedLock.cfg SharedLockMC.tla
    tlc -workers 2 -config QueueAndMethods.cfg QueueAndMethodsMC.tla
    tlc -workers 2 -config Lifetimes.cfg LifetimesMC.tla
    tlc -workers 2 -config SafeSignals.cfg SafeSignals.tla
    tlc -workers 2 -config Interpreter.cfg InterpreterMC.tla
    tlc -workers 2 -config MethodCacheDestroy.cfg MethodCacheMC.tla
    tlapm SharedLockProofs.tla
    tlapm ThreadQueueProofs.tla
    tlapm IThreadsProofs.tla
    tlapm SafeSignalsProofs.tla
    tlapm HeapProofs.tla
    tlapm ScopeStacksProofs.tla
    tlapm MethodCacheProofs.tla
    tlapm PerlIOBufProofs.tla

## 1. The system and its components

| component | source | state | operations |
|---|---|---|---|
| User locks and conditions | `dist/threads-shared/shared.xs` | per shared variable: owner, depth, a mutex, two condition variables | `lock`, end of scope, `cond_wait`, `cond_timedwait`, `cond_signal`, `cond_broadcast` |
| `Thread::Queue` | `dist/Thread-Queue/lib/Thread/Queue.pm` | a shared array, `LIMIT`, `ENDED` | `enqueue`, `dequeue`, `dequeue_nb`, `dequeue_timed`, `insert`, `extract`, `limit`, `end` |
| `Thread::Semaphore` | `dist/Thread-Semaphore/lib/Thread/Semaphore.pm` | a shared counter | `down`, `down_nb`, `down_force`, `down_timed`, `up` |
| Interpreter threads | `dist/threads/threads.xs` | per thread: flags, reference count, interpreter, mutex; the pool: a list, a mutex, four counters | `create`, `join`, `detach`, `list`, `object`, `self`, `kill`, thread end, program end |
| Deferred signals | `mg.c`, `perl.h`, `pp_sys.c` | `PL_psig_pend`, `PL_sig_pending`, `PL_psig_ptr`, the process's signal mask | `csighandler`, `PERL_ASYNC_CHECK`, `despatch_signals`, `sighandler`, `$SIG{X} = ...`, `fork` |
| Hashes and iterators | `hv.c` | buckets, keys, placeholders, `xhv_riter`, `xhv_eiter`, `LAZYDEL` | store, fetch, delete, `each`, `hsplit`, clear |
| SV heap | `sv.c`, `pp.c` | reference counts, backreferences, the mortal stack | `sv_free`, `DESTROY`, `weaken`, `FREETMPS` |
| Scopes and contexts | `scope.c`, `pp_ctl.c`, `cop.h` | save stack, scope stack, context stack, `JMPENV` chain | `ENTER`/`LEAVE`, `local`, `die`, `eval`, `return`, `dounwind` |
| Method resolution and caches | `mro_core.c`, `gv.c`, `universal.c` | linearisations, `cache_gen`, `pkg_gen`, `PL_sub_generation` | `@ISA` changes, method definition, method look-up |
| PerlIO | `perlio.c` | layers with buffers, the table of descriptor reference counts | read, write, seek, flush, dup, close |
| Regular expressions | `regcomp.c`, `regexec.c` | programs, backtracking stacks | compile, match |
| Lexer, parser, op tree | `toke.c`, `perly.c`, `op.c`, `pad.c` | tokens, ops, pads | compile, optimise |
| Run loop and `pp_*` | `run.c`, `pp*.c` | the argument stack | every opcode |
| Conversions | `numeric.c`, `utf8.c`, `locale.c` | none that lasts | parse, format, fold |
| Interpreter life | `perl.c`, `sv.c` (`perl_clone`) | all of the above | construct, clone, destruct |
| Libraries, ports, build tools | `dist`, `ext`, `cpan`, `lib`, `win32`, ... | | |

How they interact:

- `Thread::Queue` and `Thread::Semaphore` are Perl code over the locks of
  `threads::shared`. They rely on these for atomicity between `lock` and the
  return of a method, and on the fact that `cond_wait` gives the lock up and
  takes it back whole.
- A thread's interpreter is destroyed by its joiner, by itself, or by the last
  object that refers to it. The destruction frees the `threads` objects inside
  that interpreter, each of which takes another thread's mutex.
- `$thr->kill` writes the signal flags of another, running interpreter under
  that thread's mutex, which the interpreter itself does not take.
- `csighandler` may interrupt any of this; it only sets flags. The run loop
  looks at the flags at safe points and calls Perl handlers, which may die,
  change `%SIG`, fork, or come to safe points of their own.
- `sv_clear`, `hv_clear`, `leave_scope`, `free_tmps` and `dounwind` call Perl
  code (`DESTROY`, a tied `STORE`) half way through their own work. That code
  uses the very hash, SVs and stacks that are being taken apart, and may die.
- A change of `@ISA` or of a method in one package invalidates what others have
  cached about it: linearisations, method caches, the `DESTROY` cache that
  `sv_clear` consults.

What is hard, and what makes each component correct:

- **User locks.** One condition variable, `lock.cond`, serves the threads that
  call `lock` and those that return from `cond_wait`, and it is signalled, not
  broadcast. Correct: at most one thread inside, the depth is kept across
  waits, no wake-up is lost.
- **Thread::Queue.** One condition serves producers and takers, and every
  method passes on one signal. Correct: items are conserved and stay in order,
  the limit holds, and whoever can proceed is woken.
- **Interpreter threads.** Structures are shared without a common lock: one
  mutex per thread, one for the pool, and a reference count that many code
  paths change. Correct: the count is the number of references, nothing is used
  after it is freed, the counters that delay the end of the program agree with
  the threads, `join` returns.
- **Deferred signals.** Correct: every flagged signal is found by a loop or a
  safe point, each blocked signal is unblocked by a frame that is left to
  unwind (unless a croak of `csighandler` loses it), handlers are there when
  called, and a handler does not interrupt itself.
- **Thread::Semaphore.** `$$sema -= $dec` is a read and a write of a shared
  scalar, and the broadcast comes after. Correct: no token is lost or made up,
  nobody takes what is not there, no `down` sleeps on that could go on.
- **Hashes.** Entries are deleted, inserted, moved to the front of their chains
  and rehashed while `each` stands on one. Correct: every key is where its hash
  says, the counts are right, the iterator points to memory that is allocated,
  and an undisturbed iteration returns each key once.
- **SV heap.** Correct: the reference count is the number of holders at every
  step of a free, weak references are cleared in time, each SV is freed once.
- **Scopes.** Correct: whatever way a scope is left, what it localised is put
  back, its temporaries go before the `eval` that caught the error goes on, and
  an `eval` is resumed in the C function that entered it.
- **Method caches.** A recursive `@ISA` croaks half way through the update.
  Correct: a look-up through the caches finds what one without any would, as far
  as the lists were all taken over.
- **PerlIO.** The same buffer serves reading, writing and pushing back, and the
  kernel's offset is ahead of the program's position, or behind it. Correct: the
  handle behaves as a file with one position, and no byte is lost without an error.

`PROJECT.json` lists the hazards at the lines where they bite.

## 2. Which module models what

### Monitor

What `lock`, the end of its scope, and `cond_wait` promise, with no mutex, no
condition variable and no queue of sleepers: a variable has at most one holder
who may lock it again in nested scopes; waiting gives it up at every depth at
once; a waiter goes on only when it holds the variable again, at its old depth.

### SharedLock

`shared.xs`, one action for each stretch between `MUTEX_LOCK` and
`MUTEX_UNLOCK` or `COND_WAIT`. A `COND_WAIT` is two steps: going to sleep, and,
once woken, having the mutex back. The program has one `while` loop in
`recursive_lock_acquire` and one each in `cond_wait` and `cond_timedwait`, so a
blocked thread is in one of three places:

| `pc[t]` | sleeps on | in |
|---|---|---|
| `acquire` | `lock.cond` | `recursive_lock_acquire` |
| `cond` | `user_cond` of `condvar[t]` | `cond_wait`, before the signal |
| `relock` | `lock.cond` | `cond_wait`, when it finds the lock taken |

`owner` and `locks` are the fields of `recursive_lock_t`; `held[t][v]` counts
the `recursive_lock_release` calls on `t`'s savestack; `saved[t]` is the local
variable `locks` of `cond_wait`; `woken[t]` says that a signal, a broadcast or
a spurious wake-up has ended `t`'s sleep. `abandoned[v]` is the thread that
left `ul->lock.mutex` locked when `cond_timedwait` croaked.

| action | code |
|---|---|
| `LockAgain`, `LockFree`, `LockBlocks`, `LockWakes` | `recursive_lock_acquire` |
| `Release` | `recursive_lock_release`, run by the savestack |
| `CondWait`, `CondWakes`, `CondTimesOut`, `RelockWakes` | `cond_wait`, `cond_timedwait` |
| `CondTimedwaitPanics` | the croak in `Perl_sharedsv_cond_timedwait` |
| `CondSignal`, `CondBroadcast` | the functions of these names |
| `SpuriousWakeup` | what POSIX allows a condition variable |

`M == INSTANCE Monitor WITH ...` is the refinement: the holder is the owner, or
the thread that shuts everybody out because it left the mutex locked.

### ThreadQueue

The methods of `Queue.pm`. Every method begins with `lock(%$self)`; what it
does from there to its return, or from one `cond_wait` to the next, is one
step. `SharedLock` is what justifies that, and its `CondWakes`/`RelockWakes`
justify the `woken` state: a woken thread runs only when it has the lock again,
and others may run first. An item is the number of its arrival, so that order
and conservation can be told. `OneWoken` is `cond_signal`: any one waiter.
`limit` is an lvalue method, so its assignment (`SetLimit`) happens when the
lock is gone and signals nobody. `_validate_count` is `CountTooBig`; it is
evaluated again when `dequeue` calls `dequeue_nb`, which can croak by then.

### IThreads

`threads.xs`. A critical section that blocks on nothing inside is one step.
Those that hold one mutex and block on another are split there, and `agenda[p]`
is the stack of the calls that thread `p` is in, innermost first: `Do(op, t)` is a
call about thread `t` that has still to do `op` and what comes after it.

| `op` | the rest of |
|---|---|
| `start` | `create`: `perl_clone` copies the objects (`CloneObject`) until all are copied (`Cloned`), then `Start` or `StartFails` |
| `release`, `unlink`, `destroy`, `dispose`, `untotal` | `S_ithread_free`, which holds `t`'s mutex at first; the last reference goes on to unlist and free it |
| `clear` | `S_ithread_clear`, with `t`'s mutex held: each object in the interpreter puts a `release` on top |
| `unjoinable`, `wait`, `collect` | `join` |
| `detach`, `detached` | `detach` |
| `all`, `running`, `joinable`, `object` | `list` by filter and `object`, at the thread they look at next; `refer` makes an object for one that passes, `unpool` ends the call |
| `finish`, `die`, `runfree`, `exit` | `S_ithread_run` after the thread's function |

The names of flags and counters are the code's. `objects[i][t]` counts the
`threads` objects for `t` in interpreter `i`; destroying an interpreter releases
each of them, inside the release that destroys it, as deep as it goes.

### SafeSignals

`mg.c` and its surroundings, for one interpreter. `frames` is what the C stack
holds of this machinery: turns of a despatch loop, and assignments to an element
of `%SIG`. Perl code runs when there is no frame or the last one is in a handler;
only then are there safe points, assignments to `%SIG`, and forks, and all of
these nest. `Send`, `Catch`, `CatchCroaks` and `Terminate` are the operating
system's and may happen between any two steps.

| `step` of a frame | in the code, what comes next | left by |
|---|---|---|
| `scan` | a turn of the loop of `despatch_signals` | `Scan` |
| `blocked` | `SIG_BLOCK` was done (`mg.c:1660`, `1746`), `SAVEDESTRUCTOR_X` comes (`1666`, `1750`) | `Note` |
| `call`, `run` | the flag is reset and `sighandler` called; the Perl handler | `Call`, `HandlerReturns`, `HandlerDies` |
| `check`, `install`, `rsignal` | `PERL_ASYNC_CHECK`, `PL_psig_ptr[i] = ...`, `rsignal` in `magic_setsig` | `SetsigChecks`, `SetsigInstalls`, `SetsigEnds` |
| `done` | `LEAVE` | `Leave` |
| `leave` | `leave_scope` has popped the destructor (`scope.c:918`) and calls it (`1399`) | `Unblock` |

An exception leaves the frames it passes one by one: `unwinding` is how many of the
innermost it has still to leave, each by `UnwindLeave` and `UnwindFrame`.
`Unwind` is what the destructor (`unblock_sigmask`, `restore_sigmask`) does to the
mask. Nowhere is `csighandler` kept out. Where its croak meets a frame in
`blocked` or `leave`, that frame's signal is blocked and the savestack does not know:
the history variable `unowed` collects these, as `stuck` does the signals whose own
`csighandler` croaked. `KillChecks`, `KillCounts` and `KillFlags` are the three
accesses of `$thr->kill` to another interpreter, which run without any lock that
the interpreter takes.

### Semaphore

`Semaphore.pm`, statement by statement, over `SharedLock` (which it extends):
`lock($$sema)` is `LockFree`/`LockBlocks`, `cond_wait` is `CondWait`, the end of
the method is `Release`. A shared scalar is tied, so every access to it is a step
of its own; `at[t]` is the statement a thread has come to and `read[t]` what it
read for a `-=` or `+=` and has not written back. `down_force` may take the count
below zero; `up` broadcasts only when the count is positive.

### HashIter

`hv.c`, one hash. `chain` is the bucket array of linked entries, `riter`,
`eiter` and `lazydel` the iterator's fields by their names in the code; the
history variables say what an iteration still owes and has returned. An entry is
a key and a place in memory, so that a key stored again while its old entry
waits for its lazy deletion is told from it.

| action | code |
|---|---|
| `HashFind`, `HashRefill`, `HashInsert` | `hv_common`: a look-up moves the entry to the front unless `each` is under way; a store into a placeholder; a new entry, with `clear_placeholders` and `hsplit` |
| `HashDelete`, `HashDeleteRestricted`, `HashClearPlaceholders` | `hv_delete_common`, `clear_placeholders` |
| `HashRestrict`, `HashFreeze` | `Internals::SvREADONLY` on the hash and on a value |
| `HashEmptyRestricted`, `HashClearBegins`, `HashClearStep`, `HashClearEnds` | `hv_clear`, `hv_undef`, `hfree_next_entry`, with other actions (a `DESTROY`) between the steps |
| `HashKsplit`, `HashStudy` | `hv_ksplit`, `hv_study` |
| `HashIterInit`, `HashIterNext` | `hv_iterinit`, `hv_iternext_flags` |

The constant `Holes` names three uses for which the code is not ready
(section 5); the model contains what happens then, and the passing run has a
program that avoids them.

### MethodCache

`mro_core.c`, `gv_fetchmeth_internal` and the part of `S_curse` that looks up
`DESTROY`. `linear`, `cached` and `destroy` hold the valid cache entries: the
generation counters of the code only grow and are only compared for equality, so
an entry is valid until a counter moves. `SetIsa` is the whole of
`mro_isa_changed_in`; `SetSub` is `mro_method_changed_in` and the assignment to a glob;
`Call` and `Destroy` (of an object of one of `Objects`) are look-ups, which only change
caches, and `LookupDies` is one that croaks. `Resolve` is the reference: the
depth-first order computed from `@ISA` alone.

When `@ISA` becomes recursive, `mro_isa_changed_in` croaks with "Recursive
inheritance detected" in the list of the first heir that is endless (`Stuck`), for the
heirs come in the order of a hash, or in the class's own at the end. By then every
heir's caches are wiped, some heirs (`entered`, any of those that can be) are in
`PL_isarev` with their new parents, and some of the lists that the last one came to
are cached (`walked`, of `CameTo`). The program may catch the croak and assign to any
`@ISA` next. Only another assignment to the same `@ISA` redoes what is missing, so the
history variable `unlisted` has the classes whose last assignment croaked, and a class
is `Settled` when neither it nor a class it inherits from is one of these. The properties
are about settled classes; no action looks at `unlisted`, and what the other
classes' caches then hold, old lists included (`Dfs` takes a cached list for what it is), is
in the model. `IsarevWith` never strikes a class off
`UNIVERSAL`'s entry, which is in every `meta->isa`.

### SvHeap

`sv.c`: scalars that are undefined or references. `frames` is what C code has
left to do, innermost first: a decrement (`dec`), `sv_clear` of an SV (`clear`),
a `DESTROY` (`DESTROY`), `free_tmps` (`tmps`). The program runs when there is no
frame, or a `DESTROY` on top, and reaches what its variables and `$_[0]` lead to.
`AssignRef` is `sv_setsv` of a reference, whose last old count `sv_unref` makes
mortal; `AssignBodyless` the path for scalars without a body; `CallDestroy`,
`DestroyReturns`, `Resurrect` and `FreeSv` are the loop of `S_curse` and the rest
of `sv_clear`.

### ScopeStacks

`scope.c`, `pp_ctl.c`, `call_sv` of `perl.c`, `pp_hot.c`'s ends of subs. The
Perl stacks (`savestack`, `tmps` and `floor`, `contexts`) are kept apart from the
C stack (`cstack`), because `die` treats them apart: `Perl_die_unwind` unwinds
the former (`dounwind`, `FREETMPS`, `leave_scope`), running Perl code at every
step, and then jumps (`JMPENV_JUMP`) over the latter. One tied global is changed
by `local`; the STORE that `leave_scope` calls when it is put back, and the
`DESTROY` of a temporary or a `my` variable, are Perl code that may do all of
this again, and die. `EnterTry` calls `docatch` when the eval is entered in a sub
that C code called, so that there is a `setjmp` between.

| action | code |
|---|---|
| `Local`, `My`, `Temporary` | `save_scalar`, `SAVEt_CLEARSV`, `sv_2mortal` |
| `EnterBlock`, `EnterTry` | `pp_enter`, `pp_entertry` and `docatch` |
| `LeaveBlock`, `LeaveTry`, `LeaveSub`, `Pop1`, `ReturnSub`, `CallDone` | `pp_leave`, `pp_leavetry`, `pp_leavesub`, the rest of `call_sv` |
| `AssignTied`, `CallStore` | `magic_setpack`, `call_sv` |
| `LeaveScope`, `Undo` | `leave_scope`, one entry at a time |
| `NextStatement`, `FreeTemporaries`, `EnterDestroy` | `pp_nextstate`, `free_tmps`, `S_curse` |
| `Die`, `Unwind`, `Jump` | `die_unwind`, `dounwind`, `JMPENV_JUMP(3)` |

### FileStream

What a buffered, seekable file handle promises: one file, one position, and the
bytes that reading on would return; no buffer and no kernel. What was written may
be lost, but only the latest of it and with an error reported.

### PerlIOBuf

`perlio.c`'s layers `:unix` and `:perlio` on a file that can seek, the pending
layer that `PerlIOBase_unread` pushes on top when the buffer has no room in front,
and the calls of `doio.c` and `pp_hot.c` that use them. The record `handle` holds
the fields of both layers by their names in the code, with the file (`disk`) and the
kernel's offset. A call is a composition of layer functions, each of which may
end in several ways, for the kernel reads and writes less than it is asked, or
fails; so `Flushed`, `Filled` and their parts are sets of outcomes.

| action | code |
|---|---|
| `GetByte`, `TestEof` | `PerlIOBase_read`, `PerlIOBuf_fill`, `PerlIOUnix_read`; `do_eof` |
| `UngetByte` | `PerlIOBuf_unread`, `PerlIOBase_unread` |
| `PutByte` | `PerlIOBuf_write`, `do_print`, the flush of `$|` in `pp_print` |
| `SeekTo`, `TellAppending` | `PerlIOBuf_seek`, `PerlIOPending_seek`, `PerlIOBuf_tell` |
| `FlushHandle`, `NoAutoflush` | `PerlIOBuf_flush`, `PerlIOPending_flush`; `$|` set and cleared in `magic_set` |
| `CloseAndOpen`, `ClearErr` | `io_close`, `PerlIOBase_close`, `PerlIOBuf_open`; `PerlIOBase_clearerr` |

`StreamKept` is the refinement: under the mapping of buffer, offset and pending
bytes to `file`, `at` and `ahead`, every call is one operation of `FileStream`.
`Slips` names three uses for which this fails (section 5).

### LifetimesMC, QueueAndMethodsMC, InterpreterMC

Components that share no variables are checked several to a run: `IThreads` and
`SvHeap` in `LifetimesMC`, `ThreadQueue` and `MethodCache` in `QueueAndMethodsMC`,
`HashIter`, `ScopeStacks`, `PerlIOBuf` and `Semaphore` in `InterpreterMC`. The variable
`part` says which component moves; the others stay as they started. So each is
checked whole, and none against the product of the others' states. Which of them
share a run has no meaning but that the runs take about as long as each other.

## 3. What each run checks and shows

All passing runs use their module's complete next-state relation. Each
property is also checked against a mutant of the code, named in `PROJECT.json`
and marked `\* mutant` in the module, under which TLC finds it violated.

| run | bounds | checks |
|---|---|---|
| `shared_lock` | 3 threads; lock `x` up to twice, `y` once, the condition is `x` | `TypeOK`, `MutualExclusion`, `DepthKept`, `NoSleeperForgotten`, `LockHandedOver`, and that `SharedLock` implements `Monitor` |
| `queue_and_methods`, queue | 3 threads, 3 items, batches 0-2, counts 1-2, limit none or 1, positions -2, 0, 1 | `TypeOK`, `ItemsConserved`, `OrderKept`, `NoOvershoot`, `EndUnblocksUnlimited`, `SingleTakersServed` |
| `queue_and_methods`, methods | 4 packages, one of them `UNIVERSAL`: `B` isa `(A, C)`, `C` isa `()` or `(B)`, `UNIVERSAL` isa `()` or `(C)`, subs in `A` and `C`, objects of `C` | `MethodFound`, `LinearCurrent`, `HeirsKnown` |
| `lifetimes`, threads | main and 2 threads, 1 object per thread and interpreter | `TypeOK`, `RefsCounted`, `NoUseAfterFree`, `InterpreterLives`, `CountersAgree`, `PoolOutlives` |
| `lifetimes`, svs | 3 SVs, one blessed into two packages | `SvCounted`, `SvWeakCoherent`, `SvFreedOnce` |
| `safe_signals` | 3 signals, one sent by threads, one whose handler dies; 3 signals sent, 3 frames, at most 2 pending before the croak | `TypeOK`, `NoneStranded`, `HandlerFound`, `MaskOwed`, `OneAtATime`, `HandlerRuns` |
| `interpreter`, hash | 3 keys, 2 places in memory for each, 2 to 4 buckets, one key whose value may be readonly | `HashCoherent`, `HashIterSafe`, `HashEachOnce` |
| `interpreter`, stacks | blocks, evals and C calls two deep, 2 things saved, 1 temporary | `LocalsUndone`, `FreedInTime`, `CallersLive` |
| `interpreter`, handle | a buffer of 2 bytes, a file of at most 3, 2 different bytes | `StreamKept` |
| `interpreter`, semaphore | 3 threads: one gives, one takes one, one takes two with a time limit; the count from -1 to 2 | `SemInvariant`, `TokensConserved`, `NoDownForgotten` |

Why the bounds are enough. A lost wake-up on a condition variable needs a thread
that signals, one that is woken and one that should have been: three. Two
threads cannot tell "signals one" from "wakes all". Two levels of a lock tell a
depth from a flag, and a second lock lets a thread wait on a condition that is
not the lock it gives up. In the queue, two items apart from the one in motion
tell order from reversal, and a negative position reaches both sides of the
head. In `IThreads` two threads let one hold an object for the other, and for
itself, while a third (main) joins, detaches or lists; counts go up to 4. In
`SafeSignals` three signals give a despatch loop something before and behind
the signal in hand; three frames are a loop, an assignment in its handler and a
loop inside that. The code's constant for `DieCount` is 120; 3 reaches the
croak with the same interleavings.

In the hash, the three keys share a bucket of the smallest array and lie in two
of the next, so a chain has a first, a middle and a last entry and `hsplit`
divides it; two places in memory are what a key and its lazily deleted former
entry need. The code's `StudySize` is 16; 4 reaches the same branches with
smaller arrays. In `MethodCache` the chain `UNIVERSAL` - C - B - A is
the shortest in which a class is changed that `UNIVERSAL` inherits from through
another, and C is an heir of A only through B. B and C make a cycle, whichever is
assigned last, and `@C::ISA = ()` mends the one that B croaked on while B stays
unsettled; C is settled then, and its caches are looked at. That B's list can also be
taken away again, that A has parents, and that any list may be any other, is in the proofs. Three SVs are an object, a
reference to it, and a weak one (or a cycle and an outsider); two packages let
`DESTROY` rebless. In `ScopeStacks` two C calls are a `STORE` that runs while a
`DESTROY` (or another `STORE`) unwinds, each with a context of its own to die
through; `MaxContexts` counts the open blocks and evals of the running code,
one less in each further call. A `down` of two beside a `down` of one tells a
broadcast from a signal. A buffer of two bytes can be empty, half used and full,
read and written in part; a file of three is longer than the buffer, and two
values tell one byte from another. The code's buffer has 8192 bytes.

Symmetry is used for the places in memory, for the bytes and for the two SVs that
are never blessed; the properties of these runs are safety properties, and none names one
of these values.

The runs for what the documentation says and the code does not do are in
section 5.

Deadlock is checked in `shared_lock`, `queue_and_methods` and `interpreter`. It is
off for `lifetimes` and `safe_signals`, where the program may end (`MainEnds`,
`Terminate`); in `IThreads` there is also the real deadlock of section 5.

### Fairness

- `SharedLock`: weak fairness of every step a woken thread takes, of the end of
  a time limit, and of `Release`. A thread that can have a mutex gets it in the
  end, and scopes end. Nothing is assumed of `lock` calls, signals or spurious
  wake-ups: the program may stop making them.
- `ThreadQueue`: weak fairness of the steps of woken threads and of the time
  limit, which are always possible once a thread is woken. No call is assumed
  to be made.
- `IThreads`: weak fairness for the rest of a call that has begun and for the
  end of a thread function that has returned; used by `ithreads_join` only.
- `SafeSignals`: weak fairness of the interpreter's own steps (Perl code comes
  to safe points), of the kernel's delivery of an unblocked signal, and of the
  second half of `kill`. `HandlerReturns` has strong fairness: a handler may be
  interrupted over and over by nested despatches, and is assumed to come to its
  end if it can do so again and again.

## 4. What is proved

### SharedLockProofs

`SharedLockProofs` proves, for any sets of threads, lock variables and
conditions, any depth, and with or without the times that `cond_timedwait`
refuses:

- `Invariant`: `Spec => []LockInvariant`
- `TypeCorrect`: `Spec => []TypeOK`
- `Exclusive`: `Spec => []MutualExclusion`
- `DepthIsKept`: `Spec => []DepthKept`
- `NobodyForgotten`: `Spec => []NoSleeperForgotten`

The assumption is `LockAssumption`: the null values are no threads or
variables, and depths are positive.

`MutualExclusion` speaks of scopes (`held`) and the code decides by `owner`, so
it is not inductive. `LockInvariant` says what links them: the owner of `v` has
the mutex free, a positive `locks[v]` equal to its open scopes, and is not
waiting (`OwnerCoherent`); the thread that left a mutex locked has scopes open
and is not waiting (`AbandonedCoherent`); a waiter saved the number of its open
scopes (`WaiterCoherent`); whoever has scopes open on `v` is its owner, its
abandoner, or a waiter (`HeldCoherent`); who is not running blocks on a
variable (`BlockedCoherent`). Two threads inside the same lock would both have
to be owner or abandoner, and an owned variable is not abandoned.

The proof has a lemma for the types (`TypeStep`), one for the coherence of
scopes and counters (`CoherentStep`), and two for signals: a `SignalOne` with
sleepers leaves one of them awake (`SignalWakes`), and one elsewhere puts
nobody to sleep (`SignalKeeps`). `NoSleeperForgotten` is inductive beside
`LockInvariant` (`NoSleeperStep`): the steps that free a lock are exactly those
that signal; those that put a thread to sleep on `lock.cond` do so only while
the lock is owned; and a woken thread that leaves takes the lock.

The same invariant gives the refinement, `Implements`: `Spec => MonitorSpec`. Under the mapping
of `SharedLock`'s `INSTANCE` the holder of a variable is its owner or, after the
croak of `cond_timedwait`, the thread that left the mutex locked; a thread waits
for the variable that it will lock again. One lemma per operation maps its steps
to `Acquire`, `Release`, `Wait`, `Relock` or a stutter (`LockRefines`,
`ReleaseRefines`, `WaitRefines`, `PanicRefines`, `RelockRefines`): blocking,
waking and signalling change nothing that `Monitor` sees, and a take-over needs
`LockInvariant` to know that the variable has no holder.

The last part of the module is about `Thread::Semaphore`. For any threads, requests of positive counts and starting counts, and any other
locks and conditions that `SharedLock` allows beside the semaphore's:

- `SemaphoreInvariant`: `SemSpec => []SemInvariant`
- `TokensAreConserved`: `SemSpec => TokensConserved`
- `NobodyLeftAsleep`: `SemSpec => []NoDownForgotten`

The assumptions are `SemAssumption` (the semaphore is a lock variable and a
condition; `validate_arg` lets positive integers through; a time limit is one
that the system accepts) and `LockAssumption`. `TokensConserved` is not inductive:
that a thread writes what it read and took from needs it to have been alone since.
`SemInvariant` says so: whoever is between `lock` and the end of its method has
the scope open (`ScopeOpen`), and what it read and found out about the count
still holds when it stores (`Settled`); a sleeper who could go on has been woken,
or a broadcast is about to (`Sleeping`). Exclusion comes from `SharedLock`: every
step of the semaphore is a step of the lock, or leaves it as it is, so
`LockInvariant` holds beside it, and with it `MutualExclusion`. `NoDownForgotten`
follows: the thread about to broadcast owns the lock, so where the lock is free
there is none.

### ThreadQueueProofs

For any threads, batches, counts, positions and limits:

- `QueueTypes`: `Spec => []TypeOK`
- `NothingLost`: `Spec => []ItemsConserved`
- `FirstInFirstOut`: `Spec => OrderKept`
- `LimitHolds`: `Spec => NoOvershoot`

The assumptions are `QueueAssumption` (batches of at most `MaxItems` items,
counts of at least one, positions of any sign) and `IdleAssumption` (no request
is the idle value). `QueueInvariant` is `TypeOK` and `ItemsConserved` together:
the bound on the items handed out follows only from where they came. The proof
first says what the `SubSeq`s of `insert`, `extract` and `dequeue` leave at each
position (`WidenedItems`, `ShortenedItems`), then that an arrival and a
departure of items conserve and order them (`Arrive`, `Depart`), and then that
every step of every method is one of the two or touches no item (`EveryStep`,
from a lemma per method). `NoOvershoot` comes out of the same lemmas: a thread
that leaves a method was no producer, or found the queue below its limit.

### IThreadsProofs

For any number of threads and objects, while no thread fails to start in the
company of others (`~FailsInCompany`):

- `IThreadsInvariant`: `Spec => []IInv`
- `IThreadsTypeOK`: `Spec => []TypeOK`
- `CountIsReferences`: `Spec => []RefsCounted`
- `FreedUnreferenced`: `Spec => []NoUseAfterFree`
- `InterpretersLive`: `Spec => []InterpreterLives`
- `PoolCounters`: `Spec => []CountersAgree`
- `PoolOutlivesThreads`: `Spec => []PoolOutlives`

The condition is needed: `StartFails` unlocks the pool before it unlists the
thread, and what becomes of an object that another thread makes for it then is
undefined (section 6). A failure that no other thread sees is included.

None of the properties is inductive, for all of them speak of calls in the middle
of their work. `IInv` is `TypeOK`, `CountersAgree`, `RefsCounted` (as `RefOK`) and:

- what a stack looks like (`StacksOK`): only a step of `S_ithread_free`, of
  `S_ithread_clear` or of `S_ithread_to_SV` returns into another call, and into
  which (`Linked`); no ithread is freed twice over in one stack (`Once`);
- no two threads free the same ithread, or hold the reference of its join or
  detach (`Apart`);
- what a call may count on (`CallsOK`): the mutex it holds, the reference or the
  lack of any (`FreeOK`), the flags set before (`LifeOK`), and for `list` and
  `object` that the thread to look at is still listed, and that one which passed
  can have been joined meanwhile, but its reference is not yet dropped (`LookOK`);
- what a thread's phase and flags say about it (`ThreadsOK`), and what is true of
  one that could not be started;
- `TotalOK`: `total_threads` counts the structures that exist and those whose
  `untotal` is to come; `GoneOK`: a destroyed pool is held by nobody.

`NoUseAfterFree` follows because an unlisted thread has a count of zero, so by
`RefOK` no object, and no call but those of `S_ithread_free` itself; the pool
outlives its threads because each that is not over is in `total_threads`. The
proof goes through the actions once for each part that they disturb. An object
made or dropped adds or removes one of the `Everyone \X (1..MaxObjects)` pairs by
which objects are counted.

### SafeSignalsProofs

For any signals, any number of them sent and any nesting of handlers:

- `SignalsTypeOK`: `Spec => []TypeOK`
- `MaskIsOwed`: `Spec => []MaskOwed`
- `HandlersAlone`: `Spec => []OneAtATime`
- `NoSignalStranded`: `Spec => []NoneStranded`, provided
  `Dying \subseteq {LastSignal}`
- `HandlersFound`: `Spec => []HandlerFound`, provided
  `Dying \subseteq {LastSignal}` and `~ClearsLater`

The first three need no condition. Those of the others are needed: `signals_lost`
shows what a handler that dies earlier leaves behind, and `signals_clear` what
one does that clears the handler of a later signal.

`MaskOwed` is not inductive: what a frame gives back is the mask as it found it, or
its own signal if that was open. `FrameInvariant` says for each frame of the stack
that leaving it gives back the mask that those below it need (`Saves`), which kind of
step the frame below is in (`Stands`), and that the handler it runs is the only one
of its signal (`Single`); together `FitAll`. `Masks` says that what is blocked is what
the frames will unblock and what is `Held`, the signals in `stuck` and `unowed`; both
only grow. `Leaving` says that an exception goes to the end of the program or to a frame
that runs a handler. So each step in which a frame is left, in an exception or
not, is one use of `UnwindOne` at the top of the stack, and a croak in the middle of
that one more name in `Held` (`UnwindNone`, `ArrivalFits`). `SignalInvariant` adds `Counted`
(the signals counted, raised or on their way from another thread are some of those sent)
and `Deep` (the bound on the frames), for `TypeOK`.

`NoneStranded` is inductive beside that. A loop that an exception is going to leave
finds no signals any more, so the frames that count are the `Live` ones, the first
`Len(frames) - unwinding`. The lemmas say what a frame that moves, ends, is pushed, or
becomes part of what an exception leaves does to the signals that the live loops still
reach (`MoveFinds`, `LiveFinds`, `LoopFinds`, `ArrivalFinds`, `ExceptionFinds`).
`HandlerInvariant`, over the same frames, says that each
flagged signal has a handler (`FlagsHandled`) and the loop in progress will still
look at it (`InLoop`), that an assignment which takes a handler away despatches its
signal first (`ClearsAll`), and that the system catches no signal without a
handler but between the two halves of an assignment (`OsAgrees`).

### HeapProofs

Of `SvHeap`, for any SVs, packages, destructors and depth of frees within frees:

- `SvInvariantHolds`: `SvSpec => []SvInvariant`
- `CountIsHolders`: `SvSpec => []SvCounted`
- `WeakRefsKnown`: `SvSpec => []SvWeakCoherent`
- `FreedOnlyOnce`: `SvSpec => []SvFreedOnce`

The assumption is `SvAssumption`: there are finitely many SVs, the null values are
none of them, and each SV may be blessed into some of the packages.
`SvInvariant` is the types and `SvWeakCoherent` with three more: `Counted`, which
is `SvCounted` with the converse that a freed SV has no holder and nothing left
to do about it; `Once`, that an SV is on its way through `sv_clear` at most once,
and every live SV without a count is; and `Nests`, that `sv_clear` stands behind
another call only while the `DESTROY` that it called for the same SV runs. Without
`Nests` a `DESTROY` could return into the wrong free. What the program reaches is
alive (`ReachedAlive`), because `Reached` is the least set closed under following
references and the live SVs are closed, too. `Holders` changes by one where the
code changes the count by one, which the lemmas on counting in sequences
(`PushTimes`, `PopTimes`, `AppendTimes`) and in references (`RefsChange`) say;
then there is a lemma for each action.

Of `HashIter`, for any keys, hash function, numbers of buckets and places in memory:

- `HashCoherentHolds`: `HashSpec => []HashCoherent`, provided `"destroy" \notin Holes`
- `HashIterSafeHolds`: `HashSpec => []HashIterSafe`, provided `Holes = {}`
- `HashEachOnceHolds`: `HashSpec => HashEachOnce`, provided `Holes = {}`

The assumption is `HashAssumption`: hash values are naturals, the null entry is no entry,
and the bounds on the number of buckets are at least two. The conditions are needed:
each hole violates the property (section 5). `HashCoherent` is inductive as it stands
because its types say that readonly values are linked and no placeholders, so a key
that is refilled or freed leaves nothing of its old lock. `HashIterSafe` is inductive
beside it. What an operation does to the buckets is said for `Chains(c, n)`: `n`
sequences without repetition, each entry in the one that its hash selects. `Drop`
and `Rehash` keep that, and which entries there are (`WithoutIs`, `RehashIs`); both are
`FlattenSeq`s, so by an induction on their partial results.

That `each` returns everything once is about the order inside the buckets.
`Follows(c, d, e)` says that `e` is behind `d` in their bucket, and unlinking others
or putting a new entry on top does not change it (`WithoutOrder`, `PushedOrder`).
`Ahead` is what the iterator has still to pass: the later buckets, and what follows
the entry it stands on or, where that was deleted under it, `lazynext` and what follows
that. `EachInvariant` says that what is owed is ahead, that nothing returned is, that the
iterator stands in its own bucket, that the placeholders are counted right while an
iteration is whole, and that nothing is owed once it has ended. `AheadStill` shows that
to unlink entries moves nothing across the iterator: this is where `Unlinks` must skip
the freed entries in `lazynext`. `each` then takes the first value of what is ahead
(`RestIs`, `LaterIs`), and ends where there is none.

### ScopeStacksProofs

For any depth of calls from C, any number of contexts, saved values and temporaries:

- `StackInvariantHolds`: `StackSpec => []StackInvariant`
- `CallersLiveHolds`: `StackSpec => []CallersLive`
- `LocalsUndoneHolds`: `StackSpec => LocalsUndone`

Neither property is inductive, because a `die` is several frames of the C stack
that take the contexts away one by one, and each of them may call Perl code that
opens contexts of its own, saves, and dies. `StackInvariant` says of every
frame what may be below it (`Placed`), of every context which frame it belongs to and
where its `eval` would be resumed (`ContextOK`), and that both stacks grow in the same
order (`Ordered`). A `die` under way goes to the innermost of the `eval`s that were
there when it began (`JumpOK`). The frame at the end of a scope finds the context that
it is to pop (`PopOK`), and a call from C has its sub until it ends (`SubOK`, `DoneOK`),
unless the frame is doomed: a `die` above is going to jump out of it, and may already
have taken what it works for. Without `Doomed` neither is true, and the frames that
are doomed do nothing any more. `Kept` relates the savestack to the contexts: the
lowest value that was saved since a context was opened is the one from then, or else
the variable has it still. The proof has lemmas about what a push, a pop and a change of
the top leave of each part, and a lemma for each action.

### MethodCacheProofs

For any packages, `@ISA` lists and subs:

- `MethodInvariantHolds`: `MethodSpec => []MethodInvariant`
- `LinearCurrentHolds`: `MethodSpec => []LinearCurrent`
- `HeirsKnownHolds`: `MethodSpec => []HeirsKnown`
- `MethodFoundHolds`: `MethodSpec => []MethodFound`

The assumption is `MethodAssumption`: there are finitely many classes, `UNIVERSAL` is
one, and the null values are none. After a croak any class may be assigned, and many
can be unsettled at a time. `MethodInvariant` is about `Mended`, the lists without those
of the classes in `unlisted`: they have no cycle (`NoCycle`), because every recursion
goes through a class whose assignment croaked, and `PL_isarev` knows every heir by
them (`HeirsIn`). A settled class has the same line by `Mended` as by `@ISA`, and its cached
linearization is the one that the lists of this moment give (`Fresh`); every cached list,
stale or not, has at least what the class inherits from by `Mended` (`Covers`), which is
what makes the next `mro_isa_changed_in` enter enough, and strike off no more than
it may. A cached method of a settled class is the first sub along its
order and then along `UNIVERSAL`'s (`CacheHolds`).

What the orders and the ancestors are has to be established first. The ancestors are the
least set that is closed under `@ISA` (`ClimbIs`, `AncestorsAre`), from which follow
the lemmas about two sets of lists that agree on some classes (`SameAncestors`,
`Elsewhere`, `FewerAncestors`). `Dfs` needs no more levels than there are classes
(`EnoughLevels`), so that an order is the class and the merge of its parents' orders
(`InOrderByParents`), and the same for lists that agree on the line of a class
(`SameOrder`). Each of these is an induction over the naturals, made by the least number at
which a fact would fail (`LeastIs`, `AllNumbers`), and folds over sequences are reduced to it
by their partial results (`FoldExists`, `PrefixIs`). A list that is made from cached ones
is fresh where those of the settled classes are (`DfsFresh`), and covers where all do
(`DfsCovers`). `SetIsa` and `SetSub` then forget what they must, because each settled
class whose answer changes is an heir; and a class that
`SetIsa` leaves out because it croaks first inherits, by `Mended`, nothing new
(`SetIsaEnters`, `EntersHeirs`).

### PerlIOBufProofs

For any bytes, size of the buffer, bound on the file and order of calls, provided
`Slips = {}`:

- `BufInvariantHolds`: `BufSpec => []BufInvariant`
- `StreamIsKept`: `BufSpec => StreamKept`, the refinement of `FileStream`

The assumption is `BufAssumption`: a buffer of at least one byte, and results that are
no bytes. The condition is needed: each of the three uses violates `StreamKept`
(section 5). `BufInvariant` says that the kernel's offset is where the buffer ends
that was filled, or where the one begins that will be written, and inside the file
(`Layers`); that an end of file, once met, is still there; that an error which the `:unix`
layer remembers has reached the handle; that a full write buffer does not stay; and that bytes
are pending only over a read buffer. What a handle stands for (`FileOf`, `Logical`,
`AheadOf`) is the same after `PerlIOBuf_flush` and `PerlIOBuf_fill` that succeed
(`FlushKeeps`, `FilledIs`). After a flush that fails, the file is the old one without the
bytes written last (`FlushFails`, `FailureLoses`). `OverlayIs` and `BeyondIs` say what the
file is at each position. The lemmas for the calls (`GetByteKeeps`, `PutByteKeeps` and
so on) name the step of `FileStream` for each outcome; a `print` to a full buffer
under `$|` goes through two flushes, either of which may fail.

### Only model-checked

- `FreedInTime` of `ScopeStacks`, whose exception (section 5) would have to be
  followed through every `die` under way.
- All liveness (`LockHandedOver`, `EndUnblocksUnlimited`, `SingleTakersServed`,
  `HandlerRuns`), which the proof system does not reach (no reasoning about
  `ENABLED` and fairness).

## 5. Where the code and its documentation disagree

Each of these is a run that TLC ends with a counterexample.

| run | property | what happens |
|---|---|---|
| `shared_lock_panic` | `ScopesEnd` | A time that `pthread_cond_timedwait` refuses makes `cond_timedwait` croak between `MUTEX_LOCK` and `MUTEX_UNLOCK`; the end of the scope then blocks on the mutex for ever. |
| `queue_end` | `EndUnblocks` | With a limit, the one signal of `end` can go to a producer that waits again; takers stay blocked. |
| `queue_closed` | `EndedStaysClosed` | `enqueue` looks at `ENDED` before it waits at the limit but not after. |
| `ithreads_join` | `JoinEnds` | `join` destroys the interpreter with the thread's mutex held; an object for that same thread inside makes it wait for itself. |
| `signals_lost` | `HandlerRuns` | A handler that dies takes the despatch loop with it; the later signals of the loop stay flagged, with `PL_sig_pending` zero, until another signal comes. |
| `signals_clear` | `HandlerFound` | A handler that removes the handler of a signal pending in the same loop leaves it to be despatched to none, which ends the process. |
| `method_destroy` | `DestroyFound` | A change of a class's `@ISA` forgets the `DESTROY` that this class has cached, but not what its subclasses have: the new `DESTROY` is not called for their objects. |

The passing runs bound these out by a constant and no further: `Dying = {3}`
lets only the last signal's handler die, so nothing is behind it;
`ClearsLater = FALSE` keeps a handler from clearing a later one;
`EndUnblocksUnlimited` is the part of `EndUnblocks` that holds. The runs show the
disagreement and no more: `queue_end` has a limit of one and takers of one item, so it is
not about a limit that changes or a count that is too big.
`MutualExclusion` and `DepthKept` are checked and proved with the croak of
`cond_timedwait` included.

Met while modelling, without a run of their own:

- `Settled` in the properties of `MethodCache`. Without it all three are violated, in
  a few steps: `@C::ISA = ('B')`, then `eval { @B::ISA = ('A', 'C') }`, which croaks before
  B is entered in `PL_isarev`, then `@C::ISA = ()`, which ends the recursion and does not
  touch B. B now inherits from A and C, caches its list and its methods at the next
  call, and keeps them when `@A::ISA` or a sub of A changes. `ext/mro/mro.pm:147-150` says of
  `mro::get_isarev` that "These are every class that "isa" the given class name". A second
  assignment to `@B::ISA` mends it.
- `unowed` in `MaskOwed`. A signal is blocked before the savestack knows that it is to be
  unblocked (`mg.c:1660` and `1666`, `1746` and `1750`), and `leave_scope` pops that
  entry before it acts on it. The croak of `csighandler` at 120 pending signals, of
  whichever signal, leaves it blocked for good.
- `Holes` of `HashIter`. `clear`: `hv_clear` of a restricted hash forgets the
  iterator with `LAZYDEL` still on, and the next entry that `each` returns is
  freed while it is linked (`HashIterSafe` violated with `Holes = {"clear"}`).
  `study`: `hv_study` of a hash whose keys were all deleted makes `hsplit` return
  before it moves the iterator's memory (`HashIterSafe`). `destroy`: `hv_clear`
  corrects the number of placeholders at its end only, and a `DESTROY` in the
  middle that makes the hash drop its placeholders subtracts too many
  (`HashCoherent`).
- The exception in `FreedInTime`. When a tied `STORE` dies, the `FREETMPS` of
  `die_unwind` runs under the floor that `call_sv` raised, and frees nothing of the
  statement that made the assignment. Its temporaries are destroyed after the
  `eval` has set `$@`, and a `DESTROY` that has an `eval` of its own clears it.
  Without `DiedInStore` TLC finds this.
- `leave_scope` sets `PL_localizing` to 2 around the `mg_set` of a tied variable
  (`scope.c:973`). If that `STORE` dies it stays set, and `mg_set` then skips
  the magic of `pos`, `vec` and `substr` assignments. `ScopeStacks` has no such
  variable yet.
- `Slips` of `PerlIOBuf`; with any of the three `StreamKept` is violated, and each
  was seen in a program run by perl 5.36, whose code is the same here. `before`: after an `ungetc` before the start of the
  file, the flush in `seek` or `print` leaves the read buffer as it is
  (`perlio.c:4141`), because it cannot seek below zero; the stale bytes are read
  after the `seek`, and a `print` writes the whole buffer. `pending`: while
  pushed-back bytes are in a pending layer, `print` fails without an error flag,
  since that layer is not one to write to, and `flush` drops those bytes but not the
  buffer below, so the position jumps. `append`: on a handle opened with `+>>`
  that has sought elsewhere, what is printed goes to the end of the file, and
  the position counts on from where the handle was.
- `Thread::Semaphore`'s documentation lets `down_timed` have a time limit of zero
  ("an integer >= 0"); `validate_arg` croaks at it, before the lock is taken.

## 6. What is not modelled, and why

- `shared.xs`: the proxies of shared data (`share`, tie magic, the shared
  interpreter under `PL_sharedsv_lock`), and `S_shared_signal_hook`.
- `threads.xs`: stack sizes, the `exit` flags, `is_running` and other queries.
  `FailsInCompany` stands for a failure of `pthread_create` while other threads
  run: `create` unlocks the pool before it marks the thread, and another thread
  can then take an object for a structure about to be freed. The run sets it to
  `FALSE`; with `TRUE`, `NoUseAfterFree` is violated.
- `mg.c`: signals delivered at once (`SIGSEGV` and the like,
  `PERL_SIGNALS=unsafe`), handlers installed by `POSIX::sigaction`, the hooks
  `__WARN__` and `__DIE__`, and `perl_destruct`, which takes `PL_psig_pend`
  away before it frees it.
- In `SafeSignals`, handlers of the signals that threads send stay in place:
  `kill` looks at the handler before it sets the flag, and one removed in
  between is despatched to nothing, as in `signals_clear`.
- `Queue.pm`: `enqueue` and `_validate_count` read `LIMIT` twice in one condition
  (lines 37 and 276), and an assignment to the lvalue `limit` can come between; the
  model reads it once.
- `hv.c`: `hv_clear` of a restricted hash, which makes every entry a placeholder, is one
  step (`HashEmptyRestricted`), though a value's `DESTROY` may run before its entry is
  one (line 2267). The table of shared key strings, tied and magical hashes, what a stash
  does in addition, `PERL_HASH_RANDOMIZE_KEYS`, the variants of a key by its UTF-8
  flag. `each` on a hash after it croaked because the hash had changed: the code
  reads freed memory then, and the program of the model calls `keys` first.
- `mro_core.c` and `gv.c`: C3 and `next::method`, renamed and deleted packages
  (`mro_package_moved`), `AUTOLOAD`. `DestroyFound` is checked in `method_destroy`
  only, since it fails.
- `sv.c`: arrays, hashes and code as holders of references (`pad` stands for them),
  a `DESTROY` that keeps a reference to `$_[0]` itself (the temporary reference
  that `S_curse` makes), global destruction, `perl_clone`.
- `scope.c`, `pp_ctl.c`: `next`, `last`, `goto`, `return` out of blocks, string
  `eval` and `require`, `sort`, formats, `exit`, and a `die` that nobody catches.
- `FileStream` does not record which call was made, only its result and what became of
  the file and the position: a `print` that did nothing and returned true would pass for
  another call that may do so, such as `eof`.
- `perlio.c`: `:crlf`, `:utf8`, `:encoding`, `:mmap`, `:stdio`, pipes and terminals
  (where a seek fails), `sysread` and `syswrite` past the buffer, handles
  duplicated or cloned, the reference counts of descriptors, the signal handlers that
  run inside a read. A second pending layer above a full one is bounded out.
- Left out for good: the regular expression engine and the compiler (algorithms over
  data, with no interleavings), conversions, vendored modules, ports and build
  tools.

## 7. Plan

| order | module | models | worth stating | worth proving |
|---|---|---|---|---|
| done | `Monitor`, `SharedLock`, `SharedLockProofs` | `shared.xs` locks | see above | see above |
| done | `ThreadQueue`, `ThreadQueueProofs` | `Queue.pm` | see above | see above |
| done | `IThreads`, `IThreadsProofs` | `threads.xs` | see above | see above |
| done | `SafeSignals`, `SafeSignalsProofs` | `mg.c` signals | see above | see above |
| done | `Semaphore`, `SharedLockProofs` | `Semaphore.pm` over `SharedLock` | see above | see above |
| done | `HashIter`, `HeapProofs` | `hv.c` | see above | see above |
| done | `MethodCache`, `MethodCacheProofs` | `mro_core.c`, `gv.c` | see above | see above |
| done | `SvHeap`, `HeapProofs` | `sv.c` | see above | see above |
| done | `ScopeStacks`, `ScopeStacksProofs` | `scope.c`, `pp_ctl.c`, `perl.c` | `PL_localizing`, which a die in a `STORE` leaves set; `next`, `last` and `return` through scopes | see above; `FreedInTime` |
| done | `FileStream`, `PerlIOBuf`, `PerlIOBufProofs` | `perlio.c` | the counts of descriptors under threads; `:crlf` | see above |
| next | `SharedData` | `shared.xs` | proxies and the counts in the shared interpreter; the nesting of the shared-space lock with safe points (`shared.xs:1280`) | no use of what was freed |

Abstract specifications still worth stating: a map with a cursor for `HashIter`
and a count with a set of sleepers for `Semaphore`. The small bounds will be of the same kind as above, so that one thing
is in motion while another is looked at.
