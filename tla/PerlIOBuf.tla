------------------------------ MODULE PerlIOBuf ------------------------------
(***************************************************************************)
(* A file handle with perl's layers :unix and :perlio, perlio.c: a buffer    *)
(* that is a read buffer, a write buffer or idle, a descriptor whose offset  *)
(* the kernel keeps, and the pending layer that holds what was pushed back   *)
(* when the buffer had no room.  The kernel writes less than it is asked,    *)
(* reads less, and fails.                                                   *)
(*                                                                         *)
(* The handle is a record, because a call is several functions one after    *)
(* the other, each of which turns it into one of some others.               *)
(***************************************************************************)
EXTENDS Integers, SequencesExt

CONSTANTS
  Bytes,              \* what files consist of
  Fine, Failed, Eof,  \* results that are no bytes
  Junk,               \* what a buffer holds that was not put there
  BufSize,            \* b->bufsiz
  MaxFile,            \* bound: bytes in the file
  Slips               \* uses that the layers mishandle, see Slip

ASSUME BufAssumption == /\ Junk \notin Bytes
                        /\ {Fine, Failed, Eof} \cap Bytes = {}
                        /\ BufSize \in Nat \ {0} /\ MaxFile \in Nat
                        /\ Slips \subseteq {"pending", "before", "append"}

VARIABLES
  handle,     \* see FreshHandle
  pending,    \* the bytes of the pending layer, <<>> if there is none
  appends,    \* opened for appending: PERLIO_F_APPEND and O_APPEND
  autoflush,  \* IOf_FLUSH: $| is set
  result      \* of the last call

BufVars == <<handle, pending, appends, autoflush, result>>

Beyond(f, p) == SubSeq(f, Max({p, 0}) + 1, Len(f))
Overlay(f, p, s) == IF s = <<>> THEN f
                    ELSE SubSeq(f, 1, p) \o s \o Beyond(f, p + Len(s))

NoBytes == [i \in 1..BufSize |-> Junk]

\* The layers after open() at offset p of the file f.
FreshHandle(f, p) ==
    [disk |-> f, offset |-> p,              \* the kernel's
     uniteof |-> FALSE, uniterr |-> FALSE,  \* flags of the :unix layer
     buf |-> NoBytes, ptr |-> 0, end |-> 0, posn |-> p,
     rdbuf |-> FALSE, wrbuf |-> FALSE, err |-> FALSE]

Logical(h) == h.posn + h.ptr     \* PerlIOBuf_tell
Unread(h) == IF h.rdbuf THEN SubSeq(h.buf, h.ptr + 1, h.end) ELSE <<>>
Unwritten(h) == IF h.wrbuf THEN SubSeq(h.buf, 1, h.ptr) ELSE <<>>

\* A use that goes wrong.  The model has what happens then; the program makes
\* it only if the constant Slips says so.
Slip(name, wrong) == wrong => name \in Slips

-----------------------------------------------------------------------------
(* The layers.  Each operator is the set of [h, ok] it may end with. *)

Good(h) == [h |-> h, ok |-> TRUE]
Bad(h) == [h |-> h, ok |-> FALSE]

\* PerlIOUnix_write: s is written.
Wrote(h, s) == LET place == IF appends THEN Len(h.disk) ELSE h.offset
               IN IF s = <<>> THEN h
                  ELSE [h EXCEPT !.disk = Overlay(@, place, s), !.offset = place + Len(s)]

\* PerlIOUnix_seek.
Sought(h, p) == [h EXCEPT !.offset = p, !.uniteof = FALSE]

Idle(h) == [h EXCEPT !.buf = NoBytes, !.ptr = 0, !.end = 0, !.rdbuf = FALSE, !.wrbuf = FALSE]

\* An error, which the :unix layer has reported or not.
Erring(h, reported) == [h EXCEPT !.err = TRUE, !.uniterr = @ \/ reported]

\* The first n of the written bytes reach the kernel.
Sent(h, n) == [Wrote(h, SubSeq(Unwritten(h), 1, n)) EXCEPT !.posn = @ + n]

\* PerlIOBuf_flush of written bytes: all, or some and an error.
Drained(h) == LET all == Len(Unwritten(h))
              IN {Good(Idle(Sent(h, all)))} \cup
                 {Bad(Erring(Idle(Sent(h, n)), reported)) :
                     n \in 0..all - 1, reported \in BOOLEAN}

SeeksNowhere(h) == {Good(Idle([h EXCEPT !.posn = Logical(h)]))}   \* mutant

\* PerlIOBuf_flush of bytes read: the kernel's offset is set to where the
\* program is, if that is in the file, or else all is left as it is.
SoughtBack(h) == LET p == Logical(h)
                 IN IF p < 0 THEN {Good(h)}
                    ELSE {Good(Idle([Sought(h, p) EXCEPT !.posn = p]))}

Flushed(h) == IF h.wrbuf THEN Drained(h)
              ELSE IF Unread(h) # <<>> THEN SoughtBack(h)
              ELSE {Good(Idle([h EXCEPT !.posn = Logical(h)]))}

\* PerlIOUnix_read into the buffer, the end of PerlIOBuf_fill.
Loaded(h) ==
    LET rest == Beyond(h.disk, h.offset)
    IN IF h.uniteof \/ h.uniterr THEN {Bad(h)}
       ELSE {Bad(Erring(h, reported)) : reported \in BOOLEAN} \cup
            IF rest = <<>> THEN {Bad([h EXCEPT !.uniteof = TRUE])}
            ELSE {Good([h EXCEPT !.buf = [i \in 1..BufSize |-> IF i <= n THEN rest[i] ELSE Junk],
                                 !.end = n, !.offset = @ + n, !.rdbuf = TRUE]) :
                     n \in 1..Min({BufSize, Len(rest)})}

\* PerlIOBuf_fill, when nothing is unread.
Filled(h) == UNION {IF f.ok THEN Loaded(f.h) ELSE {f} : f \in Flushed(h)}

-----------------------------------------------------------------------------
(* The calls *)

BufInit == /\ handle = FreshHandle(<<>>, 0) /\ appends = FALSE
           /\ pending = <<>> /\ autoflush = FALSE /\ result = Fine

\* PerlIOBase_read of a byte, PerlIOPending_read.  The pending layer goes with
\* its last byte.
GetByte ==
    /\ \/ /\ pending # <<>>
          /\ result' = Head(pending) /\ pending' = Tail(pending)
          /\ UNCHANGED handle
       \/ /\ pending = <<>> /\ Unread(handle) # <<>>
          /\ result' = Head(Unread(handle))
          /\ handle' = [handle EXCEPT !.ptr = @ + 1]
          /\ UNCHANGED pending
       \/ /\ pending = <<>> /\ Unread(handle) = <<>>
          /\ \E f \in Filled(handle) :
                IF f.ok THEN result' = f.h.buf[1] /\ handle' = [f.h EXCEPT !.ptr = 1]
                        ELSE result' = Eof /\ handle' = f.h
          /\ UNCHANGED pending
    /\ UNCHANGED <<appends, autoflush>>

\* do_eof: getc() and ungetc(), unless the buffer shows that there is more.
TestEof ==
    /\ IF pending \o Unread(handle) # <<>> THEN result' = Fine /\ UNCHANGED handle
       ELSE \E f \in Filled(handle) : /\ result' = IF f.ok THEN Fine ELSE Eof
                                      /\ handle' = f.h
    /\ UNCHANGED <<pending, appends, autoflush>>

\* PerlIOBuf_unread of a byte; PerlIOBase_unread, when the buffer has no room.
\* The pending layer has no more than BufSize bytes: further ones are a bound.
UngetByte(b) ==
    /\ \/ /\ pending # <<>> /\ Len(pending) < BufSize
          /\ pending' = <<b>> \o pending
          /\ UNCHANGED handle
       \/ /\ pending = <<>>
          /\ \E f \in IF handle.wrbuf THEN Flushed(handle) ELSE {Good(handle)} :
             \/ /\ f.h.rdbuf /\ f.h.ptr > 0
                /\ handle' = [f.h EXCEPT !.ptr = @ - 1, !.buf[f.h.ptr] = b]
                /\ UNCHANGED pending
             \/ /\ f.h.rdbuf /\ f.h.ptr = 0
                /\ pending' = <<b>>
                /\ handle' = f.h
             \/ /\ ~f.h.rdbuf
                /\ handle' = [f.h EXCEPT !.rdbuf = TRUE, !.posn = @ - BufSize,
                                 !.ptr = BufSize - 1, !.end = BufSize, !.buf[BufSize] = b]
                /\ UNCHANGED pending
    /\ result' = Fine
    /\ UNCHANGED <<appends, autoflush>>

\* pp_print of a byte: PerlIOBuf_write, do_print's look at the error flag and,
\* if that is clear, the flush of $|.  The pending layer is not one to write to.
PutByte(b) ==
    /\ Slip("pending", pending # <<>>)
    /\ Slip("before", handle.rdbuf /\ Logical(handle) < 0)
    /\ \/ /\ pending # <<>>
          /\ result' = Failed
          /\ UNCHANGED handle
       \/ /\ pending = <<>>
          /\ \E f \in IF handle.rdbuf THEN Flushed(handle) ELSE {Good(handle)} :
             LET put == [f.h EXCEPT !.wrbuf = TRUE, !.buf[f.h.ptr + 1] = b, !.ptr = @ + 1]
             IN /\ Len(put.disk) < MaxFile \/ (~appends /\ Logical(f.h) < MaxFile)
                /\ Slip("append", appends /\ f.h.posn # Len(f.h.disk))
                /\ \E g \in IF put.ptr = BufSize THEN Flushed(put) ELSE {Good(put)} :
                   \E e \in IF autoflush /\ ~g.h.err THEN Flushed(g.h) ELSE {g} :
                      /\ handle' = e.h
                      /\ result' = IF e.h.err THEN Failed ELSE Fine
    /\ UNCHANGED <<pending, appends, autoflush>>

\* PerlIOBuf_seek, PerlIOPending_seek.
SeekTo(p) ==
    /\ Slip("before", handle.rdbuf /\ Logical(handle) < 0)
    /\ \E f \in Flushed(handle) :
          /\ p <= Len(f.h.disk)
          /\ handle' = IF f.ok THEN [Sought(f.h, p) EXCEPT !.posn = p] ELSE f.h
          /\ result' = IF f.ok THEN Fine ELSE Failed
    /\ pending' = <<>>
    /\ UNCHANGED <<appends, autoflush>>

\* PerlIOBuf_flush; PerlIOPending_flush forgets the pending bytes and no more.
FlushHandle ==
    /\ Slip("pending", pending # <<>>)
    /\ \E f \in IF pending = <<>> THEN Flushed(handle) ELSE {Good(handle)} :
          /\ handle' = f.h
          /\ \/ /\ result' = IF f.ok THEN Fine ELSE Failed
                /\ UNCHANGED autoflush
             \/ /\ ~autoflush /\ autoflush' = TRUE   \* $| = 1
                /\ result' = Fine
    /\ pending' = <<>>
    /\ UNCHANGED appends

\* $| = 0.
NoAutoflush == /\ autoflush /\ autoflush' = FALSE
               /\ result' = Fine
               /\ UNCHANGED <<handle, pending, appends>>

\* PerlIOBuf_tell, where it does more than add.
TellAppending ==
    /\ appends /\ handle.wrbuf
    /\ \E f \in Flushed(handle) : handle' = [f.h EXCEPT !.posn = f.h.offset]
    /\ result' = Fine
    /\ UNCHANGED <<pending, appends, autoflush>>

\* io_close with PerlIOBuf_close or PerlIOPending_close, and the file opened
\* again.  io_close reports an earlier error, but not from under a pending layer,
\* and one of close(2).
CloseAndOpen ==
    /\ \E f \in Flushed(handle) :
          /\ appends' \in BOOLEAN
          /\ handle' = FreshHandle(f.h.disk, IF appends' THEN Len(f.h.disk) ELSE 0)
          /\ result' = Failed \/ (result' = Fine /\ f.ok /\ (handle.err => pending # <<>>))
    /\ pending' = <<>>
    /\ UNCHANGED autoflush

\* PerlIOBase_clearerr.
ClearErr == /\ handle' = [handle EXCEPT !.err = FALSE, !.uniterr = FALSE, !.uniteof = FALSE]
            /\ result' = Fine
            /\ UNCHANGED <<pending, appends, autoflush>>

BufNext == \/ GetByte \/ TestEof \/ FlushHandle \/ TellAppending \/ CloseAndOpen \/ ClearErr
           \/ NoAutoflush
           \/ \E b \in Bytes : UngetByte(b) \/ PutByte(b)
           \/ \E p \in 0..MaxFile : SeekTo(p)

BufSpec == BufInit /\ [][BufNext]_BufVars

-----------------------------------------------------------------------------
(* Properties *)

\* The file as the program has written it.
Contents == Overlay(handle.disk, IF appends THEN Len(handle.disk) ELSE handle.posn,
                    Unwritten(handle))

\* Where the program is, as tell() says, and what reading on would return.
Position == Logical(handle) - Len(pending)
Ahead == pending \o IF handle.rdbuf THEN Unread(handle) \o Beyond(handle.disk, handle.offset)
                                    ELSE Beyond(Contents, Logical(handle))

\* The handle behaves as a file with a position: however reading, writing,
\* pushing back and seeking alternate, and wherever the buffer ends or the
\* kernel stops, each byte comes from and goes to where tell() says, and no byte
\* is lost without an error.
Stream == INSTANCE FileStream
              WITH file <- Contents, at <- Position, ahead <- Ahead, error <- handle.err
StreamKept == Stream!StreamSpec
=============================================================================
