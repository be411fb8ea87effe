----------------------------- MODULE FileStream -----------------------------
(***************************************************************************)
(* What a buffered, seekable file handle promises to the program: one file, *)
(* one position in it, and the bytes that reading on would return, which    *)
(* are those of the file but for what was pushed back.  There is no buffer   *)
(* and no kernel.  What was written may be lost, but only when an error is   *)
(* reported, and only the latest of it.                                     *)
(***************************************************************************)
EXTENDS Integers, Sequences

CONSTANTS
  Bytes,             \* what files consist of
  Fine, Failed, Eof  \* results that are no bytes

VARIABLES
  file,     \* the contents
  at,       \* the position, as tell() says
  ahead,    \* what reading would return from here on
  result,   \* of the last operation
  error     \* error reported, and not cleared

From(f, p) == SubSeq(f, p + 1, Len(f))
Put(f, p, b) == IF p = Len(f) THEN Append(f, b) ELSE [f EXCEPT ![p + 1] = b]

StreamInit == /\ file \in Seq(Bytes) /\ at \in {0, Len(file)} /\ ahead = From(file, at)
              /\ result = Fine /\ error = FALSE

Read == /\ ahead # <<>>
        /\ result' = Head(ahead)
        /\ ahead' = Tail(ahead) /\ at' = at + 1
        /\ UNCHANGED <<file, error>>

\* At the end, or because of an error, old or new.
ReadNothing == /\ ahead = <<>> \/ error'
               /\ result' = Eof
               /\ error => error'
               /\ UNCHANGED <<file, at, ahead>>

\* eof(): there is more.
MoreToRead == /\ ahead # <<>>
              /\ result' = Fine
              /\ UNCHANGED <<file, at, ahead, error>>

PushBack(b) == /\ ahead' = <<b>> \o ahead /\ at' = at - 1
               /\ result' = Fine
               /\ UNCHANGED <<file, error>>

\* An earlier error that was not cleared makes print return false.
Write(b) == /\ at \in 0..Len(file)
            /\ file' = Put(file, at, b)
            /\ at' = at + 1 /\ ahead' = From(file', at')
            /\ result' = IF error THEN Failed ELSE Fine
            /\ UNCHANGED error

\* Also tells where it is, and drops what was pushed back.
Seek == /\ at' \in 0..Len(file) /\ ahead' = From(file, at')
        /\ result' = Fine
        /\ UNCHANGED <<file, error>>

\* Flushing drops what was pushed back, unless that is more than was read.
Flush == /\ at >= 0
         /\ ahead' = From(file, at)
         /\ result' = Fine
         /\ UNCHANGED <<file, at, error>>

\* close(), which may report an error, of its own or from before, and another open().
Reopen == /\ at' \in {0, Len(file)} /\ ahead' = From(file, at')
          /\ result' \in {Fine, Failed}
          /\ error' = FALSE
          /\ UNCHANGED file

ClearErr == error' = FALSE /\ result' = Fine /\ UNCHANGED <<file, at, ahead>>

\* The file without the last bytes written before the position: those after p.
Lost(f, p) == /\ p \in 0..at /\ Len(f) \in p..Len(file)
              /\ Len(file) > at => Len(f) = Len(file)
              /\ \A i \in 1..Len(f) : i <= p \/ i > at => f[i] = file[i]

\* An operation that could not write: it says so, by its result or by the
\* handle's error.  It may be a push-back, which still takes place.
Lose == \E pushed \in {<<>>} \cup {<<b>> : b \in Bytes} :
            /\ Lost(file', at' + Len(pushed))
            /\ ahead' = pushed \o From(file', at' + Len(pushed))
            /\ error' = TRUE /\ result' \in {Failed, Eof, Fine}
CloseLoses == /\ \E p \in 0..at : Lost(file', p)
              /\ at' \in {0, Len(file')} /\ ahead' = From(file', at')
              /\ error' = FALSE /\ result' = Failed

StreamNext == \/ ClearErr \/ Read \/ ReadNothing \/ MoreToRead
              \/ \E b \in Bytes : PushBack(b) \/ Write(b)
              \/ Seek \/ Flush \/ Reopen
              \/ Lose \/ CloseLoses

StreamSpec == StreamInit /\ [][StreamNext]_<<file, at, ahead, result, error>>
=============================================================================
