------------------------------- MODULE HashIter -------------------------------
(***************************************************************************)
(* A perl hash and its iterator, hv.c: chains of entries (HE), placeholders *)
(* of restricted hashes, growing and shrinking, each(), and the entry that  *)
(* is deleted while the iterator stands on it, which stays allocated until  *)
(* the iterator moves on (LAZYDEL).  hv_clear is one step per freed entry,  *)
(* because the value's DESTROY may use the hash in between.                 *)
(*                                                                         *)
(* An entry is its key and its place in memory: a key that is stored again  *)
(* while its old entry is still allocated gets another place.  The build is *)
(* cperl's default: PERL_PERTURB_KEYS_TOP and USE_SAFE_HASHITER.  timestamp *)
(* and savedstamp are only compared: the model keeps whether they differ.   *)
(***************************************************************************)
EXTENDS Integers, FiniteSets, SequencesExt

CONSTANTS
  Keys,        \* the keys the program uses
  HashOf,      \* HashOf[k]: the hash function, the bucket is its remainder
  ReadOnly,    \* the keys whose values it makes readonly
  Cells,       \* where in memory an HE may be
  NoEntry,     \* a null HE*
  FirstSize,   \* buckets of a new hash: PERL_HASH_DEFAULT_HvMAX + 1
  MaxSize,     \* bound: buckets the hash may grow to
  StudySize,   \* hv_study shrinks no array smaller than this; 16 in the code
  Holes        \* which uses that corrupt the hash the program makes, see Hole

ASSUME HashAssumption == /\ HashOf \in [Keys -> Nat]
                         /\ ReadOnly \subseteq Keys
                         /\ NoEntry \notin Keys \X Cells
                         /\ Cardinality(Cells) > 1
                         /\ {FirstSize, MaxSize, StudySize} \subseteq Nat \ {0, 1}
                         /\ FirstSize <= MaxSize
                         /\ Holes \subseteq {"clear", "study", "destroy"}

VARIABLES
  chain,       \* HvARRAY: chain[b] lists the entries of bucket b
  placeholder, \* the linked entries whose HeVAL is PLACEHOLDER
  frozen,      \* those whose value is READONLY (Hash::Util::lock_value)
  keycount,    \* xhv_keys, placeholders included
  placecount,  \* HvPLACEHOLDERS
  restricted,  \* SvREADONLY(hv)
  riter,       \* xhv_riter: the iterator's bucket, or NoRiter
  eiter,       \* xhv_eiter: the entry each() returned last
  lazydel,     \* HvLAZYDEL: eiter is unlinked and to be freed
  lazynext,    \* HeNEXT(xhv_eiter) of such an entry
  changed,     \* xhv_timestamp # xhv_savedstamp
  clearing,    \* hv_free_entries runs and is at this bucket, or NoRiter
  owed,        \* history: valued since the iteration began, not yet returned
  visited,     \* history: returned by this iteration
  whole,       \* history: nothing has voided this iteration's order
  ended        \* history: its last each() returned the empty list

chainVars == <<chain, placeholder, frozen, keycount, placecount>>
iterVars == <<riter, eiter, lazydel, lazynext, changed>>
historyVars == <<owed, visited, whole, ended>>
HashVars == <<chainVars, iterVars, restricted, clearing, historyVars>>

NoRiter == -1   \* HV_NO_RITER

Entries == Keys \X Cells
KeyOf(e) == e[1]

Size == Cardinality(DOMAIN chain)
Linked == UNION {ToSet(chain[b]) : b \in DOMAIN chain}
Valued == Linked \ placeholder
Bucket(k) == HashOf[k] % Size
BucketOf(e) == Bucket(KeyOf(e))
EntriesOf(k) == {e \in ToSet(chain[Bucket(k)]) : KeyOf(e) = k}

\* The entries HeNEXT leads to from the linked entry e.
After(e) == LET c == chain[BucketOf(e)]
            IN SubSeq(c, SelectInSeq(c, LAMBDA d : d = e) + 1, Len(c))

\* The first member of s in S, or none.
FirstOf(s, S) == LET i == SelectInSeq(s, LAMBDA d : d \in S)
                 IN IF i = 0 THEN NoEntry ELSE s[i]

\* Memory new_HE may hand out: all that is neither linked nor lazily deleted.
FreeEntries == Entries \ (Linked \cup IF lazydel THEN {eiter} ELSE {})

\* eiter points to an HE that was freed.
Dangling == eiter \notin Linked \cup {NoEntry} /\ ~lazydel

\* DO_HSPLIT for so many keys in n buckets: 90 percent full.
Crowded(keys, n) == n = 1 \/ (keys * 100) \div n >= 90


\* The readonly values that are left when the entries S are freed.
FrozenWithout(S) == frozen \ S

\* The sequence s without the members of S.
Drop(s, S) == FlattenSeq([i \in 1..Len(s) |-> IF s[i] \in S THEN <<>> ELSE <<s[i]>>])

Without(c, S) == [b \in DOMAIN c |-> Drop(c[b], S)]

\* The entries of bucket i that belong into bucket j of n.
Fit(c, i, j, n) == Drop(c[i], {e \in ToSet(c[i]) : HashOf[KeyOf(e)] % n # j})

RehashKeepsOrder(c, n) ==   \* mutant: a bucket that is split loses its tail
    [j \in 0..n-1 |->
        IF j \in DOMAIN c
        THEN LET i == SelectInSeq(c[j], LAMBDA e : HashOf[KeyOf(e)] % n # j)
             IN IF i = 0 THEN c[j] ELSE SubSeq(c[j], 1, i - 1)
        ELSE Fit(c, j % Cardinality(DOMAIN c), j, n)]

\* hsplit to n buckets: who stays keeps its place, who moves is pushed on top.
Rehash(c, n) ==
    LET old == Cardinality(DOMAIN c)
    IN [j \in 0..n-1 |->
           Reverse(FlattenSeq([i \in 1..old |-> IF i - 1 = j THEN <<>> ELSE Fit(c, i - 1, j, n)]))
           \o IF j < old THEN Fit(c, j, j, n) ELSE <<>>]

\* A use of the hash that the code is not ready for.  The model has what
\* happens then; the program makes it only if the constant Holes says so.
Hole(name, corrupts) == corrupts => name \in Holes

HashInit == /\ chain = [b \in 0..FirstSize-1 |-> <<>>]
            /\ placeholder = {} /\ frozen = {} /\ keycount = 0 /\ placecount = 0
            /\ restricted = FALSE /\ clearing = NoRiter
            /\ riter = NoRiter /\ eiter = NoEntry /\ lazydel = FALSE /\ lazynext = NoEntry
            /\ changed = FALSE
            /\ owed = {} /\ visited = {} /\ whole = TRUE /\ ended = FALSE

-----------------------------------------------------------------------------
(* hv_common: fetch, exists, store *)

ToFrontAlways(e) == chain' = [chain EXCEPT ![BucketOf(e)] = <<e>> \o Drop(@, {e})]   \* mutant

\* PERL_PERTURB_KEYS_TOP: the found entry goes first unless each() is going on.
ToFront(e) == chain' = IF eiter # NoEntry THEN chain
                       ELSE [chain EXCEPT ![BucketOf(e)] = <<e>> \o Drop(@, {e})]

\* A key that has a value, whatever is done to the value.
HashFind(k) == \E e \in EntriesOf(k) \ placeholder :
                   /\ ToFront(e)
                   /\ UNCHANGED <<placeholder, frozen, keycount, placecount,
                                  iterVars, restricted, clearing, historyVars>>

\* A store into a placeholder: also how a restricted hash gets its key back.
HashRefill(k) == \E e \in EntriesOf(k) \cap placeholder :
                     /\ ToFront(e)
                     /\ placeholder' = placeholder \ {e}
                     /\ placecount' = placecount - 1
                     /\ UNCHANGED <<frozen, keycount,
                                    iterVars, restricted, clearing, historyVars>>

UnlinksAtOnce(S) == UNCHANGED <<lazydel, lazynext>>   \* mutant: eiter is freed too

UnlinksNext(S) ==   \* mutant: the entry after a lazily deleted one is forgotten
    /\ lazydel' = (lazydel \/ eiter \in S)
    /\ lazynext' = IF eiter \in S THEN FirstOf(After(eiter), Linked \ S) ELSE lazynext

\* The entries S leave their chains and are freed; the one that each() stands
\* on is freed later, and the HeNEXT of such an entry is kept pointing to
\* what is linked.
Unlinks(S) ==
    /\ lazydel' = (lazydel \/ eiter \in S)
    /\ lazynext' = IF eiter \in S THEN FirstOf(After(eiter), Linked \ S)
                   ELSE IF lazydel /\ lazynext \in S THEN FirstOf(After(lazynext), Linked \ S)
                   ELSE lazynext

\* Not found, not restricted: a new entry on top of its bucket.  A crowded
\* hash drops its placeholders first, and doubles if it still is crowded.
HashInsert(e) ==
    LET k      == KeyOf(e)
        pushed == [chain EXCEPT ![Bucket(k)] = <<e>> \o @]
        sweeps == Crowded(keycount + 1, Size) /\ placecount > 0
        swept  == IF sweeps THEN placeholder ELSE {}
        left   == keycount + 1 - (IF sweeps THEN placecount ELSE 0)
        splits == Crowded(left, Size)
    IN /\ EntriesOf(k) = {} /\ ~restricted /\ e \in FreeEntries
       /\ splits => 2 * Size <= MaxSize
       /\ Hole("destroy", sweeps /\ clearing # NoRiter)
       /\ chain' = IF splits THEN Rehash(Without(pushed, swept), 2 * Size)
                             ELSE Without(pushed, swept)
       /\ keycount' = left
       /\ placeholder' = placeholder \ swept
       /\ placecount' = IF sweeps THEN 0 ELSE placecount
       /\ Unlinks(swept)
       /\ changed' = TRUE
       /\ whole' = (whole /\ ~splits)
       /\ UNCHANGED <<frozen, riter, eiter, restricted, clearing, owed, visited, ended>>

-----------------------------------------------------------------------------
(* hv_delete_common, clear_placeholders, locking *)

HashDelete(k) == \E e \in EntriesOf(k) \ placeholder :
    /\ ~restricted
    /\ chain' = Without(chain, {e})
    /\ Unlinks({e})
    /\ keycount' = keycount - 1
    /\ frozen' = FrozenWithout({e})
    /\ changed' = TRUE
    /\ owed' = owed \ {e} /\ visited' = visited \ {e}
    /\ UNCHANGED <<placeholder, placecount, riter, eiter, restricted, clearing,
                   whole, ended>>

\* In a restricted hash the key stays allowed; a readonly value croaks.
HashDeleteRestricted(k) == \E e \in EntriesOf(k) \ (placeholder \cup frozen) :
    /\ restricted
    /\ placeholder' = placeholder \cup {e}
    /\ placecount' = placecount + 1
    /\ owed' = owed \ {e} /\ visited' = visited \ {e}
    /\ UNCHANGED <<chain, frozen, keycount, iterVars, restricted, clearing,
                   whole, ended>>

\* hv_clear_placeholders, the first thing lock_keys() does.
HashClearPlaceholders ==
    /\ placecount > 0
    /\ Hole("destroy", clearing # NoRiter)
    /\ chain' = Without(chain, placeholder)
    /\ Unlinks(placeholder)
    /\ keycount' = keycount - placecount
    /\ placecount' = 0 /\ placeholder' = {}
    /\ UNCHANGED <<frozen, riter, eiter, changed, restricted, clearing, historyVars>>

\* Internals::SvREADONLY on the hash.  A DESTROY does not lock what is cleared.
HashRestrict == /\ clearing = NoRiter
                /\ restricted' = ~restricted
                /\ UNCHANGED <<chainVars, iterVars, clearing, historyVars>>

\* Internals::SvREADONLY on a value of a locked hash: lock_value, unlock_value.
HashFreeze(k) == \E e \in EntriesOf(k) \ placeholder :
    /\ restricted
    /\ frozen' = IF e \in frozen THEN frozen \ {e} ELSE frozen \cup {e}
    /\ UNCHANGED <<chain, placeholder, keycount, placecount, iterVars, restricted,
                   clearing, historyVars>>

-----------------------------------------------------------------------------
(* hv_clear and hv_undef *)

\* A restricted hash keeps its keys as placeholders, up to the first readonly
\* value, which croaks and leaves the rest as it is.
HashEmptyRestricted ==
    LET order == FlattenSeq([i \in 1..Size |-> chain[i-1]])
        stop  == SelectInSeq(order, LAMBDA e : e \in frozen \ placeholder)
        done  == ToSet(IF stop = 0 THEN order ELSE SubSeq(order, 1, stop - 1))
    IN /\ restricted
       /\ Hole("clear", stop = 0 /\ lazydel)
       /\ placeholder' = placeholder \cup done
       /\ placecount' = placecount + Cardinality(done \ placeholder)
       /\ eiter' = IF stop = 0 THEN NoEntry ELSE eiter
       /\ owed' = owed \ done /\ visited' = visited \ done
       /\ whole' = (whole /\ stop # 0)
       /\ UNCHANGED <<chain, frozen, keycount, riter, lazydel, lazynext, changed,
                      restricted, clearing, ended>>

HashClearBegins == /\ ~restricted /\ clearing = NoRiter
                   /\ clearing' = 0
                   /\ UNCHANGED <<chainVars, iterVars, restricted, historyVars>>

ClearForgetsLazy ==   \* mutant: hfree_next_entry leaves LAZYDEL on
    /\ riter' = IF eiter = NoEntry THEN riter ELSE NoRiter
    /\ eiter' = NoEntry /\ lazydel' = lazydel /\ lazynext' = lazynext

\* hfree_next_entry looks at the iterator each time, for a DESTROY may have
\* started a new iteration.
ClearResetsIterator == /\ riter' = IF eiter = NoEntry THEN riter ELSE NoRiter
                       /\ eiter' = NoEntry
                       /\ lazydel' = (lazydel /\ eiter = NoEntry)
                       /\ lazynext' = IF eiter = NoEntry THEN lazynext ELSE NoEntry

\* The next entry is freed.  HvPLACEHOLDERS is left alone until the end.
HashClearStep ==
    LET from == {b \in DOMAIN chain : b >= clearing /\ chain[b] # <<>>}
        all  == {b \in DOMAIN chain : chain[b] # <<>>}
        b    == Min(IF from # {} THEN from ELSE all)
        e    == Head(chain[b])
    IN /\ clearing # NoRiter /\ keycount > 0
       /\ ClearResetsIterator
       /\ clearing' = b
       /\ chain' = [chain EXCEPT ![b] = Tail(@)]
       /\ keycount' = keycount - 1
       /\ placeholder' = placeholder \ {e} /\ frozen' = FrozenWithout({e})
       /\ owed' = owed \ {e} /\ visited' = visited \ {e}
       /\ UNCHANGED <<placecount, changed, restricted, whole, ended>>

\* The hash is empty.  hv_undef gives the bucket array and the iterator up too.
HashClearEnds ==
    /\ clearing # NoRiter /\ keycount = 0
    /\ \/ ClearResetsIterator /\ UNCHANGED <<chain, changed>>
       \/ /\ chain' = [b \in 0..FirstSize-1 |-> <<>>]
          /\ riter' = NoRiter /\ eiter' = NoEntry /\ lazydel' = FALSE /\ lazynext' = NoEntry
          /\ changed' = FALSE
    /\ clearing' = NoRiter
    /\ placecount' = 0
    /\ UNCHANGED <<placeholder, frozen, keycount, restricted, historyVars>>

-----------------------------------------------------------------------------
(* hv_ksplit, hv_study *)

\* keys(%h) = n, with n up to twice the buckets there are.
HashKsplit == /\ 2 * Size <= MaxSize
              /\ chain' = Rehash(chain, 2 * Size)
              /\ changed' = TRUE
              /\ whole' = FALSE
              /\ UNCHANGED <<placeholder, frozen, keycount, placecount, riter, eiter,
                             lazydel, lazynext, restricted, clearing, owed, visited, ended>>

\* S_ceil_to_power2, doubled if that would be crowded.
StudiedSize(keys) ==
    LET power[i \in 0..keys] == IF i = 0 THEN 1 ELSE 2 * power[i-1]
        n == Min({m \in {power[i] : i \in 0..keys} : m >= keys})
    IN IF Crowded(keys, n) THEN 2 * n ELSE n

\* study(%h) drops the placeholders of any hash, and shrinks a roomy one.
\* hsplit of a hash without entries forgets to move the iterator's memory.
HashStudy ==
    LET size  == StudiedSize(keycount)
        roomy == Size >= StudySize /\ keycount < Size \div 2 /\ size < Size
        lost  == roomy /\ Valued = {}
    IN /\ clearing = NoRiter
       /\ placecount > 0 \/ roomy
       /\ Hole("study", lost)
       /\ chain' = IF roomy THEN Rehash(Without(chain, placeholder), size)
                            ELSE Without(chain, placeholder)
       /\ keycount' = keycount - placecount
       /\ placecount' = 0 /\ placeholder' = {}
       /\ Unlinks(placeholder)
       /\ riter' = IF lost THEN 0 ELSE riter
       /\ eiter' = IF lost THEN NoEntry ELSE eiter
       /\ changed' = (changed \/ roomy)
       /\ whole' = FALSE
       /\ UNCHANGED <<frozen, restricted, clearing, owed, visited, ended>>

-----------------------------------------------------------------------------
(* hv_iterinit, hv_iternext_flags *)

\* keys %h and values %h; in list context they walk the hash to its end too.
HashIterInit == /\ riter' = NoRiter /\ eiter' = NoEntry
                /\ lazydel' = (lazydel /\ eiter = NoEntry)
                /\ lazynext' = IF eiter = NoEntry THEN lazynext ELSE NoEntry
                /\ changed' = FALSE
                /\ owed' = {} /\ visited' = {} /\ whole' = TRUE /\ ended' = FALSE
                /\ UNCHANGED <<chainVars, restricted, clearing>>

\* each %h; on a changed hash it croaks, unless "no hashiter" allows it.  An
\* each() after that would read freed memory: the program calls keys first.
HashIterNext ==
    LET fresh  == eiter = NoEntry /\ riter = NoRiter
        rest   == IF eiter = NoEntry THEN <<>>
                  ELSE IF ~lazydel THEN After(eiter)
                  ELSE IF lazynext = NoEntry THEN <<>> ELSE <<lazynext>> \o After(lazynext)
        here   == FirstOf(rest, Valued)
        later  == {b \in DOMAIN chain : b > riter /\ ToSet(chain[b]) \cap Valued # {}}
        scans  == here = NoEntry /\ keycount # placecount /\ later # {}
        result == IF scans THEN FirstOf(chain[Min(later)], Valued) ELSE here
        stale  == changed /\ eiter # NoEntry
    IN \E croaks \in {stale, FALSE} :
       /\ ~Dangling
       /\ riter' = IF keycount = placecount THEN NoRiter
                   ELSE IF here # NoEntry THEN riter
                   ELSE IF scans THEN Min(later) ELSE NoRiter
       /\ lazydel' = (lazydel /\ eiter = NoEntry)
       /\ lazynext' = IF eiter = NoEntry THEN lazynext ELSE NoEntry
       /\ changed' = stale
       /\ eiter' = IF croaks THEN eiter ELSE result
       /\ whole' = IF fresh THEN clearing = NoRiter ELSE whole /\ ~croaks /\ eiter # NoEntry
       /\ visited' = (IF fresh THEN {} ELSE visited) \cup
                     IF croaks THEN {} ELSE {result} \ {NoEntry}
       /\ owed' = (IF fresh THEN Valued ELSE owed) \ IF croaks THEN {} ELSE {result}
       /\ ended' = (~croaks /\ result = NoEntry)
       /\ UNCHANGED <<chainVars, restricted, clearing>>

-----------------------------------------------------------------------------
HashNext == \/ \E k \in Keys : \/ HashFind(k) \/ HashRefill(k) \/ HashDelete(k)
                               \/ HashDeleteRestricted(k)
                               \/ \E i \in Cells : HashInsert(<<k, i>>)
            \/ \E k \in ReadOnly : HashFreeze(k)
            \/ HashClearPlaceholders \/ HashRestrict \/ HashEmptyRestricted
            \/ HashClearBegins \/ HashClearStep \/ HashClearEnds
            \/ HashKsplit \/ HashStudy
            \/ HashIterInit \/ HashIterNext

HashSpec == HashInit /\ [][HashNext]_HashVars

-----------------------------------------------------------------------------
(* Properties *)

\* What hv_free_ent unlinks is forgotten by the sets of placeholders and of
\* readonly values; the iterator's fields are in range.
HashTypeOK == /\ chain \in [0..Size-1 -> Seq(Entries)] /\ Size \in 1..MaxSize
              /\ placeholder \subseteq Linked /\ frozen \subseteq Valued
              /\ riter \in -1..MaxSize-1 /\ clearing \in -1..MaxSize-1
              /\ {eiter, lazynext} \subseteq Entries \cup {NoEntry}
              /\ {restricted, lazydel, changed, whole, ended} \subseteq BOOLEAN

\* Every operation can find every key: a linked entry lies in the bucket its
\* hash selects, once, no other entry has its key, and the two counters that
\* decide about growing, about each() and about the end of hv_clear are
\* right; but hv_clear counts the placeholders only when it is through.
HashCoherent ==
    /\ HashTypeOK
    /\ \A b \in DOMAIN chain : /\ IsInjective(chain[b])
                               /\ \A e \in ToSet(chain[b]) : BucketOf(e) = b
    /\ \A d, e \in Linked : KeyOf(d) = KeyOf(e) => d = e
    /\ keycount = Cardinality(Linked)
    /\ clearing = NoRiter => placecount = Cardinality(placeholder)

\* The iterator never leads to freed memory, and what is deleted lazily is
\* freed: LAZYDEL is on exactly while the iterator holds an unlinked entry,
\* whose HeNEXT is linked.  (The comment of hv_iternext promises deletion
\* during iteration.)  The croak of each() is the exception: it frees the
\* entry the iterator stays on, so that only keys() may follow.
HashIterSafe ==
    /\ lazydel => eiter # NoEntry
    /\ lazydel => lazynext \in Linked \cup {NoEntry}
    /\ ~lazydel /\ eiter \notin Linked \cup {NoEntry} => changed /\ ~whole
    /\ eiter = NoEntry /\ whole => riter = NoRiter

\* An iteration returns no entry twice, and ends only when every entry that
\* had a value all the time was returned, whatever is deleted and inserted
\* meanwhile under "use hashiter", unless the buckets change or it is cut.
HashEachOnce ==
    [][whole /\ whole' =>
          /\ eiter' \notin {eiter, NoEntry} /\ eiter # NoEntry => eiter' \notin visited
          /\ ended' => owed' = {}]_HashVars

=============================================================================
