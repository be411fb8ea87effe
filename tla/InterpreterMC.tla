---------------------------- MODULE InterpreterMC ----------------------------
(***************************************************************************)
(* The parts of the interpreter that share no state, in one run: a hash and *)
(* its iterator, the stacks that a die unwinds, a file handle, and a         *)
(* semaphore.  A behaviour is one of a single part, the others staying as    *)
(* they started: as none reads another's variables, this checks each whole.  *)
(***************************************************************************)
EXTENDS HashIter, ScopeStacks, PerlIOBuf, Semaphore, TLC

CONSTANTS k1, k2, k3,      \* the keys
          t1, t2, t3       \* the threads

VARIABLE part              \* the part that runs

\* Three keys in one bucket of the smallest array and in two of the next.
HashValues == [k \in Keys |-> CASE k = k1 -> 0 [] k = k2 -> 2 [] k = k3 -> 4]

\* One thread gives, one takes one, one takes two or one.
Requested == [t \in Threads |->
                 CASE t = t1 -> [call : {"up", "down_force"}, n : {1}]
                   [] t = t2 -> [call : {"down", "down_nb"}, n : {1}]
                   [] t = t3 -> [call : {"down_timed"}, n : {2}]]
OneBelow == {-1}
OneDeep == [v \in Vars |-> 1]

\* The two cells and the two bytes may change places.  They do so together: a
\* part knows one of these pairs at most, and the other parts, being as they
\* started, treat the two of any pair alike.
Pairs == {Cells, Bytes}
Symmetry == {p \in Permutations(UNION Pairs) :
                 /\ \A pair \in Pairs : {p[x] : x \in pair} = pair
                 /\ \A x, y \in UNION Pairs : p[x] = x <=> p[y] = y}

PartsInit == /\ part \in {"hash", "stacks", "handle", "semaphore"}
             /\ HashInit /\ StackInit /\ BufInit /\ SemInit

PartsNext == /\ UNCHANGED part
             /\ \/ /\ part = "hash" /\ UNCHANGED <<StackVars, BufVars, SemVars>>
                   /\ HashNext
                \/ /\ part = "stacks" /\ UNCHANGED <<HashVars, BufVars, SemVars>>
                   /\ StackNext
                \/ /\ part = "handle" /\ UNCHANGED <<HashVars, StackVars, SemVars>>
                   /\ BufNext
                \/ /\ part = "semaphore" /\ UNCHANGED <<HashVars, StackVars, BufVars>>
                   /\ SemNext

PartsSpec == PartsInit /\ [][PartsNext]_<<part, HashVars, StackVars,
                                           BufVars, SemVars>>
=============================================================================
