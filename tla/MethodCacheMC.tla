---------------------------- MODULE MethodCacheMC ----------------------------
(***************************************************************************)
(* Four packages that inherit from each other, for MethodCache.             *)
(***************************************************************************)
EXTENDS MethodCache

CONSTANTS A, B, C, U       \* the packages, U is UNIVERSAL

\* B inherits from A and C, UNIVERSAL from C, and C from B at times: then it
\* is recursive, whichever of the two is assigned last.
Lists == [c \in Classes |-> CASE c = A -> {}
                              [] c = B -> {<<A, C>>}
                              [] c = C -> {<<>>, <<B>>}
                              [] c = U -> {<<>>, <<C>>}]

\* C inherits from B, and B from A at times.
Chain == [c \in Classes |-> CASE c = B -> {<<>>, <<A>>} [] c = C -> {<<B>>} [] c \in {A, U} -> {}]

Subs == [c \in Classes |-> CASE c = A -> {1} [] c = C -> {2} [] c \in {B, U} -> {}]
=============================================================================
