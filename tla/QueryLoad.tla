------------------------------- MODULE QueryLoad -------------------------------
(***************************************************************************)
(* What a block of a merging kernel finds in query_on_shm.  Its threads    *)
(* load the query together, each every BlockDim-th token, but a thread     *)
(* without a document of its own returns first: what it should have loaded *)
(* stays uninitialised.  ScoreKernel shows this thread by thread; the      *)
(* modules that take a launch as one step use the result.                  *)
(***************************************************************************)
EXTENDS Scoring

CONSTANTS BlockDim,  \* N_THREADS_IN_ONE_BLOCK
          Junk       \* what uninitialised shared memory may hold

ASSUME LoadAssumption ==
    /\ BlockDim \in Nat \ {0}
    /\ Junk # {} /\ Junk \subseteq Nat

\* Of n documents, the block that scores document d loads token i of the query.
LoadedByBlock(n, d, i) == ((d \div BlockDim) * BlockDim) + ((i - 1) % BlockDim) < n

\* The tokens of a query of that length that some block does not load.
Missing(n, length) == {i \in 1..length : \E d \in 0..(n - 1) : ~LoadedByBlock(n, d, i)}

\* Only the last block of a grid may have threads without a document, so one function
\* says what is in the places it does not load.
Unloaded(n, length) == [Missing(n, length) -> Junk]

\* The query that document d is scored against.
QueryOnShm(query, n, d, junk) ==
    [i \in 1..Len(query) |-> IF LoadedByBlock(n, d, i) THEN query[i] ELSE junk[i]]
=============================================================================
