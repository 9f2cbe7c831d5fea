----------------------------- MODULE MCScoreKernel -----------------------------
(***************************************************************************)
(* Blocks of two threads and one to four documents of up to two groups of  *)
(* two tokens: full and partial last blocks, empty, padded and full        *)
(* documents, queries shorter and longer than a block.                     *)
(***************************************************************************)
EXTENDS ScoreKernel

MCDocs == << <<1>>, <<2, 4>>, <<1, 2, 3>>, <<2, 2>>, <<1, 3, 3, 4>>, <<>> >>

\* n documents, from each place of MCDocs on.
Rotations(n) == {[d \in 0..(n - 1) |-> MCDocs[((d + r) % Len(MCDocs)) + 1]] : r \in 0..5}

InputsWith(queries, sizes) ==
    UNION {{[query |-> q, docs |-> ds] : ds \in Rotations(n)} : q \in queries, n \in sizes}

\* Queries without repetition, and any last block: one that loads all of the query, and
\* one that loads every second token of it, the first or the first and the third.
MCInputs ==
    InputsWith({<<2>>, <<1, 2>>, <<2, 3, 4>>}, 1..3) \cup InputsWith({<<2, 3, 4>>}, {4})

\* A last block with one thread for a query of two tokens.
MCPartialInputs == InputsWith({<<1, 2>>}, {1, 3})

\* A query that holds a token twice, in full blocks.
MCRepeatedInputs == InputsWith({<<2, 2>>}, {2})

\* A token, and one that no query and no document holds.
MCJunk == {2, 9}
=============================================================================
