------------------------------- MODULE DocLayout -------------------------------
(***************************************************************************)
(* The array of documents the scoring kernels read.  It is cut into groups *)
(* of GroupSize tokens: first the first group of every document, then the  *)
(* second group of every document, so that neighbouring threads load       *)
(* neighbouring groups.                                                    *)
(***************************************************************************)
EXTENDS Scoring

CONSTANTS MaxDocSize,  \* MAX_DOC_SIZE
          GroupSize    \* tokens in a group_t

ASSUME LayoutAssumption ==
    /\ GroupSize \in Nat \ {0}
    /\ MaxDocSize \in Nat /\ MaxDocSize % GroupSize = 0

\* Bug: the stride of layer 0 forgets the group size.
FinalOffsetShort(n, d, j) == (j \div GroupSize) * n + d * GroupSize + (j % GroupSize)

\* Where token j of document d of n goes.
FinalOffset(n, d, j) == (j \div GroupSize) * (n * GroupSize) + d * GroupSize + (j % GroupSize)

\* h_docs: zero where nothing is written.
AlignDocs(ds) ==
    LET n == Cardinality(DOMAIN ds)
        places == {p \in (DOMAIN ds) \X (0..(MaxDocSize - 1)) : p[2] < Len(ds[p[1]])}
    IN  [o \in 0..(MaxDocSize * n - 1) |->
            IF \E p \in places : FinalOffset(n, p[1], p[2]) = o
            THEN LET p == CHOOSE p \in places : FinalOffset(n, p[1], p[2]) = o
                 IN  ds[p[1]][p[2] + 1]
            ELSE 0]

\* Bug: the stride between the groups is that of the tokens.
LoadedOffsetWide(n, d, j) == ((j \div GroupSize) * n * GroupSize + d) * GroupSize + (j % GroupSize)

\* Where ((group_t *)array)[i * n + doc_id] and token k of that group are.
LoadedOffset(n, d, j) == ((j \div GroupSize) * n + d) * GroupSize + (j % GroupSize)

LoadedToken(array, n, d, j) == array[LoadedOffset(n, d, j)]

\* What the kernel loads of a document: all its groups, if no token is 0.
LoadedDoc(array, n, d) == [j \in 1..MaxDocSize |-> LoadedToken(array, n, d, j - 1)]
=============================================================================
