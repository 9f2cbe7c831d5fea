--------------------------- MODULE MCConcurrentTopk ---------------------------
(***************************************************************************)
(* Two threads, the best two of up to six documents: no document, fewer    *)
(* documents than threads, with and without a remainder, chunks smaller    *)
(* and larger than TOPK, ties within and across chunks.                    *)
(***************************************************************************)
EXTENDS ConcurrentTopk

\* The second query holds a token twice.
MCQuerys == << <<1, 2>>, <<2, 2>> >>

\* Equal scores from equal and from different documents.
MCDocs == {<<1>>, <<1, 2>>, <<2, 2>>}

\* Without repetitions, where the kernel's walk and the CPU count agree.
MCPlainQuerys == << <<1, 2>> >>
MCPlainDocs == {<<1>>, <<1, 2>>}
=============================================================================
