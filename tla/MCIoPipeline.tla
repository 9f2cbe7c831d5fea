------------------------------ MODULE MCIoPipeline ------------------------------
(***************************************************************************)
(* A buffer of ten characters, files of up to four chunks and the best two *)
(* documents: files that are empty, shorter than, as long as and longer    *)
(* than the buffer, with and without a last newline, with blank lines at   *)
(* and beside a cut, with a line that fills the buffer.  Blocks of two     *)
(* threads, and chunks to score that fill their last block.                *)
(***************************************************************************)
EXTENDS IoPipeline

\* The second file sorts first; its numbers come in two lines and unsorted.
MCQueryFiles ==
    {[name |-> 2, lines |-> << <<1, 2>> >>], [name |-> 1, lines |-> << <<4>>, <<3, 2>> >>]}

\* What the heap may hold behind a full buffer, before a NUL: nothing, or a number.
MCBehind == {<<>>, <<5>>}

Texts ==
    {<<>>,
     <<1, 2>>,
     <<1, 2, NL, 2, 3, 4, 6, 7, 8, NL>>,
     <<1, 2, NL, 2, 3, 4, 6, 7, 8, NL, 2>>,
     <<1, NL, NL, 2, 3, 4, 6, 7, NL, NL, 1, 2>>,
     <<2, NL, 1, 2, 3, 4, 5, 6, 7, 8, 9, NL, 2>>,
     <<1, 2, 3, 4, 5, 6, 7, NL, 2, NL, NL, 1, 2, 3, NL, NL, 2, NL, 1, 2, 3>>}

\* Files whose chunks all hold an even number of documents.
TopkTexts ==
    {<<>>,
     <<1, 2, NL, 2>>,
     <<1, 2, NL, 2, 3, 4, 6, 7, 8, NL>>,
     <<1, 2, NL, 2, 3, 4, 6, 7, 8, NL, 2, NL, 1>>,
     <<1, NL, NL, 2, 3, 4, 6, 7, NL, NL, 1, 2, NL, 2>>,
     <<2, NL, 1, NL, 1, 2, 3, 4, 5, 6, 7, 8, NL, NL, 2, NL, 1>>,
     <<1, 2, 3, 4, 5, 6, 7, NL, 2, NL, NL, 1, 2, 3, NL, NL, 2, NL, 1, 2, 3, NL, 2>>}

\* Every chunk holds at least twice the best two, so that RAFT can be asked for them;
\* in the last text more documents contend for the places than it selects.
RaftTexts ==
    {<<NL, 1, NL, 1, NL, 1, NL, 2, 3, 4, NL, 2, NL, NL, 1, 2>>,
     <<NL, 2, NL, 2, NL, 2, NL, 2, NL, NL, 2, NL, 1, NL, 2, NL, 1, 2>>,
     <<2, NL, 1, NL, NL, 1, NL, 1, NL, NL, 1, NL, 1, NL, NL, 1>>}

Input(load, raft, pool, text) == [load |-> load, raft |-> raft, pool |-> pool, text |-> text]

MCInputs ==
    {Input(load, FALSE, FALSE, text) :
        load \in {"chunk", "stream", "buffer"}, text \in Texts}
    \cup {Input("topk", FALSE, pool, text) : pool \in BOOLEAN, text \in TopkTexts}
    \cup {Input("topk", TRUE, pool, text) : pool \in BOOLEAN, text \in RaftTexts}

MCStaleInputs == {Input("topk", FALSE, TRUE, text) : text \in TopkTexts}

\* Excluded from MCInputs, GlobalTopk is violated: one document, which leaves a thread of
\* the block without one.
MCPartialInputs == {Input("topk", FALSE, FALSE, <<2, 3, 4>>)}

\* Violates ChunksAreLines if MemsetLate is TRUE.
MCClearedInputs == {Input("chunk", FALSE, FALSE, text) : text \in {<<1, 2, NL, 3>>, <<>>}}
=============================================================================
