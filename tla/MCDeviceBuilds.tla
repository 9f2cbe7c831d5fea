---------------------------- MODULE MCDeviceBuilds ----------------------------
(***************************************************************************)
(* Three queries and a top two of three or five documents of up to two     *)
(* groups of two tokens, in every build and memory mode, in blocks of      *)
(* three threads.  The junk is a token that no query holds, and a length   *)
(* no longer than a row.                                                   *)
(***************************************************************************)
EXTENDS DeviceBuilds

\* Shorter than, as long as and longer than a group.
MCQuerys == << <<2, 4>>, <<1>>, <<2, 4, 5, 6>> >>

\* A padded, an empty and a full document.
MCDocs == [d \in 0..2 |-> << <<2, 4>>, <<>>, <<1, 2, 4, 6>> >>[d + 1]]

\* A full block and one of two documents, which loads queries of two tokens.  For the
\* first query three documents contend for two places, for the second one all five do,
\* for the third one two.
MCTiedDocs == [d \in 0..4 |-> << <<4>>, <<2>>, <<5, 6>>, <<2, 4>>, <<6>> >>[d + 1]]

MCShortQuerys == << <<2, 4>>, <<1>>, <<5, 6>> >>

Input(build, pinned, staged, raft, docs) ==
    [build |-> build, pinned |-> pinned, staged |-> staged, overlap |-> TRUE, raft |-> raft,
     querys |-> IF docs = MCDocs THEN MCQuerys ELSE MCShortQuerys, docs |-> docs, junk |-> 3]

\* The table counts what a query repeats.
MCRepeatingQuerys == << <<2, 2, 4>>, <<1>>, <<2, 5, 5, 6>> >>

MCInputs ==
    {Input("pinned_memory", TRUE, TRUE, FALSE, MCDocs),
     Input("pinned_map_memory", TRUE, TRUE, FALSE, MCDocs),
     [Input("hashtable", FALSE, TRUE, FALSE, MCDocs) EXCEPT !.querys = MCRepeatingQuerys],
     Input("query_stream", TRUE, TRUE, FALSE, MCDocs),
     Input("query_stream", TRUE, TRUE, FALSE, MCTiedDocs),
     Input("doc_stream", TRUE, FALSE, FALSE, MCDocs),
     Input("doc_stream", FALSE, FALSE, FALSE, MCDocs),
     Input("align_locality", TRUE, TRUE, FALSE, MCDocs),
     Input("align_locality", FALSE, TRUE, FALSE, MCDocs),
     Input("raft_selectk", FALSE, TRUE, TRUE, MCTiedDocs),
     Input("align_query_stream_raft", TRUE, TRUE, TRUE, MCTiedDocs),
     Input("align_query_stream_raft", FALSE, TRUE, TRUE, MCTiedDocs)}

(* What the conditions on MCInputs exclude: ServiceSpec is violated with each of these. *)

\* One document less than a block has threads, and a query of as many tokens.
MCPartialInputs ==
    {[Input("pinned_memory", TRUE, TRUE, FALSE, MCDocs) EXCEPT
        !.docs = [d \in 0..1 |-> << <<1, 2, 4, 6>>, <<2, 4>> >>[d + 1]],
        !.querys = << <<2, 4, 6>> >>]}

\* A device that cannot copy and compute at once.
MCRefusedInputs ==
    {[Input(build, TRUE, FALSE, FALSE, MCDocs) EXCEPT !.overlap = FALSE] :
        build \in {"query_stream", "doc_stream"}}

\* The memory behind a document holds a token of the query.
MCPaddingInputs ==
    {[Input("align_locality", TRUE, TRUE, FALSE, MCDocs) EXCEPT !.junk = 4]}

\* The copy of a query may still be on its way when the kernel starts.
MCStagedInputs == {Input("doc_stream", TRUE, TRUE, FALSE, MCDocs)}
=============================================================================
