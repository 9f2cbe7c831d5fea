---------------------------- MODULE ScoringService ----------------------------
(***************************************************************************)
(* What doc_query_scoring_gpu promises to main(): one list per query, in   *)
(* the order of the queries, each the top k of README.md, and then it      *)
(* returns.  No device, no memory, no stream.                              *)
(***************************************************************************)
EXTENDS Scoring

CONSTANTS TOPK,
          Inputs  \* records with querys, docs (numbered from 0) and raft

VARIABLES in, lists, returned

vars == <<in, lists, returned>>

K == MinOf(TOPK, Cardinality(DOMAIN in.docs))

ScoresOf(q) == [d \in DOMAIN in.docs |-> ReadmeScore(in.querys[q], in.docs[d])]

\* A build that lets RAFT select 2k documents first may decide ties otherwise.
Answers(list, q) ==
    IF in.raft THEN IsTopkOfTwice(list, K, ScoresOf(q)) ELSE IsTopk(list, K, ScoresOf(q))

Init ==
    /\ in \in Inputs
    /\ lists = <<>>
    /\ returned = FALSE

Answer ==
    /\ ~returned
    /\ Len(lists) < Len(in.querys)
    /\ Len(lists') = Len(lists) + 1
    /\ SubSeq(lists', 1, Len(lists)) = lists
    /\ Answers(lists'[Len(lists')], Len(lists'))
    /\ UNCHANGED <<in, returned>>

Return ==
    /\ ~returned
    /\ Len(lists) = Len(in.querys)
    /\ returned' = TRUE
    /\ UNCHANGED <<in, lists>>

Next == Answer \/ Return

Spec == Init /\ [][Next]_vars /\ <>returned
=============================================================================
