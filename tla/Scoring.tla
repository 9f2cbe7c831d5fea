-------------------------------- MODULE Scoring --------------------------------
(***************************************************************************)
(* The pure parts of scoring and selection.  A query and a document are    *)
(* sequences of tokens; a score is the exact fraction <<numerator,         *)
(* denominator>>, which the float division of the code rounds.             *)
(***************************************************************************)
EXTENDS Naturals, Sequences, FiniteSets, FiniteSetsExt, SequencesExt, TLC

MaxOf(m, n) == IF m > n THEN m ELSE n
MinOf(m, n) == IF m < n THEN m ELSE n

-----------------------------------------------------------------------------
(* Scores *)

\* map_query of doc_query_scoring_cpu: how often the query holds a token.
MapQuery(query, token) == Cardinality({i \in 1..Len(query) : query[i] = token})

\* tmp_score after every token of the document.
TmpScore(query, doc) ==
    LET sum[j \in 0..Len(doc)] ==
            IF j = 0 THEN 0 ELSE sum[j - 1] + MapQuery(query, doc[j])
    IN  sum

\* The CPU sums map_query over the tokens of the document.
CpuIntersection(query, doc) == TmpScore(query, doc)[Len(doc)]

\* query_idx after the inner while loop for a token of the document.
Advance(query, i, token) ==
    Min({k \in i..Len(query) : query[k] >= token} \cup {Len(query) + 1})

\* query_idx after every token of the document: it never moves back.
QueryIdx(query, doc) ==
    LET idx[j \in 0..Len(doc)] ==
            IF j = 0 THEN 1 ELSE Advance(query, idx[j - 1], doc[j])
    IN  idx

\* The kernels walk both sorted sequences once.
Walk(query, doc) ==
    LET idx == QueryIdx(query, doc)
    IN  Cardinality({j \in 1..Len(doc) : idx[j] <= Len(query) /\ query[idx[j]] = doc[j]})

\* Over the laid out documents the walk stops at the first token 0, the padding.
MergeJoin(query, doc) ==
    LET stop == Min({j \in 1..Len(doc) : doc[j] = 0} \cup {Len(doc) + 1})
    IN  Walk(query, SubSeq(doc, 1, stop - 1))

Fraction(intersections, query, doc) == <<intersections, MaxOf(Len(query), Len(doc))>>

CpuScore(query, doc) == Fraction(CpuIntersection(query, doc), query, doc)
GpuScore(query, doc) == Fraction(MergeJoin(query, doc), query, doc)

\* The kernels over a cuDF column have no padding to stop at.
CudfScore(query, doc) == Fraction(Walk(query, doc), query, doc)

Greater(r, s) == r[1] * s[2] > s[1] * r[2]
SameScore(r, s) == r[1] * s[2] = s[1] * r[2]

-----------------------------------------------------------------------------
(* Selection *)

\* The comparator of every partial_sort: score descending, then id ascending.
Before(a, b) ==
    \/ Greater(a.score, b.score)
    \/ SameScore(a.score, b.score) /\ a.id < b.id

\* Entries the comparator cannot tell apart are equal, so their order is free.
Precedes(list, m, n) ==
    Before(list[m], list[n]) \/ (~Before(list[n], list[m]) /\ m < n)

Rank(list, n) == Cardinality({m \in 1..Len(list) : Precedes(list, m, n)}) + 1

\* std::partial_sort(first, first + k, last, Before), and what it leaves in front.
PartialSort(list, k) ==
    LET sorted[range \in {list}] ==
            [p \in 1..k |-> range[CHOOSE n \in 1..Len(range) : Rank(range, n) = p]]
    IN  sorted[list]

\* What raft::matrix::select_k may answer: any k entries that no other one beats,
\* equal scores decided anyhow, in an order the callers do not use.  Asked for more
\* entries than there are it promises nothing.
SelectK(list, k) ==
    LET best == {c \in kSubset(k, DOMAIN list) :
                    \A m \in c, n \in (DOMAIN list) \ c : ~Greater(list[n].score, list[m].score)}
    IN  {[p \in 1..k |-> list[SetToSeq(c)[p]]] : c \in best}

-----------------------------------------------------------------------------
(* What README.md says of a score: the number of pairs query[i] = doc[j]. *)

PairCount(query, doc) ==
    Cardinality({p \in (1..Len(query)) \X (1..Len(doc)) : query[p[1]] = doc[p[2]]})

ReadmeScore(query, doc) == Fraction(PairCount(query, doc), query, doc)

\* A list of entries is a top-k of the documents: k of them in order, none
\* twice, each with its score, and every other document comes after all of them.
IsTopk(list, k, score) ==
    /\ Len(list) = k
    /\ \A i \in 1..k : list[i].id \in DOMAIN score /\ SameScore(list[i].score, score[list[i].id])
    /\ \A i, j \in 1..k : i < j => Before(list[i], list[j])
    /\ \A d \in DOMAIN score \ {list[i].id : i \in 1..k} :
          \A i \in 1..k : Before(list[i], [id |-> d, score |-> score[d]])

\* The same where equal scores may be cut anywhere: no document left out is better.
IsTopkUpToTies(list, k, score) ==
    /\ Len(list) = k
    /\ \A i \in 1..k : list[i].id \in DOMAIN score /\ SameScore(list[i].score, score[list[i].id])
    /\ \A i, j \in 1..k : i < j => Before(list[i], list[j])
    /\ \A d \in DOMAIN score \ {list[i].id : i \in 1..k} :
          \A i \in 1..k : ~Greater(score[d], list[i].score)

\* What a selection of 2k entries followed by one of k achieves: the top k, ties by
\* document id as everywhere, unless more than 2k documents contend for the k places.
IsTopkOfTwice(list, k, score) ==
    LET contenders == {d \in DOMAIN score : ~Greater(list[k].score, score[d])}
    IN  /\ IsTopkUpToTies(list, k, score)
        /\ k > 0 /\ Cardinality(contenders) <= 2 * k => IsTopk(list, k, score)
=============================================================================
