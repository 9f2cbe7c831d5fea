---------------------------- MODULE ConcurrentTopk ----------------------------
(***************************************************************************)
(* main() built with CPU_CONCURRENCY: the documents are cut into chunks,   *)
(* a task per chunk scores its documents against every query and keeps the *)
(* chunk's best, main() collects the futures in order, concatenates what   *)
(* they hold and selects the best again.  The pool is TaskService, which   *)
(* ThreadPool implements.                                                  *)
(***************************************************************************)
EXTENDS Scoring

CONSTANTS Concurrency,  \* std::thread::hardware_concurrency()
          TOPK,
          Querys,       \* the queries, sorted when they were loaded
          DocChoices,   \* the documents the input may hold
          MaxDocs,      \* bound on the number of documents
          Device        \* "cpu" or "gpu": which doc_query_scoring the build links

\* An empty query and an empty document would divide 0 by 0.
ASSUME ConcurrentAssumption ==
    /\ Concurrency \in Nat \ {0}
    /\ TOPK \in Nat \ {0}
    /\ MaxDocs \in Nat
    /\ Querys \in Seq(Seq(Nat))
    /\ DocChoices \subseteq Seq(Nat)
    /\ \A q \in DOMAIN Querys, doc \in DocChoices : MaxOf(Len(Querys[q]), Len(doc)) > 0
    /\ Device \in {"cpu", "gpu"}

VARIABLES docs,     \* the documents, numbered from 0
          pc,       \* where main() is
          i,        \* its loop variable
          results,  \* the chunks enqueued so far; chunk t is task t of the pool
          output,   \* what each finished task returned, per query
          merged,   \* s_indices and s_scores after the merge, per query
          indices,  \* the final selection, per query
          status, backlog, phase  \* the pool

mainVars == <<docs, pc, i, results, output, merged, indices>>
poolVars == <<status, backlog, phase>>
vars == <<docs, pc, i, results, output, merged, indices, status, backlog, phase>>

ChunkTasks == 1..(Concurrency + 1)
Pool == INSTANCE TaskService WITH Tasks <- ChunkTasks, N <- Concurrency

NDocs == Cardinality(DOMAIN docs)
SplitDocsSize == NDocs \div Concurrency
Remainder == NDocs % Concurrency

-----------------------------------------------------------------------------
(* doc_query_scoring(querys, start, sub_docs, ...) *)

LocalK(size) == MinOf(TOPK, size)

\* Bug: every chunk keeps only its share of the top k.
LocalKShare(size) == MinOf(MaxOf(TOPK \div Concurrency, 1), size)

ChunkTopk(size) == LocalK(size)

\* Bug: the chunk's documents are numbered from 0.
CpuScoringFromZero(start, size) ==
    [q \in DOMAIN Querys |->
        PartialSort([n \in 1..size |->
                        [id |-> n - 1, score |-> CpuScore(Querys[q], docs[start + n - 1])]],
                    ChunkTopk(size))]

CpuScoring(start, size) ==
    [q \in DOMAIN Querys |->
        PartialSort([n \in 1..size |->
                        LET d == start + n - 1
                        IN  [id |-> d, score |-> CpuScore(Querys[q], docs[d])]],
                    ChunkTopk(size))]

\* topk.cu numbers the chunk's documents from 0 but looks scores up at
\* id - start_doc_id: outside the chunk's scores the heap holds anything.
GpuScoring(start, size, heap) ==
    LET stored(q, d) ==
            IF d >= start THEN GpuScore(Querys[q], docs[d]) ELSE heap[d]
    IN  [q \in DOMAIN Querys |->
            PartialSort([n \in 1..size |-> [id |-> n - 1, score |-> stored(q, n - 1)]],
                        ChunkTopk(size))]

\* Whatever scores the heap may hold beside the chunk's own.
Junk == {<<0, 1>>, <<1, 1>>}

ChunkResults(start, size) ==
    IF Device = "cpu"
    THEN {CpuScoring(start, size)}
    ELSE {GpuScoring(start, size, heap) : heap \in [0..(size - 1) -> Junk]}

-----------------------------------------------------------------------------
Init ==
    /\ docs \in UNION {[0..(n - 1) -> DocChoices] : n \in 0..MaxDocs}
    /\ pc = "split"
    /\ i = 0
    /\ results = <<>>
    /\ output = [t \in ChunkTasks |-> <<>>]
    /\ merged = [q \in DOMAIN Querys |-> <<>>]
    /\ indices = <<>>
    /\ Pool!Init

(* main() *)

\* pool.enqueue of one chunk; its future goes to the end of results.
EnqueueChunk(start, size) ==
    /\ Pool!Accept(Len(results) + 1)
    /\ results' = Append(results, [start |-> start, size |-> size])
    /\ UNCHANGED <<docs, output, merged, indices>>

\* Bug: the future is kept but the task never reaches the pool.
ForgetChunk(start, size) ==
    /\ results' = Append(results, [start |-> start, size |-> size])
    /\ UNCHANGED <<docs, output, merged, indices, status, backlog, phase>>

Submit(start, size) == EnqueueChunk(start, size)

\* Bug: the chunk's end is one too far.
EnqueueSplitLong ==
    /\ pc = "split"
    /\ i < Concurrency /\ SplitDocsSize > 0
    /\ Submit(i * SplitDocsSize, MinOf(SplitDocsSize + 1, NDocs - i * SplitDocsSize))
    /\ i' = i + 1
    /\ UNCHANGED pc

EnqueueSplit ==
    /\ pc = "split"
    /\ i < Concurrency /\ SplitDocsSize > 0
    /\ Submit(i * SplitDocsSize, SplitDocsSize)
    /\ i' = i + 1
    /\ UNCHANGED pc

SplitOver == pc = "split" /\ (i = Concurrency \/ SplitDocsSize = 0)

\* Bug: no remainder task when there was nothing to split.
EnqueueRemainderAfterSplit ==
    /\ SplitOver
    /\ pc' = "collect"
    /\ i' = 1
    /\ IF Remainder > 0 /\ SplitDocsSize > 0
       THEN Submit(Concurrency * SplitDocsSize, NDocs - Concurrency * SplitDocsSize)
       ELSE UNCHANGED <<docs, results, output, merged, indices, status, backlog, phase>>

\* Bug: a remainder task even when nothing remains.
EnqueueRemainderAlways ==
    /\ SplitOver
    /\ pc' = "collect"
    /\ i' = 1
    /\ Submit(Concurrency * SplitDocsSize, NDocs - Concurrency * SplitDocsSize)

EnqueueRemainder ==
    /\ SplitOver
    /\ pc' = "collect"
    /\ i' = 1
    /\ IF Remainder > 0
       THEN Submit(Concurrency * SplitDocsSize, NDocs - Concurrency * SplitDocsSize)
       ELSE UNCHANGED <<docs, results, output, merged, indices, status, backlog, phase>>

\* result.get(), in the order of results, and the merge of what it returns.
Collect ==
    /\ pc = "collect"
    /\ i <= Len(results)
    /\ status[i] = "value"
    /\ merged' = [q \in DOMAIN Querys |-> merged[q] \o output[i][q]]
    /\ i' = i + 1
    /\ UNCHANGED <<docs, pc, results, output, indices, status, backlog, phase>>

\* get() rethrows what the task threw and main() has no handler: std::terminate.
Abort ==
    /\ pc = "collect"
    /\ i <= Len(results)
    /\ status[i] = "exception"
    /\ pc' = "aborted"
    /\ UNCHANGED <<docs, i, results, output, merged, indices, status, backlog, phase>>

FinalK == MinOf(TOPK, NDocs)

\* The second partial_sort, over idx, and the output file.
Reduce ==
    /\ pc = "collect"
    /\ i > Len(results)
    /\ \A q \in DOMAIN Querys : FinalK <= Len(merged[q])
    /\ indices' = [q \in DOMAIN Querys |-> PartialSort(merged[q], FinalK)]
    /\ pc' = "written"
    /\ UNCHANGED <<docs, i, results, output, merged, status, backlog, phase>>

\* main() returns: ~ThreadPool().
Exit ==
    /\ pc = "written"
    /\ Pool!BeginClose
    /\ UNCHANGED mainVars

-----------------------------------------------------------------------------
(* The pool; std::terminate stops it too. *)

TaskStarts ==
    /\ pc # "aborted"
    /\ Pool!Start
    /\ UNCHANGED mainVars

TaskFinishes(t) ==
    /\ pc # "aborted"
    /\ Pool!Finish(t)
    /\ IF status'[t] = "value"
       THEN \E r \in ChunkResults(results[t].start, results[t].size) :
                output' = [output EXCEPT ![t] = r]
       ELSE UNCHANGED output
    /\ UNCHANGED <<docs, pc, i, results, merged, indices>>

PoolCloses ==
    /\ Pool!Close
    /\ UNCHANGED mainVars

Over == (pc = "aborted" \/ phase = "closed") /\ UNCHANGED vars

Main == EnqueueSplit \/ EnqueueRemainder \/ Collect \/ Abort \/ Reduce \/ Exit

Next ==
    \/ Main
    \/ TaskStarts
    \/ \E t \in ChunkTasks : TaskFinishes(t)
    \/ PoolCloses
    \/ Over

\* main() runs on, and the pool keeps TaskService's promises.
Fairness ==
    /\ WF_vars(Main)
    /\ WF_vars(TaskStarts)
    /\ \A t \in ChunkTasks : WF_vars(TaskFinishes(t))
    /\ WF_vars(PoolCloses)

Spec == Init /\ [][Next]_vars /\ Fairness

-----------------------------------------------------------------------------
(* Properties *)

TypeOK ==
    /\ pc \in {"split", "collect", "written", "aborted"}
    /\ i \in 0..(Concurrency + 2)
    /\ Len(results) <= Concurrency + 1
    /\ \A t \in 1..Len(results) : results[t].start \in Nat /\ results[t].size \in 1..NDocs
    /\ \A q \in DOMAIN merged : \A e \in 1..Len(merged[q]) : merged[q][e].id \in DOMAIN docs
    /\ status \in [ChunkTasks -> Pool!Status]
    /\ phase \in {"open", "closing", "closed"}

ChunkDocs(t) == results[t].start..(results[t].start + results[t].size - 1)

\* Once all chunks are enqueued every document is in exactly one of them, also
\* when there are fewer documents than threads.
ChunksPartition ==
    pc = "collect" =>
        \A d \in DOMAIN docs :
            Cardinality({t \in 1..Len(results) : d \in ChunkDocs(t)}) = 1

\* The second selection is in range: partial_sort's middle iterator never lies
\* behind the end of the merged entries.
ReduceInRange ==
    pc = "collect" /\ i > Len(results) =>
        \A q \in DOMAIN Querys : FinalK <= Len(merged[q])

\* The written lists are the global top k of README.md, ties by document id,
\* whatever the order in which the tasks ran.
GlobalTopk ==
    pc = "written" =>
        \A q \in DOMAIN Querys :
            IsTopk(indices[q], FinalK, [d \in DOMAIN docs |-> ReadmeScore(Querys[q], docs[d])])

\* main() gets through, with its output written and its pool closed, unless a
\* task threw.
RunsToEnd == <>(phase = "closed" \/ \E t \in ChunkTasks : status[t] = "exception")
=============================================================================
