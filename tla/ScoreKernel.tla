------------------------------ MODULE ScoreKernel ------------------------------
(***************************************************************************)
(* One query of topk.cu: the documents are laid out in groups, and a grid  *)
(* of thread blocks scores them.  The threads of a block load the query    *)
(* into shared memory together, meet at __syncthreads() and then score one *)
(* document each.  The copies of the other topk_*.cu files differ only in  *)
(* how the arrays reach the device.                                        *)
(***************************************************************************)
EXTENDS DocLayout, QueryLoad

CONSTANT Inputs  \* records of a sorted query and docs, numbered from 0

ASSUME KernelAssumption ==
    \A in \in Inputs :
        /\ Cardinality(DOMAIN in.docs) \in Nat
        /\ in.docs \in [0..(Cardinality(DOMAIN in.docs) - 1) -> Seq(Nat)]
        /\ in.query \in Seq(Nat)
        /\ \A d \in DOMAIN in.docs :
              Len(in.docs[d]) <= MaxDocSize /\ MaxOf(Len(in.query), Len(in.docs[d])) > 0

VARIABLES docs, query,   \* the input
          d_docs,        \* the laid out documents
          query_on_shm,  \* per block
          pc, at,        \* per thread; at is its loop variable, i and then doc_id
          scores         \* per document

vars == <<docs, query, d_docs, query_on_shm, pc, at, scores>>

NDocs == Cardinality(DOMAIN docs)

-----------------------------------------------------------------------------
(* The grid *)

Grid(n) == (n + BlockDim - 1) \div BlockDim
ThreadsOf(n) == 0..(Grid(n) * BlockDim - 1)
Threads == ThreadsOf(NDocs)
BlockOf(t) == t \div BlockDim
BlockThreads(t) == {u \in Threads : BlockOf(u) = BlockOf(t)}

\* Bug: the document loop strides by the block.
TnumOfBlock(n) == BlockDim

Tnum(n) == Grid(n) * BlockDim

Unwritten == <<>>

Init ==
    \E in \in Inputs :
        LET n == Cardinality(DOMAIN in.docs)
        IN  /\ docs = in.docs
            /\ query = in.query
            /\ d_docs = AlignDocs(in.docs)
            /\ query_on_shm \in [0..(Grid(n) - 1) -> [1..Len(in.query) -> Junk]]
            /\ pc = [t \in ThreadsOf(n) |-> "enter"]
            /\ at = [t \in ThreadsOf(n) |-> 0]
            /\ scores = [d \in 0..(n - 1) |-> Unwritten]

-----------------------------------------------------------------------------
(* The kernel *)

\* Bug: the load starts at the number of the thread in the grid.
EnterByTid(t) ==
    /\ pc[t] = "enter"
    /\ IF t >= NDocs
       THEN pc' = [pc EXCEPT ![t] = "returned"] /\ UNCHANGED at
       ELSE /\ pc' = [pc EXCEPT ![t] = "load"]
            /\ at' = [at EXCEPT ![t] = t]
    /\ UNCHANGED <<docs, query, d_docs, query_on_shm, scores>>

\* A thread without a document of its own returns before it has loaded anything.
Enter(t) ==
    /\ pc[t] = "enter"
    /\ IF t >= NDocs
       THEN pc' = [pc EXCEPT ![t] = "returned"] /\ UNCHANGED at
       ELSE /\ pc' = [pc EXCEPT ![t] = "load"]
            /\ at' = [at EXCEPT ![t] = t % BlockDim]
    /\ UNCHANGED <<docs, query, d_docs, query_on_shm, scores>>

LoadQuery(t) ==
    /\ pc[t] = "load"
    /\ IF at[t] < Len(query)
       THEN /\ query_on_shm' = [query_on_shm EXCEPT ![BlockOf(t)][at[t] + 1] = query[at[t] + 1]]
            /\ at' = [at EXCEPT ![t] = @ + BlockDim]
            /\ UNCHANGED pc
       ELSE /\ pc' = [pc EXCEPT ![t] = "sync"]
            /\ UNCHANGED <<query_on_shm, at>>
    /\ UNCHANGED <<docs, query, d_docs, scores>>

\* Bug: no barrier.
SyncAtOnce(t) ==
    /\ pc[t] = "sync"
    /\ pc' = [pc EXCEPT ![t] = "score"]
    /\ at' = [at EXCEPT ![t] = t]
    /\ UNCHANGED <<docs, query, d_docs, query_on_shm, scores>>

\* Bug: the barrier expects the threads that have returned.
SyncAll(t) ==
    /\ pc[t] = "sync"
    /\ \A u \in BlockThreads(t) :
          pc[u] \in {"sync", "score"} \/ (pc[u] = "returned" /\ u < NDocs)
    /\ pc' = [pc EXCEPT ![t] = "score"]
    /\ at' = [at EXCEPT ![t] = t]
    /\ UNCHANGED <<docs, query, d_docs, query_on_shm, scores>>

\* __syncthreads() waits for the block's threads that have not returned.
Sync(t) ==
    /\ pc[t] = "sync"
    /\ \A u \in BlockThreads(t) : pc[u] \notin {"enter", "load"}
    /\ pc' = [pc EXCEPT ![t] = "score"]
    /\ at' = [at EXCEPT ![t] = t]
    /\ UNCHANGED <<docs, query, d_docs, query_on_shm, scores>>

ScoreOf(b, d) ==
    Fraction(MergeJoin(query_on_shm[b], LoadedDoc(d_docs, NDocs, d)),
             query, docs[d])

\* One document.  Behind the barrier nobody writes what the loop reads, and only
\* this thread writes scores[doc_id], so one step stands for the whole walk.
ScoreDoc(t) ==
    /\ pc[t] = "score"
    /\ IF at[t] < NDocs
       THEN /\ scores' = [scores EXCEPT ![at[t]] = ScoreOf(BlockOf(t), at[t])]
            /\ at' = [at EXCEPT ![t] = @ + Tnum(NDocs)]
            /\ UNCHANGED pc
       ELSE /\ pc' = [pc EXCEPT ![t] = "returned"]
            /\ UNCHANGED <<scores, at>>
    /\ UNCHANGED <<docs, query, d_docs, query_on_shm>>

Step(t) == Enter(t) \/ LoadQuery(t) \/ Sync(t) \/ ScoreDoc(t)

Returned == \A t \in Threads : pc[t] = "returned"

Over == Returned /\ UNCHANGED vars

Next == (\E t \in Threads : Step(t)) \/ Over

\* Every block is scheduled in the end, and every thread of it makes progress.
MaxThreads == Max({0} \cup {Cardinality(ThreadsOf(Cardinality(DOMAIN in.docs))) : in \in Inputs})
Fairness == \A t \in 0..(MaxThreads - 1) : WF_vars(t \in Threads /\ Step(t))

Spec == Init /\ [][Next]_vars /\ Fairness

-----------------------------------------------------------------------------
(* Properties *)

\* What the next step of a thread reads and writes is inside the arrays: the token of
\* the query it copies in the query and in its block's memory, every offset of the
\* document it scores in the layout, the document's score in the scores.  And no score
\* is above 1.
TypeOK ==
    /\ pc \in [Threads -> {"enter", "load", "sync", "score", "returned"}]
    /\ at \in [Threads -> Nat]
    /\ \A t \in Threads :
          /\ pc[t] = "load" /\ at[t] < Len(query) =>
                BlockOf(t) \in DOMAIN query_on_shm /\ at[t] + 1 \in DOMAIN query_on_shm[BlockOf(t)]
          /\ pc[t] = "score" /\ at[t] < NDocs =>
                /\ at[t] \in DOMAIN scores
                /\ \A j \in 0..(MaxDocSize - 1) : LoadedOffset(NDocs, at[t], j) \in DOMAIN d_docs
    /\ \A d \in DOMAIN scores : scores[d] # Unwritten => scores[d][1] <= scores[d][2]

\* From the first thread behind the barrier on, the block's shared memory holds every
\* token of the query that one of its threads with a document loads: no thread scores
\* with what the memory held there before, and none overwrites it under a reader.
SharedHoldsQuery ==
    \A t \in Threads : pc[t] = "score" =>
        \A i \in 1..Len(query) :
            LoadedByBlock(NDocs, t, i) => query_on_shm[BlockOf(t)][i] = query[i]

\* Across blocks no document is scored twice.
ScoredOnce ==
    \A t \in Threads : pc[t] = "score" /\ at[t] < NDocs => scores[at[t]] = Unwritten

\* However the threads interleave, wherever the layout puts a document's tokens and
\* whatever the last block is: one choice of what the places held that nobody loads
\* explains all scores.  Each is the walk of that document alone over the query with
\* those places.  When the kernel is over, no document is without a score.
ScoresAreTheLoaded ==
    \E junk \in Unloaded(NDocs, Len(query)) :
        \A d \in DOMAIN docs :
            IF scores[d] = Unwritten THEN ~Returned
            ELSE scores[d] = Fraction(MergeJoin(QueryOnShm(query, NDocs, d, junk), docs[d]),
                                      query, docs[d])

\* When the kernel is over every document has the score README.md defines: through
\* the layout and back, from shared memory, by the merging walk.
ScoresMatchReadme ==
    Returned => \A d \in DOMAIN docs :
        scores[d] # Unwritten /\ SameScore(scores[d], ReadmeScore(query, docs[d]))

\* So it is where the last block has a thread with a document for every token of the
\* query.
LoadedMatchReadme == Missing(NDocs, Len(query)) = {} => ScoresMatchReadme

\* The kernel ends, although threads return before the barrier.
KernelEnds == <>Returned
=============================================================================
