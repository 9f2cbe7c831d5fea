----------------------------- MODULE DeviceBuilds -----------------------------
(***************************************************************************)
(* doc_query_scoring_gpu of the builds that move data to the device in     *)
(* their own way.  The host part of each build is a program, a sequence of *)
(* statements kept as data, which this module runs against CudaRuntime:    *)
(* the host goes on while the device works off what it was given.          *)
(*                                                                         *)
(* The kernel is one operation: ScoreKernel shows what it computes, also   *)
(* where the last block does not load the whole query.  The grouped layout *)
(* is written in one statement, as no device work is then in flight.       *)
(* Every build here is called once, with start_doc_id 0.                   *)
(***************************************************************************)
EXTENDS CudaRuntime

CONSTANTS TOPK,
          MaxQuerySize,  \* tokens of the longest query
          Inputs
          \* Records: build; pinned (PINNED_MEMORY); staged (a cudaMemcpy from
          \* pageable memory may return before it has reached the device);
          \* overlap (deviceOverlap); raft (the build selects with RAFT);
          \* querys; docs; junk (what memory holds before it is written).

ASSUME BuildsAssumption ==
    /\ TOPK \in Nat \ {0}
    /\ MaxQuerySize \in Nat
    /\ \A r \in Inputs :
          /\ r.build \in {"pinned_memory", "pinned_map_memory", "hashtable", "query_stream",
                         "doc_stream", "align_locality", "raft_selectk",
                         "align_query_stream_raft"}
          /\ 0..Len(r.querys) \cup {1} \subseteq Streams
          /\ r.querys \in Seq(Seq(Nat))
          /\ \A q \in DOMAIN r.querys : Len(r.querys[q]) \in 1..MaxQuerySize
          /\ Cardinality(DOMAIN r.docs) \in Nat
          /\ r.docs \in [0..(Cardinality(DOMAIN r.docs) - 1) -> Seq(Nat)]
          /\ \A d \in DOMAIN r.docs : Len(r.docs[d]) <= MaxDocSize
          /\ r.raft => 2 * TOPK <= Cardinality(DOMAIN r.docs)

VARIABLES in,        \* the input
          at,        \* the statement the host executes
          issued,    \* inside a parallel for: how much of each body is issued
          lists,     \* indices and scores: one list of entries per query
          returned

vars == <<mem, queue, in, at, issued, lists, returned>>

N(r) == Cardinality(DOMAIN r.docs)
NQ(r) == Len(r.querys)
QLen(r, q) == Len(r.querys[q])

\* The tokens 0..NTokens - 1 that queries and documents hold.
NTokens(r) == 1 + Max(UNION ({Range(r.docs[d]) : d \in DOMAIN r.docs}
                                 \cup {Range(r.querys[q]) : q \in DOMAIN r.querys}))

\* The builds with a stream per query have room for all queries, in rows of MaxDocSize,
\* and for their scores; the others for one query, the next in the place of the last.
StreamPerQuery(r) == r.build \in {"query_stream", "align_query_stream_raft"}

QueryRoom(r) == IF StreamPerQuery(r) THEN NQ(r) * MaxDocSize ELSE MaxQuerySize
ScoreRoom(r) == IF StreamPerQuery(r) THEN NQ(r) * N(r) ELSE N(r)

Arrays(r) ==
    [h_docs |-> N(r) * MaxDocSize, h_doc_lens |-> N(r), h_querys |-> NQ(r) * MaxQuerySize,
     h_scores |-> ScoreRoom(r), d_table |-> NTokens(r), d_in_docs |-> N(r) * MaxDocSize,
     d_docs |-> N(r) * MaxDocSize, d_doc_lens |-> N(r), d_querys |-> QueryRoom(r),
     d_scores |-> ScoreRoom(r)]

\* A score that was never written is a fraction too.
JunkIn(r, a) == IF a \in {"h_scores", "d_scores"} THEN <<r.junk, 1>> ELSE r.junk

-----------------------------------------------------------------------------
(* Statements of the host *)

Host(op) == [do |-> "host", op |-> op]
Async(s, op) == [do |-> "issue", s |-> s, op |-> op]
Sync(ss) == [do |-> "sync", ss |-> ss]
Select(from) == [do |-> "select", from |-> from]
SelectTwice(from) == [do |-> "select_twice", from |-> from]
\* omp parallel for: body q issues to stream q.
ParallelFor(bodies) == [do |-> "parallel", bodies |-> bodies]

\* cudaMemcpy between pinned and device memory, or to the host.
Memcpy(op) == <<Sync({0}), Host(op)>>
\* cudaMemcpy from pageable memory: op is Data.
MemcpyPageable(r, op) == IF r.staged THEN <<Async(0, op)>> ELSE Memcpy(op)

Scribble(r, a) == Host(Data(a, 0, [o \in 1..Arrays(r)[a] |-> JunkIn(r, a)]))
\* cudaFree and cudaFreeHost wait for the device; delete[] does not.
CudaFree(r, a) == <<Sync(Streams), Scribble(r, a)>>

ForQuerys(r, body(_)) == FlattenSeq([q \in 1..NQ(r) |-> body(q)])

DocLens(r) == [i \in 1..N(r) |-> Len(r.docs[i - 1])]

\* The grouped layout, written over zeroed memory.
GroupedDocs(r) ==
    LET aligned == AlignDocs(r.docs)
    IN  [o \in 1..(N(r) * MaxDocSize) |-> aligned[o - 1]]

\* The rows of the aligning builds: nothing is written behind a document.
DocRows(r) ==
    [o \in 1..(N(r) * MaxDocSize) |->
        LET doc == r.docs[(o - 1) \div MaxDocSize]
            j == (o - 1) % MaxDocSize
        IN  IF j < Len(doc) THEN doc[j + 1] ELSE r.junk]

-----------------------------------------------------------------------------
(* topk_pinned_memory.cu *)

\* With MAP_HOST_MEMORY the kernel reads the host's arrays.
PinnedKernel(r, q) ==
    IF r.build = "pinned_map_memory"
    THEN Score("h_docs", "h_doc_lens", N(r), "d_querys", 0, QLen(r, q), "d_scores", 0)
    ELSE Score("d_docs", "d_doc_lens", N(r), "d_querys", 0, QLen(r, q), "d_scores", 0)

PinnedQuery(r, q) ==
    MemcpyPageable(r, Data("d_querys", 0, r.querys[q]))
    \o <<Async(0, PinnedKernel(r, q)), Sync(Streams)>>
    \o Memcpy(Copy("h_scores", 0, "d_scores", 0, N(r)))
    \o <<Select(0)>>
    \o CudaFree(r, "d_querys")

PinnedMemory(r) ==
    <<Host(Data("h_docs", 0, GroupedDocs(r))), Host(Data("h_doc_lens", 0, DocLens(r)))>>
    \o (IF r.build = "pinned_map_memory" THEN <<>>
        ELSE Memcpy(Copy("d_docs", 0, "h_docs", 0, N(r) * MaxDocSize))
             \o Memcpy(Copy("d_doc_lens", 0, "h_doc_lens", 0, N(r))))
    \o ForQuerys(r, LAMBDA q : PinnedQuery(r, q))
    \o CudaFree(r, "h_docs")

-----------------------------------------------------------------------------
(* topk_hashtable.cu: a table per query, with a cell per token as QueryHashTable *)
(* shows it, made and released within the iteration.                           *)

HashKernel(r, q) ==
    HashScore("d_docs", "d_doc_lens", N(r), "d_table", NTokens(r), QLen(r, q), "d_scores")

\* cudaMemset of device memory returns before it has run.
NewTable(r) == <<Async(0, Data("d_table", 0, [key \in 1..NTokens(r) |-> 0]))>>

HashQuery(r, q) ==
    MemcpyPageable(r, Data("d_querys", 0, r.querys[q]))
    \o NewTable(r)
    \o <<Async(0, Insert("d_table", NTokens(r), "d_querys", QLen(r, q))),
         Async(0, HashKernel(r, q)), Sync(Streams)>>
    \o Memcpy(Copy("h_scores", 0, "d_scores", 0, N(r)))
    \o <<Select(0)>>
    \o CudaFree(r, "d_querys") \o CudaFree(r, "d_table")

HashTable(r) ==
    <<Host(Data("h_docs", 0, GroupedDocs(r))), Host(Data("h_doc_lens", 0, DocLens(r)))>>
    \o MemcpyPageable(r, Data("d_docs", 0, GroupedDocs(r)))
    \o MemcpyPageable(r, Data("d_doc_lens", 0, DocLens(r)))
    \o ForQuerys(r, LAMBDA q : HashQuery(r, q))

-----------------------------------------------------------------------------
(* topk_query_stream.cu: a stream per query *)

QueryAt(r, q) == (q - 1) * MaxDocSize

\* Bug: the scores' regions are counted from one.
ScoresAtFromOne(r, q) == q * N(r)

ScoresAt(r, q) == (q - 1) * N(r)

QueryKernel(r, q) ==
    Score("d_docs", "d_doc_lens", N(r), "d_querys", QueryAt(r, q), QLen(r, q),
          "d_scores", ScoresAt(r, q))

QueryBody(r, q) ==
    <<Data("d_querys", QueryAt(r, q), r.querys[q]),
      QueryKernel(r, q),
      Copy("h_scores", ScoresAt(r, q), "d_scores", ScoresAt(r, q), N(r))>>

SyncQuerys(r) == ForQuerys(r, LAMBDA q : <<Sync({q})>>)

QueryStream(r) ==
    <<Host(Data("h_docs", 0, GroupedDocs(r))), Host(Data("h_doc_lens", 0, DocLens(r)))>>
    \o Memcpy(Copy("d_docs", 0, "h_docs", 0, N(r) * MaxDocSize))
    \o Memcpy(Copy("d_doc_lens", 0, "h_doc_lens", 0, N(r)))
    \o <<ParallelFor([q \in 1..NQ(r) |-> QueryBody(r, q)])>>
    \o SyncQuerys(r)
    \o ForQuerys(r, LAMBDA q : <<Select(ScoresAt(r, q))>>)
    \o CudaFree(r, "d_querys") \o CudaFree(r, "h_docs")

-----------------------------------------------------------------------------
(* topk_doc_stream.cu: N_STREAM = 1 stream for all documents *)

DocStreamKernel(r, q) ==
    Score("d_docs", "d_doc_lens", N(r), "d_querys", 0, QLen(r, q), "d_scores", 0)

DocStreamCopies(r) ==
    IF r.pinned
    THEN <<Async(1, Copy("d_docs", 0, "h_docs", 0, N(r) * MaxDocSize)),
           Async(1, Copy("d_doc_lens", 0, "h_doc_lens", 0, N(r)))>>
    ELSE <<Async(1, Data("d_docs", 0, GroupedDocs(r))),
           Async(1, Data("d_doc_lens", 0, DocLens(r)))>>

\* The query goes over the default stream, its kernel to the document stream.
DocStreamQuery(r, q) ==
    MemcpyPageable(r, Data("d_querys", 0, r.querys[q]))
    \o <<Async(1, DocStreamKernel(r, q)),
         Async(1, Copy("h_scores", 0, "d_scores", 0, N(r))),
         Sync({1}), Select(0)>>
    \o CudaFree(r, "d_querys")

\* cudaFree(d_docs) gets the host array of pointers and frees nothing.
DocStream(r) ==
    <<Host(Data("h_docs", 0, GroupedDocs(r))), Host(Data("h_doc_lens", 0, DocLens(r)))>>
    \o DocStreamCopies(r)
    \o ForQuerys(r, LAMBDA q : DocStreamQuery(r, q))
    \o (IF r.pinned THEN CudaFree(r, "h_docs") ELSE <<Scribble(r, "h_docs")>>)

-----------------------------------------------------------------------------
(* topk_doc_align_locality.cu: the device lays the documents out *)

AlignLaunch(r) == Align("d_docs", "d_in_docs", "d_doc_lens", N(r))

AlignKernel(r, q) ==
    Score("d_docs", "d_doc_lens", N(r), "d_querys", 0, QLen(r, q), "d_scores", 0)

\* Bug: pinned buffers are released like pageable ones, without waiting.
AlignFreeAtOnce(r) == <<Scribble(r, "h_docs"), Scribble(r, "h_doc_lens")>>

\* The host buffers go while the copies out of them may still be in flight.
AlignFree(r) ==
    IF r.pinned THEN CudaFree(r, "h_docs") \o CudaFree(r, "h_doc_lens")
    ELSE <<Scribble(r, "h_docs"), Scribble(r, "h_doc_lens")>>

\* The block that copies and aligns on a stream of its own, number 1, destroyed
\* without a synchronisation.
AlignBlock(r) ==
    <<Host(Data("h_docs", 0, DocRows(r))), Host(Data("h_doc_lens", 0, DocLens(r)))>>
    \o (IF r.pinned
        THEN <<Async(1, Copy("d_in_docs", 0, "h_docs", 0, N(r) * MaxDocSize)),
               Async(1, Copy("d_doc_lens", 0, "h_doc_lens", 0, N(r)))>>
        ELSE <<Async(1, Data("d_in_docs", 0, DocRows(r))),
               Async(1, Data("d_doc_lens", 0, DocLens(r)))>>)
    \o <<Async(1, AlignLaunch(r))>>
    \o AlignFree(r)
    \o CudaFree(r, "d_in_docs")

AlignQuery(r, q) ==
    MemcpyPageable(r, Data("d_querys", 0, r.querys[q]))
    \o <<Async(0, AlignKernel(r, q)), Sync(Streams)>>
    \o Memcpy(Copy("h_scores", 0, "d_scores", 0, N(r)))
    \o <<Select(0)>>
    \o CudaFree(r, "d_querys")

AlignLocality(r) == AlignBlock(r) \o ForQuerys(r, LAMBDA q : AlignQuery(r, q))

-----------------------------------------------------------------------------
(* topk_raft_selectk.cu *)

RaftKernel(r, q) ==
    Score("d_docs", "d_doc_lens", N(r), "d_querys", 0, QLen(r, q), "d_scores", 0)

RaftQuery(r, q) ==
    MemcpyPageable(r, Data("d_querys", 0, r.querys[q]))
    \o <<Async(0, RaftKernel(r, q)), Sync(Streams), SelectTwice(0)>>
    \o CudaFree(r, "d_querys")

RaftSelectk(r) ==
    <<Host(Data("h_docs", 0, GroupedDocs(r))), Host(Data("h_doc_lens", 0, DocLens(r)))>>
    \o MemcpyPageable(r, Data("d_docs", 0, GroupedDocs(r)))
    \o MemcpyPageable(r, Data("d_doc_lens", 0, DocLens(r)))
    \o ForQuerys(r, LAMBDA q : RaftQuery(r, q))

-----------------------------------------------------------------------------
(* topk_doc_align_locality_query_stream_raft_selectk.cu *)

StreamedAlignLaunch(r) == Align("d_docs", "d_in_docs", "d_doc_lens", N(r))

StreamedAlignBlock(r) ==
    <<Host(Data("h_docs", 0, DocRows(r))), Host(Data("h_doc_lens", 0, DocLens(r)))>>
    \o (IF r.pinned
        THEN <<Async(1, Copy("d_in_docs", 0, "h_docs", 0, N(r) * MaxDocSize)),
               Async(1, Copy("d_doc_lens", 0, "h_doc_lens", 0, N(r)))>>
        ELSE <<Async(1, Data("d_in_docs", 0, DocRows(r))),
               Async(1, Data("d_doc_lens", 0, DocLens(r)))>>)
    \o <<Async(1, StreamedAlignLaunch(r))>>
    \o AlignFree(r)
    \o CudaFree(r, "d_in_docs")

StreamedKernel(r, q) ==
    Score("d_docs", "d_doc_lens", N(r), "d_querys", QueryAt(r, q), QLen(r, q),
          "d_scores", ScoresAt(r, q))

\* cudaHostRegister pins the caller's query, so its copy reads it late.
StreamedBody(r, q) ==
    <<Copy("d_querys", QueryAt(r, q), "h_querys", (q - 1) * MaxQuerySize, QLen(r, q)),
      StreamedKernel(r, q)>>

\* cudaHostUnregister: a host access to the query, without changing it.
Unregister(r, q) == Host(Data("h_querys", (q - 1) * MaxQuerySize, r.querys[q]))

AlignQueryStreamRaft(r) ==
    StreamedAlignBlock(r)
    \o <<ParallelFor([q \in 1..NQ(r) |-> StreamedBody(r, q)])>>
    \o ForQuerys(r, LAMBDA q : <<Sync({q}), Unregister(r, q)>>)
    \o ForQuerys(r, LAMBDA q : <<SelectTwice(ScoresAt(r, q))>>)
    \o CudaFree(r, "d_querys")

-----------------------------------------------------------------------------
(* Running a program *)

\* The stream builds return at once from a device that cannot overlap.
Program(r) ==
    CASE r.build \in {"pinned_memory", "pinned_map_memory"} -> PinnedMemory(r)
      [] r.build = "hashtable" -> HashTable(r)
      [] r.build = "query_stream" -> IF r.overlap THEN QueryStream(r) ELSE <<>>
      [] r.build = "doc_stream" -> IF r.overlap THEN DocStream(r) ELSE <<>>
      [] r.build = "align_locality" -> AlignLocality(r)
      [] r.build = "raft_selectk" -> RaftSelectk(r)
      [] r.build = "align_query_stream_raft" -> AlignQueryStreamRaft(r)

Programs == [r \in Inputs |-> Program(r)]

Over == at > Len(Programs[in])
Now(do) == ~Over /\ Programs[in][at].do = do
Statement == Programs[in][at]

\* The queries as main() loaded them; every other array holds junk.
Memory(r) ==
    [a \in DOMAIN Arrays(r) |->
        [o \in Span(0, Arrays(r)[a]) |->
            LET query == r.querys[(o \div MaxQuerySize) + 1]
            IN  IF a = "h_querys" /\ o % MaxQuerySize < Len(query)
                THEN query[(o % MaxQuerySize) + 1]
                ELSE JunkIn(r, a)]]

Init ==
    /\ in \in Inputs
    /\ mem = Memory(in)
    /\ queue = [s \in Streams |-> <<>>]
    /\ at = 1
    /\ issued = [s \in Streams |-> 0]
    /\ lists = <<>>
    /\ returned = FALSE

HostOp ==
    /\ Now("host")
    /\ Run(Statement.op)
    /\ at' = at + 1
    /\ UNCHANGED <<queue, in, issued, lists, returned>>

IssueOp ==
    /\ Now("issue")
    /\ Issue(Statement.s, Statement.op)
    /\ at' = at + 1
    /\ UNCHANGED <<mem, in, issued, lists, returned>>

SyncReturns ==
    /\ Now("sync")
    /\ Idle(Statement.ss)
    /\ at' = at + 1
    /\ UNCHANGED <<mem, queue, in, issued, lists, returned>>

\* A thread of the team issues the next operation of body q.
ParallelIssue(q) ==
    /\ Now("parallel")
    /\ q \in DOMAIN Statement.bodies
    /\ issued[q] < Len(Statement.bodies[q])
    /\ Issue(q, Statement.bodies[q][issued[q] + 1])
    /\ issued' = [issued EXCEPT ![q] = @ + 1]
    /\ UNCHANGED <<mem, in, at, lists, returned>>

\* The barrier at the end of the loop: everything issued, nothing waited for.
ParallelJoin ==
    /\ Now("parallel")
    /\ \A q \in DOMAIN Statement.bodies : issued[q] = Len(Statement.bodies[q])
    /\ issued' = [s \in Streams |-> 0]
    /\ at' = at + 1
    /\ UNCHANGED <<mem, queue, in, lists, returned>>

K == MinOf(TOPK, N(in))

Entries(array) ==
    [n \in 1..N(in) |-> [id |-> n - 1, score |-> mem[array][Statement.from + n - 1]]]

\* partial_sort of s_indices by the host's scores; the next query sorts the
\* permutation this leaves, which the order of Before makes irrelevant.
SelectTopk ==
    /\ Now("select")
    /\ lists' = Append(lists, PartialSort(Entries("h_scores"), K))
    /\ at' = at + 1
    /\ UNCHANGED <<mem, queue, in, issued, returned>>

\* Bug: RAFT is asked for k documents only.
SelectKSingle ==
    /\ Now("select_twice")
    /\ \E chosen \in SelectK(Entries("d_scores"), K) : lists' = Append(lists, PartialSort(chosen, K))
    /\ at' = at + 1
    /\ UNCHANGED <<mem, queue, in, issued, returned>>

\* select_k of 2k documents on the device; the host sorts them and keeps k.
SelectTwiceTopk ==
    /\ Now("select_twice")
    /\ \E chosen \in SelectK(Entries("d_scores"), 2 * K) :
          lists' = Append(lists, PartialSort(chosen, K))
    /\ at' = at + 1
    /\ UNCHANGED <<mem, queue, in, issued, returned>>

Return ==
    /\ Over /\ ~returned
    /\ returned' = TRUE
    /\ UNCHANGED <<mem, queue, in, at, issued, lists>>

HostStep ==
    \/ HostOp \/ IssueOp \/ SyncReturns
    \/ \E q \in Streams : ParallelIssue(q)
    \/ ParallelJoin
    \/ SelectTopk \/ SelectTwiceTopk
    \/ Return

DeviceStep(s) == Retire(s) /\ UNCHANGED <<in, at, issued, lists, returned>>

Done == returned /\ Idle(Streams) /\ UNCHANGED vars

Next == HostStep \/ (\E s \in Streams : DeviceStep(s)) \/ Done

\* The host runs on, and the device works every stream off.
Fairness == WF_vars(HostStep) /\ \A s \in Streams : WF_vars(DeviceStep(s))

Spec == Init /\ [][Next]_vars /\ Fairness

-----------------------------------------------------------------------------
(* Properties *)

\* No operation writes outside its array, and no list is longer than TOPK.
TypeOK ==
    /\ \A a \in DOMAIN mem : DOMAIN mem[a] = Span(0, Arrays(in)[a])
    /\ at \in 1..(Len(Programs[in]) + 1)
    /\ \A q \in DOMAIN lists : Len(lists[q]) <= TOPK
    /\ Len(lists) <= NQ(in)

HostReads ==
    CASE Now("host") -> Reads(Statement.op)
      [] Now("select") -> Cells("h_scores", Statement.from, N(in))
      [] Now("select_twice") -> Cells("d_scores", Statement.from, N(in))
      [] OTHER -> {}

HostWrites == IF Now("host") THEN Writes(Statement.op) ELSE {}

\* Nothing that may happen next in two places at once touches the same cell: not
\* the oldest operations of two streams, and not the host (reading scores, writing
\* or releasing a buffer, or the query it has pinned) and a stream.
RaceFree ==
    \A s \in {s \in Streams : queue[s] # <<>>} :
        LET op == Head(queue[s])
        IN  /\ HostWrites \cap (Reads(op) \cup Writes(op)) = {}
            /\ HostReads \cap Writes(op) = {}
            /\ \A t \in Streams \ {s} : queue[t] # <<>> => ~Conflict(op, Head(queue[t]))

Service == INSTANCE ScoringService

\* Every build keeps the promise of ScoringService: the README's lists in the order
\* of the queries, whatever the order of copies and kernels, and it returns.
ServiceSpec == Service!Spec
=============================================================================
