------------------------------ MODULE CudaRuntime ------------------------------
(***************************************************************************)
(* What the scorers use of the CUDA runtime.  An operation is issued to a  *)
(* stream and runs later: the operations of a stream in order, those of    *)
(* different streams in any order.  Stream 0 is the default stream of the  *)
(* calling thread; every other stream is created with                      *)
(* cudaStreamNonBlocking and does not wait for it, nor it for them.        *)
(*                                                                         *)
(* The runtime is not part of the repository: these are the rules the code *)
(* relies on.  A copy from pinned or device memory reads its source when   *)
(* it runs.  A copy from pageable memory reads it at the call, into a      *)
(* staging buffer, and writes the device when it runs.                     *)
(***************************************************************************)
EXTENDS DocLayout, QueryLoad

CONSTANT Streams  \* 0..n

VARIABLES mem,   \* array -> offset -> value
          queue  \* stream -> the operations issued and not over, oldest first

-----------------------------------------------------------------------------
(* Operations: each writes a part of one array, dst from offset to on. *)

\* A copy within mem.
Copy(dst, to, src, from, n) ==
    [kind |-> "copy", dst |-> dst, to |-> to, src |-> src, from |-> from, n |-> n]

\* Values known at the call: a staged copy, or a write by the host.
Data(dst, to, data) ==
    [kind |-> "data", dst |-> dst, to |-> to, n |-> Len(data), data |-> data]

\* docsAlignKernel<<<>>>(src, lens, n, dst)
Align(dst, src, lens, n) ==
    [kind |-> "align", dst |-> dst, src |-> src, lens |-> lens, n |-> n]

\* docQueryScoring...Kernel<<<>>>(docs, lens, n, query + qat, qlen, dst + to)
Score(docs, lens, n, query, qat, qlen, dst, to) ==
    [kind |-> "score", docs |-> docs, lens |-> lens, n |-> n, query |-> query, qat |-> qat,
     qlen |-> qlen, dst |-> dst, to |-> to]

\* insert_unique_cn_kernel<<<>>>(dst, keys, n); dst counts each of m tokens.
Insert(dst, m, keys, n) ==
    [kind |-> "insert", dst |-> dst, m |-> m, keys |-> keys, n |-> n]

\* docQueryScoring...HashTableKernel<<<>>>(docs, lens, n, table, qlen, dst)
HashScore(docs, lens, n, table, m, qlen, dst) ==
    [kind |-> "hash_score", docs |-> docs, lens |-> lens, n |-> n, table |-> table, m |-> m,
     qlen |-> qlen, dst |-> dst, to |-> 0]

Span(from, n) == from..(from + n - 1)

\* What docsAlignKernel writes: the tokens of each document and nothing else.
Aligned(op, m) ==
    LET places == {p \in (0..(op.n - 1)) \X (0..(MaxDocSize - 1)) : p[2] < m[op.lens][p[1]]}
    IN  [o \in {FinalOffset(op.n, p[1], p[2]) : p \in places} |->
            LET p == CHOOSE p \in places : FinalOffset(op.n, p[1], p[2]) = o
            IN  m[op.src][p[1] * MaxDocSize + p[2]]]

\* What the scoring kernel writes for document d, as ScoreKernel shows it: junk is what
\* the last block holds in the places of the query that it does not load.
ScoreOf(op, m, junk, d) ==
    LET query == [i \in 1..op.qlen |-> m[op.query][op.qat + i - 1]]
    IN  <<MergeJoin(QueryOnShm(query, op.n, d, junk), LoadedDoc(m[op.docs], op.n, d)),
          MaxOf(op.qlen, m[op.lens][d])>>

\* What QueryHashTable shows of the insertions: each key adds 1 to its count.
Counted(op, m) ==
    [key \in Span(0, op.m) |->
        m[op.dst][key] + Cardinality({i \in Span(0, op.n) : m[op.keys][i] = key})]

\* The counts of the document's tokens up to the first 0.
HashScoreOf(op, m, d) ==
    LET doc == LoadedDoc(m[op.docs], op.n, d)
        stop == Min({j \in DOMAIN doc : doc[j] = 0} \cup {Len(doc) + 1})
    IN  <<MapThenSumSet(LAMBDA j : m[op.table][doc[j]], 1..(stop - 1)),
          MaxOf(op.qlen, m[op.lens][d])>>

\* The contents of shared memory that a kernel may meet: the merging walk alone keeps
\* its query there.
OnShm(op) == IF op.kind = "score" THEN Unloaded(op.n, op.qlen) ELSE {<<>>}

\* The part of dst that op writes, from what memory holds when it runs.
Effect(op, m, junk) ==
    CASE op.kind = "copy"  -> [o \in Span(op.to, op.n) |-> m[op.src][op.from + o - op.to]]
      [] op.kind = "data"  -> [o \in Span(op.to, op.n) |-> op.data[o - op.to + 1]]
      [] op.kind = "align" -> Aligned(op, m)
      [] op.kind = "score" -> [o \in Span(op.to, op.n) |-> ScoreOf(op, m, junk, o - op.to)]
      [] op.kind = "insert" -> Counted(op, m)
      [] op.kind = "hash_score" -> [o \in Span(op.to, op.n) |-> HashScoreOf(op, m, o - op.to)]

\* op runs: its part of dst is written over.
Run(op) ==
    \E part \in {Effect(op, mem, junk) : junk \in OnShm(op)} :
        mem' = [mem EXCEPT ![op.dst] =
                    [o \in DOMAIN part \cup DOMAIN @ |->
                        IF o \in DOMAIN part THEN part[o] ELSE @[o]]]

\* The cells op may touch.
Cells(array, from, n) == {array} \X Span(from, n)

Writes(op) ==
    CASE op.kind = "align" -> Cells(op.dst, 0, op.n * MaxDocSize)
      [] op.kind = "insert" -> Cells(op.dst, 0, op.m)
      [] op.kind \in {"copy", "data", "score", "hash_score"} -> Cells(op.dst, op.to, op.n)

Reads(op) ==
    CASE op.kind = "data"  -> {}
      [] op.kind = "copy"  -> Cells(op.src, op.from, op.n)
      [] op.kind = "align" -> Cells(op.src, 0, op.n * MaxDocSize) \cup Cells(op.lens, 0, op.n)
      [] op.kind = "score" -> Cells(op.docs, 0, op.n * MaxDocSize) \cup Cells(op.lens, 0, op.n)
                                  \cup Cells(op.query, op.qat, op.qlen)
      [] op.kind = "insert" -> Cells(op.keys, 0, op.n) \cup Writes(op)
      [] op.kind = "hash_score" -> Cells(op.docs, 0, op.n * MaxDocSize) \cup Cells(op.lens, 0, op.n)
                                       \cup Cells(op.table, 0, op.m)

Conflict(o, p) ==
    \/ Writes(o) \cap (Reads(p) \cup Writes(p)) # {}
    \/ Writes(p) \cap Reads(o) # {}

-----------------------------------------------------------------------------
(* Streams *)

Issue(s, op) == queue' = [queue EXCEPT ![s] = Append(@, op)]

\* cudaStreamSynchronize, cudaDeviceSynchronize and the implicit waits return.
Idle(ss) == \A s \in ss : queue[s] = <<>>

\* The device runs the oldest operation of a stream.
Retire(s) ==
    /\ queue[s] # <<>>
    /\ Run(Head(queue[s]))
    /\ queue' = [queue EXCEPT ![s] = Tail(@)]
=============================================================================
