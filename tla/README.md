# Verification of weedge/topk

The program scores every document (a sorted list of up to 128 token ids) against
every query and writes, per query, the ids of the best 100 documents.  It is built
in many variants: one CPU thread, a pool of CPU threads over chunks of the documents,
and a dozen GPU scorers.  This directory holds TLA+ models of its core, the TLC runs
that check them, and TLAPS proofs about the thread pool, the concurrent main program, the
selection, the scoring kernel with its document layout, the query's hash table, the host programs
of seven GPU builds, and the chunked pipeline.

Run from this directory:

    tlc -config MCThreadPool.cfg MCThreadPool.tla      (any pair named in PROJECT.json)
    tlapm ThreadPoolProofs.tla                         (any module named *Proofs)

## The system

| Component | Source | State | Operations | What is hard |
|---|---|---|---|---|
| Thread pool | `threadpool.h` | `tasks`, `queue_mutex`, `condition`, `stop`, the workers, the futures it hands out | `enqueue`, the worker's loop, the destructor | interleavings of mutex and condition variable, lost wake-ups, shutdown against `enqueue`, tasks that throw or enqueue |
| Concurrent main program | `main.cpp:231-390` with `CPU_CONCURRENCY` | documents, chunk tasks, futures, merged lists | split, enqueue, collect, reduce | chunk boundaries, results out of order, ties across chunks |
| CPU scorer | `main.cpp:147-215` | none | score, select | repeated tokens, ties, local against global ids |
| GPU scorer | `topk.cu` | device arrays, shared memory per block | layout, kernel, select | barrier with early returns, strides, what a partial block loads |
| GPU scorer with hash table | `topk_hashtable.cu`, `hashtable.h` | `table_keys`, `table_vals` | concurrent insert, lookup | races on a cell, wrap-around, full table |
| GPU scorers with their own data movement | `topk_pinned_memory.cu`, `topk_query_stream.cu`, `topk_doc_stream.cu`, `topk_doc_align_locality*.cu`, `topk_raft_selectk.cu`, `topk_hashtable.cu` | host buffers (pageable, pinned, mapped), device arrays, streams | lay out, copy, align kernel, score kernel, copy back, select, free | the host runs ahead of the device: copies and kernels of several streams on shared arrays, buffers freed behind copies, implicit waits |
| Chunked input | `readfile.cu`, `example_readfile.cpp` | buffer, file position, end-of-file flag | read a chunk, cut it at its last newline | chunk boundaries, a full buffer without NUL |
| I/O pipeline | `readfile.cu:207-324`, `topk_doc_cudf_strings*.cu`, `main.cpp:42-78` | `doccnt`, futures per chunk, merged lists, the pool | read a chunk, score it (in the loop or in a task), merge, select | closures that outlive what they refer to, ids across chunks |
| Helpers | `helper.h` | none | `sub_vec`, `h_atoi`, `getFilesInDirectory` | boundaries |
| Selection algorithms | `include/` | buffers and thresholds per block | filter, batch, radix, bitonic select | atomics, mostly third-party code |
| Examples, builds, generators | `example_*`, `Makefile`, `*.sh` | | | stand-alone |

`main()` calls one scorer, chosen by the build (`doc_query_scoring`, `main.cpp:217-229`):
once for all documents, or from pool tasks once per chunk with the chunk's first
document id.  Chunk tasks share only the read-only input; they answer through
futures, which `main()` reads in the order it enqueued them.  A GPU scorer lays the
documents out so that thread *t* of a grid reads group *i* of its document next to
its neighbours' group *i*, launches one kernel per query, and selects on the host.

What makes each part correct:

- pool: every accepted task runs exactly once, its future is set once, no worker
  sleeps while work is queued, the destructor drains the queue and returns;
- main program: the chunks partition the documents, and selecting twice, per chunk and
  over the merged lists, gives the same as selecting once, ties by document id;
- scorers: the score of every document is that of `README.md` (pairs of equal elements over
  the longer length);
- hash table: one cell per token, its count is the token's multiplicity, every probe ends;
- data movement: no copy, kernel or host access touches a cell that another one in flight
  touches, and the lists come out in the order of the queries whatever the device's order;
- chunked input: the chunks are the file's lines, in order, each once and whole;
- I/O pipeline: selecting per chunk and over the chunks gives the README's top k of the file.

## Modules

| Module | Models | Checked by | Proofs |
|---|---|---|---|
| `TaskService` | what a pool promises: tasks are started in the order they were accepted, at most N at once, each finishes with a value or an exception, closing drains | as refinement target | |
| `ThreadPool` | `threadpool.h`, implements `TaskService` | `thread_pool` | `ThreadPoolProofs` |
| `Scoring` | the pure parts: CPU count, kernel walk, comparator, `partial_sort`, the README's definition | through its users | `ScoringProofs` |
| `ConcurrentTopk` | `main.cpp` over `TaskService`, with either scorer | `concurrent_topk`, `gpu_chunks` | `ConcurrentTopkProofs` |
| `QueryHashTable` | `hashtable.h` as `topk_hashtable.cu` uses it | `query_hash_table`, `hash_full`, `hash_token_zero` | `QueryHashTableProofs` |
| `DocLayout` | the grouped array of documents, written and read | through its users | `DocLayoutProofs` |
| `QueryLoad` | what a block of a merging kernel finds of the query in shared memory | through its users | `ScoreKernelProofs` |
| `ScoreKernel` | the kernel of `topk.cu`, thread by thread, over `DocLayout` | `score_kernel`, `score_partial_block`, `score_repeated_token` | `ScoreKernelProofs` |
| `ScoringService` | what `doc_query_scoring_gpu` promises: one list per query, in order, each the README's top k; then it returns | as refinement target | |
| `CudaRuntime` | external: memory, streams as queues of copies and kernels, waits | through `DeviceBuilds` | |
| `DeviceBuilds` | the host programs of seven GPU scorers over `CudaRuntime`, implements `ScoringService` | `device_builds` | `DeviceBuildsProofs` |
| `ChunkReader` | the reading loop of `readfile.cu` and `example_readfile.cpp`, lines, items, numbers | through `IoPipeline` | `IoPipelineProofs` |
| `IoPipeline` | the loaders, and `load_file_cudf_chunk_topk` over `TaskService` | `io_pipeline`, `io_stale_closure` | `IoPipelineProofs` |

`ConcurrentTopk` uses the pool by its abstract specification (`Pool == INSTANCE
TaskService`); `ThreadPool` is shown to implement that specification (`ServiceSpec`), so
the composition stays small and the interleavings of the mutex are checked once.  `IoPipeline`
composes `ChunkReader` with the same abstract pool.  `DeviceBuilds` and `IoPipeline` take a kernel as one
operation.  Its result is the one `ScoreKernel` establishes thread by thread (`ScoresAreTheLoaded`): the walk over
what the document's own block has loaded of the query, and over any contents of shared memory
(`Junk`) in the places that a partial last block leaves unloaded.  `QueryLoad` states that rule once,
and all three modules use it.  The insertions into a query's table are one operation whose result is the counts
`QueryHashTable` establishes.

### Correspondence

`ThreadPool`: one action is one atomic step of one thread.  `pc` is the thread's place in
the code, `owner` is `queue_mutex`, `current[w]` is the worker's local `task`, `arg[x]` the
task a thread is enqueueing or waiting for.  `condition.wait` is `WorkerWait`: it tests the
predicate under the lock, and either goes on or releases the lock and sleeps in one step, as
the standard requires; a notified (or spuriously woken) worker takes the lock and tests
again.  `notify_one` wakes any one sleeper or none.  `enqueue` may be called by the owner and
by a running task; a running task may also throw, from itself or from an `enqueue` it does
not catch.  `Main` owns the pool: it may enqueue, `get()` or destroy at any time between, and it
never enqueues after it has begun to destroy; tasks do.

`ConcurrentTopk`: `results` holds the chunk of each future; a chunk is the task of the same
number.  `TaskFinishes(t)` computes what `doc_query_scoring` returns for it, `Collect` is one
turn of the merge loop, `Reduce` the second `partial_sort` and the output.  A score is an exact
fraction.  With `Device = "gpu"`, a score read outside the chunk's vector is any value of
`Junk`.  `std::terminate` (an exception out of `get()`) stops everything: `Abort`.

`QueryHashTable`: `Probe` is one `atomicCAS` and the branch on its result, `Count` the
`atomicAdd`, by one GPU thread per query token; `LookupStep` is one turn of `lookup`'s loop.
The launch order of the two kernels on one stream is the guard `Inserted`.  A lookup only
reads, so one lookup at a time stands for all.

`ScoreKernel`: threads of all blocks interleave; `at[t]` is the thread's loop variable.
`AlignDocs` writes the host layout with `FinalOffset`, `LoadedToken` reads it as the kernel
addresses it.  Shared memory starts with any contents.  `__syncthreads()` waits for the threads
of the block that have not returned (the rule since Volta; `Makefile` builds for `sm_70`).
The walk over one document is one step because nothing it reads is written behind the barrier,
which `SharedHoldsQuery` checks.  A thread without a document returns before the load, so in a partial
last block some places of the query may have no thread that loads them (`Missing`): the scores then depend
on what the memory held, and on nothing else.

`DeviceBuilds`: the host part of each build is a sequence of statements kept as data
(`PinnedMemory`, `HashTable`, `QueryStream`, `DocStream`, `AlignLocality`, `RaftSelectk`,
`AlignQueryStreamRaft`), one operator per part of the function, which the actions execute:
`HostOp` (the host writes or releases a buffer), `IssueOp` (an asynchronous copy or a launch goes
to a stream), `SyncReturns` (a synchronisation, or a call that waits by itself such as
`cudaFree`), `ParallelIssue`/`ParallelJoin` (the `omp parallel for` over the queries, its threads
issuing in any order), `SelectTopk` and `SelectTwiceTopk`.  `DeviceStep(s)` runs the oldest
operation of stream `s`.  Stream 0 is the default stream; the others are created with
`cudaStreamNonBlocking`, so nothing orders them against it.  A copy from pinned memory reads
its source when it runs, a copy from pageable memory at the call.  Freed memory is
scribbled over, and every array starts with `junk`.  One array stands for all allocations of the
same name (`d_query` of each turn of the loop is the same `d_querys`), which lets a
stale kernel meet the next query.  The builds differ by `#ifdef`s that `Inputs` carries: `pinned`, `overlap` (what
`deviceOverlap` says), `staged` (whether a synchronous copy from pageable memory may return
before the device has it).

`ChunkReader` and `IoPipeline`: a file is a sequence of characters, where a number and the comma
behind it are one.  `Read` is `memset`, `fread`, `ftell`, the conversion to a string, the cut and the
`fseek`; `HitsEof` follows C: reading exactly the rest sets no end-of-file flag, so a last, empty
chunk follows.  A buffer filled to its end has no NUL: `Behind` is what may follow.  `ReadChunk` and
`EndIteration` are the two halves of one turn of the loop, between which `vec_lines` and
`stream_view` live; `Alive(t)` says whether a task still finds them.  `TaskFinishes(t)` computes what
`doc_query_scoring_gpu` returns for chunk `t`, the unloaded places of its last block included, `Collect` is one turn of the loop over the futures,
`Reduce` the selection, `Exit` the pool's destructor at the end of the function.  The four values of `load`
are `load_file_cudf_chunk` (documents come back through `uint16_t`; its `cudaMemset` on the default
stream may clear a token after `docsKernel` on its non-blocking stream has written it, if `MemsetLate`),
`load_file_stream_cudf_chunk` (only counts the rows), `load_file_buffer` (drops blank lines) and
`load_file_cudf_chunk_topk`.

## Runs

| Run | Instance | What it shows |
|---|---|---|
| `thread_pool` | 2 workers, 3 tasks, 1 spurious wake-up | all safety and liveness of the pool, and that it implements `TaskService`; deadlock is checked |
| `concurrent_topk` | 2 threads, top 2 of 0 to 6 documents of 3 kinds, 2 queries | chunks partition; the written lists are the README's top k in every order of the tasks; `main()` ends |
| `query_hash_table` | 4 cells, 5 tokens of which 3 share the last cell, queries up to 4 tokens with up to 3 distinct | exact counts, reachable cells, all probing ends |
| `score_kernel` | blocks of 2, 1 to 4 documents, 2 groups of 2 tokens, any last block | barrier and layout leave exactly the walk of each document over what its block loads, once per document; where that is the whole query, the README's score |
| `device_builds` | 3 queries of 1 to 4 tokens, 3 or 5 documents of up to 4 tokens in groups of 2, blocks of 3, top 2, twelve combinations of build and memory mode | no race on any array; the builds implement `ScoringService` |
| `io_pipeline` | a buffer of 10 characters, files of 0 to 4 chunks, blocks of 2, 2 workers, top 2, two query files | the chunks are the lines; the selection is the README's; the function returns |
| `io_stale_closure` (violation) | the same, a freed column's memory is used again | a task that starts late scores another chunk's documents |
| `gpu_chunks` (violation) | 2 threads, up to 3 documents, GPU scorer | `topk.cu:78` numbers a chunk's documents from 0 |
| `hash_full` (violation) | 4 distinct tokens in 4 cells | a lookup never ends |
| `hash_token_zero` (violation) | token 0 in the query | a wrong count |
| `score_partial_block` (violation) | one thread with a document in the last block, 2 query tokens | a score from uninitialised shared memory |
| `score_repeated_token` (violation) | the query <<2, 2>> | the walk counts once, the README and the CPU twice |

Why the bounds are enough.  Two workers give every race of two workers for one wake-up, one
task or the mutex, and three tasks give a queue longer than the workers can hold and a task
enqueued from a task; one spurious wake-up already breaks code that does not re-test.  Six
documents on two threads cover no document, fewer documents than threads, an even split, a
remainder, and chunks smaller than, as large as and larger than `TOPK`.  Four cells let a run of
taken cells wrap around and leave exactly one cell empty.  Blocks of two with one to four
documents give full, partial and several blocks; three query tokens are more than a block, so the
strided load turns twice, and a partial block leaves one token of two or three unloaded.  Three queries use three streams, so that two can be in flight while the
host works on the third; their lengths fill a region partly and fully.  The documents are empty,
padded and full, and the tied ones make as many documents contend for two places as RAFT
selects, one more, and fewer.  The files are empty, shorter than, as long as and longer than the
buffer, with and without a last newline, with blank lines at and beside a cut and a line that fills
the buffer.

Input conditions of the passing runs.

- `query_hash_table`: no token 0, a cell left empty; `hash_token_zero` and `hash_full` drop one each.
- `score_kernel`: no repeated token in a query (`score_repeated_token`), no token 0, sorted documents.  The last
  block is any.  Only `LoadedMatchReadme` speaks of the ones that load the whole query;
  `score_partial_block` asks the same of the others and fails.
- `device_builds`: sorted documents and queries without repeated tokens (the hash table build gets
  queries with them), no query longer than `MAX_DOC_SIZE`, at least 2k documents for RAFT; and four conditions that
  the code does not establish.  Every block has a thread with a document for each token of a query: blocks of
  three, and three documents with queries of up to four tokens or five with queries of up to two.
  The device has `overlap`.  `junk`, what the aligning builds find behind a document's end, is a token that no query
  holds (the kernel walks over it until the first 0).  `topk_doc_stream.cu` runs with `staged` false, that is its
  synchronous copy has reached the device when it returns.  `MCPartialInputs`, `MCRefusedInputs`,
  `MCPaddingInputs` and `MCStagedInputs` of `MCDeviceBuilds` are inputs that break one of them each: with
  `Inputs <- MCPartialInputs` and so on TLC finds `ServiceSpec` violated.
- `io_pipeline`: a line and its newline fit the buffer, nothing behind a full buffer holds a newline before
  its first NUL, RAFT's chunks hold at least 2k documents, cuDF yields no empty row behind a last newline,
  freed column memory keeps its contents until the task has run (`Reuse = FALSE`, which
  `io_stale_closure` drops), and two more that the code does not establish.  Every chunk that is scored loads each
  query in its last block: blocks of two and an even number of documents.  With
  `MCPartialInputs` of `MCIoPipeline`, one document in a block of two, `GlobalTopk` is violated.  The memset of
  `load_file_cudf_chunk` is over before its kernel writes: with `MemsetLate = TRUE` and `MCClearedInputs`
  `ChunksAreLines` is violated.

No instance has an empty query against an empty document (0/0), nor a document beyond `MAX_DOC_SIZE`.

Fairness.  `ThreadPool`: every thread that can take a step is scheduled in the end, and a task
that runs ends (weak fairness of each worker, of each `enqueue` in progress, of `get()` and of
the destructor).  Weak fairness of a worker is enough although workers compete for the mutex
because the instance's queue is finite; the owner is not obliged to enqueue, `get()` or
destroy.  `ConcurrentTopk` assumes of the pool exactly what `TaskService` promises and
`ThreadPool` was shown to keep.  The kernel modules assume that resident threads make progress
independently and that every block is scheduled.  `DeviceBuilds`: the calling thread runs on, and
the device works off every stream (weak fairness of each stream, which is all a
synchronisation needs).  `IoPipeline`: the calling thread runs on, and the pool keeps
`TaskService`'s promises.

Each property has a mutant: a plausible bug in one definition (marked `Bug:` in the modules)
under which the run must fail.

## Proofs

Everything below holds for every value of the constants under the assumptions the modules name
(`PoolAssumption`, `ConcurrentAssumption`, `TableAssumption`, `LayoutAssumption`, `LoadAssumption`, `KernelAssumption`,
`BuildsAssumption`, `ReaderAssumption`, `PipelineAssumption`), and under the conditions stated here, most of
which a violation run shows to be needed.  TLC evaluates the assumptions on every run.

### Thread pool

`ThreadPoolProofs`, for any finite set of workers, any set of tasks and any bound on spurious
wake-ups: `TypeCorrect`, `TaskInOnePlace` (no task is ever in two places), `NoWorkerSleepsThroughStop`,
`DestructorDrains` (a destroyed pool has run every accepted task), `FuturesAreFinal` (an outcome is
never overwritten), `NoWakeupIsLost`.

The argument is one inductive invariant, `IInv`.  None of the properties is inductive alone.
`OnePlace` needs `Bookkeeping` (what a thread's `pc` says of its `current`, of `arg` and of the
future of the task it carries) so that a push cannot bring back a task that is queued or
running.  `NoSleeperAfterStop` needs `CriticalSection` and `Shutdown`: a worker that has tested
`stop = FALSE` still holds the mutex, so `stop` cannot be set between its test and its sleep.
`DestroyedIsDrained` needs `Accounted` (a pending task is in the queue, in a worker or in an
`enqueue`) and `Shutdown` (a returned worker saw an empty queue behind `stop`, and a
later push throws).  `NoLostWakeup` compares cardinalities, and each action moves at most one
thread in or out of the sets it counts; a worker goes to sleep only holding the
mutex and seeing an empty queue.

`PoolImplementsService`, in the same module: initial states and steps of the pool are
those of `TaskService` or stutter, under the same refinement mapping that TLC checks.  The linearisation
points are the push, the throw, the pop, the end of the callable, the setting of `stop` and the end of `join`;
every other action is a stutter.  Its bound "at most N at once" is `Cardinality` over the workers' `current`, an injection by `OnePlace`.

### Counting and selecting

`ScoringProofs` compares the ways of counting with the README's pairs (`PairCount`).  The CPU's sum
is the pair count of any two sequences (`CpuCountsPairs`).  The kernels' walk is, if the query is
strictly increasing, the document sorted and without token 0 (`MergeJoinIsPairCount`; repeated
tokens break it, as `score_repeated_token` shows).  Zeros behind a document change nothing
(`PaddingIsIgnored`), and no walk counts more than the document's tokens (`MergeJoinBound`), whatever it
reads.  The loops are recursive functions, so that what holds of every element is proved by its least
counterexample: a set of wrong indices that is not empty has a smallest one (`Smallest`).

The second half of the module proves that selecting in parts and then among what was selected is selecting
from the whole (`BestOfTheBest`).  Its notion is `Covers`: a list covers a range of documents if its
entries are documents of the range with their scores, each once, it has at least as many as
the range offers up to k, and a document that is missing from it comes after k listed ones.  A
`partial_sort` of a chunk covers the chunk, two lists that cover adjacent ranges cover both when one is appended to the
other, and the best k of a list that covers all documents are the top k.  That rests on the comparator being a strict total order on
entries with distinct ids (fractions are compared by their cross products) and on `partial_sort` being
the ranks of that order.

RAFT is asked for 2k entries and may cut equal scores anywhere; the host sorts what it got and keeps k
(`TwiceOfTheBest`).  A document may then be missing although fewer than k listed ones come before it; but only if it
is `Contested`: k listed entries have scores as good as its own, and so have 2k other documents of the range.
`CoversTwice` is `Covers` with this alternative; it holds of a chunk and of the concatenation of adjacent ones like
`Covers`, and yields the top k up to equal scores, exactly the top k if no more than 2k documents contend.

### Concurrent main program

`ConcurrentTopkProofs`, for any number of threads, documents and queries and any k: `TypeCorrect`,
`EveryDocumentInOneChunk`, `SelectionInRange`, and, for the CPU scorer, `CpuWritesTheTopk`.  The
invariant has a part for the documents (unchanged), the chunks (each begins where the last one ended, the
last one ends at `NDocs`), the pool (only what was enqueued is queued, running or finished), the outputs
(a task with a value left a list per query that, on the CPU, covers its chunk, whenever it ran), and the merged lists
(they cover the chunks in front of `i`).  `GlobalTopk` is then `BestOfTheBest` and `CpuCountsPairs`.  `Device = "cpu"` is
needed: `gpu_chunks`.  The pool is used through `TaskService`, which `PoolImplementsService`
justifies.  `ConcurrentAssumption` excludes an empty query against an empty document (0/0).

### Hash table

`QueryHashTableProofs`, for any capacity, any tokens and any number of inserting threads:
`TypeCorrect`, `NoTokenInTwoCells`, `EveryKeyReachable`, `TakenCellsKeepTheirKey`; and if 0 is not a token
(`hash_token_zero`), `ThreadsSitOnTheirToken` and `LookupsAreExact`.  `OneCellPerKey` is not inductive:
`InsertionsPassed` adds that the cells a thread has walked over hold keys other than its own, so that
when it takes an empty cell its key is nowhere in front, and `Reachable` that it is nowhere
behind.  `LookupExact` needs that a cell's value is the number of threads that have counted there and that a lookup
passed only other keys.  That lookups end needs an empty cell and stays with TLC.

### Layout and kernel

`DocLayoutProofs`, for any number of documents, document size and group size that divides it: two
tokens never share a place (`OffsetsDistinct`), every place is inside the array (`OffsetsInRange`), the kernel
loads back each document filled up with zeros (`LoadsWhatWasLaidOut`), and its walk is the walk over the
document (`WalkSeesTheDocument`).

`ScoreKernelProofs`, for any inputs, block size and last block: `TypeCorrect` (the token of the query a thread
copies, every offset of the document it scores and the score it writes are inside their arrays, no score is
above 1), `EveryDocumentScoredOnce`, `BarrierIsEnough` (no thread compares with a token before the thread that loads it
has written it), and `KernelLoadsByBlocks`: whatever the order of the threads, all scores are the walks
over what `QueryOnShm` says, for one choice of the places that nobody loads.  That is what the modules of whole launches
assume of a launch.  `KernelMatchesReadme`: if the inputs are sorted, without repetition in the query and
without token 0, the scores are the README's in every grid with nothing `Missing`
(`score_partial_block` shows the need).  The invariant says that no thread is behind the barrier while one of its
block is in front, that a thread in front has loaded its stride up to where it stands, and that each document
belongs to one thread; `JunkInv` adds that the places without a thread keep what they held, which only
the last block of the grid has (`LacksOnlyInTheLast`).

### Device builds

`DeviceBuildsProofs`, for all seven builds in all their memory modes and any number of queries, documents and
streams: `TypeCorrect` and `NoRace`, if each query fits the room the device arrays have for it (`Roomy`;
the builds give a query `MAX_DOC_SIZE` tokens and check nothing) and, for `topk_doc_stream.cu`, if the
synchronous copy of a query is over when it returns (`Quiet`: its kernel runs on a non-blocking stream,
which nothing orders behind that copy).

A build is a straight sequence of statements, so the invariant says of each place `at` in it which operations can be
in flight there (`Outline`): a set per place that contains what the statement before adds, loses what a
wait removes, and whose members on different streams have no cell in common, nor with what the host touches
next (`Sound`).  `Outlines` gives such sets for each build; they are the proof's content, because they say which wait
keeps which buffer, `cudaFree` and `cudaFreeHost` included.  `Placed` then says that the queues hold nothing else.
As the outline stands under an existential quantifier, TLC cannot evaluate this invariant; it checks
the two properties.

### Chunked pipeline

`IoPipelineProofs`, for any files, loader, buffer size, `TOPK`, number of threads and query files.  Two
conditions are on the input: every window of the buffer's size holds a newline, that is a line fits the buffer
wherever a chunk begins (`PipelineAssumption`); and what lies behind a full buffer holds no newline before
its first NUL (`NoLineBehind`).  One is on the device: the memset of `load_file_cudf_chunk` is in
time (`MemsetInTime`).  The bound `MaxChunks` stops the loop, as a guard of `ReadChunk`.

`ReadingLosesNoLine` is `ChunksAreLines`.  `ReadInv` says that the position is behind a newline whenever the loop
reads again, so that the rows of the file are the rows in front of it followed by those behind it (`RowsConcat`:
rows are concatenated only where the first text ends its line); `ChunkInv` that the chunks are those
in front.  `TypeCorrect` bounds the merged lists.

`PipelineSelectsTheTopk` is `GlobalTopk`, with and without the pool and RAFT, where freed column memory is not given to a
later column while a pool task reads it (`Reuse`, `io_stale_closure`) and where the last block of every
chunk read loads each query (`QuerysLoaded`; without it the scores of that block are made of uninitialised
memory, and the best of them need not be the README's).  `PlaceInv`, `PoolInv` and `OutputInv` say that every chunk has been
handed to the pool or merged in the loop, and that a finished task left, per query, a list that `Covers` its chunk, whenever
it ran; `MergeInv` that the merged lists cover the chunks in front; `SelectedInv` that the selection is the
best of a list that covers the file.  `GlobalTopk` is then `BestOfTheBest` and `MergeJoinIsPairCount`, for queries
whose numbers differ (`QuerysFit`) and lines whose numbers are sorted (`LinesSorted`), the program's input
format.  With RAFT the lists are kept to `CoversTwice` instead of `Covers`, and the end is `TwiceOfTheBest`: the top
`TOPK` up to documents with equal scores, and exactly it if no more than `2 * TOPK` contend.  A blank line is to the kernels the number `h_atoi` returns for it, 2147483647, and to `load_docs` an empty
document; `BlankLine` shows that both score 0 as long as that number is in no query.

### Model-checked only

- Liveness, which is out of the prover's reach: `EveryTaskRuns`, `DestructorReturns`, `GetReturns`,
  `InsertionsEnd`, `LookupsEnd`, `KernelEnds`, `RunsToEnd` (twice), and the fairness half of both
  `ServiceSpec`s.
- `ServiceSpec` of `DeviceBuilds`: that the lists are the README's, not only that nothing races for them.

## What the models show of the code

Six disagreements between the code and its documents or comments, each with a violation run:
`topk.cu:78` (ids of a chunk), `topk_hashtable.cu:127` (a full table), `hashtable.h:13` (token 0),
`topk.cu:22` (a partial block leaves query elements unloaded, here and in every copy of the merging
kernel), `topk.cu:51` (repeated query tokens) and `readfile.cu:261` (a pool task that refers to what its
loop iteration owned).  `PROJECT.json` quotes the lines.

Four further dependences have no line of the repository that promises otherwise, but a reader should know them; each has inputs in an
MC module that fail: junk in the padding of the aligning builds (`topk_doc_align_locality.cu:124`), a query whose copy is only staged
(`topk_doc_stream.cu:180`), a device without overlap (`topk_query_stream.cu:96`, no lists at all), and a late memset (`readfile.cu:79`).

What holds, under the conditions above: the pool and the CPU program (given at least one worker;
`hardware_concurrency()` may return 0, which divides by zero at `main.cpp:260`); the chunk
arithmetic of all reading loops, at every boundary; the stream builds, although several of them lean
on waits that no line of theirs names (`cudaFree` and `cudaFreeHost` waiting for the device is all that
keeps the aligning builds from freeing a buffer under a copy, or from scoring a layout that is not there
yet); the doubled selection of the RAFT builds, up to ties among more than 2k contenders.

## Not modelled

- Library calls (CUDA memory management, cuDF, RAFT, CUB, FAISS) are external: `CudaRuntime`,
  `SelectK`, `Rows` and `Items` say what the code relies on.  Timing output, command line and
  file formats are left out.
- Float rounding: two different fractions with terms up to 128 differ by more than the rounding
  error of a float, so equal and greater agree with the exact comparison.
- `lookup_many` and `device_view::insert` are never called.  `insert_unique_cn_kernel` for keys
  of 8 and 16 signed bits uses other overloads of `atomicCAS` than the modelled `uint16_t`; no build
  instantiates them.  `h_itoa` and the permutations of `helper.h` have no caller.
- `include/`: a benchmark of selection algorithms behind one registry, reached only from
  `example_factory_selectk.cu`; all but `filter.cuh` call third-party libraries.
- `mmap_file_line` of `example_readfile.cpp` and the multi-process copy of
  `example_mmap_file.cpp`: experiments no build of the program links.
- `example_openmp.cpp`, `example_simd.cpp`: language demonstrations without state of the program.
- Memory that is allocated and not freed, and device allocation failures, which no line checks.

## Plan

1. Done: `TaskService`, `ThreadPool` and its proofs, `Scoring`, `ConcurrentTopk`,
   `QueryHashTable`, `DocLayout`, `ScoreKernel`, `CudaRuntime`, `ScoringService`, `DeviceBuilds`,
   `ChunkReader`, `IoPipeline`.
2. Done, as proofs: all safety of the pool and of the hash table, the pool's steps as steps of
   `TaskService`, counting and selecting, the layout, the kernel, `ConcurrentTopk`.
3. Done, as proofs: `TypeOK` and `RaceFree` of `DeviceBuilds`, all safety of `IoPipeline`, RAFT included.
4. Proofs left: the safety part of the `ServiceSpec` of `DeviceBuilds`, which needs what each
   array holds at each place of a build, as its outline needs what is in flight.
5. `BatchFilter` (`include/filter.cuh`: the threshold filter with its atomically updated buffer).
