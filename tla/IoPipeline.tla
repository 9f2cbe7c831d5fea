------------------------------- MODULE IoPipeline -------------------------------
(***************************************************************************)
(* The loops around ChunkReader.  The loaders collect the documents of     *)
(* each chunk; load_file_cudf_chunk_topk scores each chunk on the device,  *)
(* keeps the chunk's best and selects among them at the end.  Built with   *)
(* PIO_CPU_CONCURRENCY, a chunk is scored by a task of the pool while the  *)
(* loop reads on.                                                          *)
(*                                                                         *)
(* cuDF and RAFT are not part of the repository: a column holds the rows   *)
(* of its text, select_k is SelectK.                                       *)
(***************************************************************************)
EXTENDS ChunkReader, QueryLoad

CONSTANTS Inputs,       \* records: load, raft, pool, text
          TOPK,
          QueryFiles,   \* records: name (its rank in string order), lines
          Concurrency,  \* std::thread::hardware_concurrency()
          MaxChunks,    \* bound on the chunks of a file
          Reuse,        \* freed device memory is given to the next chunk's column
          MemsetLate    \* a cudaMemset may still run when a later kernel does

\* load: "chunk" (load_file_cudf_chunk), "stream" (load_file_stream_cudf_chunk),
\* "buffer" (load_file_buffer) or "topk" (load_file_cudf_chunk_topk).  A line and
\* its newline fit the buffer, wherever the chunk begins.
ASSUME PipelineAssumption ==
    /\ Concurrency \in Nat \ {0}
    /\ TOPK \in Nat \ {0}
    /\ MaxChunks \in Nat
    /\ Reuse \in BOOLEAN /\ MemsetLate \in BOOLEAN
    /\ \A r \in Inputs :
          /\ r.load \in {"chunk", "stream", "buffer", "topk"}
          /\ r.raft \/ r.pool => r.load = "topk"
          /\ r.text \in Seq(Nat)
          /\ \A p \in 1..(Len(r.text) - BuffSize + 1) :
                \E c \in p..(p + BuffSize - 1) : r.text[c] = NL

VARIABLES in,
          pc,
          chunks,   \* the chunks read so far; chunk t is task t of the pool
          doccnt,
          next,        \* the loop variable over the futures
          output,   \* what each finished task returned, per query
          merged,   \* q_indices and q_scores, per query
          indices,  \* the final selection, per query
          status, backlog, phase  \* the pool

loopVars == <<file, pos, eof, in, pc, chunks, doccnt, next, output, merged, indices>>
poolVars == <<status, backlog, phase>>
vars == <<file, pos, eof, in, pc, chunks, doccnt, next, output, merged, indices,
          status, backlog, phase>>

Tasks == 1..MaxChunks
Pool == INSTANCE TaskService WITH N <- Concurrency

-----------------------------------------------------------------------------
(* UserTopkQueryDocScoresIOPipeline *)

\* getFilesInDirectory sorts the names, load_queries the numbers of each file.
Querys ==
    LET files == SetToSortSeq(QueryFiles, LAMBDA f, g : f.name < g.name)
    IN  [q \in DOMAIN files |-> SortSeq(FlattenSeq(files[q].lines), <)]

-----------------------------------------------------------------------------
(* doc_query_scoring_gpu of the cuDF builds *)

\* The scores of a chunk's documents: one outcome for each contents of the places of
\* the query that the chunk's last block does not load.
ChunkEntries(q, start, docs) ==
    {[n \in DOMAIN docs |->
        [id |-> start + n - 1,
         score |-> CudfScore(QueryOnShm(Querys[q], Len(docs), n - 1, junk), docs[n])]] :
            junk \in Unloaded(Len(docs), Len(Querys[q]))}

\* partial_sort of all scores, or of the 2k documents RAFT selected.
SelectedFrom(entries, k) ==
    IF in.raft THEN {PartialSort(best, k) : best \in SelectK(entries, 2 * k)}
    ELSE {PartialSort(entries, k)}

ChunkTopk(q, start, docs) ==
    UNION {SelectedFrom(entries, MinOf(TOPK, Len(docs))) : entries \in ChunkEntries(q, start, docs)}

ChunkResults(start, docs) ==
    LET lists == [q \in DOMAIN Querys |-> ChunkTopk(q, start, docs)]
    IN  {r \in [DOMAIN Querys -> UNION Range(lists)] : \A q \in DOMAIN Querys : r[q] \in lists[q]}

-----------------------------------------------------------------------------
Init ==
    /\ in \in Inputs
    /\ file = in.text
    /\ ReaderInit
    /\ pc = "read"
    /\ chunks = <<>>
    /\ doccnt = 0
    /\ next = 1
    /\ output = [t \in Tasks |-> <<>>]
    /\ merged = [q \in DOMAIN Querys |-> <<>>]
    /\ indices = <<>>
    /\ Pool!Init

(* One iteration *)

ChunkDocs(load, text) ==
    CASE load = "buffer" -> GetlineDocs(Rows(text))
      [] load = "chunk" -> Docs(Rows(text), StoredDoc)
      [] load \in {"stream", "topk"} -> Docs(Rows(text), CudfDoc)

\* The documents the host copies back.  load_file_cudf_chunk clears its array on the
\* default stream, for which docsKernel on a non-blocking stream does not wait: any
\* token may be cleared after it was written.
CopiedBack(load, docs) ==
    IF load = "chunk" /\ MemsetLate
    THEN {[n \in DOMAIN docs |-> [j \in DOMAIN docs[n] |->
              IF <<n, j>> \in cleared THEN 0 ELSE docs[n][j]]] :
                 cleared \in SUBSET UNION {{n} \X DOMAIN docs[n] : n \in DOMAIN docs}}
    ELSE {docs}

\* Bug: the task never reaches the pool.
ForgetTask == UNCHANGED poolVars

\* pool.enqueue: the task captures doccnt and n_docs by value.
EnqueueTask == IF in.pool THEN Pool!Accept(Len(chunks) + 1) ELSE UNCHANGED poolVars

ReadChunk ==
    /\ pc = "read"
    /\ Len(chunks) < MaxChunks
    /\ \E text \in ChunkTexts :
          /\ Read(text)
          /\ \E docs \in CopiedBack(in.load, ChunkDocs(in.load, Taken(text))) :
                chunks' = Append(chunks, [start |-> doccnt, docs |-> docs])
    /\ EnqueueTask
    /\ pc' = "iterate"
    /\ UNCHANGED <<in, doccnt, next, output, merged, indices>>

\* The rest of the iteration; it ends the life of vec_lines and stream_view.
EndIteration ==
    /\ pc = "iterate"
    /\ LET chunk == chunks[Len(chunks)]
       IN  /\ doccnt' = doccnt + Len(chunk.docs)
           /\ IF in.load = "topk" /\ ~in.pool
              THEN \E r \in ChunkResults(chunk.start, chunk.docs) :
                       merged' = [q \in DOMAIN Querys |-> merged[q] \o r[q]]
              ELSE UNCHANGED merged
    /\ pc' = "read"
    /\ UNCHANGED <<file, pos, eof, in, chunks, next, output, indices, status, backlog, phase>>

ReadingOver ==
    /\ pc = "read" /\ eof
    /\ pc' = IF in.load = "topk" THEN "collect" ELSE "loaded"
    /\ UNCHANGED <<file, pos, eof, in, chunks, doccnt, next, output, merged, indices,
                   status, backlog, phase>>

(* After the loop *)

Collecting == pc = "collect" /\ in.pool /\ next <= Len(chunks)

\* result.get(), in the order of results.
Collect ==
    /\ Collecting
    /\ status[next] = "value"
    /\ merged' = [q \in DOMAIN Querys |-> merged[q] \o output[next][q]]
    /\ next' = next + 1
    /\ UNCHANGED <<file, pos, eof, in, pc, chunks, doccnt, output, indices,
                   status, backlog, phase>>

\* get() rethrows and nobody catches: std::terminate.
Abort ==
    /\ Collecting
    /\ status[next] = "exception"
    /\ pc' = "aborted"
    /\ UNCHANGED <<file, pos, eof, in, chunks, doccnt, next, output, merged, indices,
                   status, backlog, phase>>

Reduce ==
    /\ pc = "collect" /\ ~Collecting
    /\ indices' = [q \in DOMAIN Querys |->
                      PartialSort(merged[q], MinOf(TOPK, Len(merged[q])))]
    /\ pc' = "selected"
    /\ UNCHANGED <<file, pos, eof, in, chunks, doccnt, next, output, merged,
                   status, backlog, phase>>

\* The function returns: ~ThreadPool().
Exit ==
    /\ pc = "selected" /\ in.pool
    /\ Pool!BeginClose
    /\ UNCHANGED loopVars

-----------------------------------------------------------------------------
(* The pool *)

TaskStarts ==
    /\ pc # "aborted"
    /\ Pool!Start
    /\ UNCHANGED loopVars

\* The task holds a view into vec_lines and a reference to stream_view: both are
\* gone once the iteration that enqueued it is over.
Alive(t) == t = Len(chunks) /\ pc = "iterate"

\* A column freed and allocated again holds a later chunk's rows, as many as it has.
Overlay(old, new) == new \o SubSeq(old, Len(new) + 1, Len(old))

DocsSeen(t) ==
    LET own == chunks[t].docs
    IN  IF Alive(t) \/ ~Reuse THEN {own}
        ELSE {own} \cup {SubSeq(Overlay(own, chunks[u].docs), 1, Len(own)) :
                            u \in (t + 1)..Len(chunks)}

\* Bug: the closure captures doccnt by reference.
FirstIdByReference(t) == doccnt

FirstId(t) == chunks[t].start

TaskFinishes(t) ==
    /\ pc # "aborted"
    /\ Pool!Finish(t)
    /\ IF status'[t] = "value"
       THEN \E docs \in DocsSeen(t) : \E r \in ChunkResults(FirstId(t), docs) :
                output' = [output EXCEPT ![t] = r]
       ELSE UNCHANGED output
    /\ UNCHANGED <<file, pos, eof, in, pc, chunks, doccnt, next, merged, indices>>

PoolCloses ==
    /\ Pool!Close
    /\ UNCHANGED loopVars

-----------------------------------------------------------------------------
Returned ==
    \/ pc = "loaded"
    \/ pc = "selected" /\ (in.pool => phase = "closed")

Over == (Returned \/ pc = "aborted") /\ UNCHANGED vars

Loop == ReadChunk \/ EndIteration \/ ReadingOver \/ Collect \/ Abort \/ Reduce \/ Exit

Next ==
    \/ Loop
    \/ TaskStarts
    \/ \E t \in Tasks : TaskFinishes(t)
    \/ PoolCloses
    \/ Over

\* The calling thread runs on, and the pool keeps TaskService's promises.
Fairness ==
    /\ WF_vars(Loop)
    /\ WF_vars(TaskStarts)
    /\ \A t \in Tasks : WF_vars(TaskFinishes(t))
    /\ WF_vars(PoolCloses)

Spec == Init /\ [][Next]_vars /\ Fairness

-----------------------------------------------------------------------------
(* Properties *)

\* The file position stays within the file, whatever was read and moved back, and
\* every list within TOPK per chunk.
TypeOK ==
    /\ pos \in 0..Len(file)
    /\ eof \in BOOLEAN
    /\ pc \in {"read", "iterate", "loaded", "collect", "selected", "aborted"}
    /\ Len(chunks) <= MaxChunks
    /\ next \in 1..(Len(chunks) + 1)
    /\ \A q \in DOMAIN merged : Len(merged[q]) <= TOPK * Len(chunks)
    /\ status \in [Tasks -> Pool!Status]
    /\ phase \in {"open", "closing", "closed"}

Loaded == FlattenSeq([t \in DOMAIN chunks |-> chunks[t].docs])

\* The documents of the whole file read at once.
WholeFile == IF in.load = "buffer" THEN LoadFileLine(file) ELSE ChunkDocs(in.load, file)

\* Cutting at newlines and moving the position back loses, doubles and splits no
\* line, at no chunk boundary and at no file length: the chunks are the file's
\* lines in order, and each chunk knows how many documents came before it.
ChunksAreLines ==
    /\ IsPrefix(Loaded, WholeFile)
    /\ pc \notin {"read", "iterate"} => Loaded = WholeFile /\ doccnt = Len(WholeFile)
    /\ \A t \in DOMAIN chunks :
          chunks[t].start = Len(FlattenSeq([u \in 1..(t - 1) |-> chunks[u].docs]))

Judge(list, k, score) ==
    IF in.raft THEN IsTopkOfTwice(list, k, score) ELSE IsTopk(list, k, score)

\* The chunked pipeline selects README.md's top k of the documents load_docs would
\* have read from the same file, for the query files in order of their names, in
\* whatever order the tasks run and the chunks fall.
GlobalTopk ==
    pc = "selected" =>
        LET docs == LoadDocs(file)
            score(q) == [d \in 0..(Len(docs) - 1) |-> ReadmeScore(Querys[q], docs[d + 1])]
        IN  \A q \in DOMAIN Querys :
                Judge(indices[q], MinOf(TOPK, Len(docs)), score(q))

\* The reading loop ends, every future is answered and the function returns, unless
\* a task threw.
RunsToEnd == <>(Returned \/ \E t \in Tasks : status[t] = "exception")
=============================================================================
