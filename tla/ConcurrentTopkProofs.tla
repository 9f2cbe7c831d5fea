------------------------- MODULE ConcurrentTopkProofs -------------------------
(***************************************************************************)
(* main() built with CPU_CONCURRENCY, for any number of threads, documents *)
(* and queries, any k, and whatever the order in which the tasks run.      *)
(***************************************************************************)
EXTENDS ConcurrentTopk, ScoringProofs

-----------------------------------------------------------------------------
(* The invariant *)

Chunk == [start : Nat, size : Nat \ {0}]

\* The documents in front of and in the first t chunks.
EndOf(t) == IF t = 0 THEN 0 ELSE results[t].start + results[t].size

DocsInv ==
    /\ NDocs \in Nat
    /\ docs \in [0..(NDocs - 1) -> DocChoices]

\* The chunks follow each other without a gap; after the split they reach the end.
ChunkInv ==
    /\ pc \in {"split", "collect", "written", "aborted"}
    /\ results \in Seq(Chunk)
    /\ Len(results) <= Concurrency + 1
    /\ \A t \in 1..Len(results) : results[t].start = EndOf(t - 1) /\ EndOf(t) <= NDocs
    /\ pc = "split" =>
          i \in 0..Concurrency /\ Len(results) = i /\ EndOf(i) = i * SplitDocsSize
    /\ pc # "split" => i \in 1..(Len(results) + 1) /\ EndOf(Len(results)) = NDocs

\* The pool knows only tasks that were enqueued.
PoolInv ==
    /\ status \in [ChunkTasks -> Pool!Status]
    /\ backlog \in Seq(1..Len(results))
    /\ phase \in {"open", "closing", "closed"}
    /\ \A t \in ChunkTasks : status[t] # "new" => t \in 1..Len(results)

Score(q) == [d \in DOMAIN docs |-> ReadmeScore(Querys[q], docs[d])]

\* A list of scored documents.
Listed(list) ==
    /\ list \in Seq(ScoredEntries)
    /\ \A e \in 1..Len(list) : list[e].id \in DOMAIN docs

\* A finished chunk returned as many documents as it could, on the CPU its best.
Answered(t, q) ==
    /\ Listed(output[t][q])
    /\ Len(output[t][q]) = LocalK(results[t].size)
    /\ Device = "cpu" => Covers(output[t][q], Score(q), results[t].start, EndOf(t), TOPK)

OutputInv ==
    /\ DOMAIN output = ChunkTasks
    /\ \A t \in 1..Len(results), q \in DOMAIN Querys : status[t] = "value" => Answered(t, q)

\* The documents of the chunks main() has collected.
Upto == IF pc = "split" THEN 0 ELSE EndOf(i - 1)

\* What was merged so far covers the chunks collected so far.
MergeInv ==
    /\ DOMAIN merged = DOMAIN Querys
    /\ \A q \in DOMAIN Querys :
          /\ Listed(merged[q])
          /\ Len(merged[q]) >= MinOf(TOPK, Upto)
          /\ Device = "cpu" => Covers(merged[q], Score(q), 0, Upto, TOPK)

WrittenInv ==
    pc = "written" =>
        /\ i = Len(results) + 1
        /\ indices = [q \in DOMAIN Querys |-> PartialSort(merged[q], FinalK)]

IInv == DocsInv /\ ChunkInv /\ PoolInv /\ OutputInv /\ MergeInv /\ WrittenInv

-----------------------------------------------------------------------------
(* The chunks *)

\* The split takes Concurrency equal chunks and leaves less than one document each.
LEMMA SplitSizes ==
    ASSUME DocsInv
    PROVE  /\ SplitDocsSize \in Nat /\ Remainder \in Nat
           /\ Concurrency * SplitDocsSize \in Nat
           /\ NDocs = Concurrency * SplitDocsSize + Remainder
           /\ \A c \in 0..(Concurrency - 1) :
                 /\ c * SplitDocsSize \in Nat
                 /\ c * SplitDocsSize + SplitDocsSize <= NDocs
                 /\ (c + 1) * SplitDocsSize = c * SplitDocsSize + SplitDocsSize
<1>1. Concurrency \in Nat \ {0} /\ NDocs \in Nat
    BY ConcurrentAssumption DEF DocsInv
<1>2. PICK s \in Nat, r \in Nat :
         s = SplitDocsSize /\ r = Remainder /\ NDocs = s * Concurrency + r
    <2>1. PICK n \in Nat : n = NDocs
        BY <1>1
    <2>2. PICK q \in Nat, m \in 0..(Concurrency - 1) :
             q = n \div Concurrency /\ m = n % Concurrency /\ n = q * Concurrency + m
        BY <1>1, DivMod
    <2>3. q = SplitDocsSize /\ m = Remainder
        BY <2>1, <2>2 DEF SplitDocsSize, Remainder
    <2>4. m \in Nat /\ NDocs = q * Concurrency + m
        BY <1>1, <2>1, <2>2
    <2> QED BY <2>3, <2>4
<1>3. s * Concurrency = Concurrency * s /\ Concurrency * s \in Nat
    BY <1>1
<1>4. ASSUME NEW c \in 0..(Concurrency - 1)
      PROVE  c * s \in Nat /\ c * s + s <= NDocs /\ (c + 1) * s = c * s + s
    <2>1. c \in Nat /\ c < Concurrency
        BY <1>1
    <2>2. c * s + s <= Concurrency * s
        BY <1>1, <2>1, TimesMonotone
    <2>3. c * s \in Nat /\ (c + 1) * s = c * s + s
        BY <2>1
    <2> QED BY <1>1, <1>2, <1>3, <2>2, <2>3
<1> QED BY <1>2, <1>3, <1>4

\* One more chunk moves no other.
LEMMA OneMoreChunk ==
    ASSUME results \in Seq(Chunk), NEW n \in Nat, n = Len(results),
           NEW start \in Nat, NEW size \in Nat \ {0},
           results' = Append(results, [start |-> start, size |-> size])
    PROVE  /\ results' \in Seq(Chunk)
           /\ Len(results') = n + 1
           /\ \A t \in 1..n : results'[t] = results[t]
           /\ \A t \in 0..n : EndOf(t)' = EndOf(t)
           /\ results'[n + 1] = [start |-> start, size |-> size]
           /\ EndOf(n + 1)' = start + size
<1>1. [start |-> start, size |-> size] \in Chunk
    BY DEF Chunk
<1>2. /\ results' \in Seq(Chunk)
      /\ Len(results') = n + 1
      /\ \A t \in 1..n : results'[t] = results[t]
      /\ results'[n + 1] = [start |-> start, size |-> size]
    BY <1>1, AppendProperties
<1>3. EndOf(n + 1)' = start + size
    BY <1>2 DEF EndOf
<1>4. ASSUME NEW t \in 0..n PROVE EndOf(t)' = EndOf(t)
    BY <1>2 DEF EndOf
<1> QED BY <1>2, <1>3, <1>4

\* What the chunks satisfy after one more.
LEMMA SubmitStep ==
    ASSUME DocsInv, ChunkInv, UNCHANGED docs, NEW n \in Nat, n = Len(results),
           NEW start \in Nat, start = EndOf(n), NEW size \in Nat \ {0}, start + size <= NDocs,
           results' = Append(results, [start |-> start, size |-> size])
    PROVE  /\ results' \in Seq(Chunk)
           /\ Len(results') = n + 1
           /\ EndOf(n + 1)' = start + size
           /\ \A t \in 1..(n + 1) : results'[t].start = EndOf(t - 1)' /\ EndOf(t)' <= NDocs'
<1>0. /\ results \in Seq(Chunk)
      /\ \A t \in 1..n : results[t].start = EndOf(t - 1) /\ EndOf(t) <= NDocs
    BY DEF ChunkInv
<1>1. NDocs' = NDocs
    BY DEF NDocs
<1>2. /\ results' \in Seq(Chunk)
      /\ Len(results') = n + 1
      /\ \A t \in 1..n : results'[t] = results[t]
      /\ \A t \in 0..n : EndOf(t)' = EndOf(t)
      /\ results'[n + 1] = [start |-> start, size |-> size]
      /\ EndOf(n + 1)' = start + size
    BY <1>0, OneMoreChunk
<1>3. ASSUME NEW t \in 1..(n + 1)
      PROVE  results'[t].start = EndOf(t - 1)' /\ EndOf(t)' <= NDocs'
    <2>1. CASE t \in 1..n
        <3>1. t - 1 \in 0..n /\ t \in 0..n
            BY <2>1
        <3> QED BY <1>0, <1>1, <1>2, <2>1, <3>1
    <2>2. CASE t = n + 1
        <3>1. t - 1 = n /\ n \in 0..n
            BY <2>2
        <3>2. results'[t].start = start /\ EndOf(t)' = start + size
            BY <1>2, <2>2
        <3>3. EndOf(t - 1)' = start
            BY <1>2, <3>1
        <3> QED BY <1>1, <3>2, <3>3
    <2> QED BY <2>1, <2>2
<1> QED BY <1>2, <1>3

\* What enqueueing a chunk of the split does.
LEMMA SplitStep ==
    ASSUME DocsInv, ChunkInv, EnqueueSplit
    PROVE  \E n \in Nat, start \in Nat, size \in Nat \ {0} :
              /\ n = i /\ n = Len(results) /\ n < Concurrency
              /\ start = EndOf(n) /\ size = SplitDocsSize /\ start + size <= NDocs
              /\ (n + 1) * SplitDocsSize = start + size
              /\ EnqueueChunk(start, size)
<1>1. /\ i \in 0..Concurrency /\ Len(results) = i /\ EndOf(i) = i * SplitDocsSize
      /\ i < Concurrency /\ SplitDocsSize > 0 /\ EnqueueChunk(i * SplitDocsSize, SplitDocsSize)
    BY DEF EnqueueSplit, ChunkInv, Submit
<1>2. PICK n \in 0..(Concurrency - 1) : n = i
    BY <1>1, ConcurrentAssumption
<1>3. /\ n * SplitDocsSize \in Nat /\ SplitDocsSize \in Nat
      /\ n * SplitDocsSize + SplitDocsSize <= NDocs
      /\ (n + 1) * SplitDocsSize = n * SplitDocsSize + SplitDocsSize
    BY SplitSizes
<1>4. PICK start \in Nat, size \in Nat \ {0} : start = n * SplitDocsSize /\ size = SplitDocsSize
    BY <1>1, <1>3
<1>5. n \in Nat /\ n < Concurrency
    BY ConcurrentAssumption
<1> QED BY <1>1, <1>2, <1>3, <1>4, <1>5

\* The remainder, if there is one, begins where the split ended and ends with the documents.
LEMMA RemainderStep ==
    ASSUME DocsInv, ChunkInv, EnqueueRemainder
    PROVE  \E n \in Nat, start \in Nat :
              /\ n = Len(results) /\ n <= Concurrency /\ start = EndOf(n)
              /\ \/ /\ start = NDocs
                    /\ UNCHANGED <<docs, results, output, merged, indices, status, backlog, phase>>
                 \/ \E size \in Nat \ {0} : start + size = NDocs /\ EnqueueChunk(start, size)
<1>1. /\ i \in 0..Concurrency /\ Len(results) = i /\ EndOf(i) = i * SplitDocsSize
      /\ i = Concurrency \/ SplitDocsSize = 0
    BY DEF EnqueueRemainder, SplitOver, ChunkInv
<1>2. /\ SplitDocsSize \in Nat /\ Remainder \in Nat /\ Concurrency * SplitDocsSize \in Nat
      /\ NDocs = Concurrency * SplitDocsSize + Remainder
    BY SplitSizes
<1>3. PICK n \in Nat : n = i /\ n <= Concurrency
    BY <1>1, ConcurrentAssumption
<1>4. PICK start \in Nat : start = Concurrency * SplitDocsSize
    BY <1>2
<1>5. start = n * SplitDocsSize
    <2>1. CASE i = Concurrency
        BY <1>3, <1>4, <2>1
    <2>2. CASE SplitDocsSize = 0
        <3>1. n * 0 = 0 /\ Concurrency * 0 = 0
            BY ConcurrentAssumption
        <3> QED BY <1>4, <2>2, <3>1
    <2> QED BY <1>1, <2>1, <2>2
<1>6. start = EndOf(n)
    BY <1>1, <1>3, <1>5
<1>7. CASE Remainder > 0
    <2>1. PICK size \in Nat \ {0} : size = NDocs - start /\ start + size = NDocs
        BY <1>2, <1>4, <1>7
    <2>2. EnqueueChunk(start, size)
        BY <1>4, <1>7, <2>1 DEF EnqueueRemainder, Submit
    <2> QED BY <1>1, <1>3, <1>6, <2>1, <2>2
<1>8. CASE ~(Remainder > 0)
    <2>1. start = NDocs
        BY <1>2, <1>4, <1>8
    <2>2. UNCHANGED <<docs, results, output, merged, indices, status, backlog, phase>>
        BY <1>8 DEF EnqueueRemainder
    <2> QED BY <1>1, <1>3, <1>6, <2>1, <2>2
<1> QED BY <1>7, <1>8

LEMMA DocsStep == DocsInv /\ [Next]_vars => DocsInv' /\ UNCHANGED docs
<1> SUFFICES ASSUME DocsInv, [Next]_vars PROVE DocsInv' /\ UNCHANGED docs
    OBVIOUS
<1>1. UNCHANGED docs
    BY DEF Next, vars, mainVars, Main, EnqueueSplit, EnqueueRemainder, Submit, EnqueueChunk, Collect,
           Abort, Reduce, Exit, TaskStarts, TaskFinishes, PoolCloses, Over
<1> QED BY <1>1 DEF DocsInv, NDocs

\* Every step preserves the chain of chunks.
LEMMA ChunkStep == DocsInv /\ ChunkInv /\ [Next]_vars => ChunkInv'
<1> SUFFICES ASSUME DocsInv, ChunkInv, [Next]_vars PROVE ChunkInv'
    OBVIOUS
<1>0. /\ UNCHANGED docs /\ NDocs \in Nat /\ NDocs' = NDocs
      /\ SplitDocsSize' = SplitDocsSize
    BY DocsStep DEF DocsInv, NDocs, SplitDocsSize
<1>1. ASSUME EnqueueSplit PROVE ChunkInv'
    <2>1. PICK n \in Nat, start \in Nat, size \in Nat \ {0} :
             /\ n = i /\ n = Len(results) /\ n < Concurrency
             /\ start = EndOf(n) /\ size = SplitDocsSize /\ start + size <= NDocs
             /\ (n + 1) * SplitDocsSize = start + size
             /\ EnqueueChunk(start, size)
        BY <1>1, SplitStep
    <2>2. results' = Append(results, [start |-> start, size |-> size])
        BY <2>1 DEF EnqueueChunk
    <2>3. /\ results' \in Seq(Chunk)
          /\ Len(results') = n + 1
          /\ EndOf(n + 1)' = start + size
          /\ \A t \in 1..(n + 1) : results'[t].start = EndOf(t - 1)' /\ EndOf(t)' <= NDocs'
        BY <1>0, <2>1, <2>2, SubmitStep
    <2>4. pc' = "split" /\ i' = n + 1 /\ n + 1 \in 0..Concurrency
        BY <1>1, <2>1, ConcurrentAssumption DEF EnqueueSplit
    <2>5. EndOf(i)' = (i * SplitDocsSize)'
        <3>1. EndOf(i)' = EndOf(n + 1)'
            BY <2>4 DEF EndOf
        <3> QED BY <1>0, <2>1, <2>3, <2>4, <3>1
    <2>6. Len(results') <= Concurrency + 1
        BY <2>3, <2>4, ConcurrentAssumption
    <2> QED BY <2>3, <2>4, <2>5, <2>6 DEF ChunkInv
<1>2. ASSUME EnqueueRemainder PROVE ChunkInv'
    <2>1. PICK n \in Nat, start \in Nat :
             /\ n = Len(results) /\ n <= Concurrency /\ start = EndOf(n)
             /\ \/ /\ start = NDocs
                   /\ UNCHANGED <<docs, results, output, merged, indices, status, backlog, phase>>
                \/ \E size \in Nat \ {0} : start + size = NDocs /\ EnqueueChunk(start, size)
        BY <1>2, RemainderStep
    <2>2. pc' = "collect" /\ i' = 1
        BY <1>2 DEF EnqueueRemainder
    <2>3. CASE start = NDocs /\ UNCHANGED results
        <3>1. /\ Len(results') = n /\ results' = results
              /\ \A t \in 0..n : EndOf(t)' = EndOf(t)
            BY <2>1, <2>3 DEF EndOf
        <3>2. EndOf(Len(results))' = NDocs'
            <4>1. EndOf(Len(results))' = EndOf(n)'
                BY <3>1 DEF EndOf
            <4>2. n \in 0..n
                OBVIOUS
            <4> QED BY <1>0, <2>1, <2>3, <3>1, <4>1, <4>2
        <3>3. \A t \in 1..n : results'[t].start = EndOf(t - 1)' /\ EndOf(t)' <= NDocs'
            <4>1. \A t \in 1..n : t - 1 \in 0..n /\ t \in 0..n
                OBVIOUS
            <4> QED BY <1>0, <2>1, <3>1, <4>1 DEF ChunkInv
        <3>4. results' \in Seq(Chunk) /\ n <= Concurrency + 1
            BY <2>1, <3>1, ConcurrentAssumption DEF ChunkInv
        <3> QED BY <2>2, <3>1, <3>2, <3>3, <3>4 DEF ChunkInv
    <2>4. CASE \E size \in Nat \ {0} : start + size = NDocs /\ EnqueueChunk(start, size)
        <3>1. PICK size \in Nat \ {0} : start + size = NDocs /\ EnqueueChunk(start, size)
            BY <2>4
        <3>2. results' = Append(results, [start |-> start, size |-> size])
            BY <3>1 DEF EnqueueChunk
        <3>3. /\ results' \in Seq(Chunk)
              /\ Len(results') = n + 1
              /\ EndOf(n + 1)' = start + size
              /\ \A t \in 1..(n + 1) : results'[t].start = EndOf(t - 1)' /\ EndOf(t)' <= NDocs'
            <4>1. start + size <= NDocs
                BY <1>0, <3>1
            <4> QED BY <1>0, <2>1, <3>2, <4>1, SubmitStep
        <3>4. EndOf(Len(results))' = NDocs'
            <4>1. EndOf(Len(results))' = EndOf(n + 1)'
                BY <3>3 DEF EndOf
            <4> QED BY <1>0, <3>1, <3>3, <4>1
        <3>5. n + 1 <= Concurrency + 1
            BY <2>1, ConcurrentAssumption
        <3> QED BY <2>2, <3>3, <3>4, <3>5 DEF ChunkInv
    <2> QED BY <2>1, <2>3, <2>4
\* The other steps leave the chunks alone; collecting one moves i.
<1>3. ASSUME UNCHANGED results,
             /\ pc' \in {"split", "collect", "written", "aborted"}
             /\ pc' = "split" => pc = "split" /\ i' = i
             /\ pc' # "split" => pc # "split" /\ i' \in 1..(Len(results) + 1)
      PROVE  ChunkInv'
    <2>1. PICK n \in Nat : n = Len(results)
        BY LenProperties DEF ChunkInv
    <2>2. \A t \in 0..n : EndOf(t)' = EndOf(t)
        BY <1>3, <2>1 DEF EndOf
    <2>3. EndOf(Len(results))' = EndOf(Len(results))
        BY <1>3 DEF EndOf
    <2>4. pc' = "split" => EndOf(i)' = EndOf(i)
        BY <1>3 DEF EndOf
    <2>5. \A t \in 1..n : results'[t].start = EndOf(t - 1)' /\ EndOf(t)' <= NDocs'
        <3>1. \A t \in 1..n : t - 1 \in 0..n /\ t \in 0..n
            OBVIOUS
        <3> QED BY <1>0, <1>3, <2>1, <2>2, <3>1 DEF ChunkInv
    <2> QED BY <1>0, <1>3, <2>1, <2>3, <2>4, <2>5 DEF ChunkInv
<1>4. ASSUME Collect PROVE ChunkInv'
    <2>1. i' \in 1..(Len(results) + 1) /\ UNCHANGED <<pc, results>> /\ pc = "collect"
        BY <1>4, LenProperties DEF Collect, ChunkInv
    <2> QED BY <1>3, <2>1
<1>5. ASSUME Abort \/ Reduce PROVE ChunkInv'
    <2>1. UNCHANGED <<i, results>> /\ pc = "collect" /\ pc' \in {"written", "aborted"}
        BY <1>5 DEF Abort, Reduce
    <2> QED BY <1>3, <2>1 DEF ChunkInv
<1>6. ASSUME UNCHANGED mainVars PROVE ChunkInv'
    BY <1>3, <1>6 DEF ChunkInv, mainVars
<1>7. ASSUME NEW t \in ChunkTasks, TaskFinishes(t) PROVE ChunkInv'
    BY <1>3, <1>7 DEF ChunkInv, TaskFinishes
<1> QED
    BY <1>1, <1>2, <1>4, <1>5, <1>6, <1>7
    DEF Next, Main, Exit, TaskStarts, PoolCloses, Over, vars, mainVars

-----------------------------------------------------------------------------
(* The pool *)

LEMMA PoolStep == DocsInv /\ ChunkInv /\ PoolInv /\ [Next]_vars => PoolInv'
<1> SUFFICES ASSUME DocsInv, ChunkInv, PoolInv, [Next]_vars PROVE PoolInv'
    OBVIOUS
<1>0. PICK n \in Nat : n = Len(results) /\ n <= Concurrency + 1 /\ results \in Seq(Chunk)
    BY LenProperties DEF ChunkInv
<1>1. /\ status \in [ChunkTasks -> Pool!Status]
      /\ backlog \in Seq(1..n)
      /\ phase \in {"open", "closing", "closed"}
      /\ \A t \in ChunkTasks : status[t] # "new" => t \in 1..n
    BY <1>0 DEF PoolInv
<1>2. 1..n \subseteq ChunkTasks
    BY <1>0, ConcurrentAssumption DEF ChunkTasks
<1>3. ASSUME NEW start \in Nat, NEW size \in Nat \ {0}, EnqueueChunk(start, size)
      PROVE  PoolInv'
    <2>1. /\ Len(results') = n + 1
          /\ status' = [status EXCEPT ![n + 1] = "queued"]
          /\ backlog' = Append(backlog, n + 1)
          /\ UNCHANGED phase
        BY <1>0, <1>3, OneMoreChunk DEF EnqueueChunk, Pool!Accept
    <2>2. backlog' \in Seq(1..(n + 1))
        <3>1. backlog \in Seq(1..(n + 1)) /\ n + 1 \in 1..(n + 1)
            BY <1>1, SeqMonotonic
        <3> QED BY <2>1, <3>1, AppendProperties
    <2>3. status' \in [ChunkTasks -> Pool!Status]
        BY <1>1, <2>1 DEF Pool!Status
    <2>4. \A t \in ChunkTasks : status'[t] # "new" => t \in 1..(n + 1)
        BY <1>1, <2>1
    <2> QED BY <1>1, <2>1, <2>2, <2>3, <2>4 DEF PoolInv
<1>4. ASSUME UNCHANGED results, UNCHANGED poolVars PROVE PoolInv'
    BY <1>4 DEF PoolInv, poolVars
<1>5. CASE EnqueueSplit
    BY <1>3, <1>5, SplitStep
<1>6. CASE EnqueueRemainder
    <2>1. \/ UNCHANGED <<docs, results, output, merged, indices, status, backlog, phase>>
          \/ \E start \in Nat, size \in Nat \ {0} : EnqueueChunk(start, size)
        BY <1>6, RemainderStep
    <2> QED BY <1>3, <1>4, <2>1 DEF poolVars
<1>7. CASE Collect \/ Abort \/ Reduce
    BY <1>4, <1>7 DEF Collect, Abort, Reduce, poolVars
<1>8. CASE TaskStarts
    <2>1. /\ backlog # <<>> /\ UNCHANGED <<results, phase>>
          /\ status' = [status EXCEPT ![Head(backlog)] = "running"]
          /\ backlog' = Tail(backlog)
        BY <1>8 DEF TaskStarts, Pool!Start, mainVars
    <2>2. PICK t \in 1..n : t = Head(backlog)
        BY <1>1, <2>1, HeadTailProperties
    <2>3. backlog' \in Seq(1..n)
        BY <1>1, <2>1, HeadTailProperties
    <2>4. /\ status' \in [ChunkTasks -> Pool!Status]
          /\ \A u \in ChunkTasks : status'[u] # "new" => u \in 1..n
        BY <1>1, <2>1, <2>2 DEF Pool!Status
    <2> QED BY <1>0, <1>1, <2>1, <2>3, <2>4 DEF PoolInv
<1>9. ASSUME NEW t \in ChunkTasks, TaskFinishes(t) PROVE PoolInv'
    <2>1. /\ status[t] = "running" /\ UNCHANGED <<results, backlog, phase>>
          /\ \E r \in Pool!Outcome : status' = [status EXCEPT ![t] = r]
        BY <1>9 DEF TaskFinishes, Pool!Finish
    <2>2. t \in 1..n
        BY <1>1, <2>1
    <2>3. /\ status' \in [ChunkTasks -> Pool!Status]
          /\ \A u \in ChunkTasks : status'[u] # "new" => u \in 1..n
        BY <1>1, <2>1, <2>2 DEF Pool!Status
    <2> QED BY <1>0, <1>1, <2>1, <2>3 DEF PoolInv
<1>10. CASE Exit \/ PoolCloses
    BY <1>10 DEF PoolInv, Exit, PoolCloses, Pool!BeginClose, Pool!Close, mainVars
<1>11. CASE UNCHANGED vars
    BY <1>4, <1>11 DEF vars, poolVars
<1> QED BY <1>5, <1>6, <1>7, <1>8, <1>9, <1>10, <1>11 DEF Next, Main, Over

-----------------------------------------------------------------------------
(* What a task returns *)

\* Every score has a positive denominator, and the CPU's is the README's.
LEMMA ScoreFacts ==
    ASSUME DocsInv, NEW q \in DOMAIN Querys, NEW d \in DOMAIN docs
    PROVE  /\ Score(q)[d] \in Scores
           /\ CpuScore(Querys[q], docs[d]) = Score(q)[d]
           /\ GpuScore(Querys[q], docs[d]) \in Scores
<1> DEFINE query == Querys[q]  doc == docs[d]  long == MaxOf(Len(query), Len(doc))
<1>1. query \in Seq(Nat) /\ doc \in DocChoices /\ doc \in Seq(Nat)
    <2>1. Querys \in Seq(Seq(Nat))
        BY ConcurrentAssumption
    <2>2. q \in 1..Len(Querys)
        BY <2>1, LenProperties
    <2>3. query \in Seq(Nat)
        BY <2>1, <2>2, ElementOfSeq
    <2>4. doc \in DocChoices
        BY DEF DocsInv
    <2> QED BY <2>3, <2>4, ConcurrentAssumption
<1>2. long \in Nat \ {0}
    <2>1. long > 0
        BY <1>1, ConcurrentAssumption
    <2>2. Len(query) \in Nat /\ Len(doc) \in Nat
        BY <1>1, LenProperties
    <2> QED BY <2>1, <2>2 DEF MaxOf
<1>3. CpuIntersection(query, doc) = PairCount(query, doc) /\ CpuIntersection(query, doc) \in Nat
    BY <1>1, CpuCountsPairs
<1>4. MergeJoin(query, doc) \in Nat
    <2>1. MergeJoin(query, doc) \in 0..Len(doc) /\ Len(doc) \in Nat
        BY <1>1, MergeJoinBound, LenProperties
    <2> QED BY <2>1
<1>5. Score(q)[d] = <<PairCount(query, doc), long>>
    BY DEF Score, ReadmeScore, Fraction
<1>6. /\ CpuScore(query, doc) = <<CpuIntersection(query, doc), long>>
      /\ GpuScore(query, doc) = <<MergeJoin(query, doc), long>>
    BY DEF CpuScore, GpuScore, Fraction
<1> HIDE DEF query, doc, long
<1>7. /\ Score(q)[d] \in Scores
      /\ CpuScore(query, doc) = Score(q)[d]
      /\ GpuScore(query, doc) \in Scores
    BY <1>2, <1>3, <1>4, <1>5, <1>6 DEF Scores
<1> QED BY <1>7 DEF query, doc

\* A selection of k documents lists k documents.
LEMMA SelectionListed ==
    ASSUME NEW size \in Nat \ {0}, NEW list \in [1..size -> ScoredEntries],
           \A n \in 1..size : list[n].id \in DOMAIN docs
    PROVE  /\ Listed(PartialSort(list, LocalK(size)))
           /\ Len(PartialSort(list, LocalK(size))) = LocalK(size)
<1>1. list \in Seq(ScoredEntries) /\ Len(list) = size
    <2>1. list \in Seq(ScoredEntries)
        BY SeqDef
    <2> QED BY <2>1, LenProperties
<1>2. LocalK(size) \in 0..Len(list)
    BY <1>1, ConcurrentAssumption DEF LocalK, MinOf
<1> DEFINE k == LocalK(size)  s == PartialSort(list, k)
<1>3. /\ s \in Seq(ScoredEntries)
      /\ Len(s) = k
      /\ \A p \in 1..k : Place(list, p) \in 1..Len(list) /\ s[p] = list[Place(list, p)]
    <2>1. k \in 0..Len(list)
        BY <1>2
    <2> HIDE DEF k
    <2> QED BY <1>1, <2>1, PartialSortFacts
<1> HIDE DEF k, s
<1>4. Listed(s) /\ Len(s) = k
    BY <1>1, <1>3 DEF Listed
<1> QED BY <1>4 DEF s, k

LEMMA ResultFacts ==
    ASSUME DocsInv, NEW start \in Nat, NEW size \in Nat \ {0}, start + size <= NDocs,
           NEW r \in ChunkResults(start, size), NEW q \in DOMAIN Querys
    PROVE  /\ Listed(r[q])
           /\ Len(r[q]) = LocalK(size)
           /\ Device = "cpu" => Covers(r[q], Score(q), start, start + size, TOPK)
<1>1. NDocs \in Nat /\ DOMAIN docs = 0..(NDocs - 1)
    BY DEF DocsInv
<1>2. CASE Device = "cpu"
    <2> DEFINE list == [n \in 1..size |-> Entry(Score(q), start + n - 1)]
    <2>1. ASSUME NEW n \in 1..size
          PROVE  start + n - 1 \in DOMAIN docs /\ start + n - 1 \in Nat
        BY <1>1
    <2>2. \A n \in 1..size : CpuScore(Querys[q], docs[start + n - 1]) = Score(q)[start + n - 1]
        BY <2>1, ScoreFacts
    <2>3. r = CpuScoring(start, size)
        BY <1>2 DEF ChunkResults
    <2>4. r[q] = PartialSort([n \in 1..size |->
                                 [id |-> start + n - 1,
                                  score |-> CpuScore(Querys[q], docs[start + n - 1])]],
                             LocalK(size))
        BY <2>3 DEF CpuScoring, ChunkTopk
    <2>5. r[q] = PartialSort(list, LocalK(size))
        <3>1. list = [n \in 1..size |->
                        [id |-> start + n - 1,
                         score |-> CpuScore(Querys[q], docs[start + n - 1])]]
            BY <2>2 DEF Entry
        <3> QED BY <2>4, <3>1
    <2>6. \A d \in start..(start + size - 1) : Score(q)[d] \in Scores
        <3>1. start..(start + size - 1) \subseteq DOMAIN docs
            BY <1>1
        <3> QED BY <3>1, ScoreFacts
    <2>7. ASSUME NEW n \in 1..size
          PROVE  list[n] \in ScoredEntries /\ list[n].id \in DOMAIN docs
        <3>1. start + n - 1 \in start..(start + size - 1)
            OBVIOUS
        <3> QED BY <2>1, <2>6, <3>1 DEF Entry, ScoredEntries
    <2>8. list \in [1..size -> ScoredEntries]
        BY <2>7
    <2> HIDE DEF list
    <2>9. Listed(r[q]) /\ Len(r[q]) = LocalK(size)
        BY <2>5, <2>7, <2>8, SelectionListed
    <2>10. Covers(PartialSort(list, MinOf(TOPK, size)), Score(q), start, start + size, TOPK)
        BY <2>6, CoversChunk, ConcurrentAssumption DEF list, ChunkList
    <2> QED BY <2>5, <2>9, <2>10 DEF LocalK
<1>3. CASE Device # "cpu"
    <2>1. PICK heap \in [0..(size - 1) -> Junk] : r = GpuScoring(start, size, heap)
        BY <1>3 DEF ChunkResults
    <2> DEFINE stored(d) == IF d >= start THEN GpuScore(Querys[q], docs[d]) ELSE heap[d]
               list == [n \in 1..size |-> [id |-> n - 1, score |-> stored(n - 1)]]
    <2>2. r[q] = PartialSort(list, LocalK(size))
        BY <2>1 DEF GpuScoring, ChunkTopk
    <2>3. ASSUME NEW n \in 1..size
          PROVE  n - 1 \in DOMAIN docs /\ n - 1 \in 0..(size - 1) /\ n - 1 \in Nat
        BY <1>1
    <2>4. Junk \subseteq Scores
        BY DEF Junk, Scores
    <2>5. ASSUME NEW n \in 1..size PROVE stored(n - 1) \in Scores
        <3>1. heap[n - 1] \in Scores /\ GpuScore(Querys[q], docs[n - 1]) \in Scores
            BY <2>3, <2>4, ScoreFacts
        <3> QED BY <3>1
    <2> HIDE DEF stored
    <2>6. list \in [1..size -> ScoredEntries] /\ \A n \in 1..size : list[n].id \in DOMAIN docs
        BY <2>3, <2>5 DEF ScoredEntries
    <2> HIDE DEF list
    <2> QED BY <1>3, <2>2, <2>6, SelectionListed
<1> QED BY <1>2, <1>3

\* An answer stays good.
LEMMA AnswerStays ==
    ASSUME UNCHANGED docs, NEW t \in Nat \ {0}, NEW q \in DOMAIN Querys,
           results'[t] = results[t], output'[t] = output[t], Answered(t, q)
    PROVE  Answered(t, q)'
BY DEF Answered, Listed, Score, EndOf

\* What a finished task returned stays, and is good when it comes.
LEMMA OutputStep ==
    DocsInv /\ ChunkInv /\ PoolInv /\ OutputInv /\ [Next]_vars => OutputInv'
<1> SUFFICES ASSUME DocsInv, ChunkInv, PoolInv, OutputInv, [Next]_vars PROVE OutputInv'
    OBVIOUS
<1>0. PICK n \in Nat : /\ n = Len(results) /\ n <= Concurrency + 1 /\ results \in Seq(Chunk)
                       /\ \A t \in 1..n : results[t].start = EndOf(t - 1) /\ EndOf(t) <= NDocs
    BY LenProperties DEF ChunkInv
<1>1. /\ DOMAIN output = ChunkTasks /\ 1..n \subseteq ChunkTasks /\ 1..n \subseteq Nat \ {0}
      /\ \A t \in 1..n, q \in DOMAIN Querys : status[t] = "value" => Answered(t, q)
    BY <1>0, ConcurrentAssumption DEF OutputInv, ChunkTasks
<1>2. /\ UNCHANGED docs /\ status \in [ChunkTasks -> Pool!Status]
      /\ \A t \in ChunkTasks : status[t] # "new" => t \in 1..n
      /\ backlog \in Seq(1..n)
    BY <1>0, DocsStep DEF PoolInv
<1>3. ASSUME NEW start \in Nat, NEW size \in Nat \ {0}, EnqueueChunk(start, size)
      PROVE  OutputInv'
    <2>1. /\ Len(results') = n + 1
          /\ \A t \in 1..n : results'[t] = results[t]
          /\ status' = [status EXCEPT ![n + 1] = "queued"]
          /\ UNCHANGED output
        BY <1>0, <1>3, OneMoreChunk DEF EnqueueChunk, Pool!Accept
    <2>2. ASSUME NEW t \in 1..(n + 1), NEW q \in DOMAIN Querys, status'[t] = "value"
          PROVE  Answered(t, q)'
        <3>1. t \in ChunkTasks
            <4>1. Len(results') <= Concurrency + 1
                BY ChunkStep DEF ChunkInv
            <4> QED BY <2>1, <4>1, ConcurrentAssumption DEF ChunkTasks
        <3>2. t \in 1..n /\ status[t] = "value"
            BY <1>1, <1>2, <2>1, <2>2, <3>1
        <3> QED BY <1>1, <1>2, <2>1, <3>2, AnswerStays
    <2> QED BY <1>1, <2>1, <2>2 DEF OutputInv
<1>4. ASSUME UNCHANGED <<results, output, status>> PROVE OutputInv'
    <2>1. ASSUME NEW t \in 1..n, NEW q \in DOMAIN Querys, status'[t] = "value"
          PROVE  Answered(t, q)'
        BY <1>1, <1>2, <1>4, <2>1, AnswerStays
    <2> QED BY <1>0, <1>1, <1>4, <2>1 DEF OutputInv
<1>5. CASE EnqueueSplit
    BY <1>3, <1>5, SplitStep
<1>6. CASE EnqueueRemainder
    <2>1. \/ UNCHANGED <<docs, results, output, merged, indices, status, backlog, phase>>
          \/ \E start \in Nat, size \in Nat \ {0} : EnqueueChunk(start, size)
        BY <1>6, RemainderStep
    <2> QED BY <1>3, <1>4, <2>1
<1>7. CASE Collect \/ Abort \/ Reduce \/ Exit \/ PoolCloses
    BY <1>4, <1>7 DEF Collect, Abort, Reduce, Exit, PoolCloses, Pool!BeginClose, Pool!Close, mainVars
<1>8. CASE TaskStarts
    <2>1. /\ backlog # <<>> /\ UNCHANGED <<results, output>>
          /\ status' = [status EXCEPT ![Head(backlog)] = "running"]
        BY <1>8 DEF TaskStarts, Pool!Start, mainVars
    <2>2. ASSUME NEW t \in 1..n, NEW q \in DOMAIN Querys, status'[t] = "value"
          PROVE  Answered(t, q)'
        <3>1. status[t] = "value"
            BY <1>1, <1>2, <2>1, <2>2
        <3> QED BY <1>1, <1>2, <2>1, <3>1, AnswerStays
    <2> QED BY <1>0, <1>1, <2>1, <2>2 DEF OutputInv
<1>9. ASSUME NEW t \in ChunkTasks, TaskFinishes(t) PROVE OutputInv'
    <2>1. /\ status[t] = "running" /\ UNCHANGED results
          /\ \E r \in Pool!Outcome : status' = [status EXCEPT ![t] = r]
        BY <1>9 DEF TaskFinishes, Pool!Finish
    <2>2. t \in 1..n
        BY <1>2, <2>1
    <2>3. DOMAIN output' = ChunkTasks
          /\ \A u \in ChunkTasks : u # t => output'[u] = output[u] /\ status'[u] = status[u]
        BY <1>1, <1>2, <1>9, <2>1 DEF TaskFinishes
    <2>4. ASSUME NEW u \in 1..n, NEW q \in DOMAIN Querys, status'[u] = "value"
          PROVE  Answered(u, q)'
        <3>1. CASE u # t
            BY <1>1, <1>2, <2>1, <2>3, <2>4, <3>1, AnswerStays
        <3>2. CASE u = t
            <4>1. PICK r \in ChunkResults(results[t].start, results[t].size) :
                     output' = [output EXCEPT ![t] = r]
                BY <1>9, <2>4, <3>2 DEF TaskFinishes
            <4>2. PICK start \in Nat, size \in Nat \ {0} :
                     start = results[t].start /\ size = results[t].size
                <5>1. results[t] \in Chunk
                    BY <1>0, <2>2, ElementOfSeq
                <5> QED BY <5>1 DEF Chunk
            <4>3. EndOf(t) = start + size /\ start + size <= NDocs
                BY <1>0, <2>2, <4>2 DEF EndOf
            <4>4. /\ Listed(r[q])
                  /\ Len(r[q]) = LocalK(size)
                  /\ Device = "cpu" => Covers(r[q], Score(q), start, start + size, TOPK)
                BY <4>1, <4>2, <4>3, ResultFacts
            <4>5. output'[t][q] = r[q]
                BY <1>1, <4>1
            <4>6. EndOf(t)' = start + size /\ Score(q)' = Score(q)
                BY <1>2, <2>1, <4>3 DEF EndOf, Score
            <4> QED BY <1>2, <2>1, <3>2, <4>2, <4>4, <4>5, <4>6 DEF Answered, Listed
        <3> QED BY <3>1, <3>2
    <2> QED BY <1>0, <2>1, <2>3, <2>4 DEF OutputInv
<1>10. CASE UNCHANGED vars
    BY <1>4, <1>10 DEF vars
<1> QED BY <1>5, <1>6, <1>7, <1>8, <1>9, <1>10 DEF Next, Main, Over

-----------------------------------------------------------------------------
(* The merge *)

\* Two lists of documents, one behind the other.
LEMMA ListedConcat ==
    ASSUME NEW list, NEW more, Listed(list), Listed(more)
    PROVE  Listed(list \o more) /\ Len(list \o more) = Len(list) + Len(more)
<1> DEFINE all == list \o more
<1>1. list \in Seq(ScoredEntries) /\ more \in Seq(ScoredEntries)
    BY DEF Listed
<1>2. PICK l \in Nat, r \in Nat : l = Len(list) /\ r = Len(more)
    BY <1>1, LenProperties
<1>3. /\ all \in Seq(ScoredEntries)
      /\ Len(all) = l + r
      /\ \A n \in 1..(l + r) : all[n] = IF n <= l THEN list[n] ELSE more[n - l]
    BY <1>1, <1>2, ConcatProperties
<1> HIDE DEF all
<1>4. ASSUME NEW n \in 1..(l + r) PROVE all[n].id \in DOMAIN docs
    <2>1. CASE n <= l
        BY <1>2, <1>3, <2>1 DEF Listed
    <2>2. CASE ~(n <= l)
        <3>1. n - l \in 1..r /\ all[n] = more[n - l]
            BY <1>3, <2>2
        <3> QED BY <1>2, <3>1 DEF Listed
    <2> QED BY <2>1, <2>2
<1>5. Listed(all) /\ Len(all) = l + r
    BY <1>3, <1>4 DEF Listed
<1> QED BY <1>2, <1>5 DEF all

\* What was collected covers one more chunk after each.
LEMMA CollectStep ==
    ASSUME DocsInv, ChunkInv, PoolInv, OutputInv, MergeInv, Collect
    PROVE  MergeInv'
<1>1. PICK t \in Nat \ {0} :
         /\ t = i /\ t \in 1..Len(results) /\ status[t] = "value" /\ t - 1 \in Nat
         /\ results[t].start = EndOf(t - 1) /\ EndOf(t) <= NDocs
    <2>1. i \in 1..Len(results) /\ status[i] = "value"
        BY LenProperties DEF Collect, ChunkInv
    <2>2. i \in Nat \ {0} /\ i - 1 \in Nat
        BY <2>1
    <2> QED BY <2>1, <2>2 DEF ChunkInv
<1>2. PICK start \in Nat, size \in Nat \ {0} : start = results[t].start /\ size = results[t].size
    <2>1. results[t] \in Chunk
        BY <1>1, ElementOfSeq DEF ChunkInv
    <2> QED BY <2>1 DEF Chunk
<1>3. EndOf(t) = start + size
    BY <1>1, <1>2 DEF EndOf
<1>4. Upto = start
    BY <1>1, <1>2 DEF Upto, Collect
<1>5. /\ UNCHANGED <<docs, pc, results>> /\ pc = "collect" /\ i' = t + 1
      /\ merged' = [q \in DOMAIN Querys |-> merged[q] \o output[t][q]]
    BY <1>1 DEF Collect
<1>6. Upto' = start + size
    <2>1. t + 1 - 1 = t
        OBVIOUS
    <2>2. Upto' = EndOf(t)'
        BY <1>5, <2>1 DEF Upto, EndOf
    <2>3. EndOf(t)' = EndOf(t)
        BY <1>5 DEF EndOf
    <2> QED BY <1>3, <2>2, <2>3
<1>7. ASSUME NEW q \in DOMAIN Querys
      PROVE  /\ Listed(merged[q])'
             /\ Len(merged'[q]) >= MinOf(TOPK, Upto')
             /\ Device = "cpu" => Covers(merged'[q], Score(q)', 0, Upto', TOPK)
    <2>1. /\ Listed(merged[q])
          /\ Len(merged[q]) >= MinOf(TOPK, start)
          /\ Device = "cpu" => Covers(merged[q], Score(q), 0, start, TOPK)
        BY <1>4 DEF MergeInv
    <2>2. /\ Listed(output[t][q])
          /\ Len(output[t][q]) = LocalK(size)
          /\ Device = "cpu" => Covers(output[t][q], Score(q), start, start + size, TOPK)
        <3>1. Answered(t, q)
            BY <1>1 DEF OutputInv
        <3> QED BY <1>2, <1>3, <3>1 DEF Answered
    <2>3. merged'[q] = merged[q] \o output[t][q]
        BY <1>5
    <2>4. /\ Listed(merged[q] \o output[t][q])
          /\ Len(merged[q] \o output[t][q]) = Len(merged[q]) + Len(output[t][q])
        BY <2>1, <2>2, ListedConcat
    <2>5. Listed(merged[q])'
        BY <1>5, <2>3, <2>4 DEF Listed
    <2>6. Len(merged'[q]) >= MinOf(TOPK, start + size)
        <3>1. PICK m \in Nat : m = Len(merged[q])
            BY <2>1, LenProperties DEF Listed
        <3>2. Len(merged'[q]) = m + LocalK(size) /\ m >= MinOf(TOPK, start)
            BY <2>1, <2>2, <2>3, <2>4, <3>1
        <3> QED BY <3>2, ConcurrentAssumption DEF LocalK, MinOf
    <2>7. Device = "cpu" => Covers(merged'[q], Score(q), 0, start + size, TOPK)
        <3>1. 0 <= start /\ start <= start + size /\ start + size \in Nat /\ TOPK \in Nat
            BY ConcurrentAssumption
        <3> QED BY <2>1, <2>2, <2>3, <3>1, CoversConcat
    <2>8. Score(q)' = Score(q)
        BY <1>5 DEF Score
    <2> QED BY <1>6, <2>5, <2>6, <2>7, <2>8
<1>8. DOMAIN merged' = DOMAIN Querys
    BY <1>5
<1> QED BY <1>7, <1>8 DEF MergeInv

LEMMA MergeStep ==
    DocsInv /\ ChunkInv /\ PoolInv /\ OutputInv /\ MergeInv /\ [Next]_vars => MergeInv'
<1> SUFFICES ASSUME DocsInv, ChunkInv, PoolInv, OutputInv, MergeInv, [Next]_vars
             PROVE  MergeInv'
    OBVIOUS
<1>1. UNCHANGED docs
    BY DocsStep
<1>2. ASSUME UNCHANGED merged, Upto' = Upto PROVE MergeInv'
    BY <1>1, <1>2 DEF MergeInv, Listed, Score
<1>3. CASE EnqueueSplit
    BY <1>2, <1>3 DEF EnqueueSplit, Submit, EnqueueChunk, Upto
<1>4. CASE EnqueueRemainder
    <2>1. Upto = 0 /\ UNCHANGED merged
        BY <1>4 DEF EnqueueRemainder, SplitOver, Submit, EnqueueChunk, Upto
    <2>2. Upto' = 0
        BY <1>4 DEF EnqueueRemainder, Upto, EndOf
    <2> QED BY <1>2, <2>1, <2>2
<1>5. CASE Collect
    BY <1>5, CollectStep
<1>6. CASE Abort \/ Reduce
    BY <1>2, <1>6 DEF Abort, Reduce, Upto, EndOf
<1>7. CASE UNCHANGED mainVars
    BY <1>2, <1>7 DEF mainVars, Upto, EndOf
<1>8. ASSUME NEW t \in ChunkTasks, TaskFinishes(t) PROVE MergeInv'
    BY <1>2, <1>8 DEF TaskFinishes, Upto, EndOf
<1> QED
    BY <1>3, <1>4, <1>5, <1>6, <1>7, <1>8
    DEF Next, Main, Exit, TaskStarts, PoolCloses, Over, vars, mainVars

LEMMA WrittenStep == DocsInv /\ ChunkInv /\ WrittenInv /\ [Next]_vars => WrittenInv'
<1> SUFFICES ASSUME DocsInv, ChunkInv, WrittenInv, [Next]_vars PROVE WrittenInv'
    OBVIOUS
<1>1. FinalK' = FinalK
    BY DocsStep DEF FinalK, NDocs
<1>2. ASSUME pc' = "written" => pc = "written" /\ UNCHANGED <<i, results, merged, indices>>
      PROVE  WrittenInv'
    BY <1>1, <1>2 DEF WrittenInv
<1>3. CASE EnqueueSplit
    BY <1>2, <1>3 DEF EnqueueSplit
<1>4. CASE EnqueueRemainder
    BY <1>2, <1>4 DEF EnqueueRemainder
<1>5. CASE Collect
    BY <1>2, <1>5 DEF Collect
<1>6. CASE Abort
    BY <1>2, <1>6 DEF Abort
<1>7. CASE Reduce
    <2>1. i = Len(results) + 1
        <3>1. i \in 1..(Len(results) + 1) /\ i > Len(results) /\ Len(results) \in Nat
            BY <1>7, LenProperties DEF Reduce, ChunkInv
        <3> QED BY <3>1
    <2> QED BY <1>1, <1>7, <2>1 DEF Reduce, WrittenInv
<1>8. CASE UNCHANGED mainVars
    BY <1>2, <1>8 DEF mainVars
<1>9. ASSUME NEW t \in ChunkTasks, TaskFinishes(t) PROVE WrittenInv'
    BY <1>2, <1>9 DEF TaskFinishes
<1> QED
    BY <1>3, <1>4, <1>5, <1>6, <1>7, <1>8, <1>9
    DEF Next, Main, Exit, TaskStarts, PoolCloses, Over, vars, mainVars

-----------------------------------------------------------------------------
(* The invariant holds *)

LEMMA Initially == Init => IInv
<1> SUFFICES ASSUME Init PROVE IInv
    OBVIOUS
<1>1. DocsInv
    <2>1. PICK n \in 0..MaxDocs : docs \in [0..(n - 1) -> DocChoices]
        BY DEF Init
    <2>2. n \in Nat /\ DOMAIN docs = 0..(n - 1)
        BY <2>1, ConcurrentAssumption
    <2>3. NDocs = n
        BY <2>2, FS_Interval DEF NDocs
    <2> QED BY <2>1, <2>2, <2>3 DEF DocsInv
<1>2. /\ pc = "split" /\ i = 0 /\ results = <<>>
      /\ output = [t \in ChunkTasks |-> <<>>]
      /\ merged = [q \in DOMAIN Querys |-> <<>>]
      /\ status = [t \in ChunkTasks |-> "new"] /\ backlog = <<>> /\ phase = "open"
    BY DEF Init, Pool!Init
<1>3. results \in Seq(Chunk) /\ Len(results) = 0 /\ backlog \in Seq(1..0) /\ 1..0 = {}
    BY <1>2, EmptySeq
<1>4. ChunkInv
    <2>1. 0 * SplitDocsSize = 0
        BY <1>1, SplitSizes
    <2>2. EndOf(0) = 0 /\ 0 \in 0..Concurrency /\ 0 <= Concurrency + 1
        BY ConcurrentAssumption DEF EndOf
    <2> QED BY <1>2, <1>3, <2>1, <2>2 DEF ChunkInv
<1>5. PoolInv
    BY <1>2, <1>3 DEF PoolInv, Pool!Status
<1>6. OutputInv
    BY <1>2, <1>3 DEF OutputInv
<1>7. MergeInv
    <2>1. Upto = 0
        BY <1>2 DEF Upto
    <2>2. <<>> \in Seq(ScoredEntries) /\ Len(<<>>) = 0
        BY EmptySeq
    <2>3. Listed(<<>>) /\ Len(<<>>) >= MinOf(TOPK, 0)
        BY <2>2, ConcurrentAssumption DEF Listed, MinOf
    <2>4. \A q \in DOMAIN Querys : Covers(<<>>, Score(q), 0, 0, TOPK)
        BY CoversNothing, ConcurrentAssumption
    <2> QED BY <1>2, <2>1, <2>3, <2>4 DEF MergeInv
<1>8. WrittenInv
    BY <1>2 DEF WrittenInv
<1> QED BY <1>1, <1>4, <1>5, <1>6, <1>7, <1>8 DEF IInv

\* The chunks follow each other, the pool runs only what main() enqueued, and what is merged
\* so far covers the documents it comes from, in every reachable state.
THEOREM ConcurrentInvariant == Spec => []IInv
<1>1. IInv /\ [Next]_vars => IInv'
    BY DocsStep, ChunkStep, PoolStep, OutputStep, MergeStep, WrittenStep DEF IInv
<1> QED BY Initially, <1>1, PTL DEF Spec

-----------------------------------------------------------------------------
(* What follows from it *)

\* main() passes no chunk without a document to the pool, its loop variable stays in range
\* and it merges ids of documents only.
THEOREM TypeCorrect == Spec => []TypeOK
<1>1. IInv => TypeOK
    <2> SUFFICES ASSUME IInv PROVE TypeOK
        OBVIOUS
    <2>1. PICK n \in Nat :
             /\ n = Len(results) /\ n <= Concurrency + 1 /\ results \in Seq(Chunk) /\ NDocs \in Nat
             /\ \A t \in 1..n : results[t].start = EndOf(t - 1) /\ EndOf(t) <= NDocs
        BY LenProperties DEF IInv, ChunkInv, DocsInv
    <2>2. i \in 0..(Concurrency + 2)
        BY <2>1, ConcurrentAssumption DEF IInv, ChunkInv
    <2>3. ASSUME NEW t \in 1..n
          PROVE  results[t].start \in Nat /\ results[t].size \in 1..NDocs
        <3>1. results[t] \in Chunk
            BY <2>1, ElementOfSeq
        <3>2. results[t].start \in Nat /\ results[t].size \in Nat \ {0}
            BY <3>1 DEF Chunk
        <3>3. results[t].start + results[t].size <= NDocs
            BY <2>1 DEF EndOf
        <3> QED BY <2>1, <3>2, <3>3
    <2>4. \A q \in DOMAIN merged : \A e \in 1..Len(merged[q]) : merged[q][e].id \in DOMAIN docs
        BY DEF IInv, MergeInv, Listed
    <2> QED BY <2>1, <2>2, <2>3, <2>4 DEF TypeOK, IInv, ChunkInv, PoolInv
<1> QED BY ConcurrentInvariant, <1>1, PTL

\* A chunk ends no later than the ones behind it begin.
LEMMA EndsGrow ==
    ASSUME DocsInv, ChunkInv, NEW n \in Nat, n = Len(results), NEW t \in 1..n, NEW u \in 1..n, t < u
    PROVE  EndOf(t) <= EndOf(u - 1)
<1> DEFINE Wrong == {v \in (t + 1)..n : ~(EndOf(t) <= EndOf(v - 1))}
<1>1. ASSUME NEW v \in 1..n
      PROVE  EndOf(v) \in Nat /\ EndOf(v - 1) \in Nat /\ EndOf(v - 1) <= EndOf(v)
    <2>1. results[v] \in Chunk /\ results[v].start = EndOf(v - 1)
        BY ElementOfSeq DEF ChunkInv
    <2>2. results[v].start \in Nat /\ results[v].size \in Nat
        BY <2>1 DEF Chunk
    <2>3. EndOf(v) = results[v].start + results[v].size
        BY DEF EndOf
    <2> QED BY <2>1, <2>2, <2>3
<1> SUFFICES ASSUME Wrong # {} PROVE FALSE
    OBVIOUS
<1>2. PICK v \in Wrong : \A w \in Wrong : v <= w
    <2>1. Wrong \in SUBSET Nat
        OBVIOUS
    <2> HIDE DEF Wrong
    <2> QED BY <2>1, Smallest
<1>3. v \in (t + 1)..n /\ v \in Nat
    OBVIOUS
<1>4. EndOf(t) \in Nat
    BY <1>1
<1>5. v # t + 1
    <2>1. t + 1 - 1 = t
        OBVIOUS
    <2> QED BY <1>4, <2>1
<1>6. v - 1 \in (t + 1)..n /\ v - 1 \in 1..n /\ v - 1 \notin Wrong
    BY <1>2, <1>3, <1>5
<1>7. EndOf(t) <= EndOf(v - 1 - 1)
    BY <1>6
<1>8. EndOf(v - 1 - 1) <= EndOf(v - 1) /\ EndOf(v - 1 - 1) \in Nat /\ EndOf(v - 1) \in Nat
    BY <1>1, <1>6
<1>9. EndOf(t) <= EndOf(v - 1)
    BY <1>4, <1>7, <1>8
<1> QED BY <1>9

\* Once main() has split the documents each is in exactly one chunk: the division's rest, and
\* fewer documents than threads, included.
THEOREM EveryDocumentInOneChunk == Spec => []ChunksPartition
<1>1. IInv => ChunksPartition
    <2> SUFFICES ASSUME DocsInv, ChunkInv, pc = "collect", NEW d \in DOMAIN docs
                 PROVE  Cardinality({t \in 1..Len(results) : d \in ChunkDocs(t)}) = 1
        BY DEF IInv, ChunksPartition
    <2>1. PICK n \in Nat : n = Len(results)
        BY LenProperties DEF ChunkInv
    <2>2. /\ d \in Nat /\ d < NDocs /\ NDocs \in Nat
          /\ EndOf(n) = NDocs
          /\ \A t \in 1..n : /\ results[t].start \in Nat /\ results[t].size \in Nat
                             /\ results[t].start = EndOf(t - 1)
                             /\ EndOf(t) = results[t].start + results[t].size
        <3>1. \A t \in 1..n : results[t] \in Chunk /\ results[t].start = EndOf(t - 1)
            BY <2>1, ElementOfSeq DEF ChunkInv
        <3>2. d \in 0..(NDocs - 1) /\ NDocs \in Nat
            BY DEF DocsInv
        <3>3. EndOf(n) = NDocs
            BY <2>1 DEF ChunkInv
        <3> QED BY <3>1, <3>2, <3>3 DEF Chunk, EndOf
    <2> DEFINE Behind == {t \in 1..n : d < EndOf(t)}
    <2>3. n \in Behind
        <3>1. n # 0
            BY <2>2 DEF EndOf
        <3> QED BY <2>2, <3>1
    <2>4. PICK m \in Behind : \A t \in Behind : m <= t
        <3>1. Behind \in SUBSET Nat /\ Behind # {}
            BY <2>3
        <3> HIDE DEF Behind
        <3> QED BY <3>1, Smallest
    <2>5. m \in 1..n /\ d < EndOf(m)
        OBVIOUS
    <2>6. d \in ChunkDocs(m)
        <3>1. results[m].start <= d
            <4>1. CASE m = 1
                BY <2>2, <2>5, <4>1 DEF EndOf
            <4>2. CASE m # 1
                <5>1. m - 1 \in 1..n /\ m - 1 \notin Behind
                    BY <2>4, <2>5, <4>2
                <5>2. ~(d < EndOf(m - 1))
                    BY <5>1
                <5> QED BY <2>2, <2>5, <5>2
            <4> QED BY <4>1, <4>2
        <3> QED BY <2>2, <2>5, <3>1 DEF ChunkDocs
    <2>7. ASSUME NEW t \in 1..n, d \in ChunkDocs(t) PROVE t = m
        <3>1. results[t].start <= d /\ d < EndOf(t)
            BY <2>2, <2>7 DEF ChunkDocs
        <3>2. m <= t
            BY <2>4, <3>1
        <3>3. ~(m < t)
            <4> SUFFICES ASSUME m < t PROVE FALSE
                OBVIOUS
            <4>1. EndOf(m) <= EndOf(t - 1)
                BY <2>1, <2>5, EndsGrow
            <4> QED BY <2>2, <2>5, <3>1, <4>1
        <3> QED BY <2>5, <3>2, <3>3
    <2>8. {t \in 1..Len(results) : d \in ChunkDocs(t)} = {m}
        BY <2>1, <2>5, <2>6, <2>7
    <2> QED BY <2>8, FS_Singleton
<1> QED BY ConcurrentInvariant, <1>1, PTL

\* However many documents the chunks returned, there are enough for the second selection.
THEOREM SelectionInRange == Spec => []ReduceInRange
<1>1. IInv => ReduceInRange
    <2> SUFFICES ASSUME IInv, pc = "collect", i > Len(results), NEW q \in DOMAIN Querys
                 PROVE  FinalK <= Len(merged[q])
        BY DEF ReduceInRange
    <2>1. PICK n \in Nat : n = Len(results)
        BY LenProperties DEF IInv, ChunkInv
    <2>2. i = n + 1 /\ EndOf(n) = NDocs
        BY <2>1 DEF IInv, ChunkInv
    <2>3. Upto = NDocs
        <3>1. n + 1 - 1 = n
            OBVIOUS
        <3> QED BY <2>2, <3>1 DEF Upto
    <2>4. PICK m \in Nat : m = Len(merged[q])
        BY LenProperties DEF IInv, MergeInv, Listed
    <2>5. m >= MinOf(TOPK, NDocs) /\ NDocs \in Nat
        BY <2>3, <2>4 DEF IInv, MergeInv, DocsInv
    <2> QED BY <2>4, <2>5, ConcurrentAssumption DEF FinalK, MinOf
<1> QED BY ConcurrentInvariant, <1>1, PTL

\* What main() writes, built for the CPU, is the top k the README promises, of all documents,
\* ties by document id: cutting into chunks, selecting in each, merging in the order of the
\* futures and selecting again changes nothing, in whatever order the tasks ran.
THEOREM CpuWritesTheTopk ==
    ASSUME Device = "cpu"
    PROVE  Spec => []GlobalTopk
<1>1. IInv => GlobalTopk
    <2> SUFFICES ASSUME IInv, pc = "written", NEW q \in DOMAIN Querys
                 PROVE  IsTopk(indices[q], FinalK,
                               [d \in DOMAIN docs |-> ReadmeScore(Querys[q], docs[d])])
        BY DEF GlobalTopk
    <2>1. PICK n \in Nat : n = Len(results)
        BY LenProperties DEF IInv, ChunkInv
    <2>2. i = n + 1 /\ EndOf(n) = NDocs
        BY <2>1 DEF IInv, ChunkInv, WrittenInv
    <2>3. Upto = NDocs
        <3>1. n + 1 - 1 = n
            OBVIOUS
        <3> QED BY <2>2, <3>1 DEF Upto
    <2>4. Covers(merged[q], Score(q), 0, NDocs, TOPK)
        BY <2>3 DEF IInv, MergeInv
    <2>5. NDocs \in Nat /\ DOMAIN docs = 0..(NDocs - 1) /\ DocsInv
        BY DEF IInv, DocsInv
    <2>6. Score(q) \in [0..(NDocs - 1) -> Scores]
        <3>1. \A d \in DOMAIN docs : Score(q)[d] \in Scores
            BY <2>5, ScoreFacts
        <3>2. Score(q) = [d \in DOMAIN docs |-> Score(q)[d]]
            BY DEF Score
        <3> QED BY <2>5, <3>1, <3>2
    <2>7. IsTopk(PartialSort(merged[q], MinOf(TOPK, NDocs)), MinOf(TOPK, NDocs), Score(q))
        BY <2>4, <2>5, <2>6, BestOfTheBest, ConcurrentAssumption
    <2>8. indices[q] = PartialSort(merged[q], FinalK)
        BY DEF IInv, WrittenInv
    <2> QED BY <2>7, <2>8 DEF FinalK, Score
<1> QED BY ConcurrentInvariant, <1>1, PTL
=============================================================================
