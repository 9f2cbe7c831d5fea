--------------------------- MODULE ThreadPoolProofs ---------------------------
(***************************************************************************)
(* Safety of the thread pool for any number of workers and tasks.          *)
(***************************************************************************)
EXTENDS ThreadPool, SequenceTheorems, FiniteSetTheorems, TLAPS

Pushing(x) == pc[x] \in {"enqLock", "enqPush"}

\* queue_mutex: its holder is the one thread inside a critical section.
CriticalSection ==
    \A x \in Threads : pc[x] \in {"test", "enqPush", "dtorStop"} <=> owner = x

\* A worker holds a callable exactly while it runs one, and an argument is
\* pending exactly during enqueue() and get().
Bookkeeping ==
    /\ \A w \in Workers :
          current[w] # NoTask <=> pc[w] \in EnqueuePc \cup {"run", "unwind"}
    /\ \A x \in Threads : arg[x] # NoTask <=> pc[x] \in EnqueuePc \cup {"get"}

\* A task being pushed is nowhere else and pushed by one thread only, and every
\* pending task is being pushed, queued or run.
Accounted ==
    /\ \A x \in Threads : Pushing(x) =>
          /\ future[arg[x]] = "pending"
          /\ ~InQueue(arg[x])
          /\ \A w \in Workers : current[w] # arg[x]
    /\ \A x, y \in Threads : Pushing(x) /\ Pushing(y) /\ x # y => arg[x] # arg[y]
    /\ \A t \in Tasks : future[t] = "pending" =>
          \/ InQueue(t)
          \/ \E w \in Workers : HeldBy(w, t)
          \/ \E x \in Threads : Pushing(x) /\ arg[x] = t

\* stop is set by the destructor; a worker returns only when nothing is queued
\* and nothing can be queued any more; join() waits for all of them.
Shutdown ==
    /\ stop <=> pc[Main] \in {"dtorNotify", "join", "destroyed"}
    /\ \A w \in Workers : pc[w] = "returned" => stop /\ tasks = <<>>
    /\ pc[Main] = "destroyed" => \A w \in Workers : pc[w] = "returned"

IInv ==
    /\ TypeOK
    /\ CriticalSection
    /\ Bookkeeping
    /\ OnePlace
    /\ Accounted
    /\ NoSleeperAfterStop
    /\ Shutdown
-----------------------------------------------------------------------------
(* The queue as a set of tasks *)

\* Appending a task that was absent keeps the queue free of repetitions and adds
\* exactly that task: tasks.emplace in enqueue().
LEMMA AppendContains ==
    ASSUME NEW s \in Seq(Tasks), NEW t \in Tasks, Distinct(s), ~Contains(s, t)
    PROVE  /\ Append(s, t) \in Seq(Tasks)
           /\ Append(s, t) # <<>>
           /\ Distinct(Append(s, t))
           /\ \A u : Contains(Append(s, t), u) <=> Contains(s, u) \/ u = t
<1>1. /\ Append(s, t) \in Seq(Tasks)
      /\ Len(Append(s, t)) = Len(s) + 1
      /\ \A i \in 1..Len(s) : Append(s, t)[i] = s[i]
      /\ Append(s, t)[Len(s) + 1] = t
      /\ Len(s) \in Nat
    OBVIOUS
<1>2. \A i \in 1..Len(s) + 1 : i \in 1..Len(s) \/ i = Len(s) + 1
    BY <1>1
<1>3. Append(s, t) # <<>>
    BY <1>1
<1>4. Distinct(Append(s, t))
    BY <1>1, <1>2 DEF Distinct, Contains
<1>5. \A u : Contains(Append(s, t), u) <=> Contains(s, u) \/ u = t
    <2> SUFFICES ASSUME NEW u
                 PROVE  Contains(Append(s, t), u) <=> Contains(s, u) \/ u = t
        OBVIOUS
    <2>1. Contains(Append(s, t), u) => Contains(s, u) \/ u = t
        BY <1>1, <1>2 DEF Contains
    <2>2. ASSUME Contains(s, u) PROVE Contains(Append(s, t), u)
        <3>1. PICK i \in 1..Len(s) : s[i] = u
            BY <2>2 DEF Contains
        <3>2. i \in 1..Len(Append(s, t)) /\ Append(s, t)[i] = u
            BY <1>1, <3>1
        <3> QED BY <3>2 DEF Contains
    <2>3. Contains(Append(s, t), t)
        <3>1. Len(s) + 1 \in 1..Len(Append(s, t))
            BY <1>1
        <3> QED BY <1>1, <3>1 DEF Contains
    <2> QED BY <2>1, <2>2, <2>3
<1> QED BY <1>1, <1>3, <1>4, <1>5

\* Taking the front of a queue without repetitions removes exactly that task:
\* tasks.front() and tasks.pop() in the worker's loop.
LEMMA PopContains ==
    ASSUME NEW s \in Seq(Tasks), s # <<>>, Distinct(s)
    PROVE  /\ Head(s) \in Tasks
           /\ Contains(s, Head(s))
           /\ Tail(s) \in Seq(Tasks)
           /\ Distinct(Tail(s))
           /\ \A u : Contains(Tail(s), u) <=> Contains(s, u) /\ u # Head(s)
<1>1. /\ Head(s) \in Tasks
      /\ Tail(s) \in Seq(Tasks)
      /\ Len(Tail(s)) = Len(s) - 1
      /\ \A i \in 1..Len(Tail(s)) : Tail(s)[i] = s[i + 1]
    BY HeadTailProperties
<1>2. Len(s) \in Nat \ {0} /\ Head(s) = s[1]
    BY EmptySeq
<1>3. Contains(s, Head(s))
    BY <1>2 DEF Contains
<1>4. Distinct(Tail(s))
    BY <1>1, <1>2 DEF Distinct
<1>5. \A u : Contains(Tail(s), u) <=> Contains(s, u) /\ u # Head(s)
    <2> SUFFICES ASSUME NEW u
                 PROVE  Contains(Tail(s), u) <=> Contains(s, u) /\ u # Head(s)
        OBVIOUS
    <2>1. ASSUME Contains(Tail(s), u) PROVE Contains(s, u) /\ u # Head(s)
        <3>1. PICK i \in 1..Len(Tail(s)) : Tail(s)[i] = u
            BY <2>1 DEF Contains
        <3>2. i + 1 \in 1..Len(s) /\ i + 1 # 1 /\ 1 \in 1..Len(s) /\ s[i + 1] = u
            BY <1>1, <1>2, <3>1
        <3>3. s[i + 1] # s[1]
            BY <3>2 DEF Distinct
        <3> QED BY <1>2, <3>2, <3>3 DEF Contains
    <2>2. ASSUME Contains(s, u), u # Head(s) PROVE Contains(Tail(s), u)
        <3>1. PICK i \in 1..Len(s) : s[i] = u
            BY <2>2 DEF Contains
        <3>2. i # 1
            BY <1>2, <2>2, <3>1
        <3>3. i - 1 \in 1..Len(Tail(s)) /\ Tail(s)[i - 1] = s[i]
            BY <1>1, <1>2, <3>1, <3>2
        <3> QED BY <3>1, <3>3 DEF Contains
    <2> QED BY <2>1, <2>2
<1> QED BY <1>1, <1>3, <1>4, <1>5

\* Every step keeps the types.
LEMMA TypeStep == IInv /\ [Next]_vars => TypeOK'
<1> SUFFICES ASSUME IInv, [Next]_vars PROVE TypeOK'
    OBVIOUS
<1> USE PoolAssumption DEF IInv, TypeOK, Bookkeeping, Asleep, Outcome, Threads, EnqueuePc, WorkerPc, MainPc
<1>1. ASSUME NEW w \in Workers, WorkerLock(w) PROVE TypeOK'
    BY <1>1 DEF WorkerLock, Acquire
<1>2. ASSUME NEW w \in Workers, WorkerWait(w) PROVE TypeOK'
    BY <1>2 DEF WorkerWait, Release
<1>3. ASSUME NEW w \in Workers, WorkerReturn(w) PROVE TypeOK'
    BY <1>3 DEF WorkerReturn, Release
<1>4. ASSUME NEW w \in Workers, WorkerPop(w) PROVE TypeOK'
    BY <1>4 DEF WorkerPop, Release
<1>5. ASSUME NEW w \in Workers, TaskEnds(w) PROVE TypeOK'
    BY <1>5 DEF TaskEnds
<1>6. ASSUME NEW w \in Workers, SpuriousWake(w) PROVE TypeOK'
    BY <1>6 DEF SpuriousWake
<1>7. ASSUME NEW x \in Threads, EnqueueLock(x) PROVE TypeOK'
    BY <1>7 DEF EnqueueLock, Acquire
<1>8. ASSUME NEW x \in Threads, EnqueueThrow(x) PROVE TypeOK'
    BY <1>8 DEF EnqueueThrow, Release
<1>9. ASSUME NEW x \in Threads, EnqueuePush(x) PROVE TypeOK'
    BY <1>9 DEF EnqueuePush, Release
<1>10. ASSUME NEW x \in Threads, EnqueueNotify(x) PROVE TypeOK'
    BY <1>10 DEF EnqueueNotify
<1>11. ASSUME NEW x \in Threads, NEW t \in Tasks, EnqueueCall(x, t) PROVE TypeOK'
    BY <1>11 DEF EnqueueCall
<1>12. ASSUME NEW t \in Tasks, GetCall(t) PROVE TypeOK'
    BY <1>12 DEF GetCall
<1>13. CASE GetReturn
    BY <1>13 DEF GetReturn
<1>14. CASE DtorCall
    BY <1>14 DEF DtorCall
<1>15. CASE DtorLock
    BY <1>15 DEF DtorLock, Acquire
<1>16. CASE DtorStop
    BY <1>16 DEF DtorStop, Release
<1>17. CASE DtorNotify
    BY <1>17 DEF DtorNotify
<1>18. CASE DtorJoin
    BY <1>18 DEF DtorJoin
<1>19. CASE UNCHANGED vars
    BY <1>19 DEF vars
<1> QED
    BY <1>1, <1>2, <1>3, <1>4, <1>5, <1>6, <1>7, <1>8, <1>9, <1>10, <1>11, <1>12, <1>13, <1>14, <1>15, <1>16, <1>17, <1>18, <1>19 DEF Next, Worker, Enqueue, Destroy, Terminated

\* Every step keeps queue_mutex exclusive.
LEMMA CriticalSectionStep == IInv /\ [Next]_vars => CriticalSection'
<1> SUFFICES ASSUME IInv, [Next]_vars PROVE CriticalSection'
    OBVIOUS
<1> USE PoolAssumption DEF IInv, TypeOK, CriticalSection, Asleep, Threads, EnqueuePc, WorkerPc, MainPc
<1>1. ASSUME NEW w \in Workers, WorkerLock(w) PROVE CriticalSection'
    BY <1>1 DEF WorkerLock, Acquire
<1>2. ASSUME NEW w \in Workers, WorkerWait(w) PROVE CriticalSection'
    BY <1>2 DEF WorkerWait, Release
<1>3. ASSUME NEW w \in Workers, WorkerReturn(w) PROVE CriticalSection'
    BY <1>3 DEF WorkerReturn, Release
<1>4. ASSUME NEW w \in Workers, WorkerPop(w) PROVE CriticalSection'
    BY <1>4 DEF WorkerPop, Release
<1>5. ASSUME NEW w \in Workers, TaskEnds(w) PROVE CriticalSection'
    BY <1>5 DEF TaskEnds
<1>6. ASSUME NEW w \in Workers, SpuriousWake(w) PROVE CriticalSection'
    BY <1>6 DEF SpuriousWake
<1>7. ASSUME NEW x \in Threads, EnqueueLock(x) PROVE CriticalSection'
    BY <1>7 DEF EnqueueLock, Acquire
<1>8. ASSUME NEW x \in Threads, EnqueueThrow(x) PROVE CriticalSection'
    BY <1>8 DEF EnqueueThrow, Release
<1>9. ASSUME NEW x \in Threads, EnqueuePush(x) PROVE CriticalSection'
    BY <1>9 DEF EnqueuePush, Release
<1>10. ASSUME NEW x \in Threads, EnqueueNotify(x) PROVE CriticalSection'
    BY <1>10 DEF EnqueueNotify
<1>11. ASSUME NEW x \in Threads, NEW t \in Tasks, EnqueueCall(x, t) PROVE CriticalSection'
    BY <1>11 DEF EnqueueCall
<1>12. ASSUME NEW t \in Tasks, GetCall(t) PROVE CriticalSection'
    BY <1>12 DEF GetCall
<1>13. CASE GetReturn
    BY <1>13 DEF GetReturn
<1>14. CASE DtorCall
    BY <1>14 DEF DtorCall
<1>15. CASE DtorLock
    BY <1>15 DEF DtorLock, Acquire
<1>16. CASE DtorStop
    BY <1>16 DEF DtorStop, Release
<1>17. CASE DtorNotify
    BY <1>17 DEF DtorNotify
<1>18. CASE DtorJoin
    BY <1>18 DEF DtorJoin
<1>19. CASE UNCHANGED vars
    BY <1>19 DEF vars
<1> QED
    BY <1>1, <1>2, <1>3, <1>4, <1>5, <1>6, <1>7, <1>8, <1>9, <1>10, <1>11, <1>12, <1>13, <1>14, <1>15, <1>16, <1>17, <1>18, <1>19 DEF Next, Worker, Enqueue, Destroy, Terminated

\* Every step keeps workers' and callers' variables in line with where they are.
LEMMA BookkeepingStep == IInv /\ [Next]_vars => Bookkeeping'
<1> SUFFICES ASSUME IInv, [Next]_vars PROVE Bookkeeping'
    OBVIOUS
<1> USE PoolAssumption DEF IInv, TypeOK, Bookkeeping, Shutdown, Asleep, Threads, EnqueuePc, WorkerPc, MainPc
<1>1. ASSUME NEW w \in Workers, WorkerLock(w) PROVE Bookkeeping'
    BY <1>1 DEF WorkerLock, Acquire
<1>2. ASSUME NEW w \in Workers, WorkerWait(w) PROVE Bookkeeping'
    BY <1>2 DEF WorkerWait, Release
<1>3. ASSUME NEW w \in Workers, WorkerReturn(w) PROVE Bookkeeping'
    BY <1>3 DEF WorkerReturn, Release
<1>4. ASSUME NEW w \in Workers, WorkerPop(w) PROVE Bookkeeping'
    BY <1>4 DEF WorkerPop, Release
<1>5. ASSUME NEW w \in Workers, TaskEnds(w) PROVE Bookkeeping'
    BY <1>5 DEF TaskEnds
<1>6. ASSUME NEW w \in Workers, SpuriousWake(w) PROVE Bookkeeping'
    BY <1>6 DEF SpuriousWake
<1>7. ASSUME NEW x \in Threads, EnqueueLock(x) PROVE Bookkeeping'
    BY <1>7 DEF EnqueueLock, Acquire
<1>8. ASSUME NEW x \in Threads, EnqueueThrow(x) PROVE Bookkeeping'
    BY <1>8 DEF EnqueueThrow, Release
<1>9. ASSUME NEW x \in Threads, EnqueuePush(x) PROVE Bookkeeping'
    BY <1>9 DEF EnqueuePush, Release
<1>10. ASSUME NEW x \in Threads, EnqueueNotify(x) PROVE Bookkeeping'
    BY <1>10 DEF EnqueueNotify
<1>11. ASSUME NEW x \in Threads, NEW t \in Tasks, EnqueueCall(x, t) PROVE Bookkeeping'
    BY <1>11 DEF EnqueueCall
<1>12. ASSUME NEW t \in Tasks, GetCall(t) PROVE Bookkeeping'
    BY <1>12 DEF GetCall
<1>13. CASE GetReturn
    BY <1>13 DEF GetReturn
<1>14. CASE DtorCall
    BY <1>14 DEF DtorCall
<1>15. CASE DtorLock
    BY <1>15 DEF DtorLock, Acquire
<1>16. CASE DtorStop
    BY <1>16 DEF DtorStop, Release
<1>17. CASE DtorNotify
    BY <1>17 DEF DtorNotify
<1>18. CASE DtorJoin
    BY <1>18 DEF DtorJoin
<1>19. CASE UNCHANGED vars
    BY <1>19 DEF vars
<1> QED
    BY <1>1, <1>2, <1>3, <1>4, <1>5, <1>6, <1>7, <1>8, <1>9, <1>10, <1>11, <1>12, <1>13, <1>14, <1>15, <1>16, <1>17, <1>18, <1>19 DEF Next, Worker, Enqueue, Destroy, Terminated

\* No step puts a worker to sleep behind the destructor's notify_all().
LEMMA SleeperStep == IInv /\ [Next]_vars => NoSleeperAfterStop'
<1> SUFFICES ASSUME IInv, [Next]_vars PROVE NoSleeperAfterStop'
    OBVIOUS
<1> USE PoolAssumption DEF IInv, TypeOK, Shutdown, NoSleeperAfterStop, Asleep, Threads, EnqueuePc, WorkerPc, MainPc
<1>1. ASSUME NEW w \in Workers, WorkerLock(w) PROVE NoSleeperAfterStop'
    BY <1>1 DEF WorkerLock, Acquire
<1>2. ASSUME NEW w \in Workers, WorkerWait(w) PROVE NoSleeperAfterStop'
    BY <1>2 DEF WorkerWait, Release
<1>3. ASSUME NEW w \in Workers, WorkerReturn(w) PROVE NoSleeperAfterStop'
    BY <1>3 DEF WorkerReturn, Release
<1>4. ASSUME NEW w \in Workers, WorkerPop(w) PROVE NoSleeperAfterStop'
    BY <1>4 DEF WorkerPop, Release
<1>5. ASSUME NEW w \in Workers, TaskEnds(w) PROVE NoSleeperAfterStop'
    BY <1>5 DEF TaskEnds
<1>6. ASSUME NEW w \in Workers, SpuriousWake(w) PROVE NoSleeperAfterStop'
    BY <1>6 DEF SpuriousWake
<1>7. ASSUME NEW x \in Threads, EnqueueLock(x) PROVE NoSleeperAfterStop'
    BY <1>7 DEF EnqueueLock, Acquire
<1>8. ASSUME NEW x \in Threads, EnqueueThrow(x) PROVE NoSleeperAfterStop'
    BY <1>8 DEF EnqueueThrow, Release
<1>9. ASSUME NEW x \in Threads, EnqueuePush(x) PROVE NoSleeperAfterStop'
    BY <1>9 DEF EnqueuePush, Release
<1>10. ASSUME NEW x \in Threads, EnqueueNotify(x) PROVE NoSleeperAfterStop'
    BY <1>10 DEF EnqueueNotify
<1>11. ASSUME NEW x \in Threads, NEW t \in Tasks, EnqueueCall(x, t) PROVE NoSleeperAfterStop'
    BY <1>11 DEF EnqueueCall
<1>12. ASSUME NEW t \in Tasks, GetCall(t) PROVE NoSleeperAfterStop'
    BY <1>12 DEF GetCall
<1>13. CASE GetReturn
    BY <1>13 DEF GetReturn
<1>14. CASE DtorCall
    BY <1>14 DEF DtorCall
<1>15. CASE DtorLock
    BY <1>15 DEF DtorLock, Acquire
<1>16. CASE DtorStop
    BY <1>16 DEF DtorStop, Release
<1>17. CASE DtorNotify
    BY <1>17 DEF DtorNotify
<1>18. CASE DtorJoin
    BY <1>18 DEF DtorJoin
<1>19. CASE UNCHANGED vars
    BY <1>19 DEF vars
<1> QED
    BY <1>1, <1>2, <1>3, <1>4, <1>5, <1>6, <1>7, <1>8, <1>9, <1>10, <1>11, <1>12, <1>13, <1>14, <1>15, <1>16, <1>17, <1>18, <1>19 DEF Next, Worker, Enqueue, Destroy, Terminated

\* Every step keeps the order of the shutdown.
LEMMA ShutdownStep == IInv /\ [Next]_vars => Shutdown'
<1> SUFFICES ASSUME IInv, [Next]_vars PROVE Shutdown'
    OBVIOUS
<1> USE PoolAssumption DEF IInv, TypeOK, Shutdown, Asleep, Threads, EnqueuePc, WorkerPc, MainPc
<1>1. ASSUME NEW w \in Workers, WorkerLock(w) PROVE Shutdown'
    BY <1>1 DEF WorkerLock, Acquire
<1>2. ASSUME NEW w \in Workers, WorkerWait(w) PROVE Shutdown'
    BY <1>2 DEF WorkerWait, Release
<1>3. ASSUME NEW w \in Workers, WorkerReturn(w) PROVE Shutdown'
    BY <1>3 DEF WorkerReturn, Release
<1>4. ASSUME NEW w \in Workers, WorkerPop(w) PROVE Shutdown'
    BY <1>4 DEF WorkerPop, Release
<1>5. ASSUME NEW w \in Workers, TaskEnds(w) PROVE Shutdown'
    BY <1>5 DEF TaskEnds
<1>6. ASSUME NEW w \in Workers, SpuriousWake(w) PROVE Shutdown'
    BY <1>6 DEF SpuriousWake
<1>7. ASSUME NEW x \in Threads, EnqueueLock(x) PROVE Shutdown'
    BY <1>7 DEF EnqueueLock, Acquire
<1>8. ASSUME NEW x \in Threads, EnqueueThrow(x) PROVE Shutdown'
    BY <1>8 DEF EnqueueThrow, Release
<1>9. ASSUME NEW x \in Threads, EnqueuePush(x) PROVE Shutdown'
    BY <1>9 DEF EnqueuePush, Release
<1>10. ASSUME NEW x \in Threads, EnqueueNotify(x) PROVE Shutdown'
    BY <1>10 DEF EnqueueNotify
<1>11. ASSUME NEW x \in Threads, NEW t \in Tasks, EnqueueCall(x, t) PROVE Shutdown'
    BY <1>11 DEF EnqueueCall
<1>12. ASSUME NEW t \in Tasks, GetCall(t) PROVE Shutdown'
    BY <1>12 DEF GetCall
<1>13. CASE GetReturn
    BY <1>13 DEF GetReturn
<1>14. CASE DtorCall
    BY <1>14 DEF DtorCall
<1>15. CASE DtorLock
    BY <1>15 DEF DtorLock, Acquire
<1>16. CASE DtorStop
    BY <1>16 DEF DtorStop, Release
<1>17. CASE DtorNotify
    BY <1>17 DEF DtorNotify
<1>18. CASE DtorJoin
    BY <1>18 DEF DtorJoin
<1>19. CASE UNCHANGED vars
    BY <1>19 DEF vars
<1> QED
    BY <1>1, <1>2, <1>3, <1>4, <1>5, <1>6, <1>7, <1>8, <1>9, <1>10, <1>11, <1>12, <1>13, <1>14, <1>15, <1>16, <1>17, <1>18, <1>19 DEF Next, Worker, Enqueue, Destroy, Terminated

\* A step that leaves the queue alone leaves its contents alone.
LEMMA QueueUnchanged ==
    UNCHANGED tasks => /\ Distinct(tasks) => Distinct(tasks')
                       /\ \A u : InQueue(u)' <=> InQueue(u)
BY DEF InQueue, Distinct, Contains

\* No step puts a task in a second place.
LEMMA OnePlaceStep == IInv /\ [Next]_vars => OnePlace'
<1> SUFFICES ASSUME IInv, [Next]_vars PROVE OnePlace'
    OBVIOUS
<1> USE PoolAssumption DEF IInv, TypeOK, Bookkeeping, OnePlace, Accounted, Pushing, HeldBy, Shutdown, Asleep, Outcome, Threads, EnqueuePc, WorkerPc, MainPc
<1>1. ASSUME NEW w \in Workers, WorkerLock(w) PROVE OnePlace'
    BY <1>1, QueueUnchanged DEF WorkerLock, Acquire
<1>2. ASSUME NEW w \in Workers, WorkerWait(w) PROVE OnePlace'
    BY <1>2, QueueUnchanged DEF WorkerWait, Release
<1>3. ASSUME NEW w \in Workers, WorkerReturn(w) PROVE OnePlace'
    BY <1>3, QueueUnchanged DEF WorkerReturn, Release
<1>4. ASSUME NEW w \in Workers, WorkerPop(w) PROVE OnePlace'
    <2>1. /\ Head(tasks) \in Tasks
          /\ InQueue(Head(tasks))
          /\ Distinct(tasks')
          /\ \A u : InQueue(u)' <=> InQueue(u) /\ u # Head(tasks)
        BY <1>4, PopContains DEF WorkerPop, InQueue
    <2> QED
        BY <1>4, <2>1 DEF WorkerPop, Release
<1>5. ASSUME NEW w \in Workers, TaskEnds(w) PROVE OnePlace'
    <2>1. current[w] \in Tasks /\ future[current[w]] = "pending" /\ ~InQueue(current[w])
        BY <1>5 DEF TaskEnds
    <2>2. PICK r \in Outcome : future' = [future EXCEPT ![current[w]] = r]
        BY <1>5 DEF TaskEnds
    <2>3. \A u \in Tasks : u # current[w] => future'[u] = future[u]
        BY <2>1, <2>2
    <2>4. \A v \in Workers : current'[v] = IF v = w THEN NoTask ELSE current[v]
        BY <1>5 DEF TaskEnds
    <2>5. UNCHANGED tasks
        BY <1>5 DEF TaskEnds
    <2>6. ~InQueue(NoTask)
        BY ElementOfSeq DEF InQueue, Contains
    <2> QED
        BY <2>1, <2>3, <2>4, <2>5, <2>6, QueueUnchanged
<1>6. ASSUME NEW w \in Workers, SpuriousWake(w) PROVE OnePlace'
    BY <1>6, QueueUnchanged DEF SpuriousWake
<1>7. ASSUME NEW x \in Threads, EnqueueLock(x) PROVE OnePlace'
    BY <1>7, QueueUnchanged DEF EnqueueLock, Acquire
<1>8. ASSUME NEW x \in Threads, EnqueueThrow(x) PROVE OnePlace'
    BY <1>8, QueueUnchanged DEF EnqueueThrow, Release
<1>9. ASSUME NEW x \in Threads, EnqueuePush(x) PROVE OnePlace'
    <2>1. arg[x] \in Tasks /\ ~InQueue(arg[x])
        BY <1>9 DEF EnqueuePush
    <2>2. /\ Distinct(tasks')
          /\ \A u : InQueue(u)' <=> InQueue(u) \/ u = arg[x]
        BY <1>9, <2>1, AppendContains DEF EnqueuePush, InQueue
    <2> QED
        BY <1>9, <2>1, <2>2 DEF EnqueuePush, Release
<1>10. ASSUME NEW x \in Threads, EnqueueNotify(x) PROVE OnePlace'
    BY <1>10, QueueUnchanged DEF EnqueueNotify
<1>11. ASSUME NEW x \in Threads, NEW t \in Tasks, EnqueueCall(x, t) PROVE OnePlace'
    BY <1>11, QueueUnchanged DEF EnqueueCall
<1>12. ASSUME NEW t \in Tasks, GetCall(t) PROVE OnePlace'
    BY <1>12, QueueUnchanged DEF GetCall
<1>13. CASE GetReturn
    BY <1>13, QueueUnchanged DEF GetReturn
<1>14. CASE DtorCall
    BY <1>14, QueueUnchanged DEF DtorCall
<1>15. CASE DtorLock
    BY <1>15, QueueUnchanged DEF DtorLock, Acquire
<1>16. CASE DtorStop
    BY <1>16, QueueUnchanged DEF DtorStop, Release
<1>17. CASE DtorNotify
    BY <1>17, QueueUnchanged DEF DtorNotify
<1>18. CASE DtorJoin
    BY <1>18, QueueUnchanged DEF DtorJoin
<1>19. CASE UNCHANGED vars
    BY <1>19, QueueUnchanged DEF vars
<1> QED
    BY <1>1, <1>2, <1>3, <1>4, <1>5, <1>6, <1>7, <1>8, <1>9, <1>10, <1>11, <1>12, <1>13, <1>14, <1>15, <1>16, <1>17, <1>18, <1>19 DEF Next, Worker, Enqueue, Destroy, Terminated

\* No step loses a pending task.
LEMMA AccountedStep == IInv /\ [Next]_vars => Accounted'
<1> SUFFICES ASSUME IInv, [Next]_vars PROVE Accounted'
    OBVIOUS
<1> USE PoolAssumption DEF IInv, TypeOK, Bookkeeping, OnePlace, Accounted, Pushing, HeldBy, Shutdown, Asleep, Outcome, Threads, EnqueuePc, WorkerPc, MainPc
<1>1. ASSUME NEW w \in Workers, WorkerLock(w) PROVE Accounted'
    BY <1>1, QueueUnchanged DEF WorkerLock, Acquire
<1>2. ASSUME NEW w \in Workers, WorkerWait(w) PROVE Accounted'
    BY <1>2, QueueUnchanged DEF WorkerWait, Release
<1>3. ASSUME NEW w \in Workers, WorkerReturn(w) PROVE Accounted'
    BY <1>3, QueueUnchanged DEF WorkerReturn, Release
<1>4. ASSUME NEW w \in Workers, WorkerPop(w) PROVE Accounted'
    <2>1. /\ Head(tasks) \in Tasks
          /\ InQueue(Head(tasks))
          /\ Distinct(tasks')
          /\ \A u : InQueue(u)' <=> InQueue(u) /\ u # Head(tasks)
        BY <1>4, PopContains DEF WorkerPop, InQueue
    <2>2. /\ \A x \in Threads : Pushing(x)' <=> Pushing(x)
          /\ current' = [current EXCEPT ![w] = Head(tasks)]
          /\ current[w] = NoTask
          /\ UNCHANGED <<arg, future>>
        BY <1>4 DEF WorkerPop, Release
    <2>3. \A v \in Workers : current'[v] = IF v = w THEN Head(tasks) ELSE current[v]
        BY <2>2
    <2>4. \A x \in Threads : Pushing(x) => arg[x] # Head(tasks)
        BY <2>1
    <2>5. \A t \in Tasks : future[t] = "pending" =>
             \/ InQueue(t)'
             \/ \E v \in Workers : HeldBy(v, t)'
             \/ \E x \in Threads : Pushing(x) /\ arg[x] = t
        <3> SUFFICES ASSUME NEW t \in Tasks, future[t] = "pending",
                            ~InQueue(t)', \A x \in Threads : ~(Pushing(x) /\ arg[x] = t)
                     PROVE  \E v \in Workers : HeldBy(v, t)'
            OBVIOUS
        <3>1. CASE t = Head(tasks)
            BY <2>3, <3>1
        <3>2. CASE ~InQueue(t)
            <4>1. PICK v \in Workers : current[v] = t
                BY <3>2
            <4> QED BY <2>2, <2>3, <4>1
        <3> QED BY <2>1, <3>1, <3>2
    <2> QED
        BY <2>1, <2>2, <2>3, <2>4, <2>5
<1>5. ASSUME NEW w \in Workers, TaskEnds(w) PROVE Accounted'
    BY <1>5, QueueUnchanged DEF TaskEnds
<1>6. ASSUME NEW w \in Workers, SpuriousWake(w) PROVE Accounted'
    BY <1>6, QueueUnchanged DEF SpuriousWake
<1>7. ASSUME NEW x \in Threads, EnqueueLock(x) PROVE Accounted'
    BY <1>7, QueueUnchanged DEF EnqueueLock, Acquire
<1>8. ASSUME NEW x \in Threads, EnqueueThrow(x) PROVE Accounted'
    BY <1>8, QueueUnchanged DEF EnqueueThrow, Release
<1>9. ASSUME NEW x \in Threads, EnqueuePush(x) PROVE Accounted'
    <2>1. arg[x] \in Tasks /\ ~InQueue(arg[x])
        BY <1>9 DEF EnqueuePush
    <2>2. /\ Distinct(tasks')
          /\ \A u : InQueue(u)' <=> InQueue(u) \/ u = arg[x]
        BY <1>9, <2>1, AppendContains DEF EnqueuePush, InQueue
    <2>3. /\ current' = current /\ arg' = arg /\ future' = future
          /\ \A y \in Threads : Pushing(y)' <=> Pushing(y) /\ y # x
          /\ \A y \in Threads : y # x /\ Pushing(y) => arg[y] # arg[x]
        BY <1>9 DEF EnqueuePush, Release
    <2> QED
        BY <2>1, <2>2, <2>3
<1>10. ASSUME NEW x \in Threads, EnqueueNotify(x) PROVE Accounted'
    BY <1>10, QueueUnchanged DEF EnqueueNotify
<1>11. ASSUME NEW x \in Threads, NEW t \in Tasks, EnqueueCall(x, t) PROVE Accounted'
    BY <1>11, QueueUnchanged DEF EnqueueCall
<1>12. ASSUME NEW t \in Tasks, GetCall(t) PROVE Accounted'
    BY <1>12, QueueUnchanged DEF GetCall
<1>13. CASE GetReturn
    BY <1>13, QueueUnchanged DEF GetReturn
<1>14. CASE DtorCall
    BY <1>14, QueueUnchanged DEF DtorCall
<1>15. CASE DtorLock
    BY <1>15, QueueUnchanged DEF DtorLock, Acquire
<1>16. CASE DtorStop
    BY <1>16, QueueUnchanged DEF DtorStop, Release
<1>17. CASE DtorNotify
    <2>1. \A x \in Threads : Pushing(x)' <=> Pushing(x)
        BY <1>17 DEF DtorNotify
    <2>2. UNCHANGED <<tasks, current, arg, future>>
        BY <1>17 DEF DtorNotify
    <2>3. \A x \in Threads : Pushing(x)' => Pushing(x)
        BY <2>1
    <2>4. \A t \in Tasks : InQueue(t)' <=> InQueue(t)
        BY <2>2, QueueUnchanged
    <2> QED
        BY <2>1, <2>2, QueueUnchanged
<1>18. CASE DtorJoin
    BY <1>18, QueueUnchanged DEF DtorJoin
<1>19. CASE UNCHANGED vars
    BY <1>19, QueueUnchanged DEF vars
<1> QED
    BY <1>1, <1>2, <1>3, <1>4, <1>5, <1>6, <1>7, <1>8, <1>9, <1>10, <1>11, <1>12, <1>13, <1>14, <1>15, <1>16, <1>17, <1>18, <1>19 DEF Next, Worker, Enqueue, Destroy, Terminated

-----------------------------------------------------------------------------
(* The theorems *)

\* The pool starts inside the inductive invariant.
LEMMA Initially == Init => IInv
<1> SUFFICES ASSUME Init PROVE IInv
    OBVIOUS
<1> USE PoolAssumption DEF Init, IInv, Threads, EnqueuePc, WorkerPc, MainPc
<1>1. \A t : ~InQueue(t)
    BY DEF InQueue, Contains
<1>2. TypeOK
    <2>1. tasks \in Seq(Tasks) /\ spurious \in 0..MaxSpurious
        OBVIOUS
    <2> QED BY <2>1 DEF TypeOK, Outcome
<1>5. CriticalSection /\ Bookkeeping
    BY DEF CriticalSection, Bookkeeping
<1>3. OnePlace
    BY <1>1 DEF OnePlace, Distinct, HeldBy
<1>4. Accounted /\ NoSleeperAfterStop /\ Shutdown
    BY DEF Accounted, Pushing, NoSleeperAfterStop, Shutdown
<1> QED BY <1>2, <1>3, <1>4, <1>5

\* No step leaves the inductive invariant.
LEMMA Inductive == Spec => []IInv
<1>1. IInv /\ [Next]_vars => IInv'
    BY TypeStep, CriticalSectionStep, BookkeepingStep, OnePlaceStep, AccountedStep,
       SleeperStep, ShutdownStep DEF IInv
<1> QED BY Initially, <1>1, PTL DEF Spec

\* The pool's variables keep their types in every reachable state.
THEOREM TypeCorrect == Spec => []TypeOK
<1>1. IInv => TypeOK
    BY DEF IInv
<1> QED BY Inductive, <1>1, PTL

\* For any number of workers and tasks, no task is ever in two places: none is
\* run twice, whatever the order of pushes, pops and notifications.
THEOREM TaskInOnePlace == Spec => []OnePlace
<1>1. IInv => OnePlace
    BY DEF IInv
<1> QED BY Inductive, <1>1, PTL

\* No worker is left asleep once the destructor waits for the workers.
THEOREM NoWorkerSleepsThroughStop == Spec => []NoSleeperAfterStop
<1>1. IInv => NoSleeperAfterStop
    BY DEF IInv
<1> QED BY Inductive, <1>1, PTL

\* ~ThreadPool() returns only when the queue is drained and every accepted task
\* has run to its end.
THEOREM DestructorDrains == Spec => []DestroyedIsDrained
<1>1. IInv => DestroyedIsDrained
    <2> SUFFICES ASSUME IInv, pc[Main] = "destroyed"
                 PROVE  /\ tasks = <<>>
                        /\ owner = NoThread
                        /\ \A t \in Tasks : future[t] # "pending"
                        /\ \A w \in Workers : pc[w] = "returned"
        BY DEF DestroyedIsDrained
    <2> USE PoolAssumption DEF IInv, Threads, EnqueuePc
    <2>1. \A w \in Workers : pc[w] = "returned"
        BY DEF Shutdown
    <2>2. tasks = <<>>
        BY <2>1 DEF Shutdown
    <2>3. owner = NoThread
        BY <2>1 DEF CriticalSection, TypeOK
    <2>4. \A t : ~InQueue(t)
        BY <2>2 DEF InQueue, Contains
    <2>5. \A w \in Workers : current[w] = NoTask
        BY <2>1 DEF Bookkeeping
    <2>6. \A x \in Threads : ~Pushing(x)
        BY <2>1 DEF Pushing
    <2>7. \A t \in Tasks : future[t] # "pending"
        BY <2>4, <2>5, <2>6 DEF Accounted, HeldBy
    <2> QED BY <2>1, <2>2, <2>3, <2>7
<1> QED BY Inductive, <1>1, PTL

\* A ready or rejected future never changes again: packaged_task is called once.
THEOREM FuturesAreFinal == Spec => FutureIsFinal
<1>1. IInv /\ [Next]_vars =>
         [\A t \in Tasks : future[t] \in Outcome \cup {"rejected"} => future'[t] = future[t]]_vars
    <2> SUFFICES ASSUME IInv, [Next]_vars, NEW t \in Tasks,
                        future[t] \in Outcome \cup {"rejected"}
                 PROVE  future'[t] = future[t]
        OBVIOUS
    <2> USE PoolAssumption DEF IInv, Outcome, Threads, EnqueuePc, TypeOK
    <2>1. ASSUME NEW w \in Workers, TaskEnds(w) PROVE future'[t] = future[t]
        <3>1. current[w] \in Tasks /\ future[current[w]] = "pending"
            BY <2>1 DEF TaskEnds, Bookkeeping, OnePlace, HeldBy
        <3> QED BY <2>1, <3>1 DEF TaskEnds
    <2>2. ASSUME NEW x \in Threads, EnqueueThrow(x) PROVE future'[t] = future[t]
        <3>1. future[arg[x]] = "pending"
            BY <2>2 DEF EnqueueThrow, Accounted, Pushing
        <3> QED BY <2>2, <3>1 DEF EnqueueThrow
    <2>3. ASSUME NEW x \in Threads, NEW u \in Tasks, EnqueueCall(x, u)
          PROVE  future'[t] = future[t]
        BY <2>3 DEF EnqueueCall
    <2> QED
        BY <2>1, <2>2, <2>3
        DEF Next, Worker, Enqueue, Destroy, Terminated, vars, Acquire, WorkerLock, WorkerWait,
            WorkerReturn, WorkerPop, SpuriousWake, EnqueueLock, EnqueuePush, EnqueueNotify,
            GetCall, GetReturn, DtorCall, DtorLock, DtorStop, DtorNotify, DtorJoin
<1> QED BY Inductive, <1>1, PTL DEF FutureIsFinal, Spec

-----------------------------------------------------------------------------
(* The pool notifies its condition variable without the mutex: no wake-up is *)
(* lost all the same.                                                        *)

\* The workers on their way to the queue, and the threads about to notify.
Awake == {w \in Workers : pc[w] \in {"lock", "test"}}
Notifying == {x \in Threads : pc[x] = "enqNotify"}

\* A step that leaves the queue alone and takes nobody out of either set.
Quiet ==
    /\ UNCHANGED tasks
    /\ Awake \subseteq Awake'
    /\ Notifying \subseteq Notifying'
    /\ Asleep' \subseteq Asleep

\* The workers and the notifying threads can be counted.
LEMMA Counts ==
    /\ IsFiniteSet(Awake) /\ IsFiniteSet(Notifying)
    /\ IsFiniteSet(Awake') /\ IsFiniteSet(Notifying')
    /\ Cardinality(Awake) \in Nat /\ Cardinality(Notifying) \in Nat
    /\ Cardinality(Awake') \in Nat /\ Cardinality(Notifying') \in Nat
<1>1. IsFiniteSet(Workers) /\ IsFiniteSet(Threads)
    BY PoolAssumption, FS_AddElement DEF Threads
<1>2. /\ Awake \in SUBSET Workers /\ Notifying \in SUBSET Threads
      /\ Awake' \in SUBSET Workers /\ Notifying' \in SUBSET Threads
    BY DEF Awake, Notifying
<1>3. /\ IsFiniteSet(Awake) /\ IsFiniteSet(Notifying)
      /\ IsFiniteSet(Awake') /\ IsFiniteSet(Notifying')
    BY <1>1, <1>2, FS_Subset
<1> QED BY <1>3, FS_CardinalityType

\* The property in terms of the two sets.
LEMMA WakeupSets ==
    /\ NoLostWakeup <=>
          (Asleep # {} => Len(tasks) <= Cardinality(Awake) + Cardinality(Notifying))
    /\ NoLostWakeup' <=>
          (Asleep' # {} => Len(tasks') <= Cardinality(Awake') + Cardinality(Notifying'))
BY DEF NoLostWakeup, Awake, Notifying

\* A quiet step keeps every queued task provided for.
LEMMA QuietStep == IInv /\ NoLostWakeup /\ Quiet => NoLostWakeup'
<1> SUFFICES ASSUME IInv, NoLostWakeup, Quiet, Asleep' # {}
             PROVE  Len(tasks') <= Cardinality(Awake') + Cardinality(Notifying')
    BY DEF NoLostWakeup, Awake, Notifying
<1>1. Cardinality(Awake) <= Cardinality(Awake') /\ Cardinality(Notifying) <= Cardinality(Notifying')
    BY Counts, FS_Subset DEF Quiet
<1>2. Len(tasks) <= Cardinality(Awake) + Cardinality(Notifying)
    BY WakeupSets DEF Quiet
<1>3. Len(tasks) \in Nat
    BY DEF IInv, TypeOK
<1> QED BY <1>1, <1>2, <1>3, Counts DEF Quiet

\* No step loses a wake-up: who empties the queue may sleep, who takes a task
\* leaves one awake worker fewer for one task fewer, who adds a task is about to
\* notify, and notify_one() wakes a worker for the thread that stops notifying.
LEMMA WakeupStep == IInv /\ NoLostWakeup /\ [Next]_vars => NoLostWakeup'
<1> SUFFICES ASSUME IInv, NoLostWakeup, [Next]_vars PROVE NoLostWakeup'
    OBVIOUS
<1> USE PoolAssumption DEF IInv, TypeOK, Threads, EnqueuePc
<1>0. Len(tasks) \in Nat
    OBVIOUS
<1>1. ASSUME NEW w \in Workers, WorkerLock(w) PROVE Quiet
    BY <1>1 DEF WorkerLock, Acquire, Quiet, Awake, Notifying, Asleep
<1>2. ASSUME NEW w \in Workers, WorkerWait(w) \/ WorkerReturn(w) PROVE NoLostWakeup'
    <2>1. tasks' = <<>> /\ Len(tasks') = 0
        BY <1>2 DEF WorkerWait, WorkerReturn
    <2> QED BY <2>1, Counts, WakeupSets
<1>3. ASSUME NEW w \in Workers, WorkerPop(w) PROVE NoLostWakeup'
    <2>1. Len(tasks') = Len(tasks) - 1
        BY <1>3, HeadTailProperties DEF WorkerPop
    <2>2. w \in Awake /\ Awake' = Awake \ {w}
        BY <1>3 DEF WorkerPop, Release, Awake
    <2>3. Notifying' = Notifying /\ Asleep' = Asleep
        BY <1>3 DEF WorkerPop, Release, Notifying, Asleep
    <2>4. Cardinality(Awake') = Cardinality(Awake) - 1
        BY <2>2, Counts, FS_RemoveElement
    <2> QED BY <1>0, <2>1, <2>3, <2>4, Counts, WakeupSets
<1>4. ASSUME NEW w \in Workers, TaskEnds(w) \/ SpuriousWake(w) PROVE Quiet
    BY <1>4 DEF TaskEnds, SpuriousWake, Quiet, Awake, Notifying, Asleep
<1>5. ASSUME NEW x \in Threads, EnqueueLock(x) \/ EnqueueThrow(x) PROVE Quiet
    BY <1>5 DEF EnqueueLock, Acquire, EnqueueThrow, Release, Quiet, Awake, Notifying, Asleep
<1>6. ASSUME NEW x \in Threads, EnqueuePush(x) PROVE NoLostWakeup'
    <2>1. Len(tasks') = Len(tasks) + 1
        BY <1>6 DEF EnqueuePush
    <2>2. x \notin Notifying /\ Notifying' = Notifying \cup {x}
        BY <1>6 DEF EnqueuePush, Release, Notifying
    <2>3. Awake' = Awake /\ Asleep' = Asleep
        BY <1>6 DEF EnqueuePush, Release, Awake, Asleep
    <2>4. Cardinality(Notifying') = Cardinality(Notifying) + 1
        BY <2>2, Counts, FS_AddElement
    <2> QED BY <1>0, <2>1, <2>3, <2>4, Counts, WakeupSets
<1>7. ASSUME NEW x \in Threads, EnqueueNotify(x) PROVE NoLostWakeup'
    <2>1. CASE Asleep = {}
        <3>1. Asleep' = {}
            BY <1>7, <2>1 DEF EnqueueNotify, Asleep
        <3> QED BY <3>1 DEF NoLostWakeup
    <2>2. CASE Asleep # {}
        <3>1. PICK w \in Asleep :
                 pc' = [[pc EXCEPT ![x] = IF x = Main THEN "idle" ELSE "run"] EXCEPT ![w] = "lock"]
            BY <1>7, <2>2 DEF EnqueueNotify
        <3>2. w \in Workers /\ w \notin Awake /\ w # x /\ pc[x] = "enqNotify"
            BY <1>7, <3>1 DEF EnqueueNotify, Asleep, Awake
        <3>3. Awake' = Awake \cup {w}
            BY <3>1, <3>2 DEF Awake
        <3>4. x \in Notifying /\ Notifying' = Notifying \ {x}
            <4>1. pc[w] = "asleep" /\ w \in Threads
                BY <3>1 DEF Asleep
            <4>2. \A y \in Threads : pc'[y] = "enqNotify" <=> pc[y] = "enqNotify" /\ y # x
                BY <3>1, <3>2, <4>1
            <4> QED BY <3>2, <4>2 DEF Notifying
        <3>5. Cardinality(Awake') = Cardinality(Awake) + 1
            BY <3>2, <3>3, Counts, FS_AddElement
        <3>6. Cardinality(Notifying') = Cardinality(Notifying) - 1
            BY <3>4, Counts, FS_RemoveElement
        <3>7. UNCHANGED tasks
            BY <1>7 DEF EnqueueNotify
        <3> QED BY <1>0, <2>2, <3>5, <3>6, <3>7, Counts, WakeupSets
    <2> QED BY <2>1, <2>2
<1>8. ASSUME NEW x \in Threads, NEW t \in Tasks, EnqueueCall(x, t) PROVE Quiet
    BY <1>8 DEF EnqueueCall, Quiet, Awake, Notifying, Asleep
<1>9. ASSUME NEW t \in Tasks, GetCall(t) PROVE Quiet
    BY <1>9 DEF GetCall, Quiet, Awake, Notifying, Asleep
<1>10. CASE GetReturn \/ DtorCall
    BY <1>10, QuietStep DEF GetReturn, DtorCall, Quiet, Awake, Notifying, Asleep
<1>11. CASE DtorLock \/ DtorStop \/ DtorJoin
    BY <1>11, QuietStep DEF DtorLock, Acquire, DtorStop, Release, DtorJoin, Quiet, Awake, Notifying, Asleep
<1>12. CASE DtorNotify
    <2>1. Asleep' = {}
        BY <1>12 DEF DtorNotify, Asleep
    <2> QED BY <2>1 DEF NoLostWakeup
<1>13. CASE UNCHANGED vars
    BY <1>13, QuietStep DEF vars, Quiet, Awake, Notifying, Asleep
<1> QED
    BY <1>1, <1>2, <1>3, <1>4, <1>5, <1>6, <1>7, <1>8, <1>9, <1>10, <1>11, <1>12, <1>13, QuietStep
    DEF Next, Worker, Enqueue, Destroy, Terminated

\* While a worker sleeps, every queued task has a worker on its way to the queue
\* or a thread about to notify, although notify_one() is called without the lock.
THEOREM NoWakeupIsLost == Spec => []NoLostWakeup
<1>1. Init => NoLostWakeup
    <2> SUFFICES ASSUME Init PROVE Asleep = {}
        BY DEF NoLostWakeup
    <2> QED BY PoolAssumption DEF Init, Asleep, Threads
<1>2. IInv /\ NoLostWakeup /\ [Next]_vars => NoLostWakeup'
    BY WakeupStep
<1> QED BY <1>1, <1>2, Inductive, PTL DEF Spec

-----------------------------------------------------------------------------
(* The pool implements TaskService, step by step, for any number of workers   *)
(* and tasks.  (Its fairness, which gives the liveness of ServiceSpec, is      *)
(* checked by TLC only.)                                                       *)

\* The abstract variables: what each task's status and the pool's phase are.
statusBar == [t \in Tasks |-> statusOf(t)]
phaseBar == IF pc[Main] = "destroyed" THEN "closed" ELSE IF stop THEN "closing" ELSE "open"

Held(t) == \E w \in Workers : HeldBy(w, t)

\* Nothing the status of t depends on has changed.
SameStatus(t) ==
    /\ Held(t)' <=> Held(t)
    /\ Enqueueing(t)' <=> Enqueueing(t)
    /\ future'[t] = future[t]

\* The status of a task in terms of who holds it and what its future says.
LEMMA StatusCases ==
    ASSUME NEW t \in Tasks
    PROVE  /\ Held(t) => statusOf(t) = "running"
           /\ ~Held(t) /\ (future[t] = "none" \/ Enqueueing(t)) => statusOf(t) = "new"
           /\ ~Held(t) /\ ~Enqueueing(t) /\ future[t] = "pending" => statusOf(t) = "queued"
           /\ ~Held(t) /\ ~Enqueueing(t) /\ future[t] \notin {"none", "pending"}
                 => statusOf(t) = future[t]
           /\ Held(t)' => statusOf(t)' = "running"
           /\ ~Held(t)' /\ (future'[t] = "none" \/ Enqueueing(t)') => statusOf(t)' = "new"
           /\ ~Held(t)' /\ ~Enqueueing(t)' /\ future'[t] = "pending" => statusOf(t)' = "queued"
           /\ ~Held(t)' /\ ~Enqueueing(t)' /\ future'[t] \notin {"none", "pending"}
                 => statusOf(t)' = future'[t]
           /\ SameStatus(t) => statusOf(t)' = statusOf(t)
BY DEF statusOf, Held, SameStatus

\* The tasks that run abstractly are those the workers hold.
LEMMA RunningIsHeld ==
    ASSUME IInv
    PROVE  /\ Service!Running = {t \in Tasks : Held(t)}
           /\ \A t \in Tasks : statusOf(t) = "running" <=> Held(t)
<1>1. \A t \in Tasks : statusOf(t) = "running" <=> Held(t)
    BY DEF statusOf, Held, IInv, TypeOK, Outcome
<1> QED BY <1>1 DEF Service!Running

\* A step that changes no status, no queue and no phase is a stutter.
LEMMA Stutter ==
    ASSUME \A t \in Tasks : SameStatus(t), UNCHANGED <<tasks, phaseBar>>
    PROVE  UNCHANGED Service!vars
<1>1. \A t \in Tasks : statusOf(t)' = statusOf(t)
    BY StatusCases
<1>2. statusBar' = statusBar
    BY <1>1 DEF statusBar
<1> QED BY <1>2 DEF Service!vars, statusBar, phaseBar

\* A step that changes one status changes the function at that place.
LEMMA StatusExcept ==
    ASSUME NEW t \in Tasks, NEW r, statusOf(t)' = r,
           \A u \in Tasks \ {t} : SameStatus(u)
    PROVE  statusBar' = [statusBar EXCEPT ![t] = r]
<1>1. \A u \in Tasks : statusOf(u)' = IF u = t THEN r ELSE statusOf(u)
    BY StatusCases
<1> QED BY <1>1 DEF statusBar

\* The steps that callers cannot see.
LEMMA HiddenStep ==
    ASSUME IInv,
           \/ \E w \in Workers : WorkerLock(w) \/ WorkerWait(w) \/ WorkerReturn(w) \/ SpuriousWake(w)
           \/ \E x \in Threads : EnqueueLock(x) \/ EnqueueNotify(x)
           \/ \E t \in Tasks : GetCall(t)
           \/ GetReturn \/ DtorCall \/ DtorLock \/ DtorNotify \/ UNCHANGED vars
    PROVE  UNCHANGED Service!vars
<1>1. UNCHANGED <<tasks, current, future, stop>>
    BY DEF WorkerLock, WorkerWait, WorkerReturn, SpuriousWake, EnqueueLock, Acquire, EnqueueNotify,
           GetCall, GetReturn, DtorCall, DtorLock, DtorNotify, vars
<1>2. \A x \in Threads :
         /\ pc'[x] \in {"enqLock", "enqPush"} <=> pc[x] \in {"enqLock", "enqPush"}
         /\ pc[x] \in {"enqLock", "enqPush"} => arg'[x] = arg[x]
    BY PoolAssumption
    DEF WorkerLock, WorkerWait, WorkerReturn, SpuriousWake, EnqueueLock, Acquire, Release,
        EnqueueNotify, GetCall, GetReturn, DtorCall, DtorLock, DtorNotify, vars, IInv, TypeOK,
        Threads, Asleep
<1>3. pc'[Main] = "destroyed" <=> pc[Main] = "destroyed"
    BY PoolAssumption
    DEF WorkerLock, WorkerWait, WorkerReturn, SpuriousWake, EnqueueLock, Acquire, Release,
        EnqueueNotify, GetCall, GetReturn, DtorCall, DtorLock, DtorNotify, vars, IInv, TypeOK,
        Threads, Asleep
<1>4. \A t \in Tasks : SameStatus(t)
    BY <1>1, <1>2 DEF SameStatus, Held, HeldBy, Enqueueing
<1> QED BY <1>1, <1>3, <1>4, Stutter DEF phaseBar

\* enqueue() up to the lock: the task is pending but still new to the service.
LEMMA CallStep ==
    ASSUME IInv, NEW x \in Threads, NEW t \in Tasks, EnqueueCall(x, t)
    PROVE  UNCHANGED Service!vars
<1> USE PoolAssumption DEF IInv, TypeOK, Threads, EnqueueCall
<1>1. ~Held(t) /\ ~Held(t)'
    BY DEF OnePlace, Held, HeldBy
<1>2. Enqueueing(t)'
    BY DEF Enqueueing
<1>3. statusOf(t) = "new" /\ statusOf(t)' = "new"
    BY <1>1, <1>2, StatusCases
<1>4. \A u \in Tasks \ {t} : SameStatus(u)
    <2>1. arg[x] = NoTask
        BY DEF Bookkeeping, EnqueuePc
    <2> QED BY <2>1 DEF SameStatus, Held, HeldBy, Enqueueing
<1>5. statusBar' = statusBar
    BY <1>3, <1>4, StatusCases DEF statusBar
<1>6. phaseBar' = phaseBar
    BY DEF phaseBar
<1> QED BY <1>5, <1>6 DEF Service!vars, statusBar, phaseBar

\* The push under the lock accepts the task.
LEMMA PushStep ==
    ASSUME IInv, NEW x \in Threads, NEW t \in Tasks, arg[x] = t, EnqueuePush(x)
    PROVE  Service!Accept(t)
<1> USE PoolAssumption DEF IInv, TypeOK, Threads
<1>2. /\ future[t] = "pending" /\ ~Held(t)
      /\ \A y \in Threads : Pushing(y) /\ x # y => arg[y] # t
    BY DEF EnqueuePush, Accounted, Pushing, Held, HeldBy
<1>3. /\ Enqueueing(t) /\ ~Enqueueing(t)'
      /\ \A u \in Tasks \ {t} : SameStatus(u)
      /\ ~Held(t)' /\ future'[t] = "pending"
    BY <1>2 DEF EnqueuePush, Release, Enqueueing, Pushing, SameStatus, Held, HeldBy
<1>4. statusOf(t) = "new" /\ statusOf(t)' = "queued"
    BY <1>2, <1>3, StatusCases
<1>5. statusBar[t] = "new" /\ statusBar' = [statusBar EXCEPT ![t] = "queued"]
    BY <1>3, <1>4, StatusExcept DEF statusBar
<1>6. phaseBar = "open" /\ phaseBar' = phaseBar
    BY DEF EnqueuePush, Release, Shutdown, phaseBar
<1>7. tasks' = Append(tasks, t)
    BY DEF EnqueuePush
<1> QED BY <1>5, <1>6, <1>7 DEF Service!Accept, statusBar, phaseBar

\* The throw rejects the task, and only a running task can be told so.
LEMMA ThrowStep ==
    ASSUME IInv, NEW x \in Threads, NEW t \in Tasks, arg[x] = t, EnqueueThrow(x)
    PROVE  Service!Reject(t)
<1> USE PoolAssumption DEF IInv, TypeOK, Threads
<1>2. /\ future[t] = "pending" /\ ~Held(t)
      /\ \A y \in Threads : Pushing(y) /\ x # y => arg[y] # t
    BY DEF EnqueueThrow, Accounted, Pushing, Held, HeldBy
<1>3. /\ Enqueueing(t) /\ ~Enqueueing(t)'
      /\ \A u \in Tasks \ {t} : SameStatus(u)
      /\ ~Held(t)' /\ future'[t] = "rejected"
    <2>1. /\ pc[x] = "enqPush" /\ pc' = [pc EXCEPT ![x] = "unwind"]
          /\ arg' = [arg EXCEPT ![x] = NoTask] /\ UNCHANGED current
          /\ future' = [future EXCEPT ![t] = "rejected"]
        BY DEF EnqueueThrow, Release
    <2> QED BY <1>2, <2>1 DEF Enqueueing, Pushing, SameStatus, Held, HeldBy
<1>4. statusOf(t) = "new" /\ statusOf(t)' = "rejected"
    BY <1>2, <1>3, StatusCases
<1>5. statusBar[t] = "new" /\ statusBar' = [statusBar EXCEPT ![t] = "rejected"]
    BY <1>3, <1>4, StatusExcept DEF statusBar
<1>6. x \in Workers /\ pc[Main] # "destroyed"
    BY DEF EnqueueThrow, Shutdown
<1>7. phaseBar = "closing" /\ phaseBar' = phaseBar
    BY <1>6 DEF EnqueueThrow, Release, phaseBar
<1>8. current[x] \in Tasks /\ Held(current[x])
    BY <1>6 DEF EnqueueThrow, Bookkeeping, EnqueuePc, Held, HeldBy
<1>9. Service!Running # {}
    BY <1>8, RunningIsHeld
<1>10. UNCHANGED tasks
    BY DEF EnqueueThrow
<1> QED BY <1>5, <1>7, <1>9, <1>10 DEF Service!Reject, statusBar, phaseBar

\* With a worker that holds nothing, fewer tasks run than there are workers.
LEMMA FreeWorker ==
    ASSUME IInv, NEW w \in Workers, current[w] = NoTask
    PROVE  Cardinality(Service!Running) < Cardinality(Workers)
<1> DEFINE R == {t \in Tasks : Held(t)}
           f == [t \in R |-> CHOOSE v \in Workers : current[v] = t]
<1>1. \A t \in R : f[t] \in Workers \ {w} /\ current[f[t]] = t
    BY PoolAssumption DEF Held, HeldBy
<1>2. f \in Injection(R, Workers \ {w})
    BY <1>1 DEF Injection, IsInjective
<1>3. IsFiniteSet(Workers \ {w}) /\ Cardinality(Workers \ {w}) = Cardinality(Workers) - 1
    BY PoolAssumption, FS_RemoveElement
<1>4. IsFiniteSet(R) /\ Cardinality(R) <= Cardinality(Workers \ {w})
    BY <1>2, <1>3, FS_Injection
<1>5. Cardinality(R) \in Nat /\ Cardinality(Workers) \in Nat
    BY <1>4, PoolAssumption, FS_CardinalityType
<1>6. Service!Running = R
    BY RunningIsHeld
<1> QED BY <1>3, <1>4, <1>5, <1>6

\* A worker that pops starts the oldest task of the backlog.
LEMMA PopStep ==
    ASSUME IInv, NEW w \in Workers, NEW t \in Tasks, Head(tasks) = t, WorkerPop(w)
    PROVE  Service!Start
<1> USE PoolAssumption DEF IInv, TypeOK, Threads
<1>1. current[w] = NoTask
    BY DEF WorkerPop, Bookkeeping, EnqueuePc
<1>2. /\ Held(t)'
      /\ \A u \in Tasks \ {t} : SameStatus(u)
    <2>1. /\ pc[w] = "test" /\ pc' = [pc EXCEPT ![w] = "run"] /\ UNCHANGED <<arg, future>>
          /\ current' = [current EXCEPT ![w] = t]
        BY DEF WorkerPop, Release
    <2> QED BY <1>1, <2>1 DEF Enqueueing, SameStatus, Held, HeldBy
<1>3. statusBar' = [statusBar EXCEPT ![Head(tasks)] = "running"]
    BY <1>1, <1>2, StatusCases, StatusExcept
<1>4. phaseBar' = phaseBar
    BY DEF WorkerPop, Release, phaseBar
<1>5. tasks # <<>> /\ tasks' = Tail(tasks)
    BY DEF WorkerPop
<1>6. Cardinality(Service!Running) < Cardinality(Workers)
    BY <1>1, FreeWorker
<1>7. Service!Cardinality(Service!Running) = Cardinality(Service!Running)
    BY DEF Service!Cardinality, Cardinality
<1> QED BY <1>3, <1>4, <1>5, <1>6, <1>7, Zenon DEF Service!Start, statusBar, phaseBar

\* The end of a callable finishes its task with the outcome its future keeps.
LEMMA EndStep ==
    ASSUME IInv, NEW w \in Workers, NEW t \in Tasks, current[w] = t, TaskEnds(w)
    PROVE  Service!Finish(t)
<1> USE PoolAssumption DEF IInv, TypeOK, Threads
<1>2. PICK r \in Outcome : future' = [future EXCEPT ![t] = r]
    BY DEF TaskEnds
<1>3. /\ future[t] = "pending"
      /\ \A v \in Workers : v # w => current[v] # t
      /\ \A x \in Threads : Pushing(x) => arg[x] # t
    BY DEF OnePlace, Accounted, HeldBy
<1>4. /\ Held(t) /\ ~Held(t)'
      /\ ~Enqueueing(t)'
      /\ \A u \in Tasks \ {t} : SameStatus(u)
    <2>1. /\ pc[w] \in {"run", "unwind"} /\ pc' = [pc EXCEPT ![w] = "lock"] /\ UNCHANGED arg
          /\ current' = [current EXCEPT ![w] = NoTask]
        BY DEF TaskEnds
    <2> QED BY <1>2, <1>3, <2>1 DEF Enqueueing, Pushing, SameStatus, Held, HeldBy
<1>5. statusOf(t) = "running" /\ statusOf(t)' = r
    BY <1>2, <1>4, StatusCases DEF Outcome
<1>6. statusBar[t] = "running" /\ statusBar' = [statusBar EXCEPT ![t] = r]
    BY <1>4, <1>5, StatusExcept DEF statusBar
<1>7. UNCHANGED <<tasks, phaseBar>>
    BY DEF TaskEnds, phaseBar
<1> QED BY <1>2, <1>6, <1>7 DEF Service!Finish, Service!Outcome, Outcome, statusBar, phaseBar

\* Setting stop begins to close the service.
LEMMA StopStep ==
    ASSUME IInv, DtorStop
    PROVE  Service!BeginClose
<1> USE PoolAssumption DEF IInv, TypeOK, Threads
<1>1. /\ pc[Main] = "dtorStop" /\ pc' = [pc EXCEPT ![Main] = "dtorNotify"] /\ stop'
      /\ UNCHANGED <<tasks, current, arg, future>>
    BY DEF DtorStop, Release
<1>2. phaseBar = "open" /\ phaseBar' = "closing"
    BY <1>1 DEF Shutdown, phaseBar
<1>3. \A t \in Tasks : SameStatus(t)
    BY <1>1 DEF Enqueueing, SameStatus, Held, HeldBy
<1>4. statusBar' = statusBar
    BY <1>3, StatusCases DEF statusBar
<1> QED BY <1>1, <1>2, <1>4 DEF Service!BeginClose, statusBar, phaseBar

\* The last join() closes it: the backlog is empty and nothing runs.
LEMMA JoinStep ==
    ASSUME IInv, DtorJoin
    PROVE  Service!Close
<1> USE PoolAssumption DEF IInv, TypeOK, Threads
<1>1. /\ pc[Main] = "join" /\ pc' = [pc EXCEPT ![Main] = "destroyed"]
      /\ \A w \in Workers : pc[w] = "returned"
      /\ UNCHANGED <<tasks, stop, current, arg, future>>
    BY DEF DtorJoin
<1>2. phaseBar = "closing" /\ phaseBar' = "closed"
    BY <1>1 DEF Shutdown, phaseBar
<1>3. tasks = <<>>
    BY <1>1 DEF Shutdown
<1>4. \A t \in Tasks : ~Held(t)
    BY <1>1 DEF Bookkeeping, EnqueuePc, Held, HeldBy
<1>5. Service!Running = {}
    BY <1>4, RunningIsHeld
<1>6. \A t \in Tasks : SameStatus(t)
    BY <1>1 DEF Enqueueing, SameStatus, Held, HeldBy
<1>7. statusBar' = statusBar
    BY <1>6, StatusCases DEF statusBar
<1> QED BY <1>1, <1>2, <1>3, <1>5, <1>7 DEF Service!Close, statusBar, phaseBar

\* Every step of the pool is a step of the service or invisible to its callers.
LEMMA ServiceStep == IInv /\ [Next]_vars => [Service!Next]_(Service!vars)
<1> SUFFICES ASSUME IInv, [Next]_vars PROVE Service!Next \/ UNCHANGED Service!vars
    OBVIOUS
<1>1. ASSUME NEW x \in Threads, EnqueuePush(x) PROVE Service!Next
    <2>1. arg[x] \in Tasks
        BY <1>1 DEF EnqueuePush, IInv, TypeOK, Bookkeeping, EnqueuePc
    <2> QED BY <1>1, <2>1, PushStep DEF Service!Next
<1>2. ASSUME NEW x \in Threads, EnqueueThrow(x) PROVE Service!Next
    <2>1. arg[x] \in Tasks
        BY <1>2 DEF EnqueueThrow, IInv, TypeOK, Bookkeeping, EnqueuePc
    <2> QED BY <1>2, <2>1, ThrowStep DEF Service!Next
<1>3. ASSUME NEW w \in Workers, WorkerPop(w) PROVE Service!Next
    <2>1. Head(tasks) \in Tasks
        BY <1>3, HeadTailProperties DEF WorkerPop, IInv, TypeOK
    <2> QED BY <1>3, <2>1, PopStep DEF Service!Next
<1>4. ASSUME NEW w \in Workers, TaskEnds(w) PROVE Service!Next
    <2>1. current[w] \in Tasks
        BY <1>4 DEF TaskEnds, IInv, TypeOK, Bookkeeping
    <2> QED BY <1>4, <2>1, EndStep DEF Service!Next
<1>5. ASSUME NEW x \in Threads, NEW t \in Tasks, EnqueueCall(x, t)
      PROVE  UNCHANGED Service!vars
    BY <1>5, CallStep
<1>6. CASE DtorStop
    BY <1>6, StopStep DEF Service!Next
<1>7. CASE DtorJoin
    BY <1>7, JoinStep DEF Service!Next
<1>8. CASE \/ \E w \in Workers : WorkerLock(w) \/ WorkerWait(w) \/ WorkerReturn(w) \/ SpuriousWake(w)
           \/ \E x \in Threads : EnqueueLock(x) \/ EnqueueNotify(x)
           \/ \E t \in Tasks : GetCall(t)
           \/ GetReturn \/ DtorCall \/ DtorLock \/ DtorNotify \/ UNCHANGED vars
    BY <1>8, HiddenStep
<1> QED
    BY <1>1, <1>2, <1>3, <1>4, <1>5, <1>6, <1>7, <1>8
    DEF Next, Worker, Enqueue, Destroy, Terminated

\* The pool's initial state is the service's.
LEMMA ServiceInit == Init => Service!Init
<1> SUFFICES ASSUME Init PROVE Service!Init
    OBVIOUS
<1> USE PoolAssumption DEF Init, Threads
<1>1. \A t \in Tasks : statusOf(t) = "new"
    BY DEF statusOf, HeldBy
<1>2. pc[Main] = "idle"
    OBVIOUS
<1> QED BY <1>1, <1>2 DEF Service!Init

\* Whatever the interleaving of workers, callers and destructor, callers see the
\* service: accepted tasks are started first in, first out, at most one per
\* worker, each once, none after the close, and the close waits for all of them.
THEOREM PoolImplementsService == Spec => Service!Init /\ [][Service!Next]_(Service!vars)
<1>1. IInv /\ [Next]_vars => [Service!Next]_(Service!vars)
    BY ServiceStep
<1> QED BY ServiceInit, <1>1, Inductive, PTL DEF Spec
=============================================================================
