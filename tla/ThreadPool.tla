------------------------------ MODULE ThreadPool ------------------------------
(***************************************************************************)
(* The thread pool of threadpool.h: worker threads that take callables off *)
(* a queue guarded by queue_mutex and sleep on the condition variable      *)
(* "condition", enqueue() called by the owning thread or from inside a     *)
(* running task, and the destructor.  One action is one atomic step of one *)
(* thread: taking the mutex, a critical section with its unlock, a notify. *)
(***************************************************************************)
EXTENDS Naturals, Sequences, FiniteSets

CONSTANTS Workers,      \* the threads the constructor starts
          Main,         \* the thread that owns the pool
          Tasks,        \* identities of the callables passed to enqueue
          NoThread, NoTask,
          MaxSpurious   \* bound on the spurious wake-ups of condition.wait

ASSUME PoolAssumption ==
    /\ IsFiniteSet(Workers)
    /\ Main \notin Workers
    /\ NoThread \notin Workers \cup {Main}
    /\ NoTask \notin Tasks
    /\ Workers # {}   \* hardware_concurrency() > 0
    /\ MaxSpurious \in Nat

VARIABLES tasks,     \* the queue, front first
          owner,     \* who holds queue_mutex
          stop,
          pc,        \* where each thread is
          current,   \* the callable a worker has moved out of the queue
          arg,       \* the task a thread is enqueueing or waiting for
          future,    \* the shared state of each packaged_task
          results,   \* the futures the owner holds and has not called get() on
          spurious   \* spurious wake-ups so far

vars == <<tasks, owner, stop, pc, current, arg, future, results, spurious>>

Threads == Workers \cup {Main}
Outcome == {"value", "exception"}
EnqueuePc == {"enqLock", "enqPush", "enqNotify"}
WorkerPc == EnqueuePc \cup {"lock", "test", "asleep", "run", "unwind", "returned"}
MainPc == EnqueuePc \cup {"idle", "unwind", "get", "dtorLock", "dtorStop", "dtorNotify",
                          "join", "destroyed"}

Asleep == {w \in Workers : pc[w] = "asleep"}

Init ==
    /\ tasks = <<>>
    /\ owner = NoThread
    /\ stop = FALSE
    /\ pc = [x \in Threads |-> IF x = Main THEN "idle" ELSE "lock"]
    /\ current = [w \in Workers |-> NoTask]
    /\ arg = [x \in Threads |-> NoTask]
    /\ future = [t \in Tasks |-> "none"]
    /\ results = {}
    /\ spurious = 0

-----------------------------------------------------------------------------
(* queue_mutex *)

Acquire(x, from, to) ==
    /\ pc[x] = from
    /\ owner = NoThread
    /\ owner' = x
    /\ pc' = [pc EXCEPT ![x] = to]
    /\ UNCHANGED <<tasks, stop, current, arg, future, results, spurious>>

\* The unique_lock goes out of scope and its thread goes on at "to".
Release(x, to) ==
    /\ owner' = NoThread
    /\ pc' = [pc EXCEPT ![x] = to]

-----------------------------------------------------------------------------
(* The worker's loop *)

\* Taking the lock, at the top of the loop or again inside condition.wait.
WorkerLock(w) == Acquire(w, "lock", "test")

\* Bug: sleeping without testing the predicate first.
WorkerWaitBlindly(w) ==
    /\ pc[w] = "test"
    /\ ~stop
    /\ Release(w, "asleep")
    /\ UNCHANGED <<tasks, stop, current, arg, future, results, spurious>>

\* Bug: the predicate forgets stop.
WorkerWaitDeafToStop(w) ==
    /\ pc[w] = "test"
    /\ tasks = <<>>
    /\ Release(w, "asleep")
    /\ UNCHANGED <<tasks, stop, current, arg, future, results, spurious>>

WorkerWait(w) ==
    /\ pc[w] = "test"
    /\ ~stop
    /\ tasks = <<>>
    /\ Release(w, "asleep")
    /\ UNCHANGED <<tasks, stop, current, arg, future, results, spurious>>

\* Bug: returning as soon as stop is seen.
WorkerReturnAtOnce(w) ==
    /\ pc[w] = "test"
    /\ stop
    /\ Release(w, "returned")
    /\ UNCHANGED <<tasks, stop, current, arg, future, results, spurious>>

WorkerReturn(w) ==
    /\ pc[w] = "test"
    /\ stop
    /\ tasks = <<>>
    /\ Release(w, "returned")
    /\ UNCHANGED <<tasks, stop, current, arg, future, results, spurious>>

\* Bug: front() without pop().
WorkerPeek(w) ==
    /\ pc[w] = "test"
    /\ tasks # <<>>
    /\ current' = [current EXCEPT ![w] = Head(tasks)]
    /\ Release(w, "run")
    /\ UNCHANGED <<tasks, stop, arg, future, results, spurious>>

\* Bug: taking the newest task.
WorkerPopBack(w) ==
    /\ pc[w] = "test"
    /\ tasks # <<>>
    /\ current' = [current EXCEPT ![w] = tasks[Len(tasks)]]
    /\ tasks' = SubSeq(tasks, 1, Len(tasks) - 1)
    /\ Release(w, "run")
    /\ UNCHANGED <<stop, arg, future, results, spurious>>

WorkerPop(w) ==
    /\ pc[w] = "test"
    /\ tasks # <<>>
    /\ current' = [current EXCEPT ![w] = Head(tasks)]
    /\ tasks' = Tail(tasks)
    /\ Release(w, "run")
    /\ UNCHANGED <<stop, arg, future, results, spurious>>

\* Bug: an exception that ends the callable never reaches its future.
TaskEndsSilently(w) ==
    /\ pc[w] \in {"run", "unwind"}
    /\ \/ pc[w] = "run" /\ future' = [future EXCEPT ![current[w]] = "value"]
       \/ UNCHANGED future
    /\ current' = [current EXCEPT ![w] = NoTask]
    /\ pc' = [pc EXCEPT ![w] = "lock"]
    /\ UNCHANGED <<tasks, owner, stop, arg, results, spurious>>

\* task() returns, or an exception ends the callable: packaged_task keeps either.
TaskEnds(w) ==
    /\ pc[w] \in {"run", "unwind"}
    /\ \E r \in Outcome :
          /\ pc[w] = "unwind" => r = "exception"
          /\ future' = [future EXCEPT ![current[w]] = r]
    /\ current' = [current EXCEPT ![w] = NoTask]
    /\ pc' = [pc EXCEPT ![w] = "lock"]
    /\ UNCHANGED <<tasks, owner, stop, arg, results, spurious>>

SpuriousWake(w) ==
    /\ pc[w] = "asleep"
    /\ spurious < MaxSpurious
    /\ spurious' = spurious + 1
    /\ pc' = [pc EXCEPT ![w] = "lock"]
    /\ UNCHANGED <<tasks, owner, stop, current, arg, future, results>>

-----------------------------------------------------------------------------
(* enqueue(), by the owner or by the body of a running task *)

\* Bug: the callable is moved out of the wrapper before it is queued.
EnqueueCallMovedFrom(x, t) ==
    /\ pc[x] = IF x = Main THEN "idle" ELSE "run"
    /\ future[t] = "none"
    /\ future' = [future EXCEPT ![t] = "pending"]
    /\ pc' = [pc EXCEPT ![x] = "enqLock"]
    /\ UNCHANGED <<tasks, owner, stop, current, arg, results, spurious>>

EnqueueCall(x, t) ==
    /\ pc[x] = IF x = Main THEN "idle" ELSE "run"
    /\ future[t] = "none"
    /\ future' = [future EXCEPT ![t] = "pending"]
    /\ arg' = [arg EXCEPT ![x] = t]
    /\ pc' = [pc EXCEPT ![x] = "enqLock"]
    /\ UNCHANGED <<tasks, owner, stop, current, results, spurious>>

EnqueueLock(x) == Acquire(x, "enqLock", "enqPush")

\* Bug: the task is queued before stop is tested.
EnqueueThrowLate(x) ==
    /\ pc[x] = "enqPush"
    /\ stop
    /\ tasks' = Append(tasks, arg[x])
    /\ future' = [future EXCEPT ![arg[x]] = "rejected"]
    /\ arg' = [arg EXCEPT ![x] = NoTask]
    /\ Release(x, "unwind")
    /\ UNCHANGED <<stop, current, results, spurious>>

\* Both the packaged_task and its future die with the throw.
EnqueueThrow(x) ==
    /\ pc[x] = "enqPush"
    /\ stop
    /\ future' = [future EXCEPT ![arg[x]] = "rejected"]
    /\ arg' = [arg EXCEPT ![x] = NoTask]
    /\ Release(x, "unwind")
    /\ UNCHANGED <<tasks, stop, current, results, spurious>>

EnqueuePush(x) ==
    /\ pc[x] = "enqPush"
    /\ ~stop
    /\ tasks' = Append(tasks, arg[x])
    /\ Release(x, "enqNotify")
    /\ UNCHANGED <<stop, current, arg, future, results, spurious>>

\* Bug: no notify_one().
EnqueueNoNotify(x) ==
    /\ pc[x] = "enqNotify"
    /\ pc' = [pc EXCEPT ![x] = IF x = Main THEN "idle" ELSE "run"]
    /\ results' = IF x = Main THEN results \cup {arg[x]} ELSE results
    /\ arg' = [arg EXCEPT ![x] = NoTask]
    /\ UNCHANGED <<tasks, owner, stop, current, future, spurious>>

\* notify_one() without the lock, then return res.
EnqueueNotify(x) ==
    /\ pc[x] = "enqNotify"
    /\ LET returned == [pc EXCEPT ![x] = IF x = Main THEN "idle" ELSE "run"]
       IN  \/ Asleep = {} /\ pc' = returned
           \/ \E w \in Asleep : pc' = [returned EXCEPT ![w] = "lock"]
    /\ results' = IF x = Main THEN results \cup {arg[x]} ELSE results
    /\ arg' = [arg EXCEPT ![x] = NoTask]
    /\ UNCHANGED <<tasks, owner, stop, current, future, spurious>>

-----------------------------------------------------------------------------
(* The owner's get() calls and ~ThreadPool() *)

GetCall(t) ==
    /\ pc[Main] = "idle"
    /\ t \in results
    /\ results' = results \ {t}
    /\ arg' = [arg EXCEPT ![Main] = t]
    /\ pc' = [pc EXCEPT ![Main] = "get"]
    /\ UNCHANGED <<tasks, owner, stop, current, future, spurious>>

\* An exception is rethrown to the owner, whose unwinding destroys the pool.
GetReturn ==
    /\ pc[Main] = "get"
    /\ future[arg[Main]] \in Outcome
    /\ pc' = [pc EXCEPT ![Main] = IF future[arg[Main]] = "value" THEN "idle"
                                                                  ELSE "dtorLock"]
    /\ arg' = [arg EXCEPT ![Main] = NoTask]
    /\ UNCHANGED <<tasks, owner, stop, current, future, results, spurious>>

DtorCall ==
    /\ pc[Main] = "idle"
    /\ pc' = [pc EXCEPT ![Main] = "dtorLock"]
    /\ UNCHANGED <<tasks, owner, stop, current, arg, future, results, spurious>>

DtorLock == Acquire(Main, "dtorLock", "dtorStop")

DtorStop ==
    /\ pc[Main] = "dtorStop"
    /\ stop' = TRUE
    /\ Release(Main, "dtorNotify")
    /\ UNCHANGED <<tasks, current, arg, future, results, spurious>>

\* Bug: notify_one() in the destructor.
DtorNotifyOne ==
    /\ pc[Main] = "dtorNotify"
    /\ LET joining == [pc EXCEPT ![Main] = "join"]
       IN  \/ Asleep = {} /\ pc' = joining
           \/ \E w \in Asleep : pc' = [joining EXCEPT ![w] = "lock"]
    /\ UNCHANGED <<tasks, owner, stop, current, arg, future, results, spurious>>

\* notify_all() without the lock.
DtorNotify ==
    /\ pc[Main] = "dtorNotify"
    /\ pc' = [x \in Threads |-> IF x = Main THEN "join"
                                ELSE IF x \in Asleep THEN "lock"
                                ELSE pc[x]]
    /\ UNCHANGED <<tasks, owner, stop, current, arg, future, results, spurious>>

DtorJoin ==
    /\ pc[Main] = "join"
    /\ \A w \in Workers : pc[w] = "returned"
    /\ pc' = [pc EXCEPT ![Main] = "destroyed"]
    /\ UNCHANGED <<tasks, owner, stop, current, arg, future, results, spurious>>

-----------------------------------------------------------------------------
Worker(w) ==
    \/ WorkerLock(w)
    \/ WorkerWait(w)
    \/ WorkerReturn(w)
    \/ WorkerPop(w)
    \/ TaskEnds(w)

Enqueue(x) ==
    \/ EnqueueLock(x)
    \/ EnqueueThrow(x)
    \/ EnqueuePush(x)
    \/ EnqueueNotify(x)

Destroy == DtorLock \/ DtorStop \/ DtorNotify \/ DtorJoin

\* Nothing is left to run: every worker has returned and the pool is gone.
Terminated == pc[Main] = "destroyed" /\ UNCHANGED vars

Next ==
    \/ \E w \in Workers : Worker(w) \/ SpuriousWake(w)
    \/ \E x \in Threads : Enqueue(x) \/ \E t \in Tasks : EnqueueCall(x, t)
    \/ \E t \in Tasks : GetCall(t)
    \/ GetReturn
    \/ DtorCall
    \/ Destroy
    \/ Terminated

\* A thread that can take a step is eventually scheduled, and a callable ends.
\* Nothing obliges the owner to enqueue, to get() or to destroy the pool.
Fairness ==
    /\ \A w \in Workers : WF_vars(Worker(w))
    /\ \A x \in Threads : WF_vars(Enqueue(x))
    /\ WF_vars(GetReturn)
    /\ WF_vars(Destroy)

Spec == Init /\ [][Next]_vars
FairSpec == Spec /\ Fairness

-----------------------------------------------------------------------------
(* Properties *)

TypeOK ==
    /\ tasks \in Seq(Tasks)
    /\ owner \in Threads \cup {NoThread}
    /\ stop \in BOOLEAN
    /\ pc \in [Threads -> WorkerPc \cup MainPc]
    /\ \A w \in Workers : pc[w] \in WorkerPc
    /\ pc[Main] \in MainPc
    /\ current \in [Workers -> Tasks \cup {NoTask}]
    /\ arg \in [Threads -> Tasks \cup {NoTask}]
    /\ future \in [Tasks -> {"none", "pending", "rejected"} \cup Outcome]
    /\ results \in SUBSET Tasks
    /\ spurious \in 0..MaxSpurious

Distinct(s) == \A i, j \in 1..Len(s) : i # j => s[i] # s[j]
Contains(s, t) == \E i \in 1..Len(s) : s[i] = t
InQueue(t) == Contains(tasks, t)
HeldBy(w, t) == current[w] = t

\* A task whose packaged_task has been called or is still to be called is in
\* exactly one place: never twice in the queue, never in the queue and in a
\* worker, never in two workers, and nowhere once its future is ready.
OnePlace ==
    /\ Distinct(tasks)
    /\ \A w, v \in Workers : w # v => current[w] # current[v] \/ current[w] = NoTask
    /\ \A w \in Workers : ~InQueue(current[w])
    /\ \A t \in Tasks : InQueue(t) \/ (\E w \in Workers : HeldBy(w, t)) => future[t] = "pending"

\* No wake-up is lost (the hazard of notifying without the lock): while a
\* worker sleeps, every queued task has a worker on its way to the queue or an
\* enqueue() about to notify.
NoLostWakeup ==
    Asleep # {} =>
        Len(tasks) <= Cardinality({w \in Workers : pc[w] \in {"lock", "test"}})
                      + Cardinality({x \in Threads : pc[x] = "enqNotify"})

\* Once the destructor has notified, no worker sleeps on: join() would hang.
NoSleeperAfterStop ==
    pc[Main] \in {"join", "destroyed"} => Asleep = {}

\* When the destructor returns, the queue is empty, every accepted task has run
\* to its end, and no thread will touch the pool's mutex or queue again.
DestroyedIsDrained ==
    pc[Main] = "destroyed" =>
        /\ tasks = <<>>
        /\ owner = NoThread
        /\ \A t \in Tasks : future[t] # "pending"
        /\ \A w \in Workers : pc[w] = "returned"

\* A future is set at most once and keeps its outcome; a task that was never
\* accepted never runs.
FutureIsFinal ==
    [][\A t \in Tasks : future[t] \in Outcome \cup {"rejected"} => future'[t] = future[t]]_vars

\* Every accepted task is run, whether or not the owner ever waits for it.
EveryTaskRuns == \A t \in Tasks : InQueue(t) ~> future[t] \in Outcome

\* The destructor returns: no worker is left asleep, none waits for another.
DestructorReturns == pc[Main] = "dtorLock" ~> pc[Main] = "destroyed"

\* A get() on a future the pool handed out returns.
GetReturns == pc[Main] = "get" ~> pc[Main] # "get"

-----------------------------------------------------------------------------
(* The pool implements TaskService. *)

Enqueueing(t) == \E x \in Threads : arg[x] = t /\ pc[x] \in {"enqLock", "enqPush"}

statusOf(t) ==
    IF \E w \in Workers : HeldBy(w, t) THEN "running"
    ELSE IF future[t] = "none" \/ Enqueueing(t) THEN "new"
    ELSE IF future[t] = "pending" THEN "queued"
    ELSE future[t]

Service == INSTANCE TaskService WITH
    N <- Cardinality(Workers),
    status <- [t \in Tasks |-> statusOf(t)],
    backlog <- tasks,
    phase <- IF pc[Main] = "destroyed" THEN "closed"
             ELSE IF stop THEN "closing" ELSE "open"

\* What callers are promised, with its liveness, whatever the interleaving.
ServiceSpec == Service!Spec
=============================================================================
