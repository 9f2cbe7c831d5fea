----------------------------- MODULE TaskService -----------------------------
(***************************************************************************)
(* What the pool of threadpool.h promises to its callers, without threads, *)
(* mutex or condition variable: accepted tasks are started in the order    *)
(* they were accepted, at most N at a time, each of them once; after close *)
(* nothing is accepted and the service is closed only when all accepted    *)
(* tasks are over.                                                         *)
(***************************************************************************)
EXTENDS Naturals, Sequences, FiniteSets

CONSTANTS Tasks,  \* identities of the submitted callables
          N       \* a natural number: how many tasks may run at the same time

VARIABLES status,   \* what became of each task
          backlog,  \* accepted tasks nobody has started, oldest first
          phase     \* of the service itself

vars == <<status, backlog, phase>>

Outcome == {"value", "exception"}
Status == {"new", "queued", "running", "rejected"} \cup Outcome

Running == {t \in Tasks : status[t] = "running"}

Init ==
    /\ status = [t \in Tasks |-> "new"]
    /\ backlog = <<>>
    /\ phase = "open"

Accept(t) ==
    /\ phase = "open"
    /\ status[t] = "new"
    /\ status' = [status EXCEPT ![t] = "queued"]
    /\ backlog' = Append(backlog, t)
    /\ UNCHANGED phase

\* Only a running task can still call in while the service closes.
Reject(t) ==
    /\ phase = "closing"
    /\ Running # {}
    /\ status[t] = "new"
    /\ status' = [status EXCEPT ![t] = "rejected"]
    /\ UNCHANGED <<backlog, phase>>

Start ==
    /\ backlog # <<>>
    /\ Cardinality(Running) < N
    /\ status' = [status EXCEPT ![Head(backlog)] = "running"]
    /\ backlog' = Tail(backlog)
    /\ UNCHANGED phase

Finish(t) ==
    /\ status[t] = "running"
    /\ \E r \in Outcome : status' = [status EXCEPT ![t] = r]
    /\ UNCHANGED <<backlog, phase>>

BeginClose ==
    /\ phase = "open"
    /\ phase' = "closing"
    /\ UNCHANGED <<status, backlog>>

Close ==
    /\ phase = "closing"
    /\ backlog = <<>>
    /\ Running = {}
    /\ phase' = "closed"
    /\ UNCHANGED <<status, backlog>>

Next ==
    \/ \E t \in Tasks : Accept(t) \/ Reject(t) \/ Finish(t)
    \/ Start
    \/ BeginClose
    \/ Close

\* Accepting and closing are the callers' choice; starting, finishing and
\* completing a close are owed.
Fairness ==
    /\ WF_vars(Start)
    /\ \A t \in Tasks : WF_vars(Finish(t))
    /\ WF_vars(Close)

Spec == Init /\ [][Next]_vars /\ Fairness
=============================================================================
