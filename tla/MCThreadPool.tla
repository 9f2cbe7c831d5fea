----------------------------- MODULE MCThreadPool -----------------------------
(***************************************************************************)
(* Two workers and three tasks: the smallest pool where one worker sleeps  *)
(* while another runs, a task is queued behind a running one, and a task   *)
(* enqueues another while the destructor waits.                            *)
(***************************************************************************)
EXTENDS ThreadPool

CONSTANTS w1, w2, t1, t2, t3

MCWorkers == {w1, w2}
MCTasks == {t1, t2, t3}
=============================================================================
