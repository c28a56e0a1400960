------------------------------ MODULE Workqueue ------------------------------
(***************************************************************************)
(* The multithreaded work queue of common/workqueue.cc: a list of waiting  *)
(* jobs, last in first out, that a pool of workers serves under one mutex  *)
(* and one condition variable.                                             *)
(*                                                                         *)
(* Taking the mutex is a step of its own, and so is what a worker reads    *)
(* and then writes while it holds it.  worker->terminate and the list of   *)
(* workers are written and read without the mutex, in steps of their own.  *)
(***************************************************************************)
EXTENDS Integers, Sequences, FiniteSets

CONSTANTS Workers,    \* the worker threads that workqueue_init starts
          Main,       \* the thread that adds jobs
          Jobs,
          None        \* no thread, no worker, no job

ASSUME WorkqueueAssumption ==
    /\ Main \notin Workers
    /\ None \notin Workers \cup {Main} \cup Jobs

VARIABLES waiting_jobs,  \* the list of jobs, head first
          workers,       \* the list of workers, head first
          terminate,     \* worker -> its terminate flag
          jobs_mutex,    \* the thread that holds the mutex, or None
          pc,            \* worker -> where it is
          job,           \* worker -> the job it executes, or None
          shutdown       \* workqueue_shutdown: where it is, the thread that
                         \* executes it and its loop variable

wqvars == <<waiting_jobs, workers, terminate, jobs_mutex, pc, job, shutdown>>

Threads == Workers \cup {Main}

InitWorkqueue ==
    /\ waiting_jobs = <<>>
    /\ workers = <<>>
    /\ terminate = [w \in Workers |-> FALSE]
    /\ jobs_mutex = None
    /\ pc = [w \in Workers |-> "new"]
    /\ job = [w \in Workers |-> None]
    /\ shutdown = [at |-> "off", by |-> None, worker |-> None]

(* The linked lists: the item that the list pointer points to, LL_ADD and  *)
(* LL_REMOVE.                                                              *)
HeadOf(list) == IF list = <<>> THEN None ELSE Head(list)

LL_ADD(item, list) == <<item>> \o list

LL_REMOVE(item, list) ==
    IF HeadOf(list) = item THEN Tail(list)
    ELSE SelectSeq(list, LAMBDA other : other # item)

(* A thread whose signal handler executes workqueue_shutdown does nothing  *)
(* else until the handler returns.                                         *)
Interrupted(t) == shutdown.by = t /\ shutdown.at # "done"

-----------------------------------------------------------------------------
(* worker_function, for worker w.                                          *)

(* Mutant of worker_lock: the mutex is not waited for. *)
worker_lock_anyway(w) ==
    /\ pc[w] \in {"lock", "woken"}
    /\ ~Interrupted(w)
    /\ jobs_mutex' = w
    /\ pc' = [pc EXCEPT ![w] = "test"]
    /\ UNCHANGED <<waiting_jobs, workers, terminate, job, shutdown>>

(* Top of the loop, and the return from pthread_cond_wait: get the mutex.  *)
worker_lock(w) ==
    /\ pc[w] \in {"lock", "woken"}
    /\ ~Interrupted(w)
    /\ jobs_mutex = None
    /\ jobs_mutex' = w
    /\ pc' = [pc EXCEPT ![w] = "test"]
    /\ UNCHANGED <<waiting_jobs, workers, terminate, job, shutdown>>

(* Nothing to do: pthread_cond_wait releases the mutex and sleeps. *)
worker_wait(w) ==
    /\ pc[w] = "test"
    /\ ~Interrupted(w)
    /\ waiting_jobs = <<>>
    /\ ~terminate[w]
    /\ jobs_mutex' = None
    /\ pc' = [pc EXCEPT ![w] = "asleep"]
    /\ UNCHANGED <<waiting_jobs, workers, terminate, job, shutdown>>

(* The two breaks: the worker frees itself and its thread exits.  It got   *)
(* here with jobs_mutex and nothing on the way out unlocks it.             *)
worker_exit(w) ==
    /\ pc[w] = "test"
    /\ ~Interrupted(w)
    /\ terminate[w]
    /\ pc' = [pc EXCEPT ![w] = "exited"]
    /\ UNCHANGED <<waiting_jobs, workers, terminate, jobs_mutex, job, shutdown>>

(* Mutant of worker_take: it does not test again whether there is a job. *)
worker_take_untested(w) ==
    /\ pc[w] = "test"
    /\ ~Interrupted(w)
    /\ ~terminate[w]
    /\ job' = [job EXCEPT ![w] = HeadOf(waiting_jobs)]
    /\ pc' = [pc EXCEPT ![w] = "taken"]
    /\ UNCHANGED <<waiting_jobs, workers, terminate, jobs_mutex, shutdown>>

(* job = waiting_jobs.  (The list cannot be empty here, the mutex has been *)
(* held since the test, so job is not NULL.)                               *)
worker_take(w) ==
    /\ pc[w] = "test"
    /\ ~Interrupted(w)
    /\ waiting_jobs # <<>>
    /\ ~terminate[w]
    /\ job' = [job EXCEPT ![w] = HeadOf(waiting_jobs)]
    /\ pc' = [pc EXCEPT ![w] = "taken"]
    /\ UNCHANGED <<waiting_jobs, workers, terminate, jobs_mutex, shutdown>>

(* LL_REMOVE(job, waiting_jobs), and unlock. *)
worker_remove(w) ==
    /\ pc[w] = "taken"
    /\ ~Interrupted(w)
    /\ waiting_jobs' = LL_REMOVE(job[w], waiting_jobs)
    /\ jobs_mutex' = None
    /\ pc' = [pc EXCEPT ![w] = "run"]
    /\ UNCHANGED <<workers, terminate, job, shutdown>>

(* job_function has returned. *)
worker_done(w) ==
    /\ pc[w] = "run"
    /\ ~Interrupted(w)
    /\ job' = [job EXCEPT ![w] = None]
    /\ pc' = [pc EXCEPT ![w] = "lock"]
    /\ UNCHANGED <<waiting_jobs, workers, terminate, jobs_mutex, shutdown>>

(* pthread_cond_wait may return though nobody signalled. *)
spurious_wakeup(w) ==
    /\ pc[w] = "asleep"
    /\ pc' = [pc EXCEPT ![w] = "woken"]
    /\ UNCHANGED <<waiting_jobs, workers, terminate, jobs_mutex, job, shutdown>>

-----------------------------------------------------------------------------
(* workqueue_init: the thread of w runs from pthread_create on; w is       *)
(* linked after that.                                                      *)
create_worker(w) ==
    /\ pc[w] = "new"
    /\ pc' = [pc EXCEPT ![w] = "lock"]
    /\ UNCHANGED <<waiting_jobs, workers, terminate, jobs_mutex, job, shutdown>>

link_worker(w) ==
    /\ workers' = LL_ADD(w, workers)
    /\ UNCHANGED <<waiting_jobs, terminate, jobs_mutex, pc, job, shutdown>>

(* pthread_cond_signal: one of the workers asleep, if there is one, wakes. *)
signal_worker ==
    IF \E w \in Workers : pc[w] = "asleep"
    THEN \E w \in Workers : /\ pc[w] = "asleep"
                            /\ pc' = [pc EXCEPT ![w] = "woken"]
    ELSE UNCHANGED pc

(* workqueue_add_job *)
add_job_lock ==
    /\ jobs_mutex = None
    /\ jobs_mutex' = Main
    /\ UNCHANGED <<waiting_jobs, workers, terminate, pc, job, shutdown>>

(* Mutant of add_job: no worker is notified. *)
add_job_silently(j) ==
    /\ jobs_mutex = Main
    /\ waiting_jobs' = LL_ADD(j, waiting_jobs)
    /\ jobs_mutex' = None
    /\ UNCHANGED <<workers, terminate, pc, job, shutdown>>

add_job(j) ==
    /\ jobs_mutex = Main
    /\ waiting_jobs' = LL_ADD(j, waiting_jobs)
    /\ signal_worker
    /\ jobs_mutex' = None
    /\ UNCHANGED <<workers, terminate, job, shutdown>>

-----------------------------------------------------------------------------
(* workqueue_shutdown, executed by thread t.                               *)

shutdown_begin(t) ==
    /\ shutdown.at = "off"
    /\ shutdown' = [at |-> "mark", by |-> t, worker |-> HeadOf(workers)]
    /\ UNCHANGED <<waiting_jobs, workers, terminate, jobs_mutex, pc, job>>

shutdown_mark ==
    /\ shutdown.at = "mark"
    /\ shutdown.worker # None
    /\ terminate' = [terminate EXCEPT ![shutdown.worker] = TRUE]
    /\ shutdown' = [shutdown EXCEPT !.at = "next"]
    /\ UNCHANGED <<waiting_jobs, workers, jobs_mutex, pc, job>>

NextWorkers(w) ==
    LET after == {i \in 2..Len(workers) : workers[i - 1] = w}
    IN  IF after = {} THEN {None} ELSE {workers[i] : i \in after}

(* worker = worker->next.  A worker that was marked may have exited and    *)
(* freed itself by now; what is read then is the old pointer, or NULL if   *)
(* the memory was cleared and used again.                                  *)
shutdown_next ==
    /\ shutdown.at = "next"
    /\ \E w \in NextWorkers(shutdown.worker)
                \cup (IF pc[shutdown.worker] = "exited" THEN {None} ELSE {}) :
           shutdown' = [shutdown EXCEPT !.at = "mark", !.worker = w]
    /\ UNCHANGED <<waiting_jobs, workers, terminate, jobs_mutex, pc, job>>

(* The mutex is not recursive: a thread that holds it already blocks too.  *)
shutdown_lock ==
    /\ shutdown.at = "mark"
    /\ shutdown.worker = None
    /\ jobs_mutex = None
    /\ jobs_mutex' = shutdown.by
    /\ shutdown' = [shutdown EXCEPT !.at = "drop"]
    /\ UNCHANGED <<waiting_jobs, workers, terminate, pc, job>>

(* Both lists are dropped and every sleeping worker is woken. *)
shutdown_drop ==
    /\ shutdown.at = "drop"
    /\ workers' = <<>>
    /\ waiting_jobs' = <<>>
    /\ pc' = [w \in Workers |-> IF pc[w] = "asleep" THEN "woken" ELSE pc[w]]
    /\ jobs_mutex' = None
    /\ shutdown' = [shutdown EXCEPT !.at = "done"]
    /\ UNCHANGED <<terminate, job>>
=============================================================================
