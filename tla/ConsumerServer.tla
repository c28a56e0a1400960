---------------------------- MODULE ConsumerServer ----------------------------
(***************************************************************************)
(* The TCP server of jobschedule/ConsumerCli.cc: RunServer starts the work *)
(* queue and accepts connections in the main thread; each connection       *)
(* becomes a job, whose worker runs the connection's own event loop and    *)
(* then frees it; SIGINT and SIGTERM end in _KillServer, executed by the   *)
(* thread that the signal interrupted.                                     *)
(*                                                                         *)
(* A job stands for its client_t as well (job->user_data).                 *)
(***************************************************************************)
EXTENDS Workqueue

CONSTANTS SignalThreads, \* the threads that a signal may interrupt
          MaxSpurious    \* bound: spurious wakeups in a history

ASSUME ServerAssumption == SignalThreads \subseteq Threads /\ MaxSpurious \in Nat

VARIABLES client,      \* job -> "remote" (not connected yet), "open"
                       \* (client_t allocated, socket open) or "freed"
          main,        \* where RunServer is, and the worker or job in hand
          loopexit,    \* event_base_loopexit was called for the accept loop
          spurious     \* spurious wakeups so far

srvvars == <<client, main, loopexit, spurious>>
vars    == <<wqvars, srvvars>>

(* Nothing runs once RunServer has returned: the process is gone. *)
Alive            == main.at # "returned"
At(place)        == main.at = place /\ ~Interrupted(Main)
Goto(place, arg) == main' = [at |-> place, arg |-> arg]

Init ==
    /\ InitWorkqueue
    /\ client = [j \in Jobs |-> "remote"]
    /\ main = [at |-> "init", arg |-> None]
    /\ loopexit = FALSE
    /\ spurious = 0

-----------------------------------------------------------------------------
(* RunServer: the loop of workqueue_init. *)
StartWorker(w) ==
    /\ At("init")
    /\ create_worker(w)
    /\ Goto("link", w)
    /\ UNCHANGED <<client, loopexit, spurious>>

LinkWorker ==
    /\ At("link")
    /\ link_worker(main.arg)
    /\ Goto("init", None)
    /\ UNCHANGED <<client, loopexit, spurious>>

(* workqueue_init failed to start a worker: shut down and return 1. *)
StartFails ==
    /\ At("init")
    /\ \E w \in Workers : pc[w] = "new"
    /\ shutdown_begin(Main)
    /\ Goto("failed", None)
    /\ UNCHANGED <<client, loopexit, spurious>>

StartFailed ==
    /\ At("failed")
    /\ Goto("returned", None)
    /\ UNCHANGED <<wqvars, client, loopexit, spurious>>

(* All workers are started: event_base_dispatch(_Bvbase_accept). *)
Dispatch ==
    /\ At("init")
    /\ \A w \in Workers : pc[w] # "new"
    /\ Goto("accept", None)
    /\ UNCHANGED <<wqvars, client, loopexit, spurious>>

(* _On_accept: connection j becomes a client and a job ... *)
_On_accept(j) ==
    /\ At("accept")
    /\ client[j] = "remote"
    /\ client' = [client EXCEPT ![j] = "open"]
    /\ Goto("add_job", j)
    /\ UNCHANGED <<wqvars, loopexit, spurious>>

(* ... or a step of it fails and the connection is closed at once. *)
_On_accept_fails(j) ==
    /\ At("accept")
    /\ client[j] = "remote"
    /\ client' = [client EXCEPT ![j] = "freed"]
    /\ UNCHANGED <<wqvars, main, loopexit, spurious>>

(* ... workqueue_add_job(workqueue, job) *)
AddJobLock ==
    /\ At("add_job")
    /\ add_job_lock
    /\ Goto("add_job_locked", main.arg)
    /\ UNCHANGED <<client, loopexit, spurious>>

AddJob ==
    /\ At("add_job_locked")
    /\ add_job(main.arg)
    /\ Goto("accept", None)
    /\ UNCHANGED <<client, loopexit, spurious>>

(* The accept loop ends at the next turn after loopexit; RunServer returns *)
(* and with it the process.                                                *)
DispatchReturns ==
    /\ At("accept")
    /\ loopexit
    /\ Goto("returned", None)
    /\ UNCHANGED <<wqvars, client, loopexit, spurious>>

-----------------------------------------------------------------------------
(* _Server_job_function: the connection's event loop ends (the peer closed *)
(* it, or a timeout or an error did), then the client and the job are      *)
(* freed.                                                                  *)
_Server_job_function(w) ==
    /\ Alive
    /\ worker_done(w)
    /\ client' = [client EXCEPT ![job[w]] = "freed"]
    /\ UNCHANGED <<main, loopexit, spurious>>

WorkerStep(w) ==
    /\ Alive
    /\ \/ worker_lock(w)
       \/ worker_wait(w)
       \/ worker_exit(w)
       \/ worker_take(w)
       \/ worker_remove(w)
    /\ UNCHANGED srvvars

Spurious(w) ==
    /\ Alive
    /\ spurious < MaxSpurious
    /\ spurious_wakeup(w)
    /\ spurious' = spurious + 1
    /\ UNCHANGED <<client, main, loopexit>>

(* _Sighandler and _KillServer, in the context of thread t, one signal. *)
_Sighandler(t) ==
    /\ Alive
    /\ t \in {Main} \cup {w \in Workers : pc[w] \notin {"new", "exited"}}
    /\ shutdown_begin(t)
    /\ loopexit' = TRUE
    /\ UNCHANGED <<client, main, spurious>>

ShutdownStep ==
    /\ Alive
    /\ shutdown_mark \/ shutdown_next \/ shutdown_lock \/ shutdown_drop
    /\ UNCHANGED srvvars

-----------------------------------------------------------------------------
MainStep == \/ \E w \in Workers : StartWorker(w)
            \/ LinkWorker
            \/ StartFailed
            \/ Dispatch
            \/ AddJobLock
            \/ AddJob
            \/ DispatchReturns

Environment == \/ StartFails
               \/ \E j \in Jobs : _On_accept(j) \/ _On_accept_fails(j)
               \/ \E w \in Workers : Spurious(w)
               \/ \E t \in SignalThreads : _Sighandler(t)

Next == \/ MainStep
        \/ \E w \in Workers : WorkerStep(w) \/ _Server_job_function(w)
        \/ ShutdownStep
        \/ Environment

Spec == Init /\ [][Next]_vars

(* The scheduler runs every thread that can run, and a client eventually   *)
(* hangs up or times out.  No fairness for what the environment does, and  *)
(* none for contention: a mutex that is free over and over again may still *)
(* go to others.                                                           *)
FairSpec ==
    /\ Spec
    /\ WF_vars(MainStep)
    /\ WF_vars(ShutdownStep)
    /\ \A w \in Workers : WF_vars(WorkerStep(w)) /\ WF_vars(_Server_job_function(w))

-----------------------------------------------------------------------------
(* Types, and a worker executes a job only if it got one. *)
TypeOK ==
    /\ waiting_jobs \in Seq(Jobs)
    /\ workers \in Seq(Workers)
    /\ terminate \in [Workers -> BOOLEAN]
    /\ jobs_mutex \in Threads \cup {None}
    /\ pc \in [Workers -> {"new", "lock", "test", "taken", "run", "asleep",
                         "woken", "exited"}]
    /\ job \in [Workers -> Jobs \cup {None}]
    /\ \A w \in Workers : pc[w] \in {"taken", "run"} <=> job[w] # None
    /\ shutdown \in [at : {"off", "mark", "next", "drop", "done"},
                     by : Threads \cup {None}, worker : Workers \cup {None}]
    /\ client \in [Jobs -> {"remote", "open", "freed"}]
    /\ main \in [at : {"init", "link", "failed", "accept", "add_job",
                       "add_job_locked", "returned"},
                 arg : Workers \cup Jobs \cup {None}]
    /\ loopexit \in BOOLEAN
    /\ spurious \in 0..MaxSpurious

(* Who may touch the client of job j: the main thread while it adds it,    *)
(* the list, or the worker that executes it.                               *)
InHand(j)  == main.at \in {"add_job", "add_job_locked"} /\ main.arg = j
Waiting(j) == \E i \in DOMAIN waiting_jobs : waiting_jobs[i] = j
RunBy(w, j) == pc[w] = "run" /\ job[w] = j

(* An open client is in one place only, so it is served by one worker and  *)
(* freed once (_CloseAndFreeClient), and a freed one is in none; until     *)
(* workqueue_shutdown drops the list no open client is out of reach.       *)
ClientOwnership ==
    /\ \A j \in Jobs :
           /\ InHand(j) => client[j] = "open" /\ ~Waiting(j)
           /\ Waiting(j) => client[j] = "open"
           /\ \A w \in Workers :
                  RunBy(w, j) => client[j] = "open" /\ ~InHand(j) /\ ~Waiting(j)
           /\ (client[j] = "open" /\ shutdown.at # "done") =>
                  InHand(j) \/ Waiting(j) \/ \E w \in Workers : RunBy(w, j)
    /\ \A w, v \in Workers : \A j \in Jobs : (RunBy(w, j) /\ RunBy(v, j)) => w = v
    /\ \A i, k \in DOMAIN waiting_jobs : waiting_jobs[i] = waiting_jobs[k] => i = k

(* Until a signal arrives every connection that was accepted is served and *)
(* freed: no wakeup of workqueue_add_job is lost, whichever worker is      *)
(* asleep, about to sleep or busy at the time.                             *)
EveryClientServed ==
    \A j \in Jobs : client[j] = "open" ~> (client[j] = "freed" \/ shutdown.at # "off")

(* "This function can be called from another thread to kill the server,    *)
(* causing runServer() to return" (ConsumerCli.cc:299): after a signal     *)
(* RunServer returns.                                                      *)
ServerReturns == loopexit ~> main.at = "returned"
=============================================================================
