------------------------ MODULE ConsumerServer_proofs ------------------------
(***************************************************************************)
(* Type correctness and client ownership of ConsumerServer, for any number *)
(* of workers and of connections, with or without a signal.                *)
(***************************************************************************)
EXTENDS ConsumerServer, TLAPS

(* jobs_mutex really excludes: whoever is between lock and unlock of the   *)
(* queue owns it, and the three kinds of critical section never overlap;   *)
(* a job that was read but not yet unlinked is still the first one.        *)
LockInv ==
    /\ \A w \in Workers : pc[w] \in {"test", "taken"} => jobs_mutex = w
    /\ \A w \in Workers : pc[w] = "taken" =>
           waiting_jobs # <<>> /\ job[w] = Head(waiting_jobs)
    /\ main.at = "add_job_locked" => jobs_mutex = Main
    /\ shutdown.at = "drop" =>
           /\ jobs_mutex \in Threads
           /\ main.at # "add_job_locked"
           /\ \A w \in Workers : pc[w] \notin {"test", "taken"}

(* What RunServer has in hand, and that a shutdown is somebody's. *)
HandInv ==
    /\ main.at = "link" => main.arg \in Workers
    /\ main.at \in {"add_job", "add_job_locked"} => main.arg \in Jobs
    /\ shutdown.at # "off" => shutdown.by \in Threads
    /\ shutdown.at = "next" => shutdown.worker \in Workers

IInv == TypeOK /\ LockInv /\ HandInv /\ ClientOwnership

-----------------------------------------------------------------------------
(* LL_ADD puts the item in front. *)
LEMMA AddFirst ==
    ASSUME NEW S, NEW item \in S, NEW list \in Seq(S)
    PROVE  /\ LL_ADD(item, list) \in Seq(S)
           /\ DOMAIN LL_ADD(item, list) = 1..(Len(list) + 1)
           /\ LL_ADD(item, list)[1] = item
           /\ \A i \in DOMAIN list : LL_ADD(item, list)[i + 1] = list[i]
           /\ \A i \in DOMAIN LL_ADD(item, list) :
                  i = 1 \/ (i - 1 \in DOMAIN list /\ LL_ADD(item, list)[i] = list[i - 1])
  BY DEF LL_ADD

(* The first item of a list that is not empty. *)
LEMMA HeadItem ==
    ASSUME NEW S, NEW list \in Seq(S), list # <<>>
    PROVE  /\ HeadOf(list) = Head(list)
           /\ Head(list) \in S
           /\ 1 \in DOMAIN list
           /\ list[1] = Head(list)
           /\ LL_REMOVE(Head(list), list) = Tail(list)
           /\ Tail(list) \in Seq(S)
           /\ DOMAIN Tail(list) = 1..(Len(list) - 1)
           /\ \A i \in DOMAIN Tail(list) : i + 1 \in DOMAIN list /\ Tail(list)[i] = list[i + 1]
           /\ \A i \in DOMAIN list : i = 1 \/
                  (i - 1 \in DOMAIN Tail(list) /\ Tail(list)[i - 1] = list[i])
  BY DEF HeadOf, LL_REMOVE

-----------------------------------------------------------------------------
(* The initial state. *)
LEMMA InitIInv == Init => IInv
  <1> SUFFICES ASSUME Init PROVE IInv
    OBVIOUS
  <1> USE DEF Init, InitWorkqueue
  <1>1. terminate \in [Workers -> BOOLEAN] /\ loopexit \in BOOLEAN
    OBVIOUS
  <1>2. TypeOK
    BY <1>1, WorkqueueAssumption, ServerAssumption DEF TypeOK, Threads
  <1>3. LockInv /\ HandInv
    BY DEF LockInv, HandInv
  <1>4. ClientOwnership
    BY DEF ClientOwnership, InHand, Waiting, RunBy
  <1> QED BY <1>2, <1>3, <1>4 DEF IInv

(* The start of the server leaves the queue and the clients alone. *)
LEMMA StartPreserves ==
    ASSUME IInv,
           \/ \E w \in Workers : StartWorker(w)
           \/ LinkWorker \/ StartFails \/ StartFailed \/ Dispatch \/ DispatchReturns
    PROVE  IInv'
  <1> USE WorkqueueAssumption DEF IInv, Threads, Interrupted, At, Goto
  <1>1. CASE \E w \in Workers : StartWorker(w)
    BY <1>1 DEF StartWorker, create_worker, TypeOK, LockInv, HandInv,
                ClientOwnership, InHand, Waiting, RunBy
  <1>2. CASE LinkWorker
    <2>1. workers' \in Seq(Workers)
      BY <1>2, AddFirst DEF LinkWorker, link_worker, TypeOK, HandInv
    <2> QED
      BY <1>2, <2>1 DEF LinkWorker, link_worker, TypeOK, LockInv, HandInv,
                        ClientOwnership, InHand, Waiting, RunBy
  <1>3. CASE StartFails
    <2>1. HeadOf(workers) \in Workers \cup {None}
      BY HeadItem DEF TypeOK, HeadOf
    <2> QED
      BY <1>3, <2>1 DEF StartFails, shutdown_begin, TypeOK, LockInv, HandInv,
                        ClientOwnership, InHand, Waiting, RunBy
  <1>4. CASE StartFailed
    BY <1>4 DEF StartFailed, wqvars, TypeOK, LockInv, HandInv,
                ClientOwnership, InHand, Waiting, RunBy
  <1>5. CASE Dispatch
    BY <1>5 DEF Dispatch, wqvars, TypeOK, LockInv, HandInv,
                ClientOwnership, InHand, Waiting, RunBy
  <1>6. CASE DispatchReturns
    BY <1>6 DEF DispatchReturns, wqvars, TypeOK, LockInv, HandInv,
                ClientOwnership, InHand, Waiting, RunBy
  <1> QED BY <1>1, <1>2, <1>3, <1>4, <1>5, <1>6

(* Accepting a connection and adding its job. *)
LEMMA AcceptPreserves ==
    ASSUME IInv,
           \/ \E j \in Jobs : _On_accept(j) \/ _On_accept_fails(j)
           \/ AddJobLock \/ AddJob
    PROVE  IInv'
  <1> USE WorkqueueAssumption DEF IInv, Threads, Interrupted, At, Goto
  <1>1. CASE \E j \in Jobs : _On_accept(j)
    BY <1>1 DEF _On_accept, wqvars, TypeOK, LockInv, HandInv,
                ClientOwnership, InHand, Waiting, RunBy
  <1>2. CASE \E j \in Jobs : _On_accept_fails(j)
    BY <1>2 DEF _On_accept_fails, wqvars, TypeOK, LockInv, HandInv,
                ClientOwnership, InHand, Waiting, RunBy
  <1>3. CASE AddJobLock
    BY <1>3 DEF AddJobLock, add_job_lock, TypeOK, LockInv, HandInv,
                ClientOwnership, InHand, Waiting, RunBy
  <1>4. CASE AddJob
    <2> USE <1>4 DEF AddJob, add_job
    <2>1. PICK j \in Jobs : main.arg = j
      BY DEF HandInv
    <2>2. /\ waiting_jobs' \in Seq(Jobs)
          /\ DOMAIN waiting_jobs' = 1..(Len(waiting_jobs) + 1)
          /\ waiting_jobs'[1] = j
          /\ \A i \in DOMAIN waiting_jobs : waiting_jobs'[i + 1] = waiting_jobs[i]
          /\ \A i \in DOMAIN waiting_jobs' :
                 i = 1 \/ (i - 1 \in DOMAIN waiting_jobs
                           /\ waiting_jobs'[i] = waiting_jobs[i - 1])
      <3>1. waiting_jobs \in Seq(Jobs) /\ waiting_jobs' = LL_ADD(j, waiting_jobs)
        BY <2>1 DEF TypeOK
      <3> HIDE <1>4 DEF AddJob, add_job
      <3>2. /\ LL_ADD(j, waiting_jobs) \in Seq(Jobs)
            /\ DOMAIN LL_ADD(j, waiting_jobs) = 1..(Len(waiting_jobs) + 1)
            /\ LL_ADD(j, waiting_jobs)[1] = j
            /\ \A i \in DOMAIN waiting_jobs :
                   LL_ADD(j, waiting_jobs)[i + 1] = waiting_jobs[i]
            /\ \A i \in DOMAIN LL_ADD(j, waiting_jobs) :
                   i = 1 \/ (i - 1 \in DOMAIN waiting_jobs
                             /\ LL_ADD(j, waiting_jobs)[i] = waiting_jobs[i - 1])
        BY <3>1 DEF LL_ADD
      <3> QED BY <3>1, <3>2, Zenon
    <2>3. /\ pc' \in [Workers -> {"new", "lock", "test", "taken", "run", "asleep",
                                  "woken", "exited"}]
          /\ \A w \in Workers : \/ pc'[w] = pc[w]
                                \/ pc[w] = "asleep" /\ pc'[w] = "woken"
      BY DEF signal_worker, TypeOK
    <2>4. \A k \in Jobs : Waiting(k)' <=> k = j \/ Waiting(k)
      <3>1. waiting_jobs \in Seq(Jobs)
        BY DEF TypeOK
      <3> HIDE <1>4 DEF AddJob, add_job, IInv
      <3>2. ASSUME NEW k \in Jobs, Waiting(k) PROVE Waiting(k)'
        <4>1. PICK i \in DOMAIN waiting_jobs : waiting_jobs[i] = k
          BY <3>2 DEF Waiting
        <4>2. i + 1 \in DOMAIN waiting_jobs' /\ waiting_jobs'[i + 1] = k
          BY <2>2, <3>1, <4>1
        <4> QED BY <4>2 DEF Waiting
      <3>3. Waiting(j)'
        BY <2>2, <3>1 DEF Waiting
      <3>4. ASSUME NEW k \in Jobs, Waiting(k)' PROVE k = j \/ Waiting(k)
        BY <2>2, <3>4 DEF Waiting
      <3> QED BY <3>2, <3>3, <3>4
    <2>5. \A w \in Workers, k \in Jobs : RunBy(w, k)' <=> RunBy(w, k)
      BY <2>3 DEF RunBy
    <2>6. ~Waiting(j) /\ client[j] = "open"
      BY <2>1 DEF ClientOwnership, InHand
    <2>7. \A i, k \in DOMAIN waiting_jobs' :
              waiting_jobs'[i] = waiting_jobs'[k] => i = k
      <3>1. \A i \in DOMAIN waiting_jobs' : i # 1 => waiting_jobs'[i] # j
        BY <2>2, <2>6 DEF Waiting
      <3>2. \A i, k \in DOMAIN waiting_jobs' :
                (i # 1 /\ k # 1 /\ waiting_jobs'[i] = waiting_jobs'[k]) => i = k
        BY <2>2 DEF ClientOwnership, TypeOK
      <3> QED BY <2>2, <3>1, <3>2
    <2>8. TypeOK'
      BY <2>2, <2>3 DEF TypeOK
    <2>9. LockInv' /\ HandInv'
      BY <2>3 DEF LockInv, HandInv, TypeOK
    <2>10. ClientOwnership'
      <3>1. \A k \in Jobs : ~InHand(k)'
        BY DEF InHand
      <3>2. \A k \in Jobs : InHand(k) => k = j
        BY <2>1 DEF InHand
      <3>3. \A w \in Workers : ~RunBy(w, j)
        BY <2>1 DEF ClientOwnership, InHand
      <3> QED BY <2>4, <2>5, <2>6, <2>7, <3>1, <3>2, <3>3 DEF ClientOwnership
    <2> QED BY <2>8, <2>9, <2>10
  <1> QED BY <1>1, <1>2, <1>3, <1>4

(* The steps of a worker, and the job function. *)
LEMMA WorkerPreserves ==
    ASSUME IInv, NEW w \in Workers,
           WorkerStep(w) \/ _Server_job_function(w) \/ Spurious(w)
    PROVE  IInv'
  <1> USE WorkqueueAssumption DEF IInv, Threads, Interrupted, srvvars
  <1>1. CASE worker_lock(w) /\ UNCHANGED srvvars
    BY <1>1, SMTT(30) DEF worker_lock, TypeOK, LockInv, HandInv,
                ClientOwnership, InHand, Waiting, RunBy
  <1>2. CASE worker_wait(w) /\ UNCHANGED srvvars
    BY <1>2 DEF worker_wait, TypeOK, LockInv, HandInv,
                ClientOwnership, InHand, Waiting, RunBy
  <1>3. CASE worker_exit(w) /\ UNCHANGED srvvars
    BY <1>3 DEF worker_exit, TypeOK, LockInv, HandInv,
                ClientOwnership, InHand, Waiting, RunBy
  <1>4. CASE worker_take(w) /\ UNCHANGED srvvars
    <2>1. HeadOf(waiting_jobs) = Head(waiting_jobs) /\ Head(waiting_jobs) \in Jobs
      BY <1>4, HeadItem DEF worker_take, TypeOK
    <2>2. TypeOK'
      BY <1>4, <2>1 DEF worker_take, TypeOK
    <2>3. LockInv' /\ HandInv'
      BY <1>4, <2>1 DEF worker_take, TypeOK, LockInv, HandInv
    <2>4. /\ UNCHANGED <<waiting_jobs, client, main, shutdown>>
          /\ \A v \in Workers, j \in Jobs : RunBy(v, j)' <=> RunBy(v, j)
      BY <1>4 DEF worker_take, TypeOK, RunBy
    <2>5. ClientOwnership'
      BY <2>4 DEF ClientOwnership, InHand, Waiting
    <2> QED BY <2>2, <2>3, <2>5
  <1>5. CASE worker_remove(w) /\ UNCHANGED srvvars
    <2> USE <1>5 DEF worker_remove
    <2>1. PICK j \in Jobs : job[w] = j
      BY DEF TypeOK
    <2>2. waiting_jobs # <<>> /\ Head(waiting_jobs) = j
      BY <2>1 DEF LockInv
    <2>3. /\ waiting_jobs' \in Seq(Jobs)
          /\ 1 \in DOMAIN waiting_jobs
          /\ waiting_jobs[1] = j
          /\ DOMAIN waiting_jobs' = 1..(Len(waiting_jobs) - 1)
          /\ \A i \in DOMAIN waiting_jobs' :
                 i + 1 \in DOMAIN waiting_jobs /\ waiting_jobs'[i] = waiting_jobs[i + 1]
          /\ \A i \in DOMAIN waiting_jobs : i = 1 \/
                 (i - 1 \in DOMAIN waiting_jobs' /\ waiting_jobs'[i - 1] = waiting_jobs[i])
      <3>1. /\ waiting_jobs \in Seq(Jobs)
            /\ waiting_jobs' = LL_REMOVE(Head(waiting_jobs), waiting_jobs)
        BY <2>1, <2>2 DEF TypeOK
      <3> HIDE <1>5 DEF worker_remove
      <3>2. /\ 1 \in DOMAIN waiting_jobs
            /\ waiting_jobs[1] = Head(waiting_jobs)
            /\ LL_REMOVE(Head(waiting_jobs), waiting_jobs) = Tail(waiting_jobs)
            /\ Tail(waiting_jobs) \in Seq(Jobs)
            /\ DOMAIN Tail(waiting_jobs) = 1..(Len(waiting_jobs) - 1)
            /\ \A i \in DOMAIN Tail(waiting_jobs) :
                   /\ i + 1 \in DOMAIN waiting_jobs
                   /\ Tail(waiting_jobs)[i] = waiting_jobs[i + 1]
            /\ \A i \in DOMAIN waiting_jobs : i = 1 \/
                   /\ i - 1 \in DOMAIN Tail(waiting_jobs)
                   /\ Tail(waiting_jobs)[i - 1] = waiting_jobs[i]
        BY <2>2, <3>1, HeadItem
      <3> QED BY <2>2, <3>1, <3>2, Zenon
    <2>4. \A k \in Jobs : Waiting(k)' <=> k # j /\ Waiting(k)
      BY <2>3 DEF Waiting, ClientOwnership, TypeOK
    <2>5. Waiting(j)
      BY <2>3 DEF Waiting
    <2>6. \A v \in Workers, k \in Jobs :
              RunBy(v, k)' <=> RunBy(v, k) \/ (v = w /\ k = j)
      BY <2>1 DEF RunBy, TypeOK
    <2>7. \A k \in Jobs : InHand(k)' <=> InHand(k)
      BY DEF InHand
    <2>8. \A i, k \in DOMAIN waiting_jobs' :
              waiting_jobs'[i] = waiting_jobs'[k] => i = k
      BY <2>3 DEF ClientOwnership, TypeOK
    <2>9. TypeOK'
      BY <2>1, <2>3 DEF TypeOK
    <2>10. LockInv' /\ HandInv'
      BY DEF LockInv, HandInv, TypeOK
    <2>11. ClientOwnership'
      BY <2>4, <2>5, <2>6, <2>7, <2>8 DEF ClientOwnership
    <2> QED BY <2>9, <2>10, <2>11
  <1>6. CASE _Server_job_function(w)
    <2>1. PICK j \in Jobs : job[w] = j
      BY <1>6 DEF _Server_job_function, worker_done, TypeOK
    <2> QED
      BY <1>6, <2>1 DEF _Server_job_function, worker_done, TypeOK, LockInv,
                        HandInv, ClientOwnership, InHand, Waiting, RunBy
  <1>7. CASE Spurious(w)
    BY <1>7, ServerAssumption
    DEF Spurious, spurious_wakeup, TypeOK, LockInv, HandInv,
        ClientOwnership, InHand, Waiting, RunBy
  <1> QED BY <1>1, <1>2, <1>3, <1>4, <1>5, <1>6, <1>7 DEF WorkerStep

(* A signal, and the steps of workqueue_shutdown. *)
LEMMA ShutdownPreserves ==
    ASSUME IInv, ShutdownStep \/ \E t \in SignalThreads : _Sighandler(t)
    PROVE  IInv'
  <1> USE WorkqueueAssumption DEF IInv, Threads, srvvars
  <1>1. CASE \E t \in SignalThreads : _Sighandler(t)
    <2>1. HeadOf(workers) \in Workers \cup {None}
      BY HeadItem DEF TypeOK, HeadOf
    <2> QED
      BY <1>1, <2>1, ServerAssumption
      DEF _Sighandler, shutdown_begin, TypeOK, LockInv, HandInv,
          ClientOwnership, InHand, Waiting, RunBy
  <1>2. CASE shutdown_mark /\ UNCHANGED srvvars
    <2>1. terminate' \in [Workers -> BOOLEAN]
      BY <1>2 DEF shutdown_mark, TypeOK
    <2>2. /\ shutdown'.at = "next" /\ shutdown'.by = shutdown.by
          /\ shutdown'.worker \in Workers
          /\ shutdown' \in [at : {"off", "mark", "next", "drop", "done"},
                            by : Threads \cup {None}, worker : Workers \cup {None}]
          /\ UNCHANGED <<waiting_jobs, workers, jobs_mutex, pc, job, srvvars>>
          /\ shutdown.at = "mark"
      BY <1>2 DEF shutdown_mark, TypeOK
    <2>3. TypeOK'
      BY <2>1, <2>2 DEF TypeOK
    <2>4. LockInv' /\ HandInv'
      BY <2>2 DEF LockInv, HandInv
    <2>5. ClientOwnership'
      BY <2>2 DEF ClientOwnership, InHand, Waiting, RunBy
    <2> QED BY <2>3, <2>4, <2>5
  <1>3. CASE shutdown_next /\ UNCHANGED srvvars
    <2>1. NextWorkers(shutdown.worker) \subseteq Workers \cup {None}
      BY DEF NextWorkers, TypeOK
    <2>2. PICK v \in Workers \cup {None} :
              shutdown' = [shutdown EXCEPT !.at = "mark", !.worker = v]
      BY <1>3, <2>1 DEF shutdown_next
    <2>3. /\ shutdown'.at = "mark" /\ shutdown'.by = shutdown.by
          /\ shutdown' \in [at : {"off", "mark", "next", "drop", "done"},
                            by : Threads \cup {None}, worker : Workers \cup {None}]
          /\ UNCHANGED <<waiting_jobs, workers, terminate, jobs_mutex, pc, job, srvvars>>
          /\ shutdown.at = "next"
      BY <1>3, <2>2 DEF shutdown_next, TypeOK
    <2>4. TypeOK'
      BY <2>3 DEF TypeOK
    <2>5. LockInv' /\ HandInv'
      BY <2>3 DEF LockInv, HandInv
    <2>6. ClientOwnership'
      BY <2>3 DEF ClientOwnership, InHand, Waiting, RunBy
    <2> QED BY <2>4, <2>5, <2>6
  <1>4. CASE shutdown_lock /\ UNCHANGED srvvars
    BY <1>4 DEF shutdown_lock, TypeOK, LockInv, HandInv,
                ClientOwnership, InHand, Waiting, RunBy
  <1>5. CASE shutdown_drop /\ UNCHANGED srvvars
    BY <1>5 DEF shutdown_drop, TypeOK, LockInv, HandInv,
                ClientOwnership, InHand, Waiting, RunBy
  <1> QED BY <1>1, <1>2, <1>3, <1>4, <1>5 DEF ShutdownStep

(* The invariant is inductive. *)
LEMMA NextIInv == IInv /\ [Next]_vars => IInv'
  <1> SUFFICES ASSUME IInv, [Next]_vars PROVE IInv'
    OBVIOUS
  <1>1. CASE MainStep
    BY <1>1, StartPreserves, AcceptPreserves DEF MainStep
  <1>2. CASE \E w \in Workers : WorkerStep(w) \/ _Server_job_function(w)
    BY <1>2, WorkerPreserves
  <1>3. CASE ShutdownStep
    BY <1>3, ShutdownPreserves
  <1>4. CASE Environment
    BY <1>4, StartPreserves, AcceptPreserves, WorkerPreserves, ShutdownPreserves
    DEF Environment
  <1>5. CASE UNCHANGED vars
    BY <1>5 DEF vars, wqvars, srvvars, IInv, TypeOK, LockInv, HandInv,
                ClientOwnership, InHand, Waiting, RunBy
  <1> QED BY <1>1, <1>2, <1>3, <1>4, <1>5 DEF Next

(* A worker executes a job only if it got one, whatever the number of      *)
(* workers, of connections and of spurious wakeups.                        *)
THEOREM ServerTypeCorrect == Spec => []TypeOK
  <1>1. IInv => TypeOK
    BY DEF IInv
  <1> QED BY <1>1, InitIInv, NextIInv, PTL DEF Spec

(* Every client has one owner at a time and is freed once, and none is out *)
(* of reach before workqueue_shutdown drops the list of jobs.              *)
THEOREM ClientsOwned == Spec => []ClientOwnership
  <1>1. IInv => ClientOwnership
    BY DEF IInv
  <1> QED BY <1>1, InitIInv, NextIInv, PTL DEF Spec
=============================================================================
