------------------------------- MODULE MCJobs -------------------------------
(***************************************************************************)
(* Model checking of the three parts that work on a file after the         *)
(* producer has found it: its way to the store (Delivery), the record of   *)
(* it (MongoStore) and the schedule thread of the client library           *)
(* (SchedThread).  They share no state; a behaviour is one of one part.    *)
(* The names of MongoStore are taken as they are, those of the others by   *)
(* INSTANCE.                                                               *)
(***************************************************************************)
EXTENDS MongoStore, TLC

CONSTANTS Senders, Servers, Ids, Fds, MaxConns,
          a, b, c, MaxLag, MaxLate,
          Parts     \* which of the parts are checked

VARIABLES part,
          to_push, G_ItemProduce_Mq, pConsumerServer, memory, sock, fd, conn,
          at, item, arg, ended, store,
          chain, pc, checking, sleep_time, exec_count, waiting, waiting_del_id,
          running, lag, caller, used

(* What is scheduled at first, and what may be added: a new task with a    *)
(* replacement for one, and an interval that sched_init_entries refuses.   *)
Tasks == {a, b, c}
Task(id, interval, based) == [id |-> id, interval |-> interval, based |-> based]
InitTasks == <<Task(a, 2, TRUE)>>
Batches   == {<<Task(c, 1, FALSE), Task(a, 0, FALSE)>>}

D == INSTANCE Delivery WITH pc <- at
S == INSTANCE SchedThread WITH calls <- used

ASSUME PartsAssumption == /\ Parts \subseteq {"delivery", "mongo", "sched"}
                          /\ D!DeliveryAssumption
                          /\ S!SchedAssumption

dvars == <<to_push, G_ItemProduce_Mq, pConsumerServer, memory, sock, fd, conn,
           at, item, arg, ended, store>>
svars == <<chain, pc, checking, sleep_time, exec_count, waiting, waiting_del_id,
           running, lag, caller, used>>
jobsvars == <<part, dvars, vars, svars>>

JobsInit == part \in Parts /\ D!Init /\ Init /\ S!Init

Deliver  == part = "delivery" /\ D!Next /\ UNCHANGED <<part, vars, svars>>
Record   == part = "mongo" /\ Next /\ UNCHANGED <<part, dvars, svars>>
Schedule == part = "sched" /\ S!Next /\ UNCHANGED <<part, dvars, vars>>

JobsNext == Deliver \/ Record \/ Schedule

JobsSpec == JobsInit /\ [][JobsNext]_jobsvars

(* Threads run, the driver's pool is fair to those that wait for a client, *)
(* time passes, and malloc does not fail for ever.                         *)
FairSpec ==
    /\ JobsSpec
    /\ \A t \in Senders : WF_dvars(part = "delivery" /\ D!Sender(t))
    /\ \A t \in Threads : SF_vars(part = "mongo" /\ Step(t))
    /\ WF_svars(part = "sched" /\ (S!sched_start \/ S!Thread))
    /\ WF_svars(part = "sched" /\ S!Tick)
    /\ SF_svars(part = "sched" /\ S!CheckMerge /\ pc' = "clear")
    /\ WF_svars(part = "sched" /\ (S!AddPublish \/ S!AddInit))

-----------------------------------------------------------------------------
(* The queue of the producer process empties while the process runs. *)
QueueDrains == D!QueueDrains

(* Every scheduled task is called again and again while the thread runs. *)
EveryTaskCalled == part = "sched" => S!EveryTaskCalled

(* sched_add_entries returns as long as the thread lives. *)
AddReturns == S!AddReturns
=============================================================================
