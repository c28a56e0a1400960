------------------------------- MODULE Producer -------------------------------
(***************************************************************************)
(* The directory threads of jobschedule/ProducerCli.cc: ReadyProducer puts *)
(* every storage directory into G_Volumns_Mq, ForkProducer starts the      *)
(* threads and joins them, and each thread takes directories until         *)
(* INC_SUBDIR_COUNTS says that all are taken.  For each file of its        *)
(* directory a thread asks the tracker and, if the file is new, puts it    *)
(* into G_ItemProduce_Mq.                                                  *)
(*                                                                         *)
(* The connection to the tracker is one static pointer, pTrackerServer,    *)
(* that every thread sets, follows and deletes.  Each evaluation of the    *)
(* pointer is a step.  An access through a pointer to freed memory is      *)
(* undefined: it crashes the process or finds the old contents.            *)
(*                                                                         *)
(* Each operation of concurrent_queue (common/mq.h) is atomic, since it    *)
(* holds the queue's mutex from its first access to its last.              *)
(***************************************************************************)
EXTENDS Integers, Sequences, FiniteSets

CONSTANTS Producers,   \* the threads that ForkProducer starts
          Folders,     \* the directories, in the order of ReadyProducer
          FilesIn,     \* directory -> the sequence of its files
          Known,       \* files that the tracker had registered before
          Servers,     \* addresses that new ConnectionInfo may return
          None

ASSUME ProducerAssumption ==
    /\ IsFiniteSet(Producers) /\ Producers # {}
    /\ Folders \in Seq(DOMAIN FilesIn)

VARIABLES main,               \* how far main() is
          MAX_SUBDIR_COUNTS,
          INC_SUBDIR_COUNTS,
          G_Volumns_Mq,
          G_ItemProduce_Mq,
          pTrackerServer,
          memory,       \* server -> "free", "live"
          sock,         \* server -> "none", "wild" (not initialized) or "up"
          inbox,        \* server -> responses sent by the tracker, not read
          registered,   \* the tracker's set of files
          pc,           \* thread -> where it is
          rest,         \* thread -> the files of its directory still to do
          conn,         \* thread -> pCurrentServer of TransferByData
          crashed

queuevars  == <<INC_SUBDIR_COUNTS, G_Volumns_Mq>>
servervars == <<pTrackerServer, memory, sock, inbox, registered>>
threadvars == <<rest, conn>>
vars == <<main, MAX_SUBDIR_COUNTS, G_ItemProduce_Mq, pc, crashed, queuevars,
          servervars, threadvars>>

(* MAX_SUBDIR_COUNTS is StorageConfig::MAX_VOLUMNS_COUNT * 65536, and      *)
(* getStoreFolderByOrder lists 65536 directories per volume.  Both statics *)
(* are initialized at run time, in two translation units; C++ leaves open  *)
(* which comes first, and a static that was not initialized yet is 0.      *)
InitialMax == {0, Len(Folders)}

Init ==
    /\ main = "ready"
    /\ MAX_SUBDIR_COUNTS \in InitialMax
    /\ INC_SUBDIR_COUNTS = 0
    /\ G_Volumns_Mq = <<>>
    /\ G_ItemProduce_Mq = <<>>
    /\ pTrackerServer = None
    /\ memory = [s \in Servers |-> "free"]
    /\ sock = [s \in Servers |-> "none"]
    /\ inbox = [s \in Servers |-> <<>>]
    /\ registered = Known
    /\ pc = [t \in Producers |-> "new"]
    /\ rest = [t \in Producers |-> <<>>]
    /\ conn = [t \in Producers |-> None]
    /\ crashed = FALSE

-----------------------------------------------------------------------------
(* main(): ReadyProducer, then ForkProducer. *)
ReadyProducer ==
    /\ main = "ready"
    /\ G_Volumns_Mq' = Folders
    /\ main' = "fork"
    /\ UNCHANGED <<MAX_SUBDIR_COUNTS, INC_SUBDIR_COUNTS, G_ItemProduce_Mq, pc,
                   crashed, servervars, threadvars>>

(* pthread_create; the new thread runs while others are still created. *)
ForkProducer(t) ==
    /\ main = "fork"
    /\ pc[t] = "new"
    /\ pc' = [pc EXCEPT ![t] = "empty"]
    /\ UNCHANGED <<main, MAX_SUBDIR_COUNTS, G_ItemProduce_Mq, crashed,
                   queuevars, servervars, threadvars>>

(* pthread_join of all of them. *)
JoinProducers ==
    /\ main = "fork"
    /\ \A t \in Producers : pc[t] = "exited"
    /\ main' = "joined"
    /\ UNCHANGED <<MAX_SUBDIR_COUNTS, G_ItemProduce_Mq, pc, crashed, queuevars,
                   servervars, threadvars>>

-----------------------------------------------------------------------------
(* WaitProducer, in thread t. *)
TestEmpty(t) ==
    /\ pc[t] = "empty"
    /\ pc' = [pc EXCEPT ![t] = IF G_Volumns_Mq # <<>> THEN "count" ELSE "test"]
    /\ UNCHANGED <<main, MAX_SUBDIR_COUNTS, G_ItemProduce_Mq, crashed,
                   queuevars, servervars, threadvars>>

(* Under G_produce_Ptrmutex. *)
Count(t) ==
    /\ pc[t] = "count"
    /\ INC_SUBDIR_COUNTS' = INC_SUBDIR_COUNTS + 1
    /\ pc' = [pc EXCEPT ![t] = "pop"]
    /\ UNCHANGED <<main, MAX_SUBDIR_COUNTS, G_Volumns_Mq, G_ItemProduce_Mq,
                   crashed, servervars, threadvars>>

(* try_pop.  Another thread may have emptied the queue since TestEmpty;    *)
(* msg is then "" and not a valid directory.                               *)
Pop(t) ==
    /\ pc[t] = "pop"
    /\ \/ /\ G_Volumns_Mq = <<>>
          /\ pc' = [pc EXCEPT ![t] = "test"]
          /\ UNCHANGED <<G_Volumns_Mq, rest>>
       \/ /\ G_Volumns_Mq # <<>>
          /\ G_Volumns_Mq' = Tail(G_Volumns_Mq)
          /\ rest' = [rest EXCEPT ![t] = FilesIn[Head(G_Volumns_Mq)]]
          /\ pc' = [pc EXCEPT ![t] = "new_server"]
    /\ UNCHANGED <<main, MAX_SUBDIR_COUNTS, INC_SUBDIR_COUNTS,
                   G_ItemProduce_Mq, conn, crashed, servervars>>

(* Mutants of TestCount: the bound is off by one, either way. *)
TestCountEarly(t) ==
    /\ pc[t] = "test"
    /\ pc' = [pc EXCEPT ![t] = IF INC_SUBDIR_COUNTS + 1 >= MAX_SUBDIR_COUNTS
                               THEN "exited" ELSE "empty"]
    /\ UNCHANGED <<main, MAX_SUBDIR_COUNTS, G_ItemProduce_Mq, crashed,
                   queuevars, servervars, threadvars>>

TestCountLate(t) ==
    /\ pc[t] = "test"
    /\ pc' = [pc EXCEPT ![t] = IF INC_SUBDIR_COUNTS > MAX_SUBDIR_COUNTS
                               THEN "exited" ELSE "empty"]
    /\ UNCHANGED <<main, MAX_SUBDIR_COUNTS, G_ItemProduce_Mq, crashed,
                   queuevars, servervars, threadvars>>

(* The end of the loop; the counter is read without the mutex. *)
TestCount(t) ==
    /\ pc[t] = "test"
    /\ pc' = [pc EXCEPT ![t] = IF INC_SUBDIR_COUNTS >= MAX_SUBDIR_COUNTS
                               THEN "exited" ELSE "empty"]
    /\ UNCHANGED <<main, MAX_SUBDIR_COUNTS, G_ItemProduce_Mq, crashed,
                   queuevars, servervars, threadvars>>

-----------------------------------------------------------------------------
(* _ProducerMsg, in thread t. *)

(* pTrackerServer = new ConnectionInfo: sock is whatever the memory held. *)
NewServer(t) ==
    /\ pc[t] = "new_server"
    /\ \E s \in {s \in Servers : memory[s] = "free"} :
           /\ pTrackerServer' = s
           /\ memory' = [memory EXCEPT ![s] = "live"]
           /\ \E garbage \in {"none", "wild"} : sock' = [sock EXCEPT ![s] = garbage]
           /\ inbox' = [inbox EXCEPT ![s] = <<>>]
    /\ pc' = [pc EXCEPT ![t] = "fill"]
    /\ UNCHANGED <<main, MAX_SUBDIR_COUNTS, G_ItemProduce_Mq, crashed,
                   registered, queuevars, threadvars>>

(* ip_addr and port.  Another thread may have set the pointer meanwhile    *)
(* and a server may be used before it is filled in; its connect then fails *)
(* like any other, so the address is not part of the state.                *)
FillServer(t) ==
    /\ pc[t] = "fill"
    /\ pc' = [pc EXCEPT ![t] = "next_file"]
    /\ UNCHANGED <<main, MAX_SUBDIR_COUNTS, G_ItemProduce_Mq, crashed,
                   queuevars, servervars, threadvars>>

(* The loop over the files: TransferByData(pTrackerServer, ...). *)
NextFile(t) ==
    /\ pc[t] = "next_file"
    /\ rest[t] # <<>>
    /\ conn' = [conn EXCEPT ![t] = pTrackerServer]
    /\ pc' = [pc EXCEPT ![t] = "connect"]
    /\ UNCHANGED <<main, MAX_SUBDIR_COUNTS, G_ItemProduce_Mq, crashed, rest,
                   queuevars, servervars>>

NoMoreFiles(t) ==
    /\ pc[t] = "next_file"
    /\ rest[t] = <<>>
    /\ pc' = [pc EXCEPT ![t] = "disconnect"]
    /\ UNCHANGED <<main, MAX_SUBDIR_COUNTS, G_ItemProduce_Mq, crashed,
                   queuevars, servervars, threadvars>>

(* TransferByData connects when sock <= 0 ... *)
Connect(t) ==
    /\ pc[t] = "connect"
    /\ IF sock[conn[t]] = "none"
       THEN /\ sock' = [sock EXCEPT ![conn[t]] = "up"]
            /\ inbox' = [inbox EXCEPT ![conn[t]] = <<>>]
       ELSE UNCHANGED <<sock, inbox>>
    /\ pc' = [pc EXCEPT ![t] = "send"]
    /\ UNCHANGED <<main, MAX_SUBDIR_COUNTS, G_ItemProduce_Mq, crashed,
                   pTrackerServer, memory, registered, queuevars, threadvars>>

(* ... sends the request, which the tracker answers ... *)
Answer(file) == [file |-> file,
                 status |-> IF file \in registered THEN "exist" ELSE "success"]

Send(t) ==
    /\ pc[t] = "send"
    /\ sock[conn[t]] = "up"
    /\ inbox' = [inbox EXCEPT ![conn[t]] = Append(@, Answer(Head(rest[t])))]
    /\ registered' = registered \cup {Head(rest[t])}
    /\ pc' = [pc EXCEPT ![t] = "recv"]
    /\ UNCHANGED <<main, MAX_SUBDIR_COUNTS, G_ItemProduce_Mq, crashed,
                   pTrackerServer, memory, sock, queuevars, threadvars>>

(* Mutant of Receive: the file that was asked for is taken to be the one   *)
(* that was answered.                                                      *)
ReceiveOwn(t) ==
    /\ pc[t] = "recv"
    /\ inbox[conn[t]] # <<>>
    /\ LET response == Head(inbox[conn[t]])
       IN  G_ItemProduce_Mq' = IF response.status = "success"
                               THEN Append(G_ItemProduce_Mq, Head(rest[t]))
                               ELSE G_ItemProduce_Mq
    /\ inbox' = [inbox EXCEPT ![conn[t]] = Tail(@)]
    /\ rest' = [rest EXCEPT ![t] = Tail(@)]
    /\ pc' = [pc EXCEPT ![t] = "next_file"]
    /\ UNCHANGED <<main, MAX_SUBDIR_COUNTS, crashed, pTrackerServer, memory,
                   sock, registered, conn, queuevars>>

(* ... and reads the next response on the connection.  A file that the     *)
(* response says is new goes to the consumers.                             *)
Receive(t) ==
    /\ pc[t] = "recv"
    /\ inbox[conn[t]] # <<>>
    /\ LET response == Head(inbox[conn[t]])
       IN  G_ItemProduce_Mq' = IF response.status = "success"
                               THEN Append(G_ItemProduce_Mq, response.file)
                               ELSE G_ItemProduce_Mq
    /\ inbox' = [inbox EXCEPT ![conn[t]] = Tail(@)]
    /\ rest' = [rest EXCEPT ![t] = Tail(@)]
    /\ pc' = [pc EXCEPT ![t] = "next_file"]
    /\ UNCHANGED <<main, MAX_SUBDIR_COUNTS, crashed, pTrackerServer, memory,
                   sock, registered, conn, queuevars>>

(* connect, send or receive failed or timed out: the file is skipped.      *)
(* After a failed connect sock is -1 again; the others leave it alone, and *)
(* the response may still come.                                            *)
TransferFails(t) ==
    /\ pc[t] \in {"connect", "send", "recv"}
    /\ pc[t] = "connect" => sock[conn[t]] = "none"
    /\ rest' = [rest EXCEPT ![t] = Tail(@)]
    /\ pc' = [pc EXCEPT ![t] = "next_file"]
    /\ UNCHANGED <<main, MAX_SUBDIR_COUNTS, G_ItemProduce_Mq, crashed, conn,
                   queuevars, servervars>>

(* conn_pool_disconnect_server(pTrackerServer) *)
Disconnect(t) ==
    /\ pc[t] = "disconnect"
    /\ sock' = [sock EXCEPT ![pTrackerServer] = "none"]
    /\ inbox' = [inbox EXCEPT ![pTrackerServer] = <<>>]
    /\ pc' = [pc EXCEPT ![t] = "delete"]
    /\ UNCHANGED <<main, MAX_SUBDIR_COUNTS, G_ItemProduce_Mq, crashed,
                   pTrackerServer, memory, registered, queuevars, threadvars>>

(* delete pTrackerServer *)
Delete(t) ==
    /\ pc[t] = "delete"
    /\ memory' = [memory EXCEPT ![pTrackerServer] = "free"]
    /\ pc' = [pc EXCEPT ![t] = "test"]
    /\ UNCHANGED <<main, MAX_SUBDIR_COUNTS, G_ItemProduce_Mq, crashed,
                   pTrackerServer, sock, inbox, registered, queuevars,
                   threadvars>>

(* What thread t is about to access was freed: the access may crash. *)
Dangling(t) ==
    \/ pc[t] \in {"fill", "disconnect", "delete"} /\ memory[pTrackerServer] = "free"
    \/ pc[t] \in {"connect", "send", "recv"} /\ memory[conn[t]] = "free"

Crash(t) ==
    /\ Dangling(t)
    /\ crashed' = TRUE
    /\ UNCHANGED <<main, MAX_SUBDIR_COUNTS, G_ItemProduce_Mq, pc, queuevars,
                   servervars, threadvars>>

-----------------------------------------------------------------------------
Step(t) == \/ TestEmpty(t) \/ Count(t) \/ Pop(t) \/ TestCount(t)
           \/ NewServer(t) \/ FillServer(t) \/ NextFile(t) \/ NoMoreFiles(t)
           \/ Connect(t) \/ Send(t) \/ Receive(t) \/ TransferFails(t)
           \/ Disconnect(t) \/ Delete(t) \/ Crash(t)

MainStep == ReadyProducer \/ (\E t \in Producers : ForkProducer(t)) \/ JoinProducers

Next == ~crashed /\ (MainStep \/ \E t \in Producers : Step(t))

Spec == Init /\ [][Next]_vars

(* Every thread that can run is run. *)
FairSpec == /\ Spec
            /\ WF_vars(~crashed /\ MainStep)
            /\ \A t \in Producers : WF_vars(~crashed /\ Step(t))

-----------------------------------------------------------------------------
(* When ForkProducer returns no directory is left in the queue, although   *)
(* each directory is counted before it is taken, the counter also counts   *)
(* attempts that find the queue empty, and a thread leaves on the counter  *)
(* alone (provided MAX_SUBDIR_COUNTS was initialized in time).             *)
NothingLeft ==
    (main = "joined" /\ MAX_SUBDIR_COUNTS = Len(Folders)) => G_Volumns_Mq = <<>>

(* A file is given to the consumers only if the tracker has accepted it as *)
(* new, and once, although threads share connections, read each other's    *)
(* responses and get responses that belong to an earlier request.          *)
OnlyNewFiles ==
    /\ \A i \in DOMAIN G_ItemProduce_Mq :
           G_ItemProduce_Mq[i] \in registered \ Known
    /\ \A i, j \in DOMAIN G_ItemProduce_Mq :
           G_ItemProduce_Mq[i] = G_ItemProduce_Mq[j] => i = j

(* The threads end: no thread waits for a directory that nobody will count *)
(* (unless the process crashes first).                                     *)
ProducersEnd == <>(main = "joined" \/ crashed)
=============================================================================
