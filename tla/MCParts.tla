------------------------------- MODULE MCParts -------------------------------
(***************************************************************************)
(* Model checking of the safety of the parts that share no state: the way  *)
(* of an id to the store (Delivery), and of the client library the         *)
(* connection pool, the hash table, the schedule thread, the socket calls  *)
(* and the log of the threads; the configuration with the names derived    *)
(* from it, and the base64 codecs.  A behaviour is one of one part; the    *)
(* variables of the others keep their first values.  The names of the      *)
(* connection pool are taken as they are, those of the other parts by      *)
(* INSTANCE.                                                               *)
(***************************************************************************)
EXTENDS ConnectionPool, Sequences, TLC

CONSTANTS None,
          Senders, Consumers, Ids, Sockets, MaxConns,       \* Delivery
          k1, k2, k3,                                       \* HashTable
          j1, j2, j3, MaxLag, MaxLate, MaxTasks,            \* SchedThread
          Sizes, MaxCalls,                                  \* SocketIO
          Loggers, LogSlots, LogSize, LogFiles, LogSplit,   \* FastLog
          t1, t2, MaxLines,
          MaxConf, MaxBytes                                 \* StorageNames, Base64

VARIABLES part,
          to_push, G_ItemProduce_Mq, pConsumerServer, memory, conn_sock, fd, conn,
          stage, item, arg, ended, store,
          buckets, item_count, bytes_used, capacity, is_malloc_capacity, result,
          chain, at, checking, sleep_time, exec_count, waiting, waiting_del_id,
          running, lag, caller, tasks,
          peer, coming, in, out, link, nonblock, received, fds, leaked, call, calls,
          g_file_array, handle, step, victim, disk, time, lines, removed, broken,
          section, prev_name, error, _values, conf,
          src

-----------------------------------------------------------------------------
(* The blocks of the pool, its managers, and the ids are alike. *)
Alike == Permutations(Conns) \cup Permutations(Managers) \cup Permutations(Ids)

D == INSTANCE Delivery WITH
       Servers <- Consumers, Fds <- Sockets, sock <- conn_sock, pc <- stage

(* The hash codes collide under every small capacity, and two of them       *)
(* under 11, the first that hash_best_op tries.                             *)
H == INSTANCE HashTable WITH
       Keys <- {k1, k2, k3}, Values <- {2, 3}, InitCapacity <- 0,
       hash_func <- (k1 :> 0) @@ (k2 :> 11) @@ (k3 :> 17),
       key_len <- (k1 :> 1) @@ (k2 :> 2) @@ (k3 :> 4),
       LoadPercent <- 20, max_bytes <- 245, is_malloc_value <- TRUE,
       Suggestions <- {0, 16}

(* Two tasks at first; what is added is a new one and a replacement.        *)
Task(id, interval, based) == [id |-> id, interval |-> interval, based |-> based]
S == INSTANCE SchedThread WITH
       Tasks <- {j1, j2, j3},
       InitTasks <- <<Task(j1, 2, TRUE), Task(j2, 1, FALSE)>>,
       Batches <- {<<Task(j3, 1, FALSE), Task(j1, 1, FALSE)>>},
       MaxCalls <- MaxTasks, pc <- at, calls <- tasks

(* A line, with CR and LF, and a length field that fits what precedes it    *)
(* from the first unit on.                                                  *)
I == INSTANCE SocketIO WITH
       Stream <- <<1, 13, 10, 103, 104>>, FileData <- <<7, 8, 9>>, BuffSize <- 2,
       sock <- link, disk <- received

(* Two threads that share a log, and the values of LogFiles and LogSplit.   *)
SharedLog == (t1 :> <<"log", "wf">>) @@ (t2 :> <<"log">>)
FirstSplits == (t1 :> TRUE) @@ (t2 :> FALSE)
L == INSTANCE FastLog WITH
       Threads <- Loggers, Slots <- LogSlots, max_size <- LogSize,
       Files <- LogFiles, Split <- LogSplit,
       pc <- step, now <- time

(* Pairs of storage.conf, at the margin and indented, one of a name that is *)
(* too long for prev_name and one without a name, sections, what continues, *)
(* and bad lines.                                                           *)
ConfPair(name, value, indent) ==
    [kind |-> "pair", indent |-> indent, name |-> name, value |-> value,
     text |-> <<name, "=">> \o value]
ConfLine(kind, indent, name) ==
    [kind |-> kind, indent |-> indent, name |-> name, value |-> <<>>, text |-> <<name>>]
N == INSTANCE StorageNames WITH
       Lines <- {ConfPair("store_path0", <<"/", "d0">>, FALSE),
                 ConfPair("store_path0", <<>>, FALSE),
                 ConfPair("store_path1", <<"/", "d1", "/">>, TRUE),
                 ConfPair("Group_Name", <<"g">>, FALSE),
                 ConfPair("group_name", <<"h">>, TRUE),
                 ConfPair("long_name", <<"v">>, FALSE),
                 ConfPair("", <<"v">>, FALSE),
                 ConfLine("section", FALSE, "s"), ConfLine("section", TRUE, "s"),
                 ConfLine("section", FALSE, "long_name"),
                 ConfLine("open", FALSE, "s"), ConfLine("garbage", TRUE, "x"),
                 ConfLine("comment", TRUE, "x"), ConfLine("blank", FALSE, "")},
       MaxLines <- MaxConf,
       lower <- ("Group_Name" :> "group_name"), clip <- ("long_name" :> "long"),
       Hex <- {"00", "FF"},
       Files <- {[name |-> "p", ext |-> "jpg"], [name |-> "p", ext |-> "gif"],
                 [name |-> "p", ext |-> "txt"]},
       lines <- conf

(* Bytes of zeros, of ones and of both. *)
B == INSTANCE Base64 WITH
       Bytes <- {0, 155, 255}, LineLengths <- {0, 2, 4, 6, 9},
       LineSeparators <- {<<10>>, <<13, 10>>}

ASSUME PartsAssumption ==
    /\ D!DeliveryAssumption /\ H!HashAssumption
    /\ S!SchedAssumption /\ I!SocketAssumption /\ L!LogAssumption
    /\ N!IniAssumption /\ B!Base64Assumption

-----------------------------------------------------------------------------
dvars == <<to_push, G_ItemProduce_Mq, pConsumerServer, memory, conn_sock, fd, conn,
           stage, item, arg, ended, store>>
hvars == <<buckets, item_count, bytes_used, capacity, is_malloc_capacity, result>>
svars == <<chain, at, checking, sleep_time, exec_count, waiting, waiting_del_id,
           running, lag, caller, tasks>>
ivars == <<peer, coming, in, out, link, nonblock, received, fds, leaked, call, calls>>
lvars == <<g_file_array, handle, step, victim, disk, time, lines, removed, broken>>
nvars == <<section, prev_name, error, _values, conf>>
partsvars == <<part, dvars, vars, hvars, svars, ivars, lvars, nvars, src>>

PartsInit ==
    /\ part \in {"delivery", "pool", "hash", "sched", "socket", "log", "names", "base64"}
    /\ D!Init /\ Init /\ H!Init /\ S!Init /\ I!Init /\ L!Init /\ N!Init /\ B!Init
    /\ part # "socket" => nonblock = FALSE
    /\ part # "names" => error = 0

Deliver  == part = "delivery" /\ D!Next
            /\ UNCHANGED <<part, vars, hvars, svars, ivars, lvars, nvars, src>>
Pool     == part = "pool" /\ Next
            /\ UNCHANGED <<part, dvars, hvars, svars, ivars, lvars, nvars, src>>
Hash     == part = "hash" /\ H!Next
            /\ UNCHANGED <<part, dvars, vars, svars, ivars, lvars, nvars, src>>
Schedule == part = "sched" /\ S!Next
            /\ UNCHANGED <<part, dvars, vars, hvars, ivars, lvars, nvars, src>>
Socket   == part = "socket" /\ I!Next
            /\ UNCHANGED <<part, dvars, vars, hvars, svars, lvars, nvars, src>>
WriteLog == part = "log" /\ L!Next
            /\ UNCHANGED <<part, dvars, vars, hvars, svars, ivars, nvars, src>>

Read     == part = "names" /\ N!Next
            /\ UNCHANGED <<part, dvars, vars, hvars, svars, ivars, lvars, src>>
Encode   == part = "base64" /\ B!Next
            /\ UNCHANGED <<part, dvars, vars, hvars, svars, ivars, lvars, nvars>>

PartsNext == Deliver \/ Pool \/ Hash \/ Schedule \/ Socket \/ WriteLog \/ Read \/ Encode

PartsSpec == PartsInit /\ [][PartsNext]_partsvars

-----------------------------------------------------------------------------
(* Every part keeps its variables in their types. *)
PartsTypeOK == CASE part = "delivery" -> D!TypeOK
                 [] part = "pool"     -> TypeOK
                 [] part = "hash"     -> H!TypeOK
                 [] part = "sched"    -> S!TypeOK
                 [] OTHER             -> TRUE

(* An id that is read as it was sent is in one place: uploaded once. *)
OnePlace == part = "delivery" => D!OnePlace

(* Places, account, limit and owner of the hash table stay in order. *)
HashConsistent == part = "hash" => H!HashConsistent

(* The hash table implements a map. *)
RefinesHashMap == H!RefinesHashMap

(* The entries that are still to be executed are in the order of time. *)
ChainSorted == part = "sched" => S!ChainSorted

(* Sorting, adding and putting back loses and duplicates no task. *)
TasksKept == S!TasksKept

(* A receiving call takes from the stream what it reports. *)
CountExact == part = "socket" => I!CountExact

(* tcprecvfile leaves a whole file or none. *)
FileWhole == part = "socket" => I!FileWhole

(* A socket call leaves the mode and the descriptors as they were. *)
SocketRestored == part = "socket" => I!SocketRestored

(* A log file is open exactly while some thread uses it. *)
FilesShared == part = "log" => L!FilesShared

(* No line is lost but with a log that a thread removes on purpose. *)
LinesKept == part = "log" => L!LinesKept

(* Every key of a configuration has what the lines of its section say. *)
IniFound == part = "names" => N!IniFound

(* A picture is found again through all the names it is given. *)
PathRestored == part = "names" => N!PathRestored

(* Both base64 codecs give back what they were given. *)
RoundTrips == part = "base64" => B!RoundTrips
=============================================================================
