------------------------------- MODULE Delivery -------------------------------
(***************************************************************************)
(* The way of a file id from the producer process to the photo store: the  *)
(* threads of ListenItemConsumerMq (jobschedule/ProducerCli.cc) send each  *)
(* id over a connection of its own to the consumer process, whose          *)
(* _Buffered_on_read and _ConsumerMsg (jobschedule/ConsumerCli.cc) hand    *)
(* what they read to a TencentStorageServiceWriter.                        *)
(*                                                                         *)
(* The sending threads share one static pointer, pConsumerServer, and the  *)
(* ConnectionInfo behind it; each evaluation of the pointer is a step.     *)
(* Its sock is a descriptor number: a closed number is used again.  An id  *)
(* travels as two fragments, so that a read can get part of one or several.*)
(***************************************************************************)
EXTENDS Integers, SequencesExt, FiniteSets

CONSTANTS Senders, Servers, Ids, Fds, None,
          MaxConns      \* bound: connections in a history

(* What a read of other fragments than those of one id can be taken for: a  *)
(* text that is no id, or an id, when what is left in data completes it.    *)
Garbled      == <<"garbled">>
Mistaken(id) == <<"mistaken", id>>
Misread      == {Garbled} \cup {Mistaken(id) : id \in Ids}

(* What is assumed of the constants: no fileid is what a thread without one *)
(* holds, and none is written like what the model marks as misread.         *)
DeliveryAssumption ==
    /\ MaxConns \in Nat /\ IsFiniteSet(Ids)
    /\ None \notin Ids /\ Misread \cap Ids = {}

VARIABLES to_push, G_ItemProduce_Mq, pConsumerServer,
          memory,       \* server -> "free", "live"
          sock,         \* server -> a descriptor, or None for -1
          fd,           \* descriptor -> its connection, or None
          conn,         \* the connections so far
          pc, item,     \* thread -> where it is, the fileid it popped
          arg,          \* thread -> pConnection of conn_pool_connect_server
          ended,        \* how the producer process ended, or None
          store         \* what the photo store was sent

sendvars == <<G_ItemProduce_Mq, to_push, pConsumerServer, memory, sock, fd, pc,
              item, arg, ended>>
vars == <<sendvars, conn, store>>

(* A connection: connected, closed by the producer, the fragments that were *)
(* not read yet, the message in _ConsumerMsg, and whether some was echoed.  *)
NewConn == [up |-> FALSE, closed |-> FALSE, stream |-> <<>>, busy |-> None,
            echoed |-> FALSE]

\* The fragments are those of one id.
IsWhole(text) == \E id \in Ids : text = << <<id, 1>>, <<id, 2>> >>

(* What the fragments that one read takes are taken for.  data is neither   *)
(* initialised nor terminated, so that what an earlier read has left there  *)
(* may follow: the text of a whole id is then garbled, and that of a part   *)
(* may be an id, an earlier one or one that has the halves of two.          *)
Left == \E c \in DOMAIN conn : conn[c].echoed
Message(text) == IF IsWhole(text) THEN {Head(text)[1], Garbled}
                 ELSE {msg \in Misread : Left \/ msg = Garbled}

Init ==
    /\ to_push = Ids /\ G_ItemProduce_Mq = <<>>
    /\ pConsumerServer = None
    /\ memory = [s \in Servers |-> "free"]
    /\ sock = [s \in Servers |-> None]
    /\ fd = [f \in Fds |-> None] /\ conn = <<>>
    /\ pc = [t \in Senders |-> "new"]
    /\ item = [t \in Senders |-> None] /\ arg = [t \in Senders |-> None]
    /\ ended = None /\ store = <<>>

Goto(t, place) == pc' = [pc EXCEPT ![t] = place]

(* close(): the consumer reads what is still on the way. *)
Closed(f) ==
    IF f = None \/ fd[f] = None THEN UNCHANGED <<fd, conn>>
    ELSE /\ fd' = [fd EXCEPT ![f] = None]
         /\ conn' = [conn EXCEPT ![fd[f]].closed = TRUE]

-----------------------------------------------------------------------------
(* A producer thread puts an id that is new to the tracker into the queue. *)
Push(id) ==
    /\ ended = None /\ id \in to_push
    /\ to_push' = to_push \ {id}
    /\ G_ItemProduce_Mq' = Append(G_ItemProduce_Mq, id)
    /\ UNCHANGED <<pConsumerServer, memory, sock, fd, pc, item, arg, ended, conn,
                   store>>

(* ListenItemConsumerMq, in thread t.  Every thread sets the pointer; sock  *)
(* is whatever the memory held.                                             *)
NewServer(t) ==
    /\ pc[t] = "new"
    /\ \E s \in {s \in Servers : memory[s] = "free"} : \E garbage \in Fds \cup {None} :
          /\ pConsumerServer' = s
          /\ memory' = [memory EXCEPT ![s] = "live"]
          /\ sock' = [sock EXCEPT ![s] = garbage]
    /\ Goto(t, "fill")
    /\ UNCHANGED <<to_push, G_ItemProduce_Mq, fd, item, arg, ended, conn, store>>

(* ip_addr and port: a server used before it has them cannot be reached. *)
FillServer(t) ==
    /\ pc[t] = "fill"
    /\ Goto(t, "loop")
    /\ UNCHANGED <<to_push, G_ItemProduce_Mq, pConsumerServer, memory, sock, fd,
                   item, arg, ended, conn, store>>

\* Mutant: the last id is not seen.
TestEmptyEarly(t) ==
    /\ pc[t] = "loop" /\ Len(G_ItemProduce_Mq) > 1
    /\ Goto(t, "pop")
    /\ UNCHANGED <<to_push, G_ItemProduce_Mq, pConsumerServer, memory, sock, fd,
                   item, arg, ended, conn, store>>

TestEmpty(t) ==
    /\ pc[t] = "loop" /\ G_ItemProduce_Mq # <<>>
    /\ Goto(t, "pop")
    /\ UNCHANGED <<to_push, G_ItemProduce_Mq, pConsumerServer, memory, sock, fd,
                   item, arg, ended, conn, store>>

\* Mutant: front() without pop().
try_pop_front(t) ==
    /\ pc[t] = "pop"
    /\ item' = [item EXCEPT ![t] = IF G_ItemProduce_Mq = <<>> THEN None
                                   ELSE Head(G_ItemProduce_Mq)]
    /\ Goto(t, IF G_ItemProduce_Mq = <<>> THEN "loop" ELSE "connect")
    /\ UNCHANGED <<to_push, G_ItemProduce_Mq, pConsumerServer, memory, sock, fd,
                   arg, ended, conn, store>>

\* Mutant: the result of try_pop is not looked at.
try_pop_unchecked(t) ==
    /\ pc[t] = "pop"
    /\ item' = [item EXCEPT ![t] = IF G_ItemProduce_Mq = <<>> THEN Garbled
                                   ELSE Head(G_ItemProduce_Mq)]
    /\ G_ItemProduce_Mq' = IF G_ItemProduce_Mq = <<>> THEN <<>> ELSE Tail(G_ItemProduce_Mq)
    /\ Goto(t, "connect")
    /\ UNCHANGED <<to_push, pConsumerServer, memory, sock, fd, arg, ended, conn,
                   store>>

try_pop(t) ==
    /\ pc[t] = "pop"
    /\ \/ /\ G_ItemProduce_Mq = <<>>
          /\ Goto(t, "loop")
          /\ UNCHANGED <<G_ItemProduce_Mq, item>>
       \/ /\ G_ItemProduce_Mq # <<>>
          /\ item' = [item EXCEPT ![t] = Head(G_ItemProduce_Mq)]
          /\ G_ItemProduce_Mq' = Tail(G_ItemProduce_Mq)
          /\ Goto(t, "connect")
    /\ UNCHANGED <<to_push, pConsumerServer, memory, sock, fd, arg, ended, conn,
                   store>>

(* conn_pool_connect_server(pConsumerServer): close what sock says ... *)
ConnectClose(t) ==
    /\ pc[t] = "connect"
    /\ arg' = [arg EXCEPT ![t] = pConsumerServer]
    /\ Closed(sock[pConsumerServer])
    /\ Goto(t, "socket")
    /\ UNCHANGED <<to_push, G_ItemProduce_Mq, pConsumerServer, memory, sock,
                   item, ended, store>>

(* ... socket() ... *)
ConnectSocket(t) ==
    /\ pc[t] = "socket"
    /\ \/ \E f \in Fds :
            /\ fd[f] = None /\ Len(conn) < MaxConns
            /\ fd' = [fd EXCEPT ![f] = Len(conn) + 1]
            /\ conn' = Append(conn, NewConn)
            /\ sock' = [sock EXCEPT ![arg[t]] = f]
            /\ Goto(t, "connecting")
       \/ /\ sock' = [sock EXCEPT ![arg[t]] = None]
          /\ Goto(t, "delete")
          /\ UNCHANGED <<fd, conn>>
    /\ UNCHANGED <<to_push, G_ItemProduce_Mq, pConsumerServer, memory, item,
                   arg, ended, store>>

(* ... connect.  It fails also on a descriptor that another thread closed   *)
(* or connected.                                                            *)
ConnectServer(t) ==
    LET f == sock[arg[t]] IN
    /\ pc[t] = "connecting"
    /\ \/ /\ f # None
          /\ fd[f] # None
          /\ ~conn[fd[f]].up
          /\ conn' = [conn EXCEPT ![fd[f]].up = TRUE]
          /\ Goto(t, "send")
          /\ UNCHANGED <<fd, sock>>
       \/ /\ Closed(f)
          /\ sock' = [sock EXCEPT ![arg[t]] = None]
          /\ Goto(t, "delete")
    /\ UNCHANGED <<to_push, G_ItemProduce_Mq, pConsumerServer, memory, item,
                   arg, ended, store>>

(* No connection: the id is dropped, the shared server deleted. *)
DeleteServer(t) ==
    /\ pc[t] = "delete"
    /\ memory' = [memory EXCEPT ![pConsumerServer] = "free"]
    /\ item' = [item EXCEPT ![t] = None]
    /\ Goto(t, "loop")
    /\ UNCHANGED <<to_push, G_ItemProduce_Mq, pConsumerServer, sock, fd, arg,
                   ended, conn, store>>

(* TransferByData(pConsumerServer, fileid), whose result is not looked at. *)
Send(t) ==
    LET f == sock[pConsumerServer]
        ok == /\ f # None
              /\ fd[f] # None
              /\ conn[fd[f]].up
    IN
    /\ pc[t] = "send"
    /\ \E n \in IF ok THEN 0..2 ELSE {0} :
          conn' = IF n = 0 THEN conn
                  ELSE [conn EXCEPT ![fd[f]].stream =
                                        @ \o [i \in 1..n |-> <<item[t], i>>]]
    /\ item' = [item EXCEPT ![t] = None]
    /\ Goto(t, "disconnect")
    /\ UNCHANGED <<to_push, G_ItemProduce_Mq, pConsumerServer, memory, sock, fd,
                   arg, ended, store>>

Disconnect(t) ==
    /\ pc[t] = "disconnect"
    /\ Closed(sock[pConsumerServer])
    /\ sock' = [sock EXCEPT ![pConsumerServer] = None]
    /\ Goto(t, "loop")
    /\ UNCHANGED <<to_push, G_ItemProduce_Mq, pConsumerServer, memory, item,
                   arg, ended, store>>

(* The thread is about to follow a pointer to freed memory. *)
Dangling(t) ==
    \/ pc[t] \in {"fill", "connect", "delete", "send", "disconnect"}
          /\ memory[pConsumerServer] = "free"
    \/ pc[t] \in {"socket", "connecting"} /\ memory[arg[t]] = "free"

(* The process crashes there, or main returns after its sleep: queue and   *)
(* threads are gone and the kernel closes every socket.                    *)
End(how) ==
    /\ ended' = how
    /\ fd' = [f \in Fds |-> None]
    /\ conn' = [c \in DOMAIN conn |-> [conn[c] EXCEPT !.closed = TRUE]]
    /\ UNCHANGED <<to_push, G_ItemProduce_Mq, pConsumerServer, memory, sock, pc,
                   item, arg, store>>

Crash(t) == Dangling(t) /\ End("crashed")
Exit     == to_push = {} /\ End("returned")

-----------------------------------------------------------------------------
(* _Buffered_on_read: it takes all that has arrived as one string. *)
OnRead(c) ==
    /\ conn[c].stream # <<>> /\ conn[c].busy = None
    /\ \E n \in 1..Len(conn[c].stream) :
       \E msg \in Message(SubSeq(conn[c].stream, 1, n)) :
          conn' = [conn EXCEPT ![c].stream = SubSeq(@, n + 1, Len(@)),
                               ![c].busy = msg]
    /\ UNCHANGED <<sendvars, store>>

(* _ConsumerMsg: nothing for a string that is no fileid, else one request   *)
(* that may fail to be sent; then the echo.                                 *)
ConsumerMsg(c) ==
    /\ conn[c].busy # None
    /\ store' \in {store} \cup {Append(store, msg) : msg \in {conn[c].busy} \ {Garbled}}
    /\ conn' = [conn EXCEPT ![c].busy = None, ![c].echoed = TRUE]
    /\ UNCHANGED sendvars

(* The echo meets a closed socket: what was not read is gone. *)
Reset(c) ==
    /\ conn[c].echoed /\ conn[c].closed /\ conn[c].stream # <<>>
    /\ conn' = [conn EXCEPT ![c].stream = <<>>]
    /\ UNCHANGED <<sendvars, store>>

-----------------------------------------------------------------------------
Sender(t) ==
    /\ ended = None
    /\ \/ NewServer(t) \/ FillServer(t) \/ TestEmpty(t) \/ try_pop(t)
       \/ ConnectClose(t) \/ ConnectSocket(t) \/ ConnectServer(t)
       \/ DeleteServer(t) \/ Send(t) \/ Disconnect(t) \/ Crash(t)

Next == \/ \E id \in Ids : Push(id)
        \/ \E t \in Senders : Sender(t)
        \/ ended = None /\ Exit
        \/ \E c \in DOMAIN conn : OnRead(c) \/ ConsumerMsg(c) \/ Reset(c)

Spec == Init /\ [][Next]_vars

-----------------------------------------------------------------------------
TypeOK ==
    /\ to_push \subseteq Ids /\ G_ItemProduce_Mq \in Seq(Ids)
    /\ pConsumerServer \in Servers \cup {None}
    /\ sock \in [Servers -> Fds \cup {None}]
    /\ fd \in [Fds -> DOMAIN conn \cup {None}]
    /\ \A c \in DOMAIN conn : conn[c].busy \in Ids \cup Misread \cup {None}
    /\ item \in [Senders -> Ids \cup {None}]
    /\ store \in Seq(Ids \cup Misread)

(* Where an id is that could still be uploaded as it was sent. *)
Places(id) ==
    {<<"queue", i>> : i \in {i \in DOMAIN G_ItemProduce_Mq : G_ItemProduce_Mq[i] = id}}
    \cup {<<"thread", t>> : t \in {t \in Senders : item[t] = id}}
    \cup {<<"stream", c>> : c \in {c \in DOMAIN conn :
              \E i \in DOMAIN conn[c].stream : conn[c].stream[i] = <<id, 1>>}}
    \cup {<<"worker", c>> : c \in {c \in DOMAIN conn : conn[c].busy = id}}
    \cup {<<"store", i>> : i \in {i \in DOMAIN store : store[i] = id}}

(* An id that was read as it was sent is never in two places: two threads   *)
(* that take turns on the queue and on the shared connection neither take   *)
(* the same id nor send one again, whatever fails and whoever closes.  A    *)
(* file is uploaded twice only by a read that did not get the fragments of  *)
(* one id, which the consumer takes for that file's (Mistaken).             *)
OnePlace == \A id \in Ids : Cardinality(Places(id)) <= 1

(* The queue empties while the process runs: a consumer that cannot be     *)
(* reached costs ids, and never stops the threads.                         *)
QueueDrains == (G_ItemProduce_Mq # <<>>) ~> (G_ItemProduce_Mq = <<>> \/ ended # None)
=============================================================================
