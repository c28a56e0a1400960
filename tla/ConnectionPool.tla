---------------------------- MODULE ConnectionPool ----------------------------
(***************************************************************************)
(* The connection pool of fastdfs/common/connection_pool.c: a              *)
(* ConnectionManager for a server has a LIFO list of idle connections, two *)
(* counters and a lock, and is found through a hash array under the lock   *)
(* of the pool, if it could be entered there.  Threads get and give back   *)
(* connections at the same time; a new connection is connected after the   *)
(* lock was released.                                                      *)
(*                                                                         *)
(* A connection is the address of the block that holds a ConnectionInfo    *)
(* and its ConnectionNode: free returns it to malloc, which may hand it    *)
(* out again.  A section under a lock is one step (one per turn where it   *)
(* loops), later than the step that read the time it compares with.        *)
(***************************************************************************)
EXTENDS Integers, FiniteSets

CONSTANTS Threads,              \* the callers
          Servers,              \* ip_addr and port, as conn_pool_get_key packs them
          Managers,             \* addresses of ConnectionManagers, never freed
          Conns,                \* addresses of malloc'ed blocks
          Fds,                  \* socket descriptors of the process
          NULL,
          max_count_per_entry,  \* 0 means no limit
          max_idle_time,
          MaxTime,              \* bound: the clock
          MaxFailures           \* bound: failed connects in a history

ASSUME PoolAssumption ==
    /\ max_count_per_entry \in Nat /\ max_idle_time \in Nat
    /\ MaxTime \in Nat /\ MaxFailures \in Nat
    /\ NULL \notin Conns \cup Managers \cup Threads
    /\ Fds \subseteq Nat
    /\ IsFiniteSet(Conns)

VARIABLES hash_array,   \* server -> its manager, or NULL
          made,         \* the managers that were allocated
          head, total_count, free_count, lock,   \* the managers' fields
          state,        \* connection -> where its block is
          manager, next, atime, sock,            \* the blocks' fields
          holder,       \* connection -> the thread that has it in hand
          direct,       \* sock of a ConnectionInfo outside the pool
          openfds,      \* descriptors open in the process
          pc, cm, now,                           \* the threads' locals
          clock,
          failures      \* manager -> connects that failed (history)

managers == <<hash_array, made, head, total_count, free_count, lock>>
blocks   == <<state, manager, next, atime, sock, holder>>
locals   == <<pc, cm, now>>
vars     == <<managers, blocks, direct, openfds, locals, clock, failures>>

Stages == {"outside", "enter", "connect", "destroyed"}

(* conn_pool_init, and one ConnectionInfo that the program owns itself. *)
Init ==
    /\ hash_array = [s \in Servers |-> NULL] /\ made = {}
    /\ head = [m \in Managers |-> NULL]
    /\ total_count = [m \in Managers |-> 0]
    /\ free_count = [m \in Managers |-> 0]
    /\ lock = [m \in Managers |-> NULL]
    /\ state = [c \in Conns |-> "free"]
    /\ manager = [c \in Conns |-> NULL]
    /\ next = [c \in Conns |-> NULL]
    /\ atime = [c \in Conns |-> 0]
    /\ sock = [c \in Conns |-> -1]
    /\ holder = [c \in Conns |-> NULL]
    /\ direct = -1
    /\ openfds = {}
    /\ pc = [t \in Threads |-> "outside"]
    /\ cm = [t \in Threads |-> NULL]
    /\ now = [t \in Threads |-> 0]
    /\ clock = 0
    /\ failures = [m \in Managers |-> 0]

-----------------------------------------------------------------------------
(* Descriptors after the socket old was connected again: closed first, then *)
(* socket, tcpsetnonblockopt and connectserverbyip_nb, each of which fails. *)
Reconnected(old) ==
    LET open == openfds \ {old}
        fd   == CHOOSE f \in Fds \ open : \A g \in Fds \ open : f <= g
    IN  [sock |-> fd, open |-> open \cup {fd}]
SocketLeft(old) == Fds \ (openfds \ {old}) # {}
\* Mutant: a failed reconnect leaves the old socket open.
NotConnectedOpen(old) == [sock |-> -1, open |-> openfds]
NotConnected(old) == [sock |-> -1, open |-> openfds \ {old}]

conn_pool_disconnect_server(c) ==
    /\ openfds' = openfds \ {sock[c]}
    /\ sock' = [sock EXCEPT ![c] = -1]

Return(t) == /\ pc' = [pc EXCEPT ![t] = "outside"]
             /\ cm' = [cm EXCEPT ![t] = NULL]
             /\ now' = [now EXCEPT ![t] = 0]

(* The lookup under cp->lock: a server without a manager gets one, if       *)
(* malloc and init_pthread_lock agree (else the call returns, and nothing   *)
(* has changed).  Whether hash_insert could enter it in the array is not    *)
(* looked at: this call goes on with a manager that no other will find.     *)
(* Then the time is read.                                                   *)
Manager(s, m) ==
    \/ hash_array[s] = m /\ UNCHANGED <<hash_array, made>>
    \/ /\ hash_array[s] = NULL /\ m \notin made
       /\ made' = made \cup {m}
       /\ hash_array' \in {hash_array, [hash_array EXCEPT ![s] = m]}

conn_pool_get_connection(t, s) ==
    /\ pc[t] = "outside"
    /\ \E m \in Managers : Manager(s, m) /\ cm' = [cm EXCEPT ![t] = m]
    /\ pc' = [pc EXCEPT ![t] = "enter"]
    /\ now' = [now EXCEPT ![t] = clock]
    /\ UNCHANGED <<head, total_count, free_count, lock, blocks, direct,
                   openfds, clock, failures>>

(* cm->lock is kept over the turns of the loop. *)
Locked(t, m)  == lock[m] \in {NULL, t} /\ lock' = [lock EXCEPT ![m] = t]
Unlocks(t, m) == lock[m] \in {NULL, t} /\ lock' = [lock EXCEPT ![m] = NULL]

AtLimit(m) == max_count_per_entry > 0 /\ total_count[m] >= max_count_per_entry

(* No idle connection: a new block, counted before it is connected. *)
NewNode(t) ==
    LET m == cm[t] IN
    /\ pc[t] = "enter" /\ head[m] = NULL
    /\ Unlocks(t, m)
    /\ \/ /\ Return(t)                       \* ENOSPC, or no memory
          /\ UNCHANGED <<total_count, blocks>>
       \/ /\ ~AtLimit(m)
          /\ \E c \in Conns :
               /\ state[c] = "free"
               /\ state' = [state EXCEPT ![c] = "connecting"]
               /\ manager' = [manager EXCEPT ![c] = m]
               /\ next' = [next EXCEPT ![c] = NULL]
               /\ atime' = [atime EXCEPT ![c] = 0]
               /\ sock' = [sock EXCEPT ![c] = -1]
               /\ holder' = [holder EXCEPT ![c] = t]
          /\ total_count' = [total_count EXCEPT ![m] = @ + 1]
          /\ pc' = [pc EXCEPT ![t] = "connect"]
          /\ UNCHANGED <<cm, now>>
    /\ UNCHANGED <<hash_array, made, head, free_count, direct, openfds, clock,
                   failures>>

(* conn_pool_connect_server, outside the lock; its failure frees the block *)
(* and returns, and leaves total_count as it is.                           *)
Connect(t) ==
    /\ pc[t] = "connect"
    /\ \E c \in Conns :
         /\ state[c] = "connecting" /\ holder[c] = t
         /\ \/ /\ SocketLeft(sock[c])
               /\ sock' = [sock EXCEPT ![c] = Reconnected(@).sock]
               /\ openfds' = Reconnected(sock[c]).open
               /\ state' = [state EXCEPT ![c] = "used"]
               /\ Return(t)
               /\ UNCHANGED <<holder, failures>>
            \/ /\ failures[manager[c]] < MaxFailures
               /\ sock' = [sock EXCEPT ![c] = NotConnected(@).sock]
               /\ openfds' = NotConnected(sock[c]).open
               /\ state' = [state EXCEPT ![c] = "free"]
               /\ holder' = [holder EXCEPT ![c] = NULL]
               /\ failures' = [failures EXCEPT ![manager[c]] = @ + 1]
               /\ Return(t)
    /\ UNCHANGED <<managers, manager, next, atime, direct, clock>>

\* Mutant: the head is not advanced.
PopKept(m, c) == /\ head[m] = c
                 /\ free_count' = [free_count EXCEPT ![m] = @ - 1]
                 /\ UNCHANGED head
Pop(m, c) == /\ head[m] = c
             /\ head' = [head EXCEPT ![m] = next[c]]
             /\ free_count' = [free_count EXCEPT ![m] = @ - 1]

Stale(t, c) == now[t] - atime[c] > max_idle_time

(* One turn of the loop: a connection that idled too long is closed ... *)
DropIdle(t) ==
    LET m == cm[t] IN
    /\ pc[t] = "enter"
    /\ Locked(t, m)
    /\ \E c \in Conns :
         /\ Pop(m, c)
         /\ Stale(t, c)
         /\ conn_pool_disconnect_server(c)
         /\ state' = [state EXCEPT ![c] = "free"]
    /\ total_count' = [total_count EXCEPT ![m] = @ - 1]
    /\ UNCHANGED <<hash_array, made, manager, next, atime, holder, locals, direct,
                   clock, failures>>

(* ... and one that did not is the caller's. *)
Reuse(t) ==
    /\ pc[t] = "enter"
    /\ Unlocks(t, cm[t])
    /\ \E c \in Conns :
         /\ Pop(cm[t], c)
         /\ ~Stale(t, c)
         /\ state' = [state EXCEPT ![c] = "used"]
         /\ holder' = [holder EXCEPT ![c] = t]
    /\ Return(t)
    /\ UNCHANGED <<hash_array, made, total_count, manager, next, atime, sock, direct,
                   openfds, clock, failures>>

-----------------------------------------------------------------------------
(* conn_pool_close_connection_ex by the thread that has c, with the ip_addr *)
(* and port that it connected to.  ENOENT (no manager of that server in the *)
(* array) and EINVAL (another one than the block's) change nothing: the     *)
(* caller keeps the connection, and can never give it back.                 *)
Registered(m) == \E s \in Servers : hash_array[s] = m

CanClose(t, c) == /\ pc[t] = "outside" /\ state[c] = "used" /\ holder[c] = t
                  /\ Registered(manager[c])
                  /\ Unlocks(t, manager[c])

CloseForced(t, c) ==
    /\ CanClose(t, c)
    /\ total_count' = [total_count EXCEPT ![manager[c]] = @ - 1]
    /\ conn_pool_disconnect_server(c)
    /\ state' = [state EXCEPT ![c] = "free"]
    /\ holder' = [holder EXCEPT ![c] = NULL]
    /\ Return(t)
    /\ UNCHANGED <<hash_array, made, head, free_count, manager, next, atime, direct,
                   clock, failures>>

GiveBack(t, c) ==
    LET m == manager[c] IN
    /\ CanClose(t, c)
    /\ atime' = [atime EXCEPT ![c] = clock]
    /\ next' = [next EXCEPT ![c] = head[m]]
    /\ head' = [head EXCEPT ![m] = c]
    /\ free_count' = [free_count EXCEPT ![m] = @ + 1]
    /\ state' = [state EXCEPT ![c] = "idle"]
    /\ holder' = [holder EXCEPT ![c] = NULL]
    /\ Return(t)
    /\ UNCHANGED <<hash_array, made, total_count, manager, sock, direct, openfds,
                   clock, failures>>

-----------------------------------------------------------------------------
(* conn_pool_connect_unixdomain and conn_pool_disconnect_server on a        *)
(* connection that the program keeps for itself.                            *)
conn_pool_connect_unixdomain ==
    /\ \/ /\ SocketLeft(direct)
          /\ direct' = Reconnected(direct).sock
          /\ openfds' = Reconnected(direct).open
       \/ /\ direct' = NotConnected(direct).sock
          /\ openfds' = NotConnected(direct).open
    /\ UNCHANGED <<managers, blocks, locals, clock, failures>>

DisconnectDirect ==
    /\ direct >= 0
    /\ openfds' = openfds \ {direct}
    /\ direct' = -1
    /\ UNCHANGED <<managers, blocks, locals, clock, failures>>

(* conn_pool_destroy, called by a thread when no other is in a call: the    *)
(* hash array goes, the managers and what they list stay allocated.         *)
conn_pool_destroy ==
    /\ \A t \in Threads : pc[t] = "outside"
    /\ hash_array' = [s \in Servers |-> NULL]
    /\ pc' = [t \in Threads |-> "destroyed"]
    /\ UNCHANGED <<made, head, total_count, free_count, lock, blocks, cm, now,
                   direct, openfds, clock, failures>>

Tick == /\ clock < MaxTime
        /\ clock' = clock + 1
        /\ UNCHANGED <<managers, blocks, locals, direct, openfds, failures>>

ThreadStep(t) ==
    \/ \E s \in Servers : conn_pool_get_connection(t, s)
    \/ NewNode(t) \/ Connect(t) \/ DropIdle(t) \/ Reuse(t)
    \/ \E c \in Conns : CloseForced(t, c) \/ GiveBack(t, c)

Next ==
    \/ \E t \in Threads : ThreadStep(t)
    \/ conn_pool_connect_unixdomain \/ DisconnectDirect
    \/ conn_pool_destroy
    \/ Tick

Spec == Init /\ [][Next]_vars

-----------------------------------------------------------------------------
Of(m, where) == {c \in Conns : state[c] \in where /\ manager[c] = m}

TypeOK ==
    /\ hash_array \in [Servers -> Managers \cup {NULL}] /\ made \subseteq Managers
    /\ head \in [Managers -> Conns \cup {NULL}]
    /\ lock \in [Managers -> Threads \cup {NULL}]
    /\ total_count \in [Managers -> Nat] /\ free_count \in [Managers -> Nat]
    /\ state \in [Conns -> {"free", "connecting", "used", "idle"}]
    /\ manager \in [Conns -> Managers \cup {NULL}]
    /\ next \in [Conns -> Conns \cup {NULL}]
    /\ atime \in [Conns -> 0..MaxTime]
    /\ sock \in [Conns -> Fds \cup {-1}]
    /\ holder \in [Conns -> Threads \cup {NULL}]
    /\ direct \in Fds \cup {-1} /\ openfds \subseteq Fds
    /\ pc \in [Threads -> Stages]
    /\ cm \in [Threads -> Managers \cup {NULL}]
    /\ now \in [Threads -> 0..MaxTime]
    /\ clock \in 0..MaxTime
    /\ failures \in [Managers -> 0..MaxFailures]

(* Every idle connection is on the list of its own manager exactly once    *)
(* (one pointer leads to it, from the head or from another idle one), and  *)
(* no pointer of a list leads to a connection in a caller's hands or to    *)
(* freed memory: nobody is handed a connection that somebody else has.     *)
Links(c) == {m \in Managers : head[m] = c}
            \cup {d \in Conns : state[d] = "idle" /\ next[d] = c}

ListedOnce ==
    \A c \in Conns :
        IF state[c] = "idle"
        THEN /\ \E x \in Links(c) : Links(c) = {x}
             /\ \A m \in Managers : head[m] = c => manager[c] = m
             /\ \A d \in Conns : state[d] = "idle" /\ next[d] = c
                                    => manager[d] = manager[c]
        ELSE Links(c) = {}

(* The counters of a manager.  free_count is the number of its idle         *)
(* connections.  total_count is not what connection_pool.h (45) says of it, *)
(* "total connections": it is greater by one for every connect that ever   *)
(* failed, and by nothing else.                                            *)
CountersExact ==
    \A m \in Managers :
        /\ free_count[m] = Cardinality(Of(m, {"idle"}))
        /\ total_count[m] = Cardinality(Of(m, {"connecting", "used", "idle"}))
                            + failures[m]

(* No descriptor leaks and none is shared: the open descriptors are those  *)
(* in the sock fields of live connections, each in one field only.         *)
SocketsOwned ==
    LET live == {c \in Conns : state[c] # "free" /\ sock[c] >= 0}
    IN  /\ openfds = {sock[c] : c \in live} \cup ({direct} \ {-1})
        /\ \A c \in live : sock[c] # direct
        /\ \A c, d \in live : sock[c] = sock[d] => c = d

(* The limit on the connections of a manager holds, also while several     *)
(* threads connect outside the lock.  No two servers have one manager; a   *)
(* server has several, each with its own limit, after hash_insert failed.  *)
LimitHolds ==
    max_count_per_entry > 0 =>
        \A m \in Managers : Cardinality(Of(m, {"connecting", "used", "idle"}))
                              <= max_count_per_entry

(* No list is shared between servers. *)
ManagersApart ==
    \A r, s \in Servers : hash_array[r] # NULL /\ hash_array[r] = hash_array[s] => r = s

(* Each block outside the lists is in the hands of the one thread that     *)
(* connects it or uses it, a thread that connects has one block to         *)
(* connect, and nobody holds a block that is idle or freed.                *)
Connects(t, c) == state[c] = "connecting" /\ holder[c] = t

BlocksHeld ==
    /\ \A c \in Conns : state[c] \in {"connecting", "used"} <=> holder[c] \in Threads
    /\ \A t \in Threads : pc[t] = "connect" <=> \E c \in Conns : Connects(t, c)
    /\ \A t \in Threads : \A c, d \in Conns : Connects(t, c) /\ Connects(t, d) => c = d

(* The lists, the counters and the limit of every manager agree at every   *)
(* moment, whichever threads are between the lock and the connect, no      *)
(* manager serves two servers, and no thread has what another one has.     *)
PoolConsistent ==
    ListedOnce /\ CountersExact /\ LimitHolds /\ ManagersApart /\ BlocksHeld
=============================================================================
