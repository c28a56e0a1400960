# Verification of fdfs2qq: the B+ tree, the job servers and their client library

The repository migrates photos from FastDFS storage servers to an object
store. A *producer* process walks the storage directories, registers every
file with a tracker and sends the ids of new files to a *consumer* process,
which uploads them. A file-backed *B+ tree* is the duplicate index, and a
*work queue* is the consumer's thread pool. This directory holds TLA+ models of
those parts and of the client library beneath them, TLC configurations that
check them on small instances, and TLAPS proofs of properties that hold for
every instance.

Paths below are relative to `src/src/`.

## 1. Inventory

| Component | State | Operations | What makes it correct |
|---|---|---|---|
| B+ tree, `common/bpt.{h,cc}`, `common/bpt_predefined.h` | the header `meta_t`; blocks linked by `parent`, `next`, `prev` and child offsets | create/open, `search`, `search_range`, `insert`, `update`, `remove` | it is a map; the file keeps the shape that the next call trusts (sorted nodes, links, parents, half-full blocks, counters); every call returns; no assert fails |
| tree delegate, `common/BptDelegate.{h,cc}` | none of its own | load keys from a file, insert-or-update | the last value written wins |
| work queue, `common/workqueue.{h,cc}` | job list, worker list, `terminate` flags, one mutex, one condition variable | `workqueue_init`, `_add_job`, `_shutdown`, `worker_function` | a job runs once, on one worker; no wakeup is lost; shutdown ends |
| consumer server, `jobschedule/ConsumerCli.{h,cc}` | accept loop, clients, the work queue | `RunServer`, `_On_accept`, `_Server_job_function`, the bufferevent callbacks, `_Sighandler`, `_ConsumerMsg` | a client is freed once, by its worker; every connection is served; a signal ends the server |
| producer, `jobschedule/ProducerCli.{h,cc}` | two queues, `INC_SUBDIR_COUNTS`, three static connections | `LSMBinlog`, `ReadyProducer`, `ForkProducer`/`WaitProducer`, `_ProducerMsg`, `ForkConsumer`/`ListenItemConsumerMq` | every directory is walked once; the threads end; a registered file is sent |
| `concurrent_queue`, `common/mq.h` | a `std::queue`, a mutex, a condition variable | `push`, `empty`, `size`, `try_pop`, `wait_and_pop` | linearizable FIFO |
| storage configuration, `box/StorageConfig.{h,cc}`, with `common/ini.c` and `common/INIReader.*` | volumes and group read from `storage.conf` | reading the file; directory lists, ids, paths and their conversions | the path the consumer derives from an id is the one the producer listed |
| box messages, `box/box_object.{h,cc}` | none | `SplitMsg`, `splitMetalist`, `MappingHeaders` | fields come out as they went in |
| Mongo client, `common/MongoDelegate.*`, `transfer/db_mongodb.*` | a pool of clients, a collection | `Upsert`, `InsertBulk`, search | codes tell what happened; clients are given back |
| Tencent writer, `writer/`, `transfer/zerocopy_stream.cc` | one request | format and send | the request names the file and its meta data |
| connection pool, `third_part/fastdfs/common/connection_pool.*` | per server a list of idle connections, two counters, a lock | get, close, connect, disconnect, destroy | lists, counters and descriptors agree; the limit holds |
| hash table, `third_part/fastdfs/common/hash.*` | buckets, item count, bytes in use | init, insert, find, delete, walk, best size, destroy | it is a map; the account of memory is exact |
| schedule thread, `third_part/fastdfs/common/sched_thread.*` | a chain of entries, a batch to add, an id to delete | start, add, delete, the thread | each task is called when due, none is lost |
| socket calls, `third_part/fastdfs/common/sockopt.*` | a socket and its mode | receive, send, lines, files, connect, accept | what is taken is what is reported |
| thread log, `third_part/ganji/util/log/thread_fast_log.*` | a table of open files with reference counts | open, write, roll, close | no line is lost, no file is closed in use |
| codecs, `common/base64.*`, `common/tools.cc` | none | encode, decode, `split`, `implode` | decoding gives back what was encoded |
| helpers: `common/object.*`, `reader/`, `jobschedule/XprofSignal.h`, `third_part/fastdfs/common/{shared_func,http_func,ini_file_reader,logger,pthread_func}` | none | strings, files, logging | - |

How they interact. The consumer's main thread runs a libevent accept loop; each
connection becomes a `client_t` and a job that it adds to the work queue. A
worker takes the job, runs that connection's own event loop to its end and frees
the client. SIGINT and SIGTERM run `_KillServer` on whichever thread the kernel
picked. The producer's threads share two `concurrent_queue`s: one of
directories, filled before the threads start, and one of file ids, from which
other threads send to the consumer over connections of the fastdfs client
library; the consumer's workers turn each id into a path, a box message and an
upload. Both processes log through the thread log. The tree is called through
the delegate, which no program of the repository uses at present.

What is hard here. In the tree: histories, not single calls. A borrow, merge or
split goes wrong only in a tree that an earlier sequence of calls has shaped, and
shows only in a later call. In the queue and the server: the interleaving of
workers, main thread and signal handler. In the producer: connections that are
shared without a lock, and a counter that decides when threads leave. In the
client library: sections under a lock that leave work to be done after it, one
step of several failing, and a stream that may break at every byte.
`PROJECT.json` lists these as hazards, each at its line.

## 2. Modules

| Module | Models |
|---|---|
| `BPlusTreeNodes` | blocks, the binary searches over a node, the helpers that edit one node in memory |
| `BPlusTree` | header, file, and the calls `search`, `update`, `insert` with all the index work of `insert_key_to_index` |
| `BPlusTreeRemove` | `remove`: `borrow_key`, `change_parent_child`, the merges, `remove_from_index`, and the asserts |
| `BPlusTreeInvariants` | what must hold of the file; the refinement mapping |
| `KeyValueMap` | the abstract specification: a finite map |
| `MCBPlusTree` | composes the above for TLC: a script of calls, then free calls |
| `Workqueue` | `workqueue.cc` |
| `ConsumerServer` | `RunServer`, `_On_accept`, `_Server_job_function`, signals, over `Workqueue` |
| `Producer` | `ReadyProducer`, `ForkProducer`, `WaitProducer`, `_ProducerMsg`, `TransferByData`, over the queues of `mq.h` |
| `MCProducer` | directories and files for TLC |
| `BPlusTreeRange` | `search_range`, over the tree |
| `Delivery` | the sending threads of the producer, the connections, `_Buffered_on_read`, `_ConsumerMsg` and the upload |
| `MongoStore` | the Mongo client with its pool |
| `SchedThread` | `sched_thread.c` |
| `MCJobs` | composes the last three for liveness (it extends `MongoStore` and takes the others by `INSTANCE`) |
| `ConnectionPool` | `connection_pool.c` |
| `HashTable`, `HashMap` | `hash.c`, and the map it implements |
| `SocketIO` | `sockopt.c` over one connection |
| `FastLog` | `thread_fast_log.cc` |
| `IniReader`, `StorageNames` | `ini.c` with `INIReader`; volumes, ids, paths and box messages, over whatever was read |
| `Base64` | the codecs of `base64.c` and `tools.cc` |
| `MCParts` | composes `Delivery`, `SchedThread` and the rest for safety (it extends `ConnectionPool` and takes the others by `INSTANCE`) |
| `BPlusTree_proofs`, `BPlusTreeMap_proofs` | theorems about the tree, the second module extending the first |
| `ConsumerServer_proofs`, `Producer_proofs`, `MongoStore_proofs`, `ConnectionPool_proofs`, `FastLog_proofs` | theorems about the component of that name |
| `Parts_proofs` | theorems about the delivery part and the log part of `MCParts`; the second takes the lemmas of `FastLog_proofs` by `INSTANCE` |

### The tree

*State.* `meta` is `meta_t`, `disk` maps an offset to the block stored there,
`call` is the function being executed with its arguments, `result` what the last
public call reported. Offsets are block numbers in allocation order, which is
what matters of them; 0 is the null offset. Keys are ranks in the order of
`keycmp`; rank 0 is the empty key that the default constructor leaves in entries
nobody filled in, and callers may use it. `children` is the array up to `n`.

*Steps.* The tree is sequential. `Begin` starts a call, `search_index` is one
turn of the descent loop, and each branch of the work at the leaf is an action.
Each recursive call of `insert_key_to_index`, `remove_from_index` and
`change_parent_child` is an action, so a climb that never ends is a behaviour of
the model. Every action contains all block and header writes of its branch. A
call's `result` is set where the code's return value is settled, even if index
work follows; `call` stays busy until the call returns.

*Ranges.* `search_range` only reads. `BPlusTreeRange` has one action for its start,
one per turn of its loop, one for the last leaf and one for the mark it leaves for
the next iteration; `RangeNext` puts other calls between two range searches but
not inside one, as the code does.

*Asserts.* A failed `assert` stops the program, so `AssertsHold` guards every
step of `remove` and is itself checked as an invariant. It also contains what
the code relies on silently: the neighbour to merge with exists, and
`change_parent_child` does not climb past the root. That `remove_from_index` does
not write past `children` is a statement of its own, `WritesInside`, which guards
the steps as well: behind such a write nothing is known of the program. It fails
in trees that are wider than those of `TreeRemove` (third finding).

*The promise.* `KeyValueMap` is a map whose operations are atomic. The mapping
takes `map` to the records on the leaf chain from `meta.leaf_offset`. What a
search or an update of an absent key reports (-1 or a positive number) depends on
the layout of the leaves, and `KeyValueMap` leaves it open.

### The queue and the server

*State.* `waiting_jobs` and `workers` are the linked lists (both last in first
out), `terminate` the workers' flags, `jobs_mutex` its holder, `pc` and `job` the
workers' control, `shutdown` the progress of `workqueue_shutdown`, the thread that
executes it and its loop variable; `client`, `main` and `loopexit` belong to the
server. A job stands for its `client_t` as well.

*Steps.* Getting the mutex is a step; so is each access that other threads can
see. `worker_function` reads the head of the list and unlinks it in two steps.
`terminate` and the list of workers are read and written without the mutex, as in
the code. `pthread_cond_wait` may return spuriously. A signal may interrupt any
thread in `SignalThreads` at any point; that thread does nothing else until the
handler returns. In `workqueue_shutdown`, `worker->next` is read after the worker
was marked; if it has exited and freed itself by then, the model reads either the
old pointer or NULL.

### The producer

*State.* The two queues and the two counters keep their names. `pTrackerServer`
is the static pointer, `memory`, `sock` and `inbox` describe the `ConnectionInfo`
at each address and the responses waiting on its connection, `registered` is the
tracker's set of files (the tracker is external and modelled from how its
responses are used). `pc`, `rest` and `conn` belong to the threads: where a
thread is, the files of its directory still to do, and `pCurrentServer`, its copy
of the pointer. `G_ItemProduce_Mq` is only added to here; the threads that take
from it are in `Delivery`. A directory is a name for its list of files.

*Steps.* An operation on a queue holds the queue's mutex throughout and is one
step. Each evaluation of `pTrackerServer` is a step, and so are connect, send and
receive, each of which may fail. A request and the tracker's answer are one step;
the response can be read at once, later, or after a timeout by the next request
on that connection. It is read whole. Access through a pointer to freed memory
either crashes the process (`Crash`) or finds the old contents. A `sock` nobody
initialized is zero or a wild number that sending to fails on. The initial value
of `MAX_SUBDIR_COUNTS` is a choice (`InitialMax`), because it is computed from a
static of another translation unit. A failed `try_pop` leaves an empty message,
which is not valid: the objects are passed by elided copies, whose flag survives.

### From the queue to the store

`Delivery` starts where the producer ends: ids are pushed to the queue while
sending threads take them. The threads share `pConsumerServer`, and each
evaluation of the pointer is a step, as in `Producer`; `sock` is a descriptor
number, and a number that was closed is given to the next connection. An id
travels as two fragments, and a read of the consumer takes any prefix of what has
arrived. It takes it as the text up to the first 0 in an array that it neither
initialises nor terminates, so what an earlier read left there may follow: the
two fragments of one id give that id or a text that is none (`Garbled`), any
others give such a text or, once something was read before, some id
(`Mistaken`), an earlier one whose end is still there or one with the halves of
two. The model keeps apart an id that was read and one that was mistaken for it.
`_ConsumerMsg` uploads the file of either. `main` may end the process at any time
after its sleep. A client of `MongoStore` is a client of the driver's pool; count and
insert may fail, a bulk insert may store a part. The driver is external.

### The client library

* `ConnectionPool`: a section under a lock is one step, a loop under it one per
  turn; between unlock and connect other threads run. A block that was freed may
  be handed out again by the next `malloc`. A `ConnectionManager` is an address,
  too: when `hash_insert` cannot enter it, whose result is not looked at
  (`connection_pool.c:201`), the call goes on with a manager that nobody finds
  again, and the next call for that server makes another (`Manager`,
  `Registered`). Lists, counters and limit are therefore those of a manager, not
  of a server. `failures` counts connects that failed after they were counted, so
  that `CountersExact` can say what `total_count` is: connections in use, idle or
  being made, plus those.
* `HashTable`: every call is one step, as no function takes a lock. Chains,
  `item_count`, `bytes_used` and the ownership of `capacity` are kept as in the
  code, with `malloc` failing at will. `HashMap` is a finite map; a replacing
  insert that runs out of memory loses its key, in both.
* `SchedThread`: the thread and one caller share two globals without a lock; each
  access is a step. Times are relative to `g_current_time`.
* `SocketIO`: one connection, a peer that may close or reset after any unit, and
  a sequence of calls on it; `leaked` counts descriptors that early returns keep.
  The `fcntl` that puts the mode of a socket back may fail, which the calls
  ignore; `stuck` remembers it. `tcpsendfile_ex` is what the build makes of it:
  `USE_SENDFILE` is defined (`common_define.h:77`) and `OS_LINUX` is not, so the
  mode is changed, put back at once, and the file is read and sent by chunks
  (`sockopt.c:1344-1398`).
* `FastLog`: slots with name, reference count and date; a line is a number, so
  that a lost line is seen. Files are rolled by size and at a change of date.

### Names and codecs

`IniReader` takes one line per step, so every state is that of a whole file; or
there is no file (`NotOpened`). `IniFound` says what the lines of a file mean by
`ini.h` (which key each gives its text to), without a parser's state, and excepts
only the keys that a text too long for its array tears apart (`Torn`).
`StorageNames` adds no state: its operators compute volumes, directories, ids,
paths and messages from what was read. A text is a sequence of words and
separators, and no word contains a separator. `Base64` grows one source buffer
byte by byte; both codecs are functions of it, checked against each other and
their inverses.

## 3. Runs

The tree's runs use the order `ORDER = 4`, the smallest with two records in half
a node, so that every split, borrow and merge happens in small trees (the build's
`BP_ORDER` is 20; the proofs hold for every order from 4 on). Their histories are
scenes of `MCBPlusTree`: a script of calls that builds a tree of a given shape,
then a number of free calls. Deadlock is not checked: a history ends after its
calls, a process ends, or the bound of a part is reached.

| Run | Bounds | Result |
|---|---|---|
| `Tree` | from the empty tree 6 searches, inserts, updates with keys 0..4 and two values; trees about to split their root for the first time, 2 calls, keys 0..24 (odd keys are free); for the second time, 1 call, keys 0..57; two index levels, inserts and range searches into arrays of 1, 3, 4 and 20 | `TypeOK`, `LeafOwnsKey`, `NodesSorted`, `RowsLinked`, `ParentPointers`, `RangeExact`, `NextLeft`, `RefinesMap`: ascending, descending, inside-out and scattered insertion reach the right-most, left-most and middle split points of leaf and index, and splits that pass a key through two levels |
| `TreeRemove` | one index node, keys 1..9, 4 inserts and removes; two index nodes, keys 1..12, 4 removes | `RowsLinked`, `HalfFull`, `AssertsHold`, `RefinesMap`, `CallsReturn`: all borrows and merges of leaves and index nodes, separators two levels up, the collapse of the root |
| `Server` | 3 workers, 2 connections, 1 spurious wakeup, a signal on the main thread or a worker | `TypeOK`, `ClientOwnership`, `EveryClientServed` |
| `Producer` | 2 threads, 3 directories with 2, 1 and no files, one file known to the tracker, 3 addresses | `NothingLeft`, `OnlyNewFiles`, `ProducersEnd`: more directories than threads, so that a thread fails to pop while the other still takes; late responses; an address for each directory, since a deleted one need not come back |
| `Jobs` | delivery: 2 threads, 2 ids, 2 addresses, 1 connection; Mongo: 2 threads, 2 keys, 1 client, 2 calls each; schedule: 1 task and a batch of two, of which one is refused, a lag of 1 | `QueueDrains`; `ExistsIsTrue`, `CallsReturn`; `EveryTaskCalled`, `AddReturns`. Fewer clients than threads, so that one waits; the batch replaces a task that is scheduled |
| `Parts` | delivery: as above with 2 connections; pool: 2 threads, 1 server, 2 managers, 3 blocks, a limit of 2, 1 failure; hash: 3 keys that collide, values of 2 and 3 bytes, a limit of 245 bytes; schedule: 2 tasks, a batch of two; sockets: 3 calls on a stream of 5 units; log: 2 threads, 2 files of which one is shared, 3 lines, 2 seconds; names: no file, and files of up to 4 of 14 lines; base64: up to 7 bytes out of 3, line lengths 0, 2, 4, 6 and 9, set at the start or later | `PartsTypeOK`; `OnePlace`; `PoolConsistent`, `SocketsOwned`; `HashConsistent`, `RefinesHashMap`; `ChainSorted`, `TasksKept`; `CountExact`, `FileWhole`, `SocketRestored`; `FilesShared`, `LinesKept`; `IniFound`, `PathRestored`; `RoundTrips` |
| `SameKey` | one script, 1 insert | **violated**: `SameKeyRejected` |
| `BorrowLeft` | one script, 3 removes | **violated**: `StoredKeyFound` |
| `RootFull` | four index nodes under the root, one remove | **violated**: `WritesInside` |
| `RangeNext` | two index levels, one range search | **violated**: `NextMarked` |
| `ServerReturn` | 2 workers, 1 connection, a signal on the main thread | **violated**: `ServerReturns` |
| `MongoError` | the Mongo part of `Jobs` | **violated**: `ErrorReported` |

Why the bounds of `Parts` are enough for the cases to happen: the pool reaches
its limit with one connection idle and one being made, and a block is freed and
reused; the hash table grows once, is re-sized by `hash_best_op` and meets its
limit on an insert that replaces; a stream of 5 units holds a line with CR and LF
and two length fields, of which only the right one fits; three lines and files
of size 1 roll twice in one second, which is what makes two renamed files want
the same name; 7 bytes give every remainder by 3 and more than two lines.

`Parts` is checked up to the exchange of blocks, of managers and of ids
(`SYMMETRY Alike`): no definition tells one from another, and the properties are
invariants and step properties.

`TreeRemove` leaves `ParentPointers` out because it fails there (first finding),
stops before the calls that would meet the second, and its roots have fewer
children than the third needs: the passing runs delimit where `remove` is right.

Every property has a mutant: a variant of one definition, named in a comment as a
mutant of it and placed in front of it, under which TLC finds the property
violated.

### Findings

1. *A collapsed root leaves a stale parent* (`bpt.cc:293-296`). The child that
   becomes the root keeps its old `parent`. When it splits later, its middle key
   goes to the removed block and no new root is made; half of the tree can no
   longer be found and `insert` stores a key twice.
2. *Borrowing from the left between index nodes* (`bpt.cc:383`) overwrites the
   key of the borrower's first entry, which is still a separator; after some
   merges the key written is not, and a stored key is reported missing.
3. *A full root is written past its end* (`bpt.cc:284`). `remove_from_index` hands
   the child of the entry it deletes to the entry behind it. When the root has all
   its children and the last two of them are merged, that entry is outside the
   array, in the caller's copy on the stack.
4. *A terminating worker keeps the mutex* (`workqueue.cc:35,41`). The breaks skip
   the unlock, so `workqueue_shutdown` or `workqueue_add_job` blocks for ever and
   `RunServer` never returns, although the comment on `_KillServer` says so.
5. *A range search ends too early* (`bpt.cc:115`). Whether there is more is
   decided by the end of the leaf and not of the range: an array that is full at
   the end of a leaf reports that nothing is left.
6. *A failed insert is reported as success* (`db_mongodb.cc:131-133`).

No test or document of the repository reaches the first three: they need a history
of more than fifteen calls.

Differences between comments and code that the models follow on the side of the
code, without a run of their own:

* `total_count` of the pool is not lowered when a connect fails
  (`connection_pool.c:250`, against `connection_pool.h:45`). A failing
  `hash_insert` is ignored (`connection_pool.c:201`): the server then has several
  managers, each with its own `max_count_per_entry`, and a connection of one that
  is not in the array can never be given back. A connection idle for too long is
  closed only when its turn comes, which in a last-in-first-out list may be never
  (`connection_pool.h:57`).
* A partial read that what is left in `data` completes makes the consumer upload
  the file of another id, perhaps once more (`ConsumerCli.cc:321,332,338-339`).
* The meta file is never found: its suffix is added twice
  (`ConsumerCli.cc:365,377`, against `object.h:79`). `Delivery` leaves the meta
  file out.
* A replacing insert into the hash table that needs a new node answers 1 as for a
  new key (`hash.c:619`, against `hash.h:125`), and `stat_by_lens[0]` stays 0
  (`hash.h:194`).
* The name that continued lines go to is clipped to 49 characters (`ini.c:163`,
  against "with the same name for each subsequent line", `ini.h:58-60`), a section
  as well (`ini.c:140`). When `storage.conf` cannot be opened, `getReader` returns
  NULL (`StorageConfig.cc:136-139`), which is then followed
  (`StorageConfig.cc:284`).
* `base64_init_ex` keeps a line length that is no multiple of four (`base64.h:21`
  says "A multiple of 4"), and `base64_get_encode_length` then computes less than
  `base64_encode_ex` writes: 13 and 14 for 7 bytes in lines of 6
  (`base64.c:103-109`, `183-192`). `base64_decode_auto` counts line breaks as
  characters (`base64.c:266`).
* Whether the mode of a socket could be put back is not looked at after a connect
  (`sockopt.c:564`), and is forgotten in `tcpsendfile_ex` (`sockopt.c:1326`,
  `1361`), where the mode is put back before anything is sent.
* `SplitMsg` returns only the first message (`box_object.cc:89`).

### Fairness

`MCSpec` assumes weak fairness of `Work`: a call that was started is executed; it
is one thread's sequential code, so it goes on as long as it can. `FairSpec` of
the server assumes weak fairness of every thread, and that a connection's event
loop ends, which the read and write timeouts of `_On_accept` guarantee. It assumes
none for new connections, spurious wakeups, signals or failures, and no fair
mutex. In particular a worker may lose the mutex over and over to others;
with finitely many connections this cannot go on for ever. With an unbounded
stream of them it can, since jobs are served last in first out. `FairSpec` of the
producer assumes weak fairness of the main thread and of every directory thread:
each is a POSIX thread, and every socket call it makes has a timeout.

`FairSpec` of `MCJobs` assumes weak fairness of every sending thread, for the same
reasons; strong fairness of each step of a thread in a Mongo call, since
`mongoc_client_pool_pop` waits on a condition variable and the driver wakes those
who wait; weak fairness of the schedule thread, of the clock and of a caller that
is in `sched_add_entries`; and strong fairness of a merge that succeeds, since
its only obstacle is a `malloc` that fails, after which the thread tries again.
Nothing is assumed of the peers, of failures or of callers that are idle.

## 4. Proofs

Assumptions, each named where the constant is declared and evaluated by TLC in
the runs: `OrderAssumption` (an order of at least 4), `KeysAssumption` (keys are
natural numbers), `RangeAssumption` (the caller of `search_range` has an array of
at least one record), `WorkqueueAssumption` (the main thread is not a worker, `None`
is neither a thread nor a job), `ServerAssumption`, `ProducerAssumption` (at least
one thread and finitely many, a finite list of directories), `MongoAssumption`
(the bounds are natural numbers, the operations are among the three there are),
`PoolAssumption` (the blocks are a finite set, null is neither a block nor a
manager nor a thread, descriptors, limit and times are natural numbers),
`DeliveryAssumption` (what marks a misread text or no message is not a file id),
`LogAssumption` (a log has a name, every thread at least one file, slots and
bounds are natural numbers).

### The tree

The theorems are, but for the last two, about `Spec` of `BPlusTree`: every order from 4 on, every set of
keys and of values, every history of searches, inserts and updates. None of the
properties is inductive. Each invariant below speaks of every block at every step
of a call, of the blocks that a split has written and not yet entered into the
index too, where the property speaks of the tree between calls.

* `BPlusTree_proofs!TypeCorrect`: `Spec => []TypeOK`. `TypeOK` says more than
  types: the block that the descent or the climb maps next is an index node, no
  block overflows, no index node is empty. Whether a child is an index node or a
  leaf depends on how deep it lies, so `IInv` gives each block a level (`lev`, an
  existentially quantified function): leaves are at 0, each entry points one level
  down, each parent field one level up, the root is at `meta.height`; the call in
  progress is at the level the code expects; a null parent belongs to the root, or
  to the half that a split of the root has just made. Splits extend `lev` by one
  block. The module begins with the lemmas about the node operators (a bound
  search stays in range and finds the first greater key; an insertion adds one
  entry and keeps the others).
* `BPlusTree_proofs!ParentsCorrect` (`ParentPointers`) and `!SplitsHalfFull`
  (`HalfFull`). `LinkInv`: the children of an index node name it as their parent
  and it lists none twice; every block but the root is listed by its parent,
  except the one an insert is about to enter. `FillInv`: every block but the root
  and a sole leaf is half full, and the pieces of a split are.
* `BPlusTree_proofs!AlwaysSorted` (`NodesSorted`) and `!SearchFindsOwner`
  (`LeafOwnsKey`). That a node stays sorted depends on the key that comes up from a
  split lying between the separators around the entry of the block that was split.
  `OrdInv` gives every block the set of keys it owns (`own`, existentially
  quantified): an index node divides what it owns among its children as its
  separators say, the root owns all keys, a leaf stores only keys it owns. While a
  split is being entered the two halves share what the old block's entry stands
  for. Leaves own disjoint sets, which is `LeafOwnsKey`.
* `BPlusTreeMap_proofs!TreeIsMap`: `Spec => RefinesMap`, the tree implements
  `KeyValueMap`. `ChainInv` (the positions of the leaves on the chain, existentially
  quantified) shows that the walk of `LeafChain` visits every leaf of the file; with
  `OrdInv` a key has one record in all of them, so `Contents` is the map of the set
  of all records (`Stock`). A step inside the index leaves `Stock` alone, a split
  moves records and adds one, `search`, `update` and `insert` find or change the one
  record that the descent leads to.
* `BPlusTreeMap_proofs!RowsThreaded`: `Spec => []RowsLinked`. `RowsLinked` is about
  whole rows; `RowInv` is about one index node at a time: the blocks it lists follow
  each other by `next`, and the last of them is followed by the first that the next
  index node lists (`Linked`, `Beyond`). `node_create` links a new block in before
  the index lists it, so `Follower` skips the one that is pending: for the index
  nothing has changed until the entry is written. That the entry goes behind the
  block which was split is what `OrdInv` says of the key (`EntryPlace`,
  `HalvesPlace`). Each `prev` points back at the block whose `next` it is. From
  `RowInv` every row is threaded from end to end, top down (`RowsWhole`); the row
  of the leaves and the chain of `ChainInv` start at the block without a `prev`, so
  they are the same and as long as `leaf_node_num`.

* `BPlusTreeMap_proofs!RangeFound` (`RangeExact`) and `!RangeGoesOn` (`NextLeft`)
  are about `RangeSpec` of `BPlusTreeRange`: searches, inserts, updates and range
  searches in any order, each range search in any number of turns of its loop. The
  leaves in the order of their `next` fields are the leaves in the order of what
  they own (`LeavesInOrder`, from `RowInv` and `OrdInv`), so `Table` describes the
  tree to the loop as a list of leaves whose records grow from leaf to leaf, with
  the leaf that the descent for a key reaches between the smaller keys and the
  greater ones. `ScanOK` is the invariant of the loop: what is copied is the
  beginning of the range (`Begins`); at position p it is exactly what lies before
  p, unless the array is full (`Reached`); and when it is full, entry `b` of the
  last leaf is the first record of the range not copied (`FirstMissing`), unless
  `b` is the end of that leaf's part. The last case is where `NextMarked` fails:
  the theorems say that what is returned and where the caller goes on are right,
  the finding that the caller is not always told to go on.

`Rows`, `LeafChain` and the descent `LeafFor` are recursive functions. What they compute is shown by
taking the least index at which it fails (`LeastElement`, from `WFMin`), which
needs no induction theorem.

### The other components

* `ConsumerServer_proofs!ServerTypeCorrect` and `!ClientsOwned`: `TypeOK` and
  `ClientOwnership` for any number of workers and connections, with signals.
  `ClientOwnership` is not inductive: that a job is unlinked by the worker which
  read it rests on mutual exclusion (`LockInv`: who is between lock and unlock
  holds the mutex, the three kinds of critical section never overlap, a job read
  but not yet unlinked is still the first) and on what the main thread has in hand
  (`HandInv`).
* `Producer_proofs!AllTaken`: `Spec => []NothingLeft` for any number of threads
  and directories, with every failure of the connection. A thread leaves on the
  counter alone, and the counter also counts attempts that find the queue empty.
  The inductive invariant is an account (`Account`): as long as a directory is
  queued no attempt has failed, so the counter is exactly the directories taken
  plus the threads between counting and popping. When all threads have left
  nobody is in between, so a directory still queued would mean that the counter
  was below the bound on which they left (`ExitedOK`, `JoinedOK`).
* `Producer_proofs!NewFilesOnce`: `Spec => []OnlyNewFiles`. A thread takes whatever
  response comes first on the shared connection, so what it hands on depends on
  the responses of all threads. `FileInv`: a file has at most one accepting
  response on all connections together, and none once it was handed on; every
  response is about a registered file. `ConnInv` says which addresses the threads
  and the static pointer name.
* `MongoStore_proofs!ExistsAlways` (`ExistsIsTrue`) and `!ClientsNotShared`: the
  invariant covers calls that have made up their mind and not returned
  (`Truthful`), and needs that `Upsert` and search are about one key and that no
  record goes; the second theorem says that no two threads hold one client of the
  driver's pool.
* `ConnectionPool_proofs!PoolStaysConsistent` (`PoolConsistent`), `!NoSocketLost`
  (`SocketsOwned`) and `!PoolTypeCorrect`. The properties need each other, so the
  invariant is their conjunction with `Owners` (what is in use has a manager),
  `Entered` (what the hash array names was allocated, so a new manager is nobody's
  yet), `BlocksHeld` (a thread that is to connect has one block to connect, and
  nobody else has it) and `Lists`: each idle block is the head of its manager's list or the next of exactly
  one other. `Lists` is local to a block, so that taking one off or putting one on
  is a matter of its neighbours; that the lists reach every idle block once follows.
  That `total_count` stays exact is a count of blocks by state (`Moves`, `Counted`).
* `Parts_proofs!ReadIdsOnce` (`OnePlace`) for any number of sending threads,
  connections, addresses and ids, with every failure and every cut of the stream.
  An id is in one of six kinds of places (what the producer still has to push, the
  queue, the hands of a thread, the stream of a connection, a worker, the store),
  and in each at most once (`Apart`, `QueuedOnce` to `StoredOnce`). Every step takes
  it from one kind to the next or loses it. The first fragment of an id stands for
  the id in a stream, so however a read cuts the stream no id is in it and with a
  worker at once; an id that a misread text is mistaken for is not in any of them,
  so the theorem leaves that one way to upload a file again. Nothing has to be known about descriptors or addresses: what a
  connection that is closed, reused or ended does is to lose ids, never to copy one.
* `Parts_proofs!FilesStayShared` (`FilesShared`) and `!NoLineLost` (`LinesKept`) for
  any number of threads, files, slots, lines and every `max_size`. The invariant
  `LogInv` of `FastLog_proofs` counts the users of each slot over all handles: a
  count is what `OpenFileUnit` added and `CloseFileUnit` has not taken away, a slot
  is free when nobody uses it, no two slots have one name, and the file of an open
  slot exists. For the lines it needs that a suffix in use is below the number of
  lines written, so that the first free one (`FreeName`) exists and is reached; that
  what is removed, or overwritten by a rename to the temporary name, belongs to a log
  that somebody opened without `kLogSizeSplit`. Both hold until a log that
  was renamed cannot be opened again (`broken`): its slot then looks free while
  threads hold it. In `Parts` the same constants are given by definitions, so the
  theorems are about every assignment of them.

### Only model-checked

* Liveness (`CallsReturn`, `EveryClientServed`, `ProducersEnd`, `QueueDrains`,
  `EveryTaskCalled`, `AddReturns`): the prover does not cover fairness.
* All of `remove` (`AssertsHold`, and the other properties after a remove): two of
  the findings are about it, so what holds does so only up to a length of history,
  which is what `TreeRemove` delimits.
* `RoundTrips`, `PathRestored`, `IniFound`, `RefinesHashMap`, `HashConsistent`,
  `CountExact`, `FileWhole`: they say what folds and codecs compute over sequences
  of any length, which is induction over data.
* `ChainSorted` and `TasksKept`: a batch is merged into the chain by a fold.
* `PartsTypeOK`: the types of every part at once; the proofs above carry those of
  their own part.
* `SocketRestored`: an account of all calls and their early returns (see the
  plan).

## 5. What is not modelled

* Of the log: the `stat` of the file name before each write, which opens the file
  again when somebody outside has removed it (`thread_fast_log.cc:273-280`).
* Of the tree: a crash between the writes of one call, after which the next call
  works on the blocks that were written; failing `fread` and `fwrite`; keys longer
  than `key_t` holds; `search_range` into an array of size 0, which reads
  variables that were never set. Opening an existing file adds no state: the
  model's state is the file.
* Of the server: a second signal, and failures of the listening socket before
  the queue exists, which end the process.
* Of the producer: `LSMBinlog`, which sends the logs of earlier runs before any
  thread starts, and two threads that each read a part of one response.
* Of the client library: socket options, address lookups, unix domain sockets
  (their connect is that of `SocketIO`), the hash functions themselves, printing.
* Of the socket calls: a length field that a failing read cuts in its middle (a
  unit of the model stands for all of its eight bytes).
* Of the names: `opendir` and `stat` (a directory is a set of files), words that
  contain a separator, the fixed sizes of the arrays in `HeaderItem`, and the 128
  bytes that `RESPONSE_HEADER` has for an id and for a volume
  (`StorageConfig.h:21-26`), behind which they are cut (`StorageConfig.cc:83-87`).
* `BptDelegate`, `object.cc`, `reader/` and `unixdomain.h`, which no program of the
  repository calls; `shared_func`, `http_func`, `logger` and `pthread_func`, which
  keep no state of interest; `ini_file_reader`, whose load functions are commented
  out; `zmq.hpp`, the SDK and the drivers, which are external.

## 6. Plan

1. `SocketRestored` and `FileWhole` of the socket calls.
2. `BptDelegate` over `KeyValueMap`; a crash between two writes of the tree.
