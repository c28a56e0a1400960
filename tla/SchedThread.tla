----------------------------- MODULE SchedThread -----------------------------
(***************************************************************************)
(* The schedule thread of fastdfs/common/sched_thread.c and a caller that  *)
(* adds and deletes tasks while it runs.  The two share waiting_del_id and *)
(* waiting_schedule_array without a lock.                                  *)
(*                                                                         *)
(* Times are relative to g_current_time: an entry's due is its             *)
(* next_call_time - g_current_time, and lag is time(NULL) -                *)
(* g_current_time, so that reading the clock lowers every due by lag.      *)
(* A due further back than MaxLate counts as -MaxLate.                     *)
(***************************************************************************)
EXTENDS Integers, SequencesExt, FiniteSetsExt

CONSTANTS Tasks,      \* task ids
          InitTasks,  \* the array of sched_start: a sequence of requests
          Batches,    \* the arrays a caller may pass to sched_add_entries
          None,
          MaxLag, MaxLate,   \* bounds: the clock
          MaxCalls           \* bound: calls of sched_add_entries, sched_del_entry

(* A request as the caller fills it in; based: it has a time_base. *)
Request == [id : Tasks, interval : Int, based : BOOLEAN]

(* What is assumed of the constants. *)
SchedAssumption ==
    /\ MaxLag \in Nat \ {0} /\ MaxLate \in Nat \ {0} /\ MaxCalls \in Nat
    /\ InitTasks \in Seq(Request) /\ Batches \subseteq Seq(Request)

VARIABLES chain,     \* the entries from head to tail
          pc,        \* where sched_thread_entrance is
          checking,  \* who called sched_check_waiting, and deleteCount > 0
          sleep_time,
          exec_count,
          waiting,   \* waiting_schedule_array: entries, or None, and count > 0
          waiting_del_id,
          running,   \* *pcontinue_flag
          lag,
          caller,    \* where the caller is, and its array
          calls

threadvars == <<chain, checking, sleep_time, exec_count>>
shared     == <<waiting, waiting_del_id>>
vars       == <<pc, threadvars, shared, running, lag, caller, calls>>

Idle == [at |-> "idle", batch |-> <<>>]

-----------------------------------------------------------------------------
Later(entries, d) == [i \in DOMAIN entries |->
    [entries[i] EXCEPT !.due = IF @ - d < -MaxLate THEN -MaxLate ELSE @ - d]]

(* g_current_time = time(NULL), by either thread. *)
Chain0 == Later(chain, lag)
Waiting0 == IF waiting.entries = None THEN waiting
            ELSE [waiting EXCEPT !.entries = Later(@, lag)]
ReadClock == lag' = 0 /\ chain' = Chain0

(* An entry whose internal fields still hold what the caller left in them. *)
Raw(r, due) == [id |-> r.id, interval |-> r.interval, based |-> r.based,
                due |-> due, init |-> FALSE]

(* sched_init_entries: the first call one interval ahead or, with a time    *)
(* base, at its next multiple; it gives up at an interval that is no time.  *)
FirstDue(e) == IF e.based THEN 1..e.interval ELSE {e.interval}
BadAt(entries) == {i \in DOMAIN entries : entries[i].interval <= 0}
Initialised(entries) ==
    LET good == IF BadAt(entries) = {} THEN DOMAIN entries
                ELSE 1..Min(BadAt(entries)) - 1
        dues == {f \in [good -> 1..Max({1} \cup {entries[i].interval : i \in good})] :
                    \A i \in good : f[i] \in FirstDue(entries[i])}
    IN  {[i \in DOMAIN entries |->
             IF i \in good THEN [entries[i] EXCEPT !.due = f[i], !.init = TRUE]
             ELSE entries[i]] : f \in dues}

InOrder(s) == \A i, j \in DOMAIN s : i < j => s[i].due <= s[j].due

(* sched_make_chain: qsort leaves equal entries in any order. *)
sched_make_chain(entries) ==
    {s \in {[i \in DOMAIN entries |-> entries[p[i]]] :
               p \in {f \in [DOMAIN entries -> DOMAIN entries] : IsInjective(f)}} :
        InOrder(s)}

\* Mutant: an id that is scheduled already gets a second entry.
MergeAppend(entries, added) == entries \o added
(* The waiting entries replace those with their id or come last. *)
Merge(entries, added) ==
    FoldLeft(LAMBDA s, e :
                IF \E i \in DOMAIN s : s[i].id = e.id
                THEN [i \in DOMAIN s |-> IF s[i].id = e.id THEN e ELSE s[i]]
                ELSE Append(s, e),
             entries, added)

Init ==
    /\ chain = [i \in DOMAIN InitTasks |-> Raw(InitTasks[i], 0)]
    /\ pc = "new"
    /\ checking = [from |-> "top", deleted |-> FALSE]
    /\ sleep_time = 0 /\ exec_count = 0
    /\ waiting = [entries |-> None, ready |-> FALSE]
    /\ waiting_del_id = None
    /\ running = TRUE /\ lag = 0
    /\ caller = Idle /\ calls = 0

-----------------------------------------------------------------------------
(* sched_start and the beginning of the thread: without memory or a thread, *)
(* or with a bad interval, there is no schedule.                            *)
sched_start ==
    /\ pc = "new"
    /\ \/ /\ BadAt(chain) = {}
          /\ \E init \in Initialised(chain) : chain' \in sched_make_chain(init)
          /\ pc' = "top"
       \/ pc' = "exited" /\ UNCHANGED chain
    /\ UNCHANGED <<checking, sleep_time, exec_count, shared, running, lag,
                   caller, calls>>

Goto(place) == pc' = place

Top ==
    /\ pc = "top"
    /\ Goto(IF running THEN "delete" ELSE "exited")
    /\ checking' = [from |-> "top", deleted |-> FALSE]
    /\ UNCHANGED <<chain, sleep_time, exec_count, shared, running, lag, caller,
                   calls>>

(* sched_check_waiting: first the deletion ... *)
CheckDelete ==
    LET at == {i \in DOMAIN chain : chain[i].id = waiting_del_id} IN
    /\ pc = "delete"
    /\ IF at = {} THEN UNCHANGED <<chain, checking>>
       ELSE /\ chain' \in sched_make_chain(RemoveAt(chain, Min(at)))
            /\ checking' = [checking EXCEPT !.deleted = TRUE]
    /\ waiting_del_id' = None
    /\ Goto("merge")
    /\ UNCHANGED <<sleep_time, exec_count, waiting, running, lag, caller, calls>>

(* ... then the additions, unless malloc fails: copied here, and the waiting *)
(* array is freed and reset in the next step.                                *)
CheckMerge ==
    /\ pc = "merge"
    /\ \/ /\ ~waiting.ready
          /\ Goto(IF checking.deleted THEN "changed" ELSE "unchanged")
          /\ UNCHANGED chain
       \/ /\ waiting.ready
          /\ Goto("unchanged")
          /\ UNCHANGED chain
       \/ /\ waiting.ready
          /\ chain' \in sched_make_chain(Merge(chain, waiting.entries))
          /\ Goto("clear")
    /\ UNCHANGED <<checking, sleep_time, exec_count, shared, running, lag,
                   caller, calls>>

\* Mutant: waiting_schedule_array.entries is freed and not reset.
CheckClearDangling ==
    /\ pc = "clear"
    /\ waiting' = [waiting EXCEPT !.ready = FALSE]
    /\ Goto("changed")
    /\ UNCHANGED <<threadvars, waiting_del_id, running, lag, caller, calls>>

CheckClear ==
    /\ pc = "clear"
    /\ waiting' = [entries |-> None, ready |-> FALSE]
    /\ Goto("changed")
    /\ UNCHANGED <<threadvars, waiting_del_id, running, lag, caller, calls>>

(* Back from sched_check_waiting at the top of the loop: how long to sleep. *)
Checked ==
    /\ pc \in {"changed", "unchanged"} /\ checking.from = "top"
    /\ chain # <<>>
    /\ ReadClock /\ waiting' = Waiting0
    /\ sleep_time' = Chain0[1].due
    /\ exec_count' = 0
    /\ Goto(IF Chain0[1].due > 0 /\ running THEN "sleep" ELSE "exec")
    /\ UNCHANGED <<checking, waiting_del_id, running, caller, calls>>

(* No entry: sleep and look again. *)
CheckedEmpty ==
    /\ pc \in {"changed", "unchanged"} /\ checking.from = "top"
    /\ chain = <<>> /\ lag > 0
    /\ ReadClock /\ waiting' = Waiting0
    /\ Goto("top")
    /\ UNCHANGED <<checking, sleep_time, exec_count, waiting_del_id, running,
                   caller, calls>>

(* sleep(1) is over; look for changes. *)
Wake ==
    /\ pc = "sleep" /\ lag > 0
    /\ ReadClock /\ waiting' = Waiting0
    /\ checking' = [from |-> "sleep", deleted |-> FALSE]
    /\ Goto("delete")
    /\ UNCHANGED <<sleep_time, exec_count, waiting_del_id, running, caller,
                   calls>>

\* Mutant: sleep_time is not counted down.
CheckedAsleepOn ==
    /\ pc \in {"changed", "unchanged"} /\ checking.from = "sleep"
    /\ Goto(IF pc = "unchanged" /\ sleep_time > 0 /\ running THEN "sleep" ELSE "exec")
    /\ exec_count' = 0
    /\ UNCHANGED <<chain, checking, sleep_time, shared, running, lag, caller, calls>>

CheckedAsleep ==
    /\ pc \in {"changed", "unchanged"} /\ checking.from = "sleep"
    /\ sleep_time' = IF pc = "changed" THEN sleep_time ELSE sleep_time - 1
    /\ Goto(IF pc = "unchanged" /\ sleep_time' > 0 /\ running THEN "sleep" ELSE "exec")
    /\ exec_count' = 0
    /\ UNCHANGED <<chain, checking, shared, running, lag, caller, calls>>

Due == exec_count < Len(chain) /\ chain[exec_count + 1].due <= 0

(* The head entries that are due are called, one by one. *)
Execute ==
    /\ pc = "exec" /\ running /\ Due
    /\ chain' = [chain EXCEPT ![exec_count + 1].due =
                                     chain[exec_count + 1].interval]
    /\ exec_count' = exec_count + 1
    /\ UNCHANGED <<pc, checking, sleep_time, shared, running, lag, caller, calls>>

\* Mutant: the time is compared with the tail only.
ReinsertHead(s, e) == <<e>> \o s
(* The executed entries, in front, go back to where their time puts them. *)
Reinsert(s, e) ==
    IF e.due >= Last(s).due THEN Append(s, e)
    ELSE InsertAt(s, Min({i \in DOMAIN s : e.due <= s[i].due}), e)

Executed ==
    /\ pc = "exec" /\ ~(running /\ Due)
    /\ IF exec_count = 0 \/ Len(chain) = 1 THEN UNCHANGED chain
       ELSE IF exec_count > Len(chain) \div 2 THEN chain' \in sched_make_chain(chain)
       ELSE chain' = FoldLeft(Reinsert, SubSeq(chain, exec_count + 1, Len(chain)),
                              SubSeq(chain, 1, exec_count))
    /\ Goto("top")
    /\ UNCHANGED <<checking, sleep_time, exec_count, shared, running, lag,
                   caller, calls>>

-----------------------------------------------------------------------------
(* sched_add_entries waits until the previous array was taken, publishes    *)
(* its copy and only then fills in the times.                               *)
sched_add_entries(batch) ==
    /\ caller = Idle /\ calls < MaxCalls
    /\ calls' = calls + 1
    /\ caller' = [at |-> "add", batch |-> batch]
    /\ UNCHANGED <<pc, threadvars, shared, running, lag>>

AddPublish ==
    /\ caller.at = "add" /\ waiting.entries = None
    /\ \/ \E due \in {-MaxLate, MaxLag} :
            /\ waiting' = [entries |-> [i \in DOMAIN caller.batch |->
                                           Raw(caller.batch[i], due)],
                           ready |-> TRUE]
            /\ caller' = [caller EXCEPT !.at = "init"]
       \/ caller' = Idle /\ UNCHANGED waiting          \* no memory
    /\ UNCHANGED <<pc, threadvars, waiting_del_id, running, lag, calls>>

(* Nothing is left to do when the thread was faster (or it writes to the    *)
(* array that the thread has just copied and freed: not in the model).      *)
AddInit ==
    /\ caller.at = "init"
    /\ IF waiting.ready
       THEN /\ waiting' \in {[waiting EXCEPT !.entries = e] :
                                e \in Initialised(waiting.entries)}
            /\ ReadClock
       ELSE UNCHANGED <<waiting, lag, chain>>
    /\ caller' = Idle
    /\ UNCHANGED <<pc, checking, sleep_time, exec_count, waiting_del_id,
                   running, calls>>

(* sched_del_entry waits for the previous deletion. *)
sched_del_entry(id) ==
    /\ caller = Idle /\ calls < MaxCalls
    /\ waiting_del_id = None
    /\ waiting_del_id' = id
    /\ calls' = calls + 1
    /\ UNCHANGED <<pc, threadvars, waiting, running, lag, caller>>

Stop == /\ running
        /\ running' = FALSE
        /\ UNCHANGED <<pc, threadvars, shared, lag, caller, calls>>

Tick == /\ lag < MaxLag
        /\ lag' = lag + 1
        /\ UNCHANGED <<pc, threadvars, shared, running, caller, calls>>

Thread == \/ Top \/ CheckDelete \/ CheckMerge \/ CheckClear \/ Checked
          \/ CheckedEmpty \/ Wake \/ CheckedAsleep \/ Execute \/ Executed

Next == \/ sched_start \/ Thread
        \/ \E batch \in Batches : sched_add_entries(batch)
        \/ AddPublish \/ AddInit
        \/ \E id \in Tasks : sched_del_entry(id)
        \/ Stop \/ Tick

Spec == Init /\ [][Next]_vars

-----------------------------------------------------------------------------
TaskIds(entries) == {entries[i].id : i \in DOMAIN entries}
Entry == [id : Tasks, interval : Int, based : BOOLEAN, due : Int, init : BOOLEAN]

TypeOK ==
    /\ chain \in Seq(Entry)
    /\ \A i \in DOMAIN chain : chain[i].due >= -MaxLate
    /\ pc \in {"new", "top", "delete", "merge", "clear", "changed", "unchanged",
               "sleep", "exec", "exited"}
    /\ checking \in [from : {"top", "sleep"}, deleted : BOOLEAN]
    /\ sleep_time \in Int /\ exec_count \in Nat
    /\ pc = "exec" => exec_count <= Len(chain)
    /\ waiting.ready \in BOOLEAN
    /\ waiting.entries # None => waiting.entries \in Seq(Entry)
    /\ waiting_del_id \in Tasks \cup {None}
    /\ running \in BOOLEAN /\ lag \in 0..MaxLag /\ calls \in 0..MaxCalls
    /\ caller.at \in {"idle", "add", "init"}

(* The thread sleeps until the head entry and stops executing at the first  *)
(* entry that is not due, so the entries that are not executed yet must be  *)
(* in the order of their times, whatever was added, deleted or put back.    *)
ChainSorted ==
    pc \notin {"new", "exited"} =>
        InOrder(SubSeq(chain, 1 + (IF pc = "exec" THEN exec_count ELSE 0), Len(chain)))

(* Sorting and putting back executed entries neither loses a task nor       *)
(* duplicates one; only a deletion and an addition change who is scheduled. *)
TasksKept ==
    [][TaskIds(chain') # TaskIds(chain) \/ Len(chain') # Len(chain)
          => \/ pc = "delete" /\ TaskIds(chain') = TaskIds(chain) \ {waiting_del_id}
                             /\ Len(chain') = Len(chain) - 1
             \/ pc = "merge" /\ TaskIds(chain') = TaskIds(chain) \cup TaskIds(waiting.entries)
                            /\ Len(chain') = Cardinality(TaskIds(chain'))]_vars

(* Every scheduled task is called again and again while the thread runs,    *)
(* also when others are added, deleted or replaced and when it is late.     *)
EveryTaskCalled ==
    \A id \in Tasks :
        []<>(\/ pc = "exited" \/ ~running
             \/ id \notin TaskIds(chain)
             \/ pc = "exec" /\ Due /\ chain[exec_count + 1].id = id)

(* sched_add_entries returns as long as the thread lives. *)
AddReturns == (caller.at = "add") ~> (caller = Idle \/ pc = "exited")
=============================================================================
