----------------------------- MODULE MongoStore -----------------------------
(***************************************************************************)
(* The records of uploaded files in MongoDB: transfer/db_mongodb.cc, used  *)
(* through common/MongoDelegate.cc, whose calls take a client from the     *)
(* driver's pool and give it back.  The driver and the server are          *)
(* external: a count and an insert may fail, a bulk insert may insert some.*)
(***************************************************************************)
EXTENDS Integers, FiniteSets

CONSTANTS Threads, Keys, Clients, None,
          Calls,        \* which operations the threads use
          MaxRecords,   \* bound: records of a key
          MaxCalls      \* bound: calls of a thread

ASSUME MongoAssumption ==
    /\ MaxRecords \in Nat \ {0} /\ MaxCalls \in Nat
    /\ Calls \subseteq {"upsert", "bulk", "search"}

VARIABLES free,      \* clients in _STATIC_POOL
          records,   \* key -> how many records have it
          call,      \* thread -> its call
          calls      \* thread -> calls so far

vars == <<free, records, call, calls>>

Idle == [op |-> "none", at |-> "idle", keys |-> {}, client |-> None, failed |-> FALSE,
         found |-> FALSE, ret |-> 0]

(* InitMongoPool *)
Init ==
    /\ free = Clients
    /\ records = [k \in Keys |-> 0]
    /\ call = [t \in Threads |-> Idle]
    /\ calls = [t \in Threads |-> 0]

(* The constructor: mongoc_client_pool_pop waits for a client. *)
Enter(t, op, keys) ==
    /\ call[t].at \in {"idle", "returned"} /\ calls[t] < MaxCalls
    /\ calls' = [calls EXCEPT ![t] = @ + 1]
    /\ call' = [call EXCEPT ![t] = [Idle EXCEPT !.op = op, !.keys = keys, !.at = "new"]]
    /\ UNCHANGED <<free, records>>

GetClientHandle(t) ==
    /\ call[t].at = "new"
    /\ \E c \in free :
          /\ free' = free \ {c}
          /\ call' = [call EXCEPT ![t].client = c,
                        ![t].at = IF call[t].op = "bulk" THEN "insert" ELSE "count"]
    /\ UNCHANGED <<records, calls>>

\* Mutant: the negative code of a failed count is taken as true.
ExistsIfNonzero(k, ok) == ~ok \/ records[k] > 0
(* isExistByPrimarykey: a count that fails finds nothing. *)
isExistByPrimarykey(k, ok) == ok /\ records[k] > 0

Count(t) ==
    /\ call[t].at = "count"
    /\ \E ok \in BOOLEAN, k \in call[t].keys :
         LET found == isExistByPrimarykey(k, ok) IN
         call' = [call EXCEPT
            ![t].found = found,
            ![t].at = IF call[t].op = "search" \/ found THEN "delete" ELSE "insert",
            ![t].ret = IF call[t].op = "upsert" THEN -1 ELSE IF found THEN 1 ELSE 0]
    /\ UNCHANGED <<free, records, calls>>

(* Upsert's insert: its failure sets ret_flg to 0, and then it is 1. *)
Insert(t) ==
    /\ call[t].at = "insert" /\ call[t].op = "upsert"
    /\ \A k \in call[t].keys : records[k] < MaxRecords
    /\ \E ok \in BOOLEAN :
          /\ records' = [k \in Keys |-> IF ok /\ k \in call[t].keys
                                        THEN records[k] + 1 ELSE records[k]]
          /\ call' = [call EXCEPT ![t].failed = ~ok, ![t].ret = 1, ![t].at = "delete"]
    /\ UNCHANGED <<free, calls>>

(* InsertBulk, unordered; it has no return statement. *)
InsertBulk(t) ==
    /\ call[t].at = "insert" /\ call[t].op = "bulk"
    /\ \A k \in call[t].keys : records[k] < MaxRecords
    /\ \E done \in SUBSET call[t].keys, garbage \in {0, 1} :
          /\ records' = [k \in Keys |-> IF k \in done THEN records[k] + 1 ELSE records[k]]
          /\ call' = [call EXCEPT ![t].failed = done # call[t].keys,
                                  ![t].ret = garbage, ![t].at = "delete"]
    /\ UNCHANGED <<free, calls>>

\* Mutant: the client is kept when the call has failed.
DeleteUnlessFailed(t) ==
    /\ call[t].at = "delete"
    /\ free' = IF call[t].failed THEN free ELSE free \cup {call[t].client}
    /\ call' = [call EXCEPT ![t].client = None, ![t].at = "returned"]
    /\ UNCHANGED <<records, calls>>
(* The destructor gives the client back. *)
Delete(t) ==
    /\ call[t].at = "delete"
    /\ free' = free \cup {call[t].client}
    /\ call' = [call EXCEPT ![t].client = None, ![t].at = "returned"]
    /\ UNCHANGED <<records, calls>>

Step(t) == GetClientHandle(t) \/ Count(t) \/ Insert(t) \/ InsertBulk(t) \/ Delete(t)

Next == \E t \in Threads :
          \/ Step(t)
          \/ \E op \in Calls \ {"bulk"}, k \in Keys : Enter(t, op, {k})
          \/ "bulk" \in Calls /\ Enter(t, "bulk", Keys)

Spec == Init /\ [][Next]_vars

-----------------------------------------------------------------------------
Returned(t, op) == call[t].op = op /\ call[t].at = "returned"

(* What a call says exists does exist: Upsert's -1 and a search's true     *)
(* never come of a count that failed.                                      *)
ExistsIsTrue ==
    \A t \in Threads :
        \/ Returned(t, "upsert") /\ call[t].ret = -1
        \/ Returned(t, "search") /\ call[t].ret = 1
        => \A k \in call[t].keys : records[k] > 0

(* Every call returns, with fewer clients than threads and whatever fails: *)
(* no path keeps a client.                                                 *)
CallsReturn ==
    \A t \in Threads : (call[t].at = "new") ~> (call[t].at = "returned")

(* db_mongodb.h on Upsert: "0 error", "1 success ,new one". *)
ErrorReported == \A t \in Threads : Returned(t, "upsert") /\ call[t].failed
                                       => call[t].ret = 0
=============================================================================
