-------------------------- MODULE MongoStore_proofs --------------------------
(***************************************************************************)
(* What Upsert and a search say exists does exist, and no two calls use a  *)
(* client at the same time, for any number of threads, keys and clients.   *)
(*                                                                         *)
(* ExistsIsTrue speaks of calls that have returned.  Its invariant also    *)
(* covers a call that has made up its mind and not returned yet, and needs *)
(* that records never go and that Upsert and search are about one key.     *)
(***************************************************************************)
EXTENDS MongoStore, TLAPS

Places == {"idle", "new", "count", "insert", "delete", "returned"}

CallRecords == [op : {"none", "upsert", "bulk", "search"}, at : Places,
                keys : SUBSET Keys, client : Clients \cup {None},
                failed : BOOLEAN, found : BOOLEAN, ret : {-1, 0, 1}]

Types ==
    /\ free \subseteq Clients
    /\ records \in [Keys -> Nat]
    /\ call \in [Threads -> CallRecords]

OneKey(t) == call[t].op \in {"upsert", "search"} =>
    \A j, k \in call[t].keys : j = k

(* Call t is about to say, or has said, that its key exists. *)
SaysExists(t) ==
    /\ call[t].at \in {"delete", "returned"}
    /\ \/ call[t].op = "upsert" /\ call[t].ret = -1
       \/ call[t].op = "search" /\ call[t].ret = 1

Truthful(t) == SaysExists(t) => \A k \in call[t].keys : records[k] > 0

Counting(t) ==
    /\ call[t].at = "new" => call[t].op # "none"
    /\ call[t].at = "count" => call[t].op \in {"upsert", "search"}

ExistInv == /\ Types
            /\ \A t \in Threads : OneKey(t) /\ Truthful(t) /\ Counting(t)

(* The places between the constructor's pop and the destructor's push. *)
HasClient(t) == call[t].at \in {"count", "insert", "delete"}

(* A call has its client to itself: the driver's pool does not hand it to  *)
(* another call, and no other call has it.                                 *)
ClientsApart ==
    /\ \A t \in Threads : HasClient(t) => call[t].client \in Clients \ free
    /\ \A t, u \in Threads : HasClient(t) /\ HasClient(u) /\ t # u =>
                                 call[t].client # call[u].client

-----------------------------------------------------------------------------
(* InitMongoPool. *)
LEMMA InitMongo == Init => ExistInv /\ ClientsApart
<1> SUFFICES ASSUME Init PROVE ExistInv /\ ClientsApart
  OBVIOUS
<1>1. /\ Idle \in CallRecords
      /\ Idle.at = "idle" /\ Idle.op = "none"
  BY DEF Idle, CallRecords, Places
<1>2. \A t \in Threads : call[t] = Idle
  BY DEF Init
<1>3. Types
  BY <1>1 DEF Init, Types
<1> QED
  BY <1>1, <1>2, <1>3 DEF ExistInv, OneKey, Truthful, SaysExists, Counting,
                          ClientsApart, HasClient

(* A step of call t that keeps what it has said true, and removes no       *)
(* record, keeps every call truthful.                                      *)
LEMMA CallStep ==
    ASSUME ExistInv, NEW t \in Threads, NEW r \in CallRecords,
           call' = [call EXCEPT ![t] = r],
           free' \subseteq Clients,
           records' \in [Keys -> Nat],
           \A k \in Keys : records'[k] >= records[k],
           OneKey(t)', Truthful(t)', Counting(t)'
    PROVE  ExistInv'
<1>1. /\ call \in [Threads -> CallRecords] /\ records \in [Keys -> Nat]
  BY DEF ExistInv, Types
<1>2. Types'
  BY <1>1 DEF Types
<1>3. ASSUME NEW u \in Threads
      PROVE  OneKey(u)' /\ Truthful(u)' /\ Counting(u)'
  <2>1. CASE u = t
    BY <2>1
  <2>2. CASE u # t
    <3>1. call'[u] = call[u] /\ call[u].keys \in SUBSET Keys
      BY <1>1, <2>2 DEF CallRecords
    <3>2. OneKey(u) /\ Truthful(u) /\ Counting(u)
      BY DEF ExistInv
    <3>3. OneKey(u)' /\ Counting(u)'
      BY <3>1, <3>2 DEF OneKey, Counting
    <3>4. SaysExists(u)' => SaysExists(u)
      BY <3>1 DEF SaysExists
    <3>5. \A k \in Keys : records[k] > 0 => records'[k] > 0
      BY <1>1
    <3>6. Truthful(u)'
      BY <3>1, <3>2, <3>4, <3>5 DEF Truthful
    <3> QED
      BY <3>3, <3>6
  <2> QED
    BY <2>1, <2>2
<1> QED
  BY <1>2, <1>3 DEF ExistInv

(* A step of call t that leaves the clients where they are. *)
LEMMA SameClients ==
    ASSUME ExistInv, ClientsApart, NEW t \in Threads, NEW r,
           call' = [call EXCEPT ![t] = r], free' = free,
           r.at \in {"count", "insert", "delete"} =>
               HasClient(t) /\ r.client = call[t].client
    PROVE  ClientsApart'
<1>1. /\ \A u \in Threads \ {t} : call'[u] = call[u]
      /\ call'[t] = r
  BY DEF ExistInv, Types
<1>2. \A u \in Threads : HasClient(u)' =>
          HasClient(u) /\ call'[u].client = call[u].client
  BY <1>1 DEF HasClient
<1> QED
  BY <1>2 DEF ClientsApart

(* The constructor. *)
LEMMA EnterStep ==
    ASSUME ExistInv, ClientsApart, NEW t \in Threads,
           NEW op \in {"upsert", "bulk", "search"}, NEW keys \in SUBSET Keys,
           op # "bulk" => \A j, k \in keys : j = k,
           Enter(t, op, keys)
    PROVE  ExistInv' /\ ClientsApart'
<1> DEFINE r == [Idle EXCEPT !.op = op, !.keys = keys, !.at = "new"]
<1>1. /\ r \in CallRecords /\ r.at = "new" /\ r.op = op /\ r.keys = keys
  BY DEF Idle, CallRecords, Places
<1>2. /\ call' = [call EXCEPT ![t] = r] /\ UNCHANGED <<free, records>>
      /\ call \in [Threads -> CallRecords]
      /\ free \subseteq Clients /\ records \in [Keys -> Nat]
  BY DEF Enter, ExistInv, Types
<1> HIDE DEF r
<1>3. call'[t] = r
  BY <1>2
<1>4. OneKey(t)' /\ Truthful(t)' /\ Counting(t)'
  BY <1>1, <1>3 DEF OneKey, Truthful, SaysExists, Counting
<1>5. \A k \in Keys : records'[k] >= records[k]
  BY <1>2
<1>6. ExistInv'
  BY <1>1, <1>2, <1>4, <1>5, CallStep
<1> QED
  BY <1>1, <1>2, <1>6, SameClients

(* mongoc_client_pool_pop takes a client that nobody has. *)
LEMMA GetStep ==
    ASSUME ExistInv, ClientsApart, NEW t \in Threads, GetClientHandle(t)
    PROVE  ExistInv' /\ ClientsApart'
<1>1. /\ call \in [Threads -> CallRecords] /\ call[t].at = "new"
      /\ call[t] \in CallRecords /\ UNCHANGED records
      /\ free \subseteq Clients /\ records \in [Keys -> Nat]
  BY DEF GetClientHandle, ExistInv, Types
<1>2. PICK c \in free :
         /\ free' = free \ {c}
         /\ call' = [call EXCEPT ![t].client = c,
                       ![t].at = IF call[t].op = "bulk" THEN "insert" ELSE "count"]
  BY DEF GetClientHandle
<1>3. PICK r : r = call'[t]
  OBVIOUS
<1>4. /\ call' = [call EXCEPT ![t] = r] /\ r \in CallRecords
      /\ r.client = c /\ r.op = call[t].op /\ r.keys = call[t].keys
      /\ r.at \in {"insert", "count"}
      /\ r.at = "count" => r.op # "bulk"
  BY <1>1, <1>2, <1>3 DEF CallRecords, Places
<1>5. OneKey(t) /\ Counting(t)
  BY DEF ExistInv
<1>6. OneKey(t)' /\ Truthful(t)' /\ Counting(t)'
  BY <1>1, <1>3, <1>4, <1>5 DEF OneKey, Truthful, SaysExists, Counting, CallRecords
<1>7. \A k \in Keys : records'[k] >= records[k]
  BY <1>1
<1>8. ExistInv'
  BY <1>1, <1>2, <1>4, <1>6, <1>7, CallStep
<1>9. /\ \A u \in Threads \ {t} : call'[u] = call[u]
      /\ \A u \in Threads : HasClient(u) => call[u].client \in Clients \ free
  BY <1>1, <1>4 DEF ClientsApart
<1>10. ASSUME NEW u \in Threads, HasClient(u)'
       PROVE  /\ call'[u].client \in Clients \ free'
              /\ u # t => HasClient(u) /\ call'[u].client = call[u].client
              /\ u = t => call'[u].client = c
  BY <1>1, <1>2, <1>3, <1>4, <1>9, <1>10 DEF HasClient
<1>11. \A u \in Threads : HasClient(u) => call[u].client # c
  BY <1>2, <1>9
<1>12. ClientsApart'
  BY <1>10, <1>11 DEF ClientsApart
<1> QED
  BY <1>8, <1>12

(* A count that succeeds and finds records, of the only key of the call. *)
LEMMA CountStep ==
    ASSUME ExistInv, ClientsApart, NEW t \in Threads, Count(t)
    PROVE  ExistInv' /\ ClientsApart'
<1>1. /\ call \in [Threads -> CallRecords] /\ call[t].at = "count"
      /\ call[t] \in CallRecords /\ UNCHANGED <<free, records>>
      /\ free \subseteq Clients /\ records \in [Keys -> Nat]
      /\ call[t].op \in {"upsert", "search"}
      /\ \A j, k \in call[t].keys : j = k
  BY DEF Count, ExistInv, Types, Counting, OneKey
<1>2. PICK ok \in BOOLEAN, k \in call[t].keys :
        LET found == isExistByPrimarykey(k, ok) IN
        call' = [call EXCEPT
           ![t].found = found,
           ![t].at = IF call[t].op = "search" \/ found THEN "delete" ELSE "insert",
           ![t].ret = IF call[t].op = "upsert" THEN -1 ELSE IF found THEN 1 ELSE 0]
  BY DEF Count
<1>3. PICK found \in BOOLEAN : found = isExistByPrimarykey(k, ok)
  BY DEF isExistByPrimarykey
<1>4. PICK r : r = call'[t]
  OBVIOUS
<1>5. /\ call' = [call EXCEPT ![t] = r]
      /\ r = [call[t] EXCEPT !.found = found,
            !.at = IF call[t].op = "search" \/ found THEN "delete" ELSE "insert",
            !.ret = IF call[t].op = "upsert" THEN -1 ELSE IF found THEN 1 ELSE 0]
  BY <1>1, <1>2, <1>3, <1>4
<1>6. /\ r \in CallRecords /\ r.client = call[t].client
      /\ r.op = call[t].op /\ r.keys = call[t].keys
      /\ r.at \in {"insert", "delete"}
      /\ (r.at = "delete" /\ r.op = "upsert") => found
      /\ (r.op = "search" /\ r.ret = 1) => found
  <2> DEFINE at == IF call[t].op = "search" \/ found THEN "delete" ELSE "insert"
             ret == IF call[t].op = "upsert" THEN -1 ELSE IF found THEN 1 ELSE 0
  <2>1. /\ at \in {"insert", "delete"} /\ ret \in {-1, 0, 1}
        /\ (at = "delete" /\ call[t].op = "upsert") => found
        /\ (call[t].op = "search" /\ ret = 1) => found
    BY <1>1
  <2>2. r = [call[t] EXCEPT !.found = found, !.at = at, !.ret = ret]
    BY <1>5
  <2> HIDE DEF at, ret
  <2>3. /\ r.client = call[t].client /\ r.op = call[t].op
        /\ r.keys = call[t].keys /\ r.at = at /\ r.ret = ret
    BY <1>1, <2>2 DEF CallRecords
  <2>4. r \in CallRecords
    BY <1>1, <2>1, <2>2 DEF CallRecords, Places
  <2> QED
    BY <2>1, <2>3, <2>4
<1>7. found => \A j \in call[t].keys : records[j] > 0
  BY <1>1, <1>2, <1>3 DEF isExistByPrimarykey
<1>8. OneKey(t)' /\ Counting(t)'
  BY <1>1, <1>4, <1>6 DEF OneKey, Counting
<1>9. Truthful(t)'
  BY <1>1, <1>4, <1>6, <1>7 DEF Truthful, SaysExists
<1>10. \A j \in Keys : records'[j] >= records[j]
  BY <1>1
<1>11. ExistInv'
  BY <1>1, <1>5, <1>6, <1>8, <1>9, <1>10, CallStep
<1>12. HasClient(t)
  BY <1>1 DEF HasClient
<1> QED
  BY <1>1, <1>5, <1>6, <1>11, <1>12, SameClients

(* Upsert's insert and InsertBulk: their results say nothing of existence. *)
LEMMA InsertStep ==
    ASSUME ExistInv, ClientsApart, NEW t \in Threads, Insert(t) \/ InsertBulk(t)
    PROVE  ExistInv' /\ ClientsApart'
<1>1. /\ call \in [Threads -> CallRecords] /\ call[t].at = "insert"
      /\ call[t] \in CallRecords /\ UNCHANGED free
      /\ free \subseteq Clients /\ records \in [Keys -> Nat]
  BY DEF Insert, InsertBulk, ExistInv, Types
<1>2. PICK done \in SUBSET Keys :
         records' = [k \in Keys |-> IF k \in done THEN records[k] + 1 ELSE records[k]]
  <2>1. CASE Insert(t)
    <3>1. PICK ok \in BOOLEAN :
            records' = [k \in Keys |-> IF ok /\ k \in call[t].keys
                                       THEN records[k] + 1 ELSE records[k]]
      BY <2>1 DEF Insert
    <3>2. CASE ok
      <4>1. call[t].keys \in SUBSET Keys
        BY <1>1 DEF CallRecords
      <4> QED
        BY <3>1, <3>2, <4>1
    <3>3. CASE ~ok
      <4>1. {} \in SUBSET Keys
        OBVIOUS
      <4> QED
        BY <3>1, <3>3, <4>1
    <3> QED
      BY <3>2, <3>3
  <2>2. CASE InsertBulk(t)
    <3>1. call[t].keys \in SUBSET Keys
      BY <1>1 DEF CallRecords
    <3> QED
      BY <2>2, <3>1 DEF InsertBulk
  <2> QED
    BY <2>1, <2>2
<1>3. records' \in [Keys -> Nat] /\ \A k \in Keys : records'[k] >= records[k]
  BY <1>1, <1>2
<1>4. PICK r : r = call'[t]
  OBVIOUS
<1>5. /\ call' = [call EXCEPT ![t] = r] /\ r \in CallRecords
      /\ r.client = call[t].client
      /\ r.op = call[t].op /\ r.keys = call[t].keys
      /\ r.at = "delete"
      /\ r.op \in {"upsert", "bulk"}
      /\ r.op = "upsert" => r.ret = 1
  <2>1. PICK failed \in BOOLEAN, ret \in {0, 1} :
          /\ call' = [call EXCEPT ![t].failed = failed, ![t].ret = ret, ![t].at = "delete"]
          /\ call[t].op \in {"upsert", "bulk"}
          /\ call[t].op = "upsert" => ret = 1
    <3>1. CASE Insert(t)
      <4>1. PICK ok \in BOOLEAN :
              call' = [call EXCEPT ![t].failed = ~ok, ![t].ret = 1, ![t].at = "delete"]
        BY <3>1 DEF Insert
      <4>2. call[t].op = "upsert"
        BY <3>1 DEF Insert
      <4>3. (~ok) \in BOOLEAN /\ 1 \in {0, 1}
        OBVIOUS
      <4> QED
        BY <4>1, <4>2, <4>3
    <3>2. CASE InsertBulk(t)
      <4>1. PICK d \in SUBSET call[t].keys, garbage \in {0, 1} :
              call' = [call EXCEPT ![t].failed = d # call[t].keys,
                                   ![t].ret = garbage, ![t].at = "delete"]
        BY <3>2 DEF InsertBulk
      <4>2. call[t].op = "bulk" /\ (d # call[t].keys) \in BOOLEAN
        BY <3>2 DEF InsertBulk
      <4> QED
        BY <4>1, <4>2
    <3> QED
      BY <3>1, <3>2
  <2>2. r = [call[t] EXCEPT !.failed = failed, !.ret = ret, !.at = "delete"]
    BY <1>1, <1>4, <2>1
  <2>3. call' = [call EXCEPT ![t] = r]
    BY <1>1, <1>4, <2>1
  <2>4. /\ r.client = call[t].client /\ r.op = call[t].op
        /\ r.keys = call[t].keys /\ r.at = "delete" /\ r.ret = ret
    BY <1>1, <2>2 DEF CallRecords
  <2>5. r \in CallRecords
    BY <1>1, <2>2 DEF CallRecords, Places
  <2> QED
    BY <2>1, <2>3, <2>4, <2>5
<1>6. OneKey(t)
  BY DEF ExistInv
<1>7. OneKey(t)' /\ Truthful(t)' /\ Counting(t)'
  BY <1>4, <1>5, <1>6 DEF OneKey, Truthful, SaysExists, Counting
<1>8. ExistInv'
  BY <1>1, <1>3, <1>5, <1>7, CallStep
<1>9. HasClient(t)
  BY <1>1 DEF HasClient
<1> QED
  BY <1>1, <1>5, <1>8, <1>9, SameClients

(* The destructor returns what was decided, and the client to the pool. *)
LEMMA DeleteStep ==
    ASSUME ExistInv, ClientsApart, NEW t \in Threads, Delete(t)
    PROVE  ExistInv' /\ ClientsApart'
<1>1. /\ call \in [Threads -> CallRecords] /\ call[t].at = "delete"
      /\ call[t] \in CallRecords /\ UNCHANGED records
      /\ free' = free \cup {call[t].client}
      /\ free \subseteq Clients /\ records \in [Keys -> Nat]
  BY DEF Delete, ExistInv, Types
<1>2. PICK r : r = call'[t]
  OBVIOUS
<1>3. /\ call' = [call EXCEPT ![t] = r] /\ r \in CallRecords
      /\ r.op = call[t].op /\ r.keys = call[t].keys /\ r.ret = call[t].ret
      /\ r.at = "returned"
  BY <1>1, <1>2 DEF Delete, CallRecords, Places
<1>4. HasClient(t) /\ call[t].client \in Clients
  BY <1>1 DEF HasClient, ClientsApart
<1>5. OneKey(t) /\ Truthful(t)
  BY DEF ExistInv
<1>6. OneKey(t)' /\ Truthful(t)' /\ Counting(t)'
  BY <1>1, <1>2, <1>3, <1>5 DEF OneKey, Truthful, SaysExists, Counting
<1>7. \A k \in Keys : records'[k] >= records[k]
  BY <1>1
<1>8. ExistInv'
  BY <1>1, <1>3, <1>4, <1>6, <1>7, CallStep
<1>9. ASSUME NEW u \in Threads, HasClient(u)'
      PROVE  u # t /\ HasClient(u) /\ call'[u].client = call[u].client
  BY <1>1, <1>2, <1>3, <1>9 DEF HasClient
<1>10. ASSUME NEW u \in Threads, HasClient(u)'
       PROVE  call'[u].client \in Clients \ free'
  BY <1>1, <1>4, <1>9, <1>10 DEF ClientsApart
<1>11. ClientsApart'
  BY <1>9, <1>10 DEF ClientsApart
<1> QED
  BY <1>8, <1>11

(* Every step preserves both invariants. *)
LEMMA NextMongo ==
    ExistInv /\ ClientsApart /\ [Next]_vars => ExistInv' /\ ClientsApart'
<1> SUFFICES ASSUME ExistInv, ClientsApart, [Next]_vars
             PROVE  ExistInv' /\ ClientsApart'
  OBVIOUS
<1>1. ASSUME NEW t \in Threads, Step(t)
      PROVE  ExistInv' /\ ClientsApart'
  BY <1>1, GetStep, CountStep, InsertStep, DeleteStep DEF Step
<1>2. ASSUME NEW t \in Threads, NEW op \in Calls \ {"bulk"}, NEW k \in Keys,
             Enter(t, op, {k})
      PROVE  ExistInv' /\ ClientsApart'
  BY <1>2, EnterStep, MongoAssumption
<1>3. ASSUME NEW t \in Threads, Enter(t, "bulk", Keys)
      PROVE  ExistInv' /\ ClientsApart'
  BY <1>3, EnterStep
<1>4. CASE UNCHANGED vars
  <2>1. UNCHANGED <<free, records, call>>
    BY <1>4 DEF vars
  <2> QED
    BY <2>1 DEF ExistInv, Types, OneKey, Truthful, SaysExists, Counting,
                ClientsApart, HasClient
<1> QED
  BY <1>1, <1>2, <1>3, <1>4 DEF Next

(* Upsert's -1 and a search's true never come of a count that failed: what *)
(* they say exists had a record when it was counted and still has.         *)
THEOREM ExistsAlways == Spec => []ExistsIsTrue
<1>1. Init => ExistInv /\ ClientsApart
  BY InitMongo
<1>2. ExistInv /\ ClientsApart /\ [Next]_vars => ExistInv' /\ ClientsApart'
  BY NextMongo
<1>3. ExistInv => ExistsIsTrue
  BY DEF ExistInv, Truthful, SaysExists, ExistsIsTrue, Returned
<1> QED
  BY <1>1, <1>2, <1>3, PTL DEF Spec

(* MongoDelegate's constructor and destructor keep a client with one call  *)
(* at a time, on every path through a failure: mongoc clients must not be  *)
(* shared between threads.                                                 *)
THEOREM ClientsNotShared == Spec => []ClientsApart
<1>1. Init => ExistInv /\ ClientsApart
  BY InitMongo
<1>2. ExistInv /\ ClientsApart /\ [Next]_vars => ExistInv' /\ ClientsApart'
  BY NextMongo
<1> QED
  BY <1>1, <1>2, PTL DEF Spec
=============================================================================
