------------------------------ MODULE HashTable ------------------------------
(***************************************************************************)
(* The hash table of fastdfs/common/hash.c: chained buckets whose number   *)
(* is a prime of a fixed array or, after hash_best_op, a number of its     *)
(* own; it grows when the load factor is reached and accounts for the      *)
(* memory it uses.  The functions take no lock: every call is one step.    *)
(*                                                                         *)
(* A value is its length.  A chain is the sequence of its nodes, the one   *)
(* inserted last first.                                                    *)
(***************************************************************************)
EXTENDS Integers, FiniteSets, FiniteSetsExt, SequencesExt

CONSTANTS Keys, Values, None,
          hash_func,        \* key -> its hash code
          key_len,          \* key -> its length
          InitCapacity,     \* parameters of hash_init_ex
          LoadPercent,      \* load_factor, in percent
          max_bytes,        \* 0: no limit
          is_malloc_value,
          Suggestions       \* arguments of hash_best_op

(* What is assumed of the constants. *)
HashAssumption ==
    /\ Values \subseteq Nat /\ None \notin Values
    /\ hash_func \in [Keys -> Nat] /\ key_len \in [Keys -> Nat]
    /\ LoadPercent \in 10..100 /\ max_bytes \in Nat /\ InitCapacity \in Nat
    /\ is_malloc_value \in BOOLEAN /\ Suggestions \subseteq Int

VARIABLES buckets,            \* bucket -> chain; <<>> once destroyed
          item_count, bytes_used, capacity,
          is_malloc_capacity, \* capacity is not a member of prime_array
          result              \* what the last call returned

vars == <<buckets, item_count, bytes_used, capacity, is_malloc_capacity, result>>

ENOENT == 2
ENOMEM == 12
ENOSPC == 28
Reply(op, k, n, v) == [op |-> op, key |-> k, code |-> n, value |-> v]

prime_array == {1, 3, 17, 37, 79, 163, 331, 673, 1361, 2729, 5471, 10949, 21911,
    43853, 87719, 175447, 350899, 701819, 1403641, 2807303, 5614657, 11229331,
    22458671, 44917381, 89834777, 179669557, 359339171, 718678369, 1437356741,
    2147483647}

NextPrime(n) == Min({p \in prime_array : p > n})

PointerSize == 8
HashDataSize == 32

BucketOf(k, n) == hash_func[k] % n
NoItems(n)     == [b \in 0..n - 1 |-> <<>>]
NodeBytes(node) == HashDataSize + key_len[node.key] + node.malloc_value_size

hash_init_ex ==
    LET n == NextPrime(InitCapacity) IN
    /\ capacity = n
    /\ buckets = NoItems(n)
    /\ bytes_used = PointerSize * n    \* max_bytes is set only later
    /\ item_count = 0
    /\ is_malloc_capacity = FALSE
    /\ result = Reply("init", None, 0, None)

Init == hash_init_ex

Live == buckets # <<>>

(* hash_walk: the nodes in the order of the buckets. *)
hash_walk(bs, n) == FlattenSeq([i \in 1..n |-> bs[i - 1]])

-----------------------------------------------------------------------------
(* The part of the table that an insert or a rehash changes. *)
Table == [buckets |-> buckets, capacity |-> capacity, bytes |-> bytes_used,
          malloced |-> is_malloc_capacity, count |-> item_count]

Becomes(t) == /\ buckets' = t.buckets
              /\ capacity' = t.capacity
              /\ bytes_used' = t.bytes
              /\ is_malloc_capacity' = t.malloced
              /\ item_count' = t.count

AddToBucket(t, node) ==
    [t EXCEPT !.buckets[BucketOf(node.key, t.capacity)] = <<node>> \o @,
              !.count = @ + 1]

OverLimit(t, bytes) == max_bytes > 0 /\ t.bytes + bytes > max_bytes

\* Mutant: the chains are copied as they are.
_rehash1Copy(t, n) ==
    [t EXCEPT !.buckets = [b \in 0..n - 1 |-> IF b < t.capacity THEN t.buckets[b]
                                              ELSE <<>>],
              !.capacity = n, !.bytes = @ + PointerSize * (n - t.capacity)]

(* _rehash1 without its failures: every node, bucket by bucket, goes to the *)
(* head of its new chain.                                                   *)
_rehash1(t, n) ==
    FoldLeft(AddToBucket,
             [t EXCEPT !.buckets = NoItems(n), !.capacity = n, !.count = 0,
                       !.bytes = @ + PointerSize * n - PointerSize * t.capacity],
             hash_walk(t.buckets, t.capacity))

(* _rehash, when the allocation of the new buckets is refused or fails the  *)
(* table stays as it was.                                                   *)
_rehash(t) ==
    LET n == NextPrime(t.capacity) IN
    {t} \cup (IF OverLimit(t, PointerSize * n) THEN {}
              ELSE {[_rehash1(t, n) EXCEPT !.malloced = FALSE]})

Loaded(t) == 100 * t.count >= LoadPercent * t.capacity

-----------------------------------------------------------------------------
Chain(t, k) == t.buckets[BucketOf(k, t.capacity)]
Nodes(t, k) == {i \in DOMAIN Chain(t, k) : Chain(t, k)[i].key = k}

_chain_find_entry(t, k) == IF Nodes(t, k) = {} THEN 0 ELSE Min(Nodes(t, k))

DeleteFromBucket(t, k) ==
    LET i == _chain_find_entry(t, k) IN
    [t EXCEPT !.buckets[BucketOf(k, t.capacity)] = RemoveAt(@, i),
              !.count = @ - 1,
              !.bytes = @ - NodeBytes(Chain(t, k)[i])]

NewNode(k, v) == [key |-> k, value |-> v,
                  malloc_value_size |-> IF is_malloc_value THEN v ELSE 0]

FitsInPlace(node, v) == \/ ~is_malloc_value
                        \/ /\ node.malloc_value_size >= v
                           /\ node.malloc_value_size \div 2 < v

hash_find(k) ==
    LET i == _chain_find_entry(Table, k) IN
    /\ Live
    /\ result' = Reply("find", k, 0,
                       IF i = 0 THEN None ELSE Chain(Table, k)[i].value)
    /\ UNCHANGED <<buckets, item_count, bytes_used, capacity, is_malloc_capacity>>

(* The value of an existing key is overwritten where it is ... *)
UpdateInPlace(k, v) ==
    LET i == _chain_find_entry(Table, k) IN
    /\ Live /\ i # 0
    /\ FitsInPlace(Chain(Table, k)[i], v)
    /\ buckets' = [buckets EXCEPT ![BucketOf(k, capacity)][i].value = v]
    /\ result' = Reply("insert", k, 0, None)
    /\ UNCHANGED <<item_count, bytes_used, capacity, is_malloc_capacity>>

(* ... or its node is deleted, whatever becomes of the new one. *)
\* Mutant: the old node stays behind the new one.
WithOld(k) == Table
WithoutOld(k) == IF _chain_find_entry(Table, k) = 0 THEN Table
                 ELSE DeleteFromBucket(Table, k)

InsertNode(k, v) ==
    LET old   == _chain_find_entry(Table, k)
        t     == WithoutOld(k)
        bytes == NodeBytes(NewNode(k, v))
        added == [AddToBucket(t, NewNode(k, v)) EXCEPT !.bytes = @ + bytes]
    IN  /\ Live
        /\ old # 0 => ~FitsInPlace(Chain(Table, k)[old], v)
        /\ \/ OverLimit(t, bytes) /\ Becomes(t) /\ result' = Reply("insert", k, -ENOSPC, None)
           \/ ~OverLimit(t, bytes) /\ Becomes(t) /\ result' = Reply("insert", k, -ENOMEM, None)
           \/ /\ ~OverLimit(t, bytes)
              /\ \E grown \in IF Loaded(added) THEN _rehash(added) ELSE {added} :
                    Becomes(grown)
              /\ result' = Reply("insert", k, 1, None)

hash_insert_ex(k, v) == UpdateInPlace(k, v) \/ InsertNode(k, v)

hash_delete(k) ==
    /\ Live
    /\ \/ /\ _chain_find_entry(Table, k) = 0
          /\ result' = Reply("delete", k, ENOENT, None)
          /\ UNCHANGED <<buckets, item_count, bytes_used, capacity,
                         is_malloc_capacity>>
       \/ /\ _chain_find_entry(Table, k) # 0
          /\ Becomes(DeleteFromBucket(Table, k))
          /\ result' = Reply("delete", k, 0, None)

-----------------------------------------------------------------------------
(* Buckets whose chain holds keys with different hash codes. *)
_hash_conflict_count(t) ==
    Cardinality({b \in DOMAIN t.buckets :
        Cardinality({hash_func[node.key] : node \in Range(t.buckets[b])}) > 1})

(* The capacities hash_best_op tries: odd, and no multiple of 3, 5 or 7. *)
FirstCapacity(suggest) ==
    IF suggest > 2 /\ suggest >= item_count
    THEN IF suggest % 2 = 0 THEN suggest - 1 ELSE suggest - 2
    ELSE 2 * (item_count - 1) + 1

NextCapacity(n) ==
    Min({m \in n + 2..n + 20 : /\ (m - n) % 2 = 0
                               /\ m % 3 # 0 /\ m % 5 # 0 /\ m % 7 # 0})

WithOwnCapacity(t) == [t EXCEPT !.malloced = TRUE]

(* After i turns of the loop; malloc fails in turn fail (0: never).        *)
(* A refused turn puts the old number back into the capacity of its own.   *)
Tried(suggest, fail) ==
    LET turn[i \in Nat] ==
          IF i = 0
          THEN [table |-> Table, next |-> NextCapacity(FirstCapacity(suggest)),
                done |-> FALSE, code |-> 1]
          ELSE LET p == turn[i - 1]
                   full == OverLimit(p.table, PointerSize * p.next)
                   t == WithOwnCapacity(_rehash1(p.table, p.next))
               IN  IF p.done THEN p
                   ELSE IF full \/ i = fail
                   THEN [p EXCEPT !.table = WithOwnCapacity(@), !.done = TRUE,
                                  !.code = IF full THEN -ENOSPC ELSE -ENOMEM]
                   ELSE [table |-> t, next |-> NextCapacity(p.next),
                         done |-> _hash_conflict_count(t) = 0, code |-> 1]
    IN  turn

MaxTurns == 3    \* no instance needs more turns than this

hash_best_op(suggest) ==
    /\ Live
    /\ \/ /\ _hash_conflict_count(Table) = 0
          /\ result' = Reply("best_op", None, 0, None)
          /\ UNCHANGED <<buckets, item_count, bytes_used, capacity,
                         is_malloc_capacity>>
       \/ /\ _hash_conflict_count(Table) > 0
          /\ result' = Reply("best_op", None, -ENOMEM, None)             \* no memory for the number
          /\ UNCHANGED <<buckets, item_count, bytes_used, capacity,
                         is_malloc_capacity>>
       \/ /\ _hash_conflict_count(Table) > 0
          /\ \E fail \in 0..MaxTurns :
                LET end == Tried(suggest, fail)[MaxTurns] IN
                /\ end.done
                /\ Becomes(end.table)
                /\ result' = Reply("best_op", None, end.code, None)

hash_destroy ==
    /\ Live
    /\ buckets' = <<>>
    /\ item_count' = 0 /\ bytes_used' = 0
    /\ capacity' = IF is_malloc_capacity THEN 0 ELSE capacity
    /\ is_malloc_capacity' = FALSE
    /\ UNCHANGED result

Next ==
    \/ \E k \in Keys : hash_find(k) \/ hash_delete(k)
    \/ \E k \in Keys, v \in Values : hash_insert_ex(k, v)
    \/ \E suggest \in Suggestions : hash_best_op(suggest)
    \/ hash_destroy

Spec == Init /\ [][Next]_vars

(* hash_stat: the number of buckets by chain length, from length 1 on. *)
hash_stat(stat_size) ==
    LET lens == {Len(buckets[b]) : b \in DOMAIN buckets} IN
    IF \E n \in lens : n > stat_size - 1 THEN [code |-> ENOSPC]
    ELSE [code |-> 0, bucket_max_length |-> Max(lens),
          bucket_used |-> Cardinality({b \in DOMAIN buckets : buckets[b] # <<>>}),
          stat_by_lens |-> [n \in 0..stat_size - 1 |->
              IF n = 0 THEN 0
              ELSE Cardinality({b \in DOMAIN buckets : Len(buckets[b]) = n})]]

-----------------------------------------------------------------------------
Node == [key : Keys, value : Values, malloc_value_size : Nat]
Items == IF Live THEN hash_walk(buckets, capacity) ELSE <<>>

TypeOK ==
    /\ capacity \in Nat
    /\ Live => /\ DOMAIN buckets = 0..capacity - 1
               /\ \A b \in DOMAIN buckets : Range(buckets[b]) \subseteq Node
    /\ item_count \in Nat /\ bytes_used \in Nat
    /\ is_malloc_capacity \in BOOLEAN
    /\ result \in [op : {"init", "find", "insert", "delete", "best_op"}, code : Int,
                   key : Keys \cup {None}, value : Values \cup {None}]

(* A lookup finds whatever was put in, after any growth, optimisation or    *)
(* refused growth: every node is in the chain its hash code selects under   *)
(* the current capacity, and no key has two nodes.                          *)
Placed ==
    Live => /\ \A b \in DOMAIN buckets : \A i \in DOMAIN buckets[b] :
                   BucketOf(buckets[b][i].key, capacity) = b
            /\ \A i, j \in DOMAIN Items : Items[i].key = Items[j].key => i = j

(* item_count and bytes_used are what walking the table would give; a node  *)
(* replaced, a rehash rolled back and hash_destroy all keep the account.    *)
Accounted ==
    /\ item_count = Len(Items)
    /\ bytes_used = IF Live
                    THEN PointerSize * capacity
                         + FoldLeft(LAMBDA sum, node : sum + NodeBytes(node), 0, Items)
                    ELSE 0
    /\ Live /\ hash_stat(5).code = 0 =>
          item_count = MapThenSumSet(LAMBDA n : n * hash_stat(5).stat_by_lens[n], 0..4)

(* is_malloc_capacity decides whether hash_destroy and _rehash free the     *)
(* capacity: it must be false for a number of prime_array.                  *)
CapacityOwner == Live /\ ~is_malloc_capacity => capacity \in prime_array

(* hash.h: "max_bytes:  max memory can be used (bytes)"; true once the      *)
(* buckets of hash_init_ex, which are not checked, fit.                     *)
WithinMaxBytes ==
    max_bytes > 0 /\ PointerSize * NextPrime(InitCapacity) <= max_bytes
        => bytes_used <= max_bytes

(* Places, account, limit and the owner of the capacity stay in order over  *)
(* growth, refused growth, optimisation and replacement.                    *)
HashConsistent == Placed /\ Accounted /\ WithinMaxBytes /\ CapacityOwner

(* The table implements the map of HashMap. *)
Abstract == INSTANCE HashMap WITH
    map   <- [k \in Keys |->
                IF Live /\ _chain_find_entry(Table, k) # 0
                THEN Chain(Table, k)[_chain_find_entry(Table, k)].value ELSE None],
    reply <- result
RefinesHashMap == Abstract!Spec

=============================================================================
