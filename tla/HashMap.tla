------------------------------- MODULE HashMap -------------------------------
(***************************************************************************)
(* What a caller of hash.c may rely on: a partial map from keys to values  *)
(* and, per call, the return value.  Reorganising the buckets is invisible *)
(* here; a failed insert touches no other key, but may lose the old value  *)
(* of its own.                                                             *)
(***************************************************************************)
EXTENDS Integers

CONSTANTS Keys, Values, None

ENOENT == 2
ENOMEM == 12
ENOSPC == 28

VARIABLES map,    \* key -> value, or None
          reply   \* the last call, its key, its code and what a find found

Reply(op, k, n, v) == [op |-> op, key |-> k, code |-> n, value |-> v]

Init == map = [k \in Keys |-> None] /\ reply = Reply("init", None, 0, None)

Insert(k, v) ==
    \/ /\ reply' \in {Reply("insert", k, n, None) : n \in {0, 1}}
       /\ map' = [map EXCEPT ![k] = v]
    \/ /\ reply' \in {Reply("insert", k, n, None) : n \in {-ENOSPC, -ENOMEM}}
       /\ map' \in {map, [map EXCEPT ![k] = None]}

Delete(k) ==
    /\ reply' = Reply("delete", k, IF map[k] = None THEN ENOENT ELSE 0, None)
    /\ map' = [map EXCEPT ![k] = None]

Find(k) == reply' = Reply("find", k, 0, map[k]) /\ UNCHANGED map

Optimize ==
    /\ reply' \in {Reply("best_op", None, n, None) : n \in {0, 1, -ENOSPC, -ENOMEM}}
    /\ UNCHANGED map

Destroy == map' = [k \in Keys |-> None] /\ UNCHANGED reply

Next == \/ \E k \in Keys : \/ \E v \in Values : Insert(k, v)
                           \/ Delete(k) \/ Find(k)
        \/ Optimize \/ Destroy

Spec == Init /\ [][Next]_<<map, reply>>
=============================================================================
