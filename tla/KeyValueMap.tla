----------------------------- MODULE KeyValueMap -----------------------------
(***************************************************************************)
(* What the B+ tree promises its callers: a finite map from keys to        *)
(* values.  Each operation takes effect in one step and reports a code     *)
(* (0 when it did what its name says) and, for search, a value.  What a    *)
(* search or an update of an absent key reports besides a code that is not *)
(* 0 depends on the layout of the leaves and is left open.                 *)
(***************************************************************************)
EXTENDS Integers

CONSTANTS Keys, Values, NoValue

VARIABLES map, result

vars == <<map, result>>

Empty == [k \in {} |-> NoValue]

Init == /\ map = Empty
        /\ result.op = "none"

Reports(op, key) == result'.op = op /\ result'.key = key

Ops == {"search", "insert", "update", "remove"}

With(codes, values) ==
    result' \in [op : Ops, key : Keys, code : codes, value : values]

Search(key) ==
    /\ Reports("search", key)
    /\ IF key \in DOMAIN map
       THEN With({0}, {map[key]})
       ELSE With({-1, 1}, Values \cup {NoValue})
    /\ UNCHANGED map

Insert(key, value) ==
    /\ Reports("insert", key)
    /\ IF key \in DOMAIN map
       THEN /\ With({1}, {NoValue})
            /\ UNCHANGED map
       ELSE /\ With({0}, {NoValue})
            /\ map' = [k \in DOMAIN map \cup {key} |->
                          IF k = key THEN value ELSE map[k]]

Update(key, value) ==
    /\ Reports("update", key)
    /\ IF key \in DOMAIN map
       THEN /\ With({0}, {NoValue})
            /\ map' = [map EXCEPT ![key] = value]
       ELSE /\ With({-1, 1}, {NoValue})
            /\ UNCHANGED map

Remove(key) ==
    /\ Reports("remove", key)
    /\ IF key \in DOMAIN map
       THEN /\ With({0}, {NoValue})
            /\ map' = [k \in DOMAIN map \ {key} |-> map[k]]
       ELSE /\ With({-1}, {NoValue})
            /\ UNCHANGED map

Next == \E key \in Keys :
            \/ Search(key)
            \/ Remove(key)
            \/ \E value \in Values : Insert(key, value) \/ Update(key, value)

Spec == Init /\ [][Next]_vars
=============================================================================
