--------------------------- MODULE BPlusTreeNodes ---------------------------
(***************************************************************************)
(* The blocks of the B+ tree file of common/bpt.cc, the STL searches over  *)
(* their entries and the helpers that edit one node in memory, as pure     *)
(* operators.                                                              *)
(*                                                                         *)
(* A key is modelled by its rank in the order of keycmp (bpt_predefined.h: *)
(* length first, then strcmp); rank 0 is "", the key that key_t's default  *)
(* constructor leaves in an entry nobody filled in.  An offset into the    *)
(* file is modelled by the number of the block stored there, counted in    *)
(* the order of allocation; 0 is the null offset (no block lives at        *)
(* OFFSET_META).  children is the array up to n, so n is Len(children);    *)
(* nothing past n is ever read.  The C++ code counts entries from 0, the   *)
(* model from 1.                                                           *)
(***************************************************************************)
EXTENDS Integers, SequencesExt

CONSTANTS ORDER,    \* BP_ORDER, the capacity of a node
          Keys,     \* the keys that callers use
          Values    \* the values that callers store

ASSUME OrderAssumption == ORDER \in Nat /\ ORDER >= 4
ASSUME KeysAssumption  == Keys \subseteq Nat

EmptyKey == 0
NoValue  == "unset"      \* the caller's value_t, not assigned

Entry(k, c)  == [key |-> k, child |-> c]
Record(k, v) == [key |-> k, value |-> v]

InternalNode(parent, next, prev, children) ==
    [kind |-> "internal", parent |-> parent, next |-> next, prev |-> prev,
     children |-> children]

LeafNode(parent, next, prev, children) ==
    [kind |-> "leaf", parent |-> parent, next |-> next, prev |-> prev,
     children |-> children]

-----------------------------------------------------------------------------
(* std::upper_bound and std::lower_bound over the first m entries: the     *)
(* first entry greater than key, the first entry not less than key, or the *)
(* end of the range.  On a sorted range (invariant NodesSorted) this is    *)
(* what the library's binary search returns.                               *)

upper_bound(children, m, key) ==
    CHOOSE i \in 1..(m + 1) :
        /\ \A j \in 1..(i - 1) : children[j].key <= key
        /\ i <= m => key < children[i].key

lower_bound(children, m, key) ==
    CHOOSE i \in 1..(m + 1) :
        /\ \A j \in 1..(i - 1) : children[j].key < key
        /\ i <= m => key <= children[i].key

(* Mutant of find_index: lower_bound instead of upper_bound. *)
find_index_lower(node, key) ==
    lower_bound(node.children, Len(node.children) - 1, key)

(* find() on an internal node: its last key is outside the range. *)
find_index(node, key) ==
    upper_bound(node.children, Len(node.children) - 1, key)

(* find() on a leaf. *)
find_record(node, key) ==
    lower_bound(node.children, Len(node.children), key)

binary_search(node, key) ==
    \E i \in DOMAIN node.children : node.children[i].key = key

(* Mutant of insert_record_no_split: the search stops before the last      *)
(* record, as it must in an index node.                                    *)
insert_record_before_last(leaf, key, value) ==
    LET where == upper_bound(leaf.children,
                             IF leaf.children = <<>> THEN 0
                             ELSE Len(leaf.children) - 1, key)
    IN  [leaf EXCEPT !.children = InsertAt(@, where, Record(key, value))]

(* insert_record_no_split *)
insert_record_no_split(leaf, key, value) ==
    LET where == upper_bound(leaf.children, Len(leaf.children), key)
    IN  [leaf EXCEPT !.children = InsertAt(@, where, Record(key, value))]

(* insert_key_to_index_no_split: the new entry takes over the child of the *)
(* entry it pushes back, which gets the new child `value`.                 *)
insert_key_to_index_no_split(node, key, value) ==
    LET where == find_index(node, key)
        child == node.children[where].child
    IN  [node EXCEPT !.children =
            InsertAt([@ EXCEPT ![where].child = value], where, Entry(key, child))]

-----------------------------------------------------------------------------
(* Splits of a full node.  Each returns the two halves' entries.           *)

(* bpt.cc insert(): how many records stay in the left leaf. *)
leaf_place_right(leaf, key) ==
    key > leaf.children[Len(leaf.children) \div 2 + 1].key

leaf_split_point(leaf, key) ==
    Len(leaf.children) \div 2 + (IF leaf_place_right(leaf, key) THEN 1 ELSE 0)

(* bpt.cc insert_key_to_index(): the entry whose key moves up. *)
index_place_right(node, key) ==
    key > node.children[(Len(node.children) - 1) \div 2 + 1].key

index_split_point(node, key) ==
    LET point == (Len(node.children) - 1) \div 2 + 1
    IN  IF index_place_right(node, key) /\ key >= node.children[point + 1].key
        THEN point + 1
        ELSE point

-----------------------------------------------------------------------------
(* Reading and writing the file.                                           *)

unmap(d, offset, block) ==
    [o \in DOMAIN d \cup {offset} |-> IF o = offset THEN block ELSE d[o]]

(* Mutant of set_prev: the neighbour is never told. *)
set_prev_skipped(d, offset, prev) == d

(* The header-only write (SIZE_NO_CHILDREN) of a neighbour's prev in       *)
(* node_create and node_remove; a null neighbour is skipped.               *)
set_prev(d, offset, prev) ==
    IF offset = 0 THEN d ELSE [d EXCEPT ![offset].prev = prev]

(* Mutant of reset_index_children_parent: the loop ends one entry early. *)
reset_all_but_last(d, entries, parent) ==
    [o \in DOMAIN d |->
        IF \E i \in DOMAIN entries : i < Len(entries) /\ entries[i].child = o
        THEN [d[o] EXCEPT !.parent = parent]
        ELSE d[o]]

reset_index_children_parent(d, entries, parent) ==
    [o \in DOMAIN d |->
        IF \E i \in DOMAIN entries : entries[i].child = o
        THEN [d[o] EXCEPT !.parent = parent]
        ELSE d[o]]
=============================================================================
