------------------------------ MODULE BPlusTree ------------------------------
(***************************************************************************)
(* The file-backed B+ tree of common/bpt.h and common/bpt.cc: creation,    *)
(* search, insert and update.  (remove is in BPlusTreeRemove.)             *)
(*                                                                         *)
(* The tree serves one call at a time.  A call descends the index one      *)
(* block at a time, does its work in the leaf, and an insert that split    *)
(* the leaf climbs back up, one action per (recursive) call of             *)
(* insert_key_to_index.  `call' is the function being executed and its     *)
(* arguments.                                                              *)
(***************************************************************************)
EXTENDS BPlusTreeNodes

VARIABLES meta,    \* meta_t
          disk,    \* the blocks of the file: offset -> node
          call,    \* the function being executed, with its arguments
          result   \* what the last public operation reported

vars == <<meta, disk, call, result>>

Idle == [proc |-> "idle"]

NoResult == [op |-> "none", key |-> EmptyKey, code |-> 0, value |-> NoValue]

(* init_from_empty: a root with one empty leaf. *)
init_from_empty ==
    /\ meta = [internal_node_num |-> 1, leaf_node_num |-> 1, height |-> 1,
               slot |-> 3, root_offset |-> 1, leaf_offset |-> 2]
    /\ disk = << InternalNode(0, 0, 0, <<Entry(EmptyKey, 2)>>),
                 LeafNode(1, 0, 0, <<>>) >>

Init == init_from_empty /\ call = Idle /\ result = NoResult

-----------------------------------------------------------------------------
(* alloc(leaf_node_t* ), alloc(internal_node_t* ): the new block goes to   *)
(* meta.slot.                                                              *)
alloc_leaf(m) ==
    [m EXCEPT !.leaf_node_num = @ + 1, !.slot = @ + 1]

alloc_internal(m) ==
    [m EXCEPT !.internal_node_num = @ + 1, !.slot = @ + 1]

(* A public operation starts with search_index(key). *)
Begin(op, key, value) ==
    /\ call = Idle
    /\ call' = [proc |-> "search_index", op |-> op, key |-> key,
                value |-> value, org |-> meta.root_offset,
                height |-> meta.height]
    /\ UNCHANGED <<meta, disk, result>>

(* Mutant of search_index: the loop runs once too often. *)
search_index_too_deep ==
    /\ call.proc = "search_index"
    /\ call.height > 0
    /\ LET node == disk[call.org]
           i    == find_index(node, call.key)
       IN  call' = [call EXCEPT !.org = node.children[i].child,
                                !.height = @ - 1]
    /\ UNCHANGED <<meta, disk, result>>

(* The loop of search_index: one level down. *)
search_index ==
    /\ call.proc = "search_index"
    /\ call.height > 1
    /\ LET node == disk[call.org]
           i    == find_index(node, call.key)
       IN  call' = [call EXCEPT !.org = node.children[i].child,
                                !.height = @ - 1]
    /\ UNCHANGED <<meta, disk, result>>

(* The loop is over: call.org is the index node above the leaf. *)
AtLeaf(op) ==
    /\ call.proc = "search_index"
    /\ call.op = op
    /\ ~(call.height > 1)

(* search_leaf(index, key), and the leaf mapped from there. *)
search_leaf ==
    LET node == disk[call.org]
    IN  node.children[find_index(node, call.key)].child

leaf == disk[search_leaf]

(* What the operation reports.  The code is settled here even when index   *)
(* work is still to follow: call stays busy until the operation returns.   *)
(* A positive result of keycmp, whatever its size, is reported as 1.       *)
Report(code, value) ==
    result' = [op |-> call.op, key |-> call.key, code |-> code,
               value |-> value]

search ==
    /\ AtLeaf("search")
    /\ LET r == find_record(leaf, call.key)
       IN  IF r <= Len(leaf.children)
           THEN Report(IF leaf.children[r].key = call.key THEN 0 ELSE 1,
                       leaf.children[r].value)
           ELSE Report(-1, NoValue)
    /\ call' = Idle
    /\ UNCHANGED <<meta, disk>>

update ==
    /\ AtLeaf("update")
    /\ LET r == find_record(leaf, call.key)
       IN  \/ /\ r <= Len(leaf.children)
              /\ leaf.children[r].key = call.key
              /\ disk' = [disk EXCEPT ![search_leaf].children[r].value = call.value]
              /\ Report(0, NoValue)
           \/ /\ r <= Len(leaf.children)
              /\ leaf.children[r].key # call.key
              /\ Report(1, NoValue)
              /\ UNCHANGED disk
           \/ /\ r > Len(leaf.children)
              /\ Report(-1, NoValue)
              /\ UNCHANGED disk
    /\ call' = Idle
    /\ UNCHANGED meta

(* insert: the key is already there. *)
insert_same_key ==
    /\ AtLeaf("insert")
    /\ binary_search(leaf, call.key)
    /\ Report(1, NoValue)
    /\ call' = Idle
    /\ UNCHANGED <<meta, disk>>

(* insert: the leaf has room. *)
insert_into_leaf ==
    /\ AtLeaf("insert")
    /\ ~binary_search(leaf, call.key)
    /\ Len(leaf.children) # ORDER
    /\ disk' = unmap(disk, search_leaf,
                     insert_record_no_split(leaf, call.key, call.value))
    /\ Report(0, NoValue)
    /\ call' = Idle
    /\ UNCHANGED meta

(* The two leaves a full leaf becomes, new_leaf at block `new'. *)
left_leaf(new) ==
    [leaf EXCEPT !.next = new,
                 !.children = SubSeq(@, 1, leaf_split_point(leaf, call.key))]

(* Mutant of right_leaf: the copy starts one record early. *)
right_leaf_overlapping ==
    [leaf EXCEPT !.prev = search_leaf,
                 !.children = SubSeq(@, leaf_split_point(leaf, call.key),
                                     Len(@))]

right_leaf ==
    [leaf EXCEPT !.prev = search_leaf,
                 !.children = SubSeq(@, leaf_split_point(leaf, call.key) + 1,
                                     Len(@))]

(* insert: the leaf is full and splits; the index is told of the new leaf. *)
insert_split_leaf ==
    /\ AtLeaf("insert")
    /\ ~binary_search(leaf, call.key)
    /\ Len(leaf.children) = ORDER
    /\ LET new   == meta.slot
           right == leaf_place_right(leaf, call.key)
           l     == IF right THEN left_leaf(new)
                    ELSE insert_record_no_split(left_leaf(new), call.key, call.value)
           r     == IF right
                    THEN insert_record_no_split(right_leaf, call.key, call.value)
                    ELSE right_leaf
       IN  /\ disk' = unmap(unmap(set_prev(disk, leaf.next, new),
                                  search_leaf, l), new, r)
           /\ call' = [proc |-> "insert_key_to_index", offset |-> call.org,
                       key |-> r.children[1].key, old |-> search_leaf,
                       after |-> new]
    /\ meta' = alloc_leaf(meta)
    /\ Report(0, NoValue)

-----------------------------------------------------------------------------
(* insert_key_to_index(offset, key, old, after), one action per branch.    *)

(* offset = 0: the root was split, so a new root holds both halves. *)
insert_new_root ==
    /\ call.proc = "insert_key_to_index"
    /\ call.offset = 0
    /\ LET new      == meta.slot
           children == <<Entry(call.key, call.old), Entry(EmptyKey, call.after)>>
       IN  /\ meta' = [alloc_internal(meta) EXCEPT !.root_offset = new,
                                                   !.height = @ + 1]
           /\ disk' = reset_index_children_parent(
                          unmap(disk, new, InternalNode(0, 0, 0, children)),
                          children, new)
    /\ call' = Idle
    /\ UNCHANGED result

insert_into_index ==
    /\ call.proc = "insert_key_to_index"
    /\ call.offset # 0
    /\ LET node == disk[call.offset]
       IN  /\ Len(node.children) < ORDER      \* and the assert of n <= order
           /\ disk' = unmap(disk, call.offset,
                            insert_key_to_index_no_split(node, call.key, call.after))
    /\ call' = Idle
    /\ UNCHANGED <<meta, result>>

(* The index node is full: split it and pass the middle key to the parent. *)
insert_split_index ==
    /\ call.proc = "insert_key_to_index"
    /\ call.offset # 0
    /\ LET node  == disk[call.offset]
           new   == meta.slot
           point == index_split_point(node, call.key)
           right == index_place_right(node, call.key)
           l0    == [node EXCEPT !.next = new, !.children = SubSeq(@, 1, point)]
           r0    == [node EXCEPT !.prev = call.offset,
                                 !.children = SubSeq(@, point + 1, Len(@))]
           l     == IF right THEN l0
                    ELSE insert_key_to_index_no_split(l0, call.key, call.after)
           r     == IF right
                    THEN insert_key_to_index_no_split(r0, call.key, call.after)
                    ELSE r0
       IN  /\ Len(node.children) = ORDER
           /\ disk' = reset_index_children_parent(
                          unmap(unmap(set_prev(disk, node.next, new),
                                      call.offset, l), new, r),
                          r.children, new)
           /\ call' = [call EXCEPT !.offset = node.parent,
                                   !.key = node.children[point].key,
                                   !.old = call.offset, !.after = new]
    /\ meta' = alloc_internal(meta)
    /\ UNCHANGED result

-----------------------------------------------------------------------------
Step == \/ search_index
        \/ search
        \/ update
        \/ insert_same_key
        \/ insert_into_leaf
        \/ insert_split_leaf
        \/ insert_new_root
        \/ insert_into_index
        \/ insert_split_index

BeginAny == \E key \in Keys :
                \/ Begin("search", key, NoValue)
                \/ \E value \in Values : \/ Begin("insert", key, value)
                                         \/ Begin("update", key, value)

Next == BeginAny \/ Step

Spec == Init /\ [][Next]_vars

(* The program never abandons a call it has started. *)
FairSpec == Spec /\ WF_vars(Step)
=============================================================================
