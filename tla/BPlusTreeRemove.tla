--------------------------- MODULE BPlusTreeRemove ---------------------------
(***************************************************************************)
(* bplus_tree::remove of common/bpt.cc: delete a record, and borrow or     *)
(* merge when the leaf falls under half.  A borrow climbs with             *)
(* change_parent_child, a merge climbs with remove_from_index; each        *)
(* (recursive) call is an action.  A failed assert stops the program:      *)
(* AssertsHold collects the asserted conditions and guards every step.     *)
(***************************************************************************)
EXTENDS BPlusTree

(* Mutant of merge: the merged node keeps its link to the removed one. *)
merge_keeps_next(left, right) ==
    [left EXCEPT !.children = @ \o right.children]

(* merge_leafs and merge_keys: append the right node's entries. *)
merge(left, right) ==
    [left EXCEPT !.children = @ \o right.children, !.next = right.next]

(* borrow_key lends nothing when the lender is just half full. *)
CanLend(offset) == Len(disk[offset].children) # ORDER \div 2

LenderOK(offset) == Len(disk[offset].children) >= ORDER \div 2

-----------------------------------------------------------------------------
(* remove(key), at the leaf.                                               *)

min_leaf_n == IF meta.leaf_node_num = 1 THEN 0 ELSE ORDER \div 2

shrunk_leaf == [leaf EXCEPT !.children = RemoveAt(@, find_record(leaf, call.key))]

remove_missing ==
    /\ AtLeaf("remove")
    /\ ~binary_search(leaf, call.key)
    /\ Report(-1, NoValue)
    /\ call' = Idle
    /\ UNCHANGED <<meta, disk>>

Removing ==
    /\ AtLeaf("remove")
    /\ binary_search(leaf, call.key)

remove_from_leaf ==
    /\ Removing
    /\ Len(leaf.children) - 1 >= min_leaf_n
    /\ disk' = unmap(disk, search_leaf, shrunk_leaf)
    /\ Report(0, NoValue)
    /\ call' = Idle
    /\ UNCHANGED meta

Underflow == Removing /\ Len(leaf.children) - 1 < min_leaf_n

BorrowsLeft  == leaf.prev # 0 /\ CanLend(leaf.prev)
BorrowsRight == leaf.next # 0 /\ CanLend(leaf.next)

(* borrow_key(false, leaf): the separator between lender and borrower      *)
(* becomes the key that moves.                                             *)
remove_borrow_left ==
    /\ Underflow
    /\ BorrowsLeft
    /\ LET lender == disk[leaf.prev]
       IN  call' = [proc |-> "change_parent_child", op |-> "remove",
                    key |-> call.key, parent |-> lender.parent,
                    o |-> lender.children[1].key,
                    n |-> Last(lender.children).key,
                    from_right |-> FALSE, offset |-> search_leaf,
                    borrower |-> shrunk_leaf]
    /\ UNCHANGED <<meta, disk, result>>

(* borrow_key(true, leaf): the separator becomes the lender's second key. *)
remove_borrow_right ==
    /\ Underflow
    /\ ~BorrowsLeft
    /\ BorrowsRight
    /\ call' = [proc |-> "change_parent_child", op |-> "remove",
                key |-> call.key, parent |-> leaf.parent,
                o |-> shrunk_leaf.children[1].key,
                n |-> disk[leaf.next].children[2].key,
                from_right |-> TRUE, offset |-> search_leaf,
                borrower |-> shrunk_leaf]
    /\ UNCHANGED <<meta, disk, result>>

(* Mutant of IsLastChild: a leaf always merges with the next one. *)
never_last == FALSE

IsLastChild == find_index(disk[call.org], call.key) = Len(disk[call.org].children)

(* merge | prev | leaf | *)
remove_merge_prev ==
    /\ Underflow
    /\ ~BorrowsLeft /\ ~BorrowsRight
    /\ IsLastChild
    /\ LET prev == disk[leaf.prev]
       IN  /\ disk' = unmap(set_prev(disk, leaf.next, leaf.prev), leaf.prev,
                            merge(prev, shrunk_leaf))
           /\ call' = [proc |-> "remove_from_index", offset |-> call.org,
                       node |-> disk[call.org], key |-> prev.children[1].key]
    /\ meta' = [meta EXCEPT !.leaf_node_num = @ - 1]
    /\ Report(0, NoValue)

(* merge | leaf | next | *)
remove_merge_next ==
    /\ Underflow
    /\ ~BorrowsLeft /\ ~BorrowsRight
    /\ ~IsLastChild
    /\ LET next == disk[leaf.next]
       IN  /\ disk' = unmap(set_prev(disk, next.next, next.prev), search_leaf,
                            merge(shrunk_leaf, next))
           /\ call' = [proc |-> "remove_from_index", offset |-> call.org,
                       node |-> disk[call.org],
                       key |-> shrunk_leaf.children[1].key]
    /\ meta' = [meta EXCEPT !.leaf_node_num = @ - 1]
    /\ Report(0, NoValue)

-----------------------------------------------------------------------------
(* Mutants of change_parent_child: it recurses on the same node, or it     *)
(* never climbs.                                                           *)
change_parent_child_loops ==
    /\ call.proc = "change_parent_child"
    /\ LET node == disk[call.parent]
           w    == find_index(node, call.o)
       IN  /\ disk' = [disk EXCEPT ![call.parent].children[w].key = call.n]
           /\ call' = IF w = Len(node.children) THEN call
                      ELSE [call EXCEPT !.proc = "borrow_key"]
    /\ UNCHANGED <<meta, result>>

change_parent_child_once ==
    /\ call.proc = "change_parent_child"
    /\ LET w == find_index(disk[call.parent], call.o)
       IN  disk' = [disk EXCEPT ![call.parent].children[w].key = call.n]
    /\ call' = [call EXCEPT !.proc = "borrow_key"]
    /\ UNCHANGED <<meta, result>>

(* change_parent_child(parent, o, n): climbs while the entry is the last   *)
(* one, whose key is a copy of a separator higher up.                      *)
change_parent_child ==
    /\ call.proc = "change_parent_child"
    /\ LET node == disk[call.parent]
           w    == find_index(node, call.o)
       IN  /\ disk' = [disk EXCEPT ![call.parent].children[w].key = call.n]
           /\ call' = IF w = Len(node.children)
                      THEN [call EXCEPT !.parent = node.parent]
                      ELSE [call EXCEPT !.proc = "borrow_key"]
    /\ UNCHANGED <<meta, result>>

(* The rest of borrow_key on leaves: the record moves. *)
borrow_key_leaf ==
    /\ call.proc = "borrow_key"
    /\ LET borrower == call.borrower
           lender   == IF call.from_right THEN borrower.next ELSE borrower.prev
           lent     == disk[lender].children
       IN  disk' = IF call.from_right
                   THEN unmap([disk EXCEPT ![lender].children = Tail(lent)],
                              call.offset,
                              [borrower EXCEPT !.children = Append(@, Head(lent))])
                   ELSE unmap([disk EXCEPT ![lender].children = Front(lent)],
                              call.offset,
                              [borrower EXCEPT !.children = <<Last(lent)>> \o @])
    /\ Report(0, NoValue)
    /\ call' = Idle
    /\ UNCHANGED meta

-----------------------------------------------------------------------------
(* remove_from_index(offset, node, key).  node is the caller's copy in     *)
(* memory.  The entry found gives its child to the entry behind it; when   *)
(* it is the last one, the code writes that child one entry past the end,  *)
(* which is outside the array if the node is full: WritesInside.           *)

(* Mutant of min_index_n: off by one. *)
min_index_n_less_one ==
    IF meta.root_offset = call.offset THEN 1 ELSE ORDER \div 2 - 1

min_index_n == IF meta.root_offset = call.offset THEN 1 ELSE ORDER \div 2

shrunk_index ==
    LET d == find_index(call.node, call.key)
        c == call.node.children
    IN  [call.node EXCEPT !.children =
            IF d = Len(c) THEN Front(c)
            ELSE RemoveAt([c EXCEPT ![d + 1].child = c[d].child], d)]

Unindexing ==
    /\ call.proc = "remove_from_index"
    /\ UNCHANGED result

CollapsesRoot ==
    /\ Len(shrunk_index.children) = 1
    /\ meta.root_offset = call.offset
    /\ meta.internal_node_num # 1

(* The root has one child left: that child becomes the root. *)
remove_root ==
    /\ Unindexing
    /\ CollapsesRoot
    /\ meta' = [meta EXCEPT !.internal_node_num = @ - 1, !.height = @ - 1,
                            !.root_offset = shrunk_index.children[1].child]
    /\ call' = Idle
    /\ UNCHANGED disk

remove_index_entry ==
    /\ Unindexing
    /\ ~CollapsesRoot
    /\ Len(shrunk_index.children) >= min_index_n
    /\ disk' = unmap(disk, call.offset, shrunk_index)
    /\ call' = Idle
    /\ UNCHANGED meta

IndexUnderflow ==
    /\ Unindexing
    /\ ~CollapsesRoot
    /\ Len(shrunk_index.children) < min_index_n

parent == disk[call.node.parent]

IndexBorrowsLeft ==
    call.offset # Head(parent.children).child /\ CanLend(call.node.prev)

IndexBorrowsRight ==
    call.offset # Last(parent.children).child /\ CanLend(call.node.next)

(* borrow_key(false, node, offset) *)
index_borrow_left ==
    /\ IndexUnderflow
    /\ IndexBorrowsLeft
    /\ LET node   == shrunk_index
           lender == disk[node.prev]
           lent   == Last(lender.children)
           up     == disk[lender.parent]
           where  == find_index(up, Head(lender.children).key)
           sep    == up.children[where].key
           c      == lender.children
           moved  == [node EXCEPT !.children =
                         <<lent>> \o [@ EXCEPT ![1].key = sep]]
           writes == unmap(unmap(disk, lender.parent,
                                 [up EXCEPT !.children[where].key = c[Len(c) - 1].key]),
                           node.prev, [lender EXCEPT !.children = Front(@)])
       IN  disk' = unmap(reset_index_children_parent(writes, <<lent>>, call.offset),
                         call.offset, moved)
    /\ call' = Idle
    /\ UNCHANGED meta

(* borrow_key(true, node, offset) *)
index_borrow_right ==
    /\ IndexUnderflow
    /\ ~IndexBorrowsLeft
    /\ IndexBorrowsRight
    /\ LET node   == shrunk_index
           lender == disk[node.next]
           lent   == Head(lender.children)
           where  == lower_bound(parent.children, Len(parent.children) - 1,
                                 Last(node.children).key)
           moved  == [node EXCEPT !.children = Append(@, lent)]
           writes == unmap(unmap(disk, node.parent,
                                 [parent EXCEPT !.children[where].key = lent.key]),
                           node.next, [lender EXCEPT !.children = Tail(@)])
       IN  disk' = unmap(reset_index_children_parent(writes, <<lent>>, call.offset),
                         call.offset, moved)
    /\ call' = Idle
    /\ UNCHANGED meta

(* Neither neighbour lends: merge with prev if node is the last child of   *)
(* its parent, else with next, and remove the entry from the parent.       *)
IndexMerge(is_last) ==
    /\ IndexUnderflow
    /\ ~IndexBorrowsLeft /\ ~IndexBorrowsRight
    /\ is_last = (call.offset = Last(parent.children).child)
    /\ meta' = [meta EXCEPT !.internal_node_num = @ - 1]
    /\ call' = [proc |-> "remove_from_index", offset |-> call.node.parent,
                node |-> parent, key |-> Head(call.node.children).key]

index_merge_prev ==
    /\ IndexMerge(TRUE)
    /\ LET node == shrunk_index
       IN  disk' = unmap(set_prev(reset_index_children_parent(
                                      disk, node.children, node.prev),
                                  node.next, node.prev),
                         node.prev, merge(disk[node.prev], node))

index_merge_next ==
    /\ IndexMerge(FALSE)
    /\ LET node == shrunk_index
           next == disk[node.next]
       IN  disk' = unmap(set_prev(reset_index_children_parent(
                                      disk, next.children, call.offset),
                                  next.next, next.prev),
                         call.offset, merge(node, next))

-----------------------------------------------------------------------------
(* The asserts of remove, borrow_key, remove_from_index and                *)
(* insert_key_to_index hold whenever control reaches them, the sibling to  *)
(* merge with exists, and change_parent_child stops below the root         *)
(* (offset 0 is the meta block).                                           *)
AssertsHold ==
    /\ (AtLeaf("remove") /\ binary_search(leaf, call.key)) =>
           /\ Len(leaf.children) \in min_leaf_n..ORDER
           /\ Len(leaf.children) - 1 < min_leaf_n =>
                  /\ leaf.prev # 0 => LenderOK(leaf.prev)
                  /\ (leaf.next # 0 /\ ~BorrowsLeft) => LenderOK(leaf.next)
                  /\ (~BorrowsLeft /\ ~BorrowsRight) =>
                         IF IsLastChild THEN leaf.prev # 0 ELSE leaf.next # 0
    /\ call.proc = "remove_from_index" =>
           /\ Len(call.node.children) \in min_index_n..ORDER
           /\ (~CollapsesRoot /\ Len(shrunk_index.children) < min_index_n) =>
                  /\ call.node.parent # 0
                  /\ call.offset # Head(parent.children).child =>
                         call.node.prev # 0 /\ LenderOK(call.node.prev)
                  /\ call.offset # Last(parent.children).child =>
                         call.node.next # 0 /\ LenderOK(call.node.next)
    /\ call.proc = "change_parent_child" => call.parent # 0
    /\ call.proc = "insert_key_to_index" /\ call.offset # 0 =>
           Len(disk[call.offset].children) <= ORDER

(* "index_t children[BP_ORDER]" (bpt.h:47): remove_from_index, which gives *)
(* the child of the entry it deletes to the entry behind it (bpt.cc:284),  *)
(* writes to an entry of the array.                                        *)
WritesInside ==
    call.proc = "remove_from_index" => find_index(call.node, call.key) < ORDER

(* Behind a failed assert the program is gone, behind a write outside the  *)
(* array nothing is known of it.                                           *)
RemoveStep ==
    /\ AssertsHold /\ WritesInside
    /\ \/ remove_missing
       \/ remove_from_leaf
       \/ remove_borrow_left
       \/ remove_borrow_right
       \/ remove_merge_prev
       \/ remove_merge_next
       \/ change_parent_child
       \/ borrow_key_leaf
       \/ remove_root
       \/ remove_index_entry
       \/ index_borrow_left
       \/ index_borrow_right
       \/ index_merge_prev
       \/ index_merge_next

BeginRemove == \E key \in Keys : Begin("remove", key, NoValue)

=============================================================================
