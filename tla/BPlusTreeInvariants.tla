------------------------ MODULE BPlusTreeInvariants ------------------------
(***************************************************************************)
(* What must hold of the B+ tree file, as state predicates over the        *)
(* variables of BPlusTree.  They are stated for the tree as a reader of    *)
(* the file finds it, so they hold between calls and at each point inside  *)
(* a call where a comment says so.                                         *)
(***************************************************************************)
EXTENDS BPlusTree

Offsets         == 1..(meta.slot - 1)
NullableOffsets == 0..(meta.slot - 1)

Entries == [key : Keys \cup {EmptyKey}, child : Offsets]
Records == [key : Keys, value : Values]

InternalNodes == [kind : {"internal"}, parent : NullableOffsets,
                  next : NullableOffsets, prev : NullableOffsets,
                  children : Seq(Entries)]

LeafNodes == [kind : {"leaf"}, parent : NullableOffsets,
              next : NullableOffsets, prev : NullableOffsets,
              children : Seq(Records)]

IsInternal(o) == disk[o].kind = "internal"
IsLeaf(o)     == disk[o].kind = "leaf"

SearchCalls == [proc : {"search_index"}, op : {"search", "insert", "update"},
                key : Keys, value : Values \cup {NoValue},
                org : Offsets, height : Nat \ {0}]

InsertCalls == [proc : {"insert_key_to_index"}, offset : NullableOffsets,
                key : Keys, old : Offsets, after : Offsets]

Results == [op : {"none", "search", "insert", "update"},
            key : Keys \cup {EmptyKey}, code : {-1, 0, 1},
            value : Values \cup {NoValue}]

(* Types of the state.  Beyond that, every block is read as the struct it  *)
(* was written as: each node that the descent of search_index or the climb *)
(* of insert_key_to_index is about to map is an index node, and has at     *)
(* least one and at most ORDER entries.                                    *)
TypeOK ==
    /\ meta \in [internal_node_num : Nat, leaf_node_num : Nat,
                 height : Nat \ {0}, slot : Nat,
                 root_offset : Offsets, leaf_offset : Offsets]
    /\ disk \in [Offsets -> InternalNodes \cup LeafNodes]
    /\ \A o \in Offsets : /\ Len(disk[o].children) <= ORDER
                          /\ IsInternal(o) => Len(disk[o].children) >= 1
    /\ call \in {Idle} \cup SearchCalls \cup InsertCalls
    /\ result \in Results
    /\ IsInternal(meta.root_offset)
    /\ IsLeaf(meta.leaf_offset)
    /\ call.proc = "search_index" =>
           /\ IsInternal(call.org)
           /\ call.op # "search" => call.value \in Values
    /\ (call.proc = "insert_key_to_index" /\ call.offset # 0) =>
           IsInternal(call.offset)

-----------------------------------------------------------------------------
(* The rows of the index from the root (row 0) to the leaves (row          *)
(* meta.height): the offsets on each level, in the order in which the      *)
(* index lists them.                                                       *)
Children(o) == [m \in DOMAIN disk[o].children |-> disk[o].children[m].child]

Rows ==
    LET row[i \in 0..meta.height] ==
            IF i = 0 THEN <<meta.root_offset>>
            ELSE LET above == row[i - 1]
                 IN  FlattenSeq([j \in DOMAIN above |-> Children(above[j])])
    IN  row

(* The leaves that a walk along the chain from meta.leaf_offset meets,     *)
(* which is what search_range follows; no longer than the number of        *)
(* leaves, should the chain have a cycle.                                  *)
LeafChain ==
    LET next == [o \in NullableOffsets |-> IF o = 0 THEN 0 ELSE disk[o].next]
        walk[i \in 1..meta.leaf_node_num] ==
            IF i = 1 THEN meta.leaf_offset ELSE next[walk[i - 1]]
    IN  {walk[i] : i \in 1..meta.leaf_node_num} \ {0}

(* The contents of the tree: key -> value over the leaf chain. *)
Contents ==
    LET recs == UNION {ToSet(disk[o].children) : o \in LeafChain}
    IN  [k \in {r.key : r \in recs} |-> (CHOOSE r \in recs : r.key = k).value]

(* The leaf that the descent reaches is the only one that can hold the     *)
(* key: no other leaf of the file does.  Holds as long as nothing is       *)
(* removed (a merged leaf stays in the file, unused).                      *)
LeafOwnsKey ==
    (call.proc = "search_index" /\ call.height = 1) =>
        \A o \in Offsets : (IsLeaf(o) /\ binary_search(disk[o], call.key))
                               => o = search_leaf

(* Every node is sorted over the range its binary searches run on (all     *)
(* records of a leaf, all but the last key of an index node), which is     *)
(* what std::upper_bound and std::lower_bound require.                     *)
NodesSorted ==
    \A o \in DOMAIN disk :
        LET c == disk[o].children
            n == IF disk[o].kind = "leaf" THEN Len(c) ELSE Len(c) - 1
        IN  \A i \in 1..(n - 1) : c[i].key < c[i + 1].key

(* Between calls the next and prev links thread every level in the order   *)
(* of the index, the leaf row starts at meta.leaf_offset, and the counters *)
(* of meta count exactly the blocks in use.  borrow_key, the merges and    *)
(* search_range trust these links, remove trusts leaf_node_num.            *)
RowsLinked ==
    call = Idle =>
        LET rows   == Rows
            leaves == rows[meta.height]
        IN  /\ \A i \in 0..meta.height :
                   LET row == rows[i] IN
                   \A j \in DOMAIN row :
                       /\ disk[row[j]].next = IF j = Len(row) THEN 0 ELSE row[j + 1]
                       /\ disk[row[j]].prev = IF j = 1 THEN 0 ELSE row[j - 1]
            /\ meta.leaf_offset = leaves[1]
            /\ meta.leaf_node_num = Len(leaves)
            /\ meta.internal_node_num =
                   Cardinality(UNION {ToSet(rows[i]) : i \in 0..(meta.height - 1)})

(* "parent node offset" (bpt.h:43): between calls the parent field of      *)
(* every block in use is the node that holds its entry, and the root's is  *)
(* null.  insert_key_to_index and remove_from_index climb by this field.   *)
ParentPointers ==
    call = Idle =>
        /\ disk[meta.root_offset].parent = 0
        /\ LET rows == Rows IN
           \A i \in 0..(meta.height - 1) : \A o \in ToSet(rows[i]) :
               \A c \in ToSet(Children(o)) : disk[c].parent = o

(* Between calls every block but the root (and a sole leaf) is at least    *)
(* half full, the premise of the asserts in remove, remove_from_index and  *)
(* borrow_key.                                                             *)
HalfFull ==
    call = Idle =>
        LET rows == Rows IN
        \A i \in 1..meta.height : \A o \in ToSet(rows[i]) :
            \/ Len(disk[o].children) >= ORDER \div 2
            \/ i = meta.height /\ meta.leaf_node_num = 1

-----------------------------------------------------------------------------
Abstract == INSTANCE KeyValueMap WITH map <- Contents

(* The tree implements the map: whatever the shape of the tree, a search,  *)
(* update or remove reports 0 exactly for the keys that are stored, a      *)
(* search returns the value stored last, an insert reports 1 exactly for a *)
(* key that is there, and no step that splits, borrows, merges or grows    *)
(* the index adds, loses or changes a record.                              *)
RefinesMap == Abstract!Spec
=============================================================================
