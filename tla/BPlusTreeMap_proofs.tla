------------------------- MODULE BPlusTreeMap_proofs -------------------------
(***************************************************************************)
(* Proof that BPlusTree implements KeyValueMap and links its levels, and   *)
(* that search_range finds a range, for every order, every set of keys and *)
(* values and every sequence of searches, inserts and updates.             *)
(*                                                                         *)
(* The map is what a walk along the chain of leaves collects.  Two facts   *)
(* are needed besides the order of the keys: the chain visits every leaf   *)
(* (ChainInv, with the positions of the leaves on the chain as a ghost),   *)
(* and a key has one record, in the leaf that the descent reaches.         *)
(***************************************************************************)
EXTENDS BPlusTree_proofs, BPlusTreeRange, FiniteSetTheorems

Leaves == {o \in Offsets : IsLeaf(o)}

(* pos lists the leaves in the order of their next fields. *)
Chain(pos) ==
    LET n == meta.leaf_node_num IN
    /\ n \in Nat \ {0}
    /\ pos \in [1..n -> Offsets]
    /\ \A i \in 1..n : IsLeaf(pos[i])
    /\ \A o \in Offsets : IsLeaf(o) => \E i \in 1..n : pos[i] = o
    /\ \A i, j \in 1..n : pos[i] = pos[j] => i = j
    /\ pos[1] = meta.leaf_offset
    /\ \A i \in 1..(n - 1) : disk[pos[i]].next = pos[i + 1]

ChainInv == \E pos : Chain(pos)

-----------------------------------------------------------------------------
(* The walk of LeafChain meets every leaf of the file and nothing else. *)
LEMMA ChainIsAll ==
    ASSUME NEW lev, Inv(lev), ChainInv
    PROVE  LeafChain = Leaves
<1>1. PICK pos : Chain(pos)
  BY DEF ChainInv
<1> DEFINE n == meta.leaf_node_num
           next == [o \in NullableOffsets |-> IF o = 0 THEN 0 ELSE disk[o].next]
           Is(f) == f = [i \in 1..n |-> IF i = 1 THEN meta.leaf_offset
                                        ELSE next[f[i - 1]]]
           walk == CHOOSE f : Is(f)
<1>2. /\ n \in Nat \ {0} /\ pos \in [1..n -> Offsets]
      /\ pos[1] = meta.leaf_offset
      /\ \A i \in 1..(n - 1) : disk[pos[i]].next = pos[i + 1]
  BY <1>1 DEF Chain
<1>3. \A o \in Offsets : next[o] = disk[o].next
  BY SlotPositive DEF Offsets, NullableOffsets
<1>4. LeafChain = {walk[i] : i \in 1..n} \ {0}
  BY DEF LeafChain
<1> HIDE DEF next
<1>5. Is(pos)
  <2>1. \A i \in 1..n : pos[i] = IF i = 1 THEN meta.leaf_offset
                                 ELSE next[pos[i - 1]]
    <3> SUFFICES ASSUME NEW i \in 1..n, i # 1
                 PROVE  pos[i] = next[pos[i - 1]]
      BY <1>2
    <3>1. i - 1 \in 1..(n - 1) /\ i - 1 \in 1..n /\ (i - 1) + 1 = i
      BY <1>2
    <3>2. disk[pos[i - 1]].next = pos[i]
      BY <1>2, <3>1
    <3> QED
      BY <1>2, <1>3, <3>1, <3>2
  <2>2. pos = [i \in 1..n |-> pos[i]]
    BY <1>2
  <2> HIDE DEF n
  <2> QED
    BY <2>1, <2>2
<1>6. Is(walk)
  BY <1>5
<1>7. \A i \in 1..n : walk[i] = IF i = 1 THEN meta.leaf_offset
                                ELSE next[walk[i - 1]]
  <2> HIDE DEF walk, n
  <2> QED
    BY <1>6
<1>8. \A i \in 1..n : pos[i] = IF i = 1 THEN meta.leaf_offset
                               ELSE next[pos[i - 1]]
  <2> HIDE DEF n
  <2> QED
    BY <1>5
<1> HIDE DEF walk, n, Is
<1> DEFINE Odd == {i \in 1..n : walk[i] # pos[i]}
<1>9. Odd = {}
  <2> SUFFICES ASSUME Odd # {}
               PROVE  FALSE
    OBVIOUS
  <2>1. Odd \in SUBSET Nat
    OBVIOUS
  <2> HIDE DEF Odd
  <2>2. PICK m \in Odd : \A k \in Odd : m <= k
    BY <2>1, LeastElement
  <2>3. m \in 1..n /\ walk[m] # pos[m]
    BY <2>2 DEF Odd
  <2>4. m # 1
    BY <1>7, <1>8, <2>3
  <2>5. m - 1 \in 1..n /\ m - 1 \notin Odd
    BY <1>2, <2>1, <2>2, <2>3, <2>4
  <2>6. walk[m - 1] = pos[m - 1]
    BY <2>5 DEF Odd
  <2> QED
    BY <1>7, <1>8, <2>3, <2>4, <2>6
<1>10. \A i \in 1..n : walk[i] = pos[i]
  BY <1>9
<1>11. \A o : o \in Leaves <=> \E i \in 1..n : o = pos[i]
  BY <1>1 DEF Chain, Leaves, n
<1>12. 0 \notin Leaves
  BY SlotPositive DEF Leaves, Offsets
<1> QED
  BY <1>4, <1>10, <1>11, <1>12

-----------------------------------------------------------------------------
(* The next and prev fields that the steps write. *)

KeptRow == \A o \in Offsets : /\ disk'[o].next = disk[o].next
                              /\ disk'[o].prev = disk[o].prev

(* The block at meta.slot is linked in behind q. *)
SplitRow(q) ==
    LET new == meta.slot
        nx  == disk[q].next
    IN  /\ disk'[q].next = new /\ disk'[q].prev = disk[q].prev
        /\ disk'[new].next = nx /\ disk'[new].prev = q
        /\ \A o \in Offsets \ {q} :
               /\ disk'[o].next = disk[o].next
               /\ disk'[o].prev = IF o = nx THEN new ELSE disk[o].prev

(* Inserting into the array of a node keeps its links. *)
LEMMA InsertKeepsRow ==
    ASSUME NEW K, NEW V, NEW C, NEW P, NEW key, NEW value, NEW node,
           node \in LeafNodesOver(K, V, P) \cup IndexNodesOver(K, C, P)
    PROVE  /\ insert_record_no_split(node, key, value).next = node.next
           /\ insert_record_no_split(node, key, value).prev = node.prev
           /\ insert_key_to_index_no_split(node, key, value).next = node.next
           /\ insert_key_to_index_no_split(node, key, value).prev = node.prev
<1>1. ASSUME NEW c
      PROVE  /\ [node EXCEPT !.children = c].next = node.next
             /\ [node EXCEPT !.children = c].prev = node.prev
  <2>1. CASE node \in LeafNodesOver(K, V, P)
    BY <2>1 DEF LeafNodesOver
  <2>2. CASE node \in IndexNodesOver(K, C, P)
    BY <2>2 DEF IndexNodesOver
  <2> QED
    BY <2>1, <2>2
<1> QED
  BY <1>1 DEF insert_record_no_split, insert_key_to_index_no_split

(* set_prev, field by field. *)
LEMMA SetPrevRow ==
    ASSUME NEW lev, Inv(lev), NEW nx \in NullableOffsets, NEW o \in Offsets
    PROVE  LET d == set_prev(disk, nx, meta.slot) IN
           /\ d[o].next = disk[o].next
           /\ d[o].prev = IF o = nx THEN meta.slot ELSE disk[o].prev
<1>1. disk[o] \in InternalNodes \cup LeafNodes
  BY DEF Inv, BlockOK
<1>2. disk = [q \in Offsets |-> disk[q]] /\ o # 0
  BY SlotPositive DEF Inv, Offsets
<1> DEFINE d == set_prev(disk, nx, meta.slot)
           b == [disk[o] EXCEPT !.prev = meta.slot]
<1>3. b.next = disk[o].next /\ b.prev = meta.slot
  BY <1>1 DEF InternalNodes, LeafNodes
<1>4. d[o] = IF o = nx THEN b ELSE disk[o]
  BY <1>2 DEF set_prev
<1> HIDE DEF b, d
<1> QED
  BY <1>3, <1>4 DEF d

(* The split of a leaf in insert(). *)
LEMMA LeafSplitRow ==
    ASSUME NEW lev, Inv(lev), insert_split_leaf
    PROVE  SplitRow(search_leaf)
<1>1. Searching /\ ~(call.height > 1)
  BY DEF insert_split_leaf, AtLeaf, Searching
<1>2. search_leaf \in Offsets /\ leaf \in LeafNodes
  BY <1>1, LeafReached
<1>3. PICK q \in Offsets : q = search_leaf
  BY <1>2
<1>4. PICK new \in Nat \ {0} : new = meta.slot
  BY SlotPositive
<1>5. new \notin Offsets /\ DOMAIN disk = Offsets
  BY <1>4, SlotPositive DEF Offsets
<1> DEFINE right == leaf_place_right(leaf, call.key)
           lh == left_leaf(new)
           rh == right_leaf
           l == IF right THEN lh ELSE insert_record_no_split(lh, call.key, call.value)
           r == IF right THEN insert_record_no_split(rh, call.key, call.value) ELSE rh
           d == set_prev(disk, leaf.next, new)
<1>6. disk' = unmap(unmap(d, q, l), new, r)
  BY <1>3, <1>4 DEF insert_split_leaf
<1>7. /\ leaf.next \in NullableOffsets /\ leaf = disk[q]
  BY <1>2, <1>3 DEF LeafNodes, leaf
<1>8. /\ lh.next = new /\ lh.prev = leaf.prev
      /\ rh.next = leaf.next /\ rh.prev = q
  BY <1>2, <1>3 DEF left_leaf, right_leaf, LeafNodes
<1>9. ASSUME NEW h, h = lh \/ h = rh
      PROVE  /\ insert_record_no_split(h, call.key, call.value).next = h.next
             /\ insert_record_no_split(h, call.key, call.value).prev = h.prev
  <2>1. PICK x, y, z : h = [leaf EXCEPT !.next = x, !.prev = y, !.children = z]
    <3>1. lh = [leaf EXCEPT !.next = new, !.prev = leaf.prev,
                            !.children = SubSeq(leaf.children, 1, leaf_split_point(leaf, call.key))]
      BY <1>2 DEF left_leaf, LeafNodes
    <3>2. rh = [leaf EXCEPT !.next = leaf.next, !.prev = search_leaf,
                            !.children = SubSeq(leaf.children,
                                leaf_split_point(leaf, call.key) + 1, Len(leaf.children))]
      BY <1>2 DEF right_leaf, LeafNodes
    <3> HIDE DEF lh, rh
    <3> QED
      BY <1>9, <3>1, <3>2
  <2>2. ASSUME NEW c
        PROVE  [h EXCEPT !.children = c].next = h.next /\ [h EXCEPT !.children = c].prev = h.prev
    BY <1>2, <2>1 DEF LeafNodes
  <2> HIDE DEF lh, rh
  <2> QED
    BY <2>2 DEF insert_record_no_split
<1> HIDE DEF lh, rh, right
<1>10. /\ l.next = new /\ l.prev = leaf.prev /\ r.next = leaf.next /\ r.prev = q
  BY <1>8, <1>9
<1> HIDE DEF l, r
<1>11. \A o \in Offsets : /\ d[o].next = disk[o].next
                          /\ d[o].prev = IF o = leaf.next THEN new ELSE disk[o].prev
  BY <1>4, <1>7, SetPrevRow
<1>12. DOMAIN d = Offsets
  BY <1>5, <1>7 DEF set_prev
<1> HIDE DEF d
<1>13. /\ disk'[q] = l /\ disk'[new] = r
       /\ \A o \in Offsets \ {q} : disk'[o] = d[o]
  BY <1>5, <1>6, <1>12 DEF unmap
<1> QED
  BY <1>3, <1>4, <1>7, <1>10, <1>11, <1>13 DEF SplitRow

(* The split of an index node in insert_key_to_index. *)
LEMMA IndexSplitRow ==
    ASSUME NEW lev, Inv(lev), insert_split_index
    PROVE  SplitRow(call.offset)
<1>1. Inserting /\ call.offset # 0
  BY DEF insert_split_index, Inserting
<1>2. call.offset \in Offsets /\ lev[call.offset] \in Nat \ {0} /\ call.after \in Offsets
  BY <1>1, InsertCall
<1>3. PICK q \in Offsets : q = call.offset
  BY <1>2
<1>4. PICK new \in Nat \ {0} : new = meta.slot
  BY SlotPositive
<1>5. new \notin Offsets /\ DOMAIN disk = Offsets
  BY <1>4, SlotPositive DEF Offsets
<1> DEFINE node == disk[q]
           point == index_split_point(node, call.key)
           right == index_place_right(node, call.key)
           lh == [node EXCEPT !.next = new, !.children = SubSeq(@, 1, point)]
           rh == [node EXCEPT !.prev = q, !.children = SubSeq(@, point + 1, Len(@))]
           l == IF right THEN lh
                ELSE insert_key_to_index_no_split(lh, call.key, call.after)
           r == IF right THEN insert_key_to_index_no_split(rh, call.key, call.after)
                ELSE rh
           d == set_prev(disk, node.next, new)
           e == unmap(unmap(d, q, l), new, r)
<1>6. disk' = reset_index_children_parent(e, r.children, new)
  BY <1>3, <1>4 DEF insert_split_index
<1>7. node \in InternalNodes /\ node.next \in NullableOffsets
  BY <1>2, <1>3, IndexFacts, BlockFacts
<1>8. /\ lh.next = new /\ lh.prev = node.prev
      /\ rh.next = node.next /\ rh.prev = q
  BY <1>7 DEF InternalNodes
<1>9. ASSUME NEW h, h = lh \/ h = rh
      PROVE  /\ insert_key_to_index_no_split(h, call.key, call.after).next = h.next
             /\ insert_key_to_index_no_split(h, call.key, call.after).prev = h.prev
             /\ DOMAIN insert_key_to_index_no_split(h, call.key, call.after) = DOMAIN node
             /\ DOMAIN h = DOMAIN node
  <2>1. ASSUME NEW c
        PROVE  /\ [h EXCEPT !.children = c].next = h.next
               /\ [h EXCEPT !.children = c].prev = h.prev
               /\ DOMAIN [h EXCEPT !.children = c] = DOMAIN node
               /\ DOMAIN h = DOMAIN node
    <3>1. PICK x, y, z : h = [node EXCEPT !.next = x, !.prev = y, !.children = z]
      <4>1. lh = [node EXCEPT !.next = new, !.prev = node.prev,
                              !.children = SubSeq(node.children, 1, point)]
        BY <1>7 DEF InternalNodes
      <4>2. rh = [node EXCEPT !.next = node.next, !.prev = q,
                              !.children = SubSeq(node.children, point + 1,
                                                  Len(node.children))]
        BY <1>7 DEF InternalNodes
      <4> HIDE DEF lh, rh
      <4> QED
        BY <1>9, <4>1, <4>2
    <3> HIDE DEF node, lh, rh
    <3> QED
      BY <1>7, <3>1 DEF InternalNodes
  <2> HIDE DEF lh, rh
  <2> QED
    BY <2>1 DEF insert_key_to_index_no_split
<1> HIDE DEF lh, rh, right, point
<1>10. /\ l.next = new /\ l.prev = node.prev /\ r.next = node.next /\ r.prev = q
       /\ DOMAIN l = DOMAIN node /\ DOMAIN r = DOMAIN node
  BY <1>8, <1>9
<1>11. \A o \in Offsets : /\ d[o].next = disk[o].next
                          /\ d[o].prev = IF o = node.next THEN new ELSE disk[o].prev
  BY <1>4, <1>7, SetPrevRow
<1>12. DOMAIN d = Offsets
  BY <1>5, <1>7 DEF set_prev
<1> HIDE DEF d, l, r
<1>13. /\ DOMAIN e = Offsets \cup {new} /\ e[q] = l /\ e[new] = r
       /\ \A o \in Offsets \ {q} : e[o] = d[o]
  BY <1>5, <1>12 DEF unmap
<1> HIDE DEF e
<1>14. ASSUME NEW o \in Offsets \cup {new}
       PROVE  disk'[o].next = e[o].next /\ disk'[o].prev = e[o].prev
  <2>1. disk'[o] = e[o] \/ disk'[o] = [e[o] EXCEPT !.parent = new]
    BY <1>6, <1>13 DEF reset_index_children_parent
  <2> DEFINE b == [e[o] EXCEPT !.parent = new]
  <2>2. b.next = e[o].next /\ b.prev = e[o].prev
    OBVIOUS
  <2> HIDE DEF b
  <2> QED
    BY <2>1, <2>2 DEF b
<1> QED
  BY <1>3, <1>4, <1>5, <1>10, <1>11, <1>13, <1>14 DEF SplitRow

(* A new root stands alone in its row. *)
LEMMA RootRow ==
    ASSUME NEW lev, Inv(lev), insert_new_root
    PROVE  KeptRow /\ disk'[meta.slot].next = 0 /\ disk'[meta.slot].prev = 0
<1>1. PICK new \in Nat \ {0} : new = meta.slot
  BY SlotPositive
<1>2. new \notin Offsets /\ DOMAIN disk = Offsets
  BY <1>1, SlotPositive DEF Offsets
<1> DEFINE entries == <<Entry(call.key, call.old), Entry(EmptyKey, call.after)>>
           root == InternalNode(0, 0, 0, entries)
           e == unmap(disk, new, root)
<1>3. disk' = reset_index_children_parent(e, entries, new)
  BY <1>1 DEF insert_new_root
<1>4. root.next = 0 /\ root.prev = 0
  BY DEF InternalNode
<1> HIDE DEF root, entries
<1>5. DOMAIN e = Offsets \cup {new} /\ e[new] = root /\ \A o \in Offsets : e[o] = disk[o]
  BY <1>2 DEF unmap
<1> HIDE DEF e
<1>6. ASSUME NEW o \in Offsets \cup {new}
      PROVE  disk'[o].next = e[o].next /\ disk'[o].prev = e[o].prev
  <2>1. disk'[o] = e[o] \/ disk'[o] = [e[o] EXCEPT !.parent = new]
    BY <1>3, <1>5 DEF reset_index_children_parent
  <2> DEFINE b == [e[o] EXCEPT !.parent = new]
  <2>2. b.next = e[o].next /\ b.prev = e[o].prev
    OBVIOUS
  <2> HIDE DEF b
  <2> QED
    BY <2>1, <2>2 DEF b
<1> QED
  BY <1>1, <1>4, <1>5, <1>6 DEF KeptRow

(* An entry for an index node that has room. *)
LEMMA IntoIndexRow ==
    ASSUME NEW lev, Inv(lev), insert_into_index
    PROVE  KeptRow
<1>1. Inserting /\ call.offset # 0
  BY DEF insert_into_index, Inserting
<1>2. call.offset \in Offsets /\ lev[call.offset] \in Nat \ {0}
  BY <1>1, InsertCall
<1>3. disk[call.offset] \in IndexNodesOver(Keys, Offsets, NullableOffsets)
  BY <1>2, IndexFacts, NodeSets
<1> DEFINE b == insert_key_to_index_no_split(disk[call.offset], call.key, call.after)
<1>4. b.next = disk[call.offset].next /\ b.prev = disk[call.offset].prev
  BY <1>3, InsertKeepsRow
<1>5. disk' = unmap(disk, call.offset, b)
  BY DEF insert_into_index
<1> HIDE DEF b
<1> QED
  BY <1>2, <1>4, <1>5, SlotPositive DEF KeptRow, unmap

(* The steps that write no link. *)
LEMMA QuietRow ==
    ASSUME NEW lev, Inv(lev),
           \/ BeginAny \/ search_index \/ search \/ update
           \/ insert_same_key \/ insert_into_leaf
    PROVE  KeptRow /\ UNCHANGED meta
<1>1. CASE BeginAny \/ search_index \/ search \/ insert_same_key
  BY <1>1 DEF BeginAny, Begin, search_index, search, insert_same_key, KeptRow
<1>2. CASE update \/ insert_into_leaf
  <2>1. Searching /\ ~(call.height > 1) /\ UNCHANGED meta
    BY <1>2 DEF update, insert_into_leaf, AtLeaf, Searching
  <2>2. search_leaf \in Offsets /\ leaf \in LeafNodes /\ leaf = disk[search_leaf]
    BY <2>1, LeafReached DEF leaf
  <2>3. leaf \in LeafNodesOver(Keys, Values, NullableOffsets)
    BY <2>2, NodeSets
  <2>4. CASE insert_into_leaf
    <3> DEFINE b == insert_record_no_split(leaf, call.key, call.value)
    <3>1. b.next = leaf.next /\ b.prev = leaf.prev
      BY <2>3, InsertKeepsRow
    <3>2. disk' = unmap(disk, search_leaf, b)
      BY <2>4 DEF insert_into_leaf
    <3> HIDE DEF b
    <3> QED
      BY <2>1, <2>2, <3>1, <3>2, SlotPositive DEF KeptRow, unmap
  <2>5. CASE update
    <3>1. CASE UNCHANGED disk
      BY <2>1, <3>1 DEF KeptRow
    <3>2. CASE disk' = [disk EXCEPT ![search_leaf].children
                                       [find_record(leaf, call.key)].value = call.value]
      <4> DEFINE r == find_record(leaf, call.key)
                 c == [leaf.children EXCEPT ![r].value = call.value]
                 b == [leaf EXCEPT !.children = c]
      <4>1. b.next = leaf.next /\ b.prev = leaf.prev
        BY <2>2 DEF LeafNodes
      <4>2. disk' = [disk EXCEPT ![search_leaf] = b]
        BY <2>2, <3>2
      <4> HIDE DEF b
      <4> QED
        BY <2>1, <2>2, <4>1, <4>2, SlotPositive DEF KeptRow
    <3> QED
      BY <2>5, <3>1, <3>2 DEF update
  <2> QED
    BY <1>2, <2>4, <2>5
<1> QED
  BY <1>1, <1>2

-----------------------------------------------------------------------------
(* A new file: one leaf. *)
LEMMA InitChain == Init => ChainInv
<1> SUFFICES ASSUME Init
             PROVE  ChainInv
  OBVIOUS
<1> DEFINE pos == [i \in 1..1 |-> 2]
<1>1. /\ Offsets = 1..2 /\ meta.leaf_node_num = 1 /\ meta.leaf_offset = 2
      /\ disk[1].kind = "internal" /\ disk[2].kind = "leaf"
  BY DEF Init, init_from_empty, Offsets, InternalNode, LeafNode
<1>2. Chain(pos)
  BY <1>1 DEF Chain, IsLeaf
<1> QED
  BY <1>2 DEF ChainInv

(* A step that makes no leaf keeps the chain. *)
LEMMA SameChain ==
    ASSUME NEW lev, Inv(lev), ChainInv,
           Offsets \subseteq Offsets',
           \A o \in Offsets' \ Offsets : disk'[o].kind # "leaf",
           \A o \in Offsets : disk'[o].kind = disk[o].kind,
           \A o \in Offsets : IsLeaf(o) => disk'[o].next = disk[o].next,
           meta'.leaf_node_num = meta.leaf_node_num,
           meta'.leaf_offset = meta.leaf_offset
    PROVE  ChainInv'
<1>1. PICK pos : Chain(pos)
  BY DEF ChainInv
<1> DEFINE n == meta.leaf_node_num
<1>2. /\ n \in Nat \ {0} /\ pos \in [1..n -> Offsets]
      /\ \A i \in 1..n : pos[i] \in Offsets /\ IsLeaf(pos[i])
  BY <1>1 DEF Chain
<1>3. pos \in [1..n -> Offsets']
  BY <1>2
<1>4. \A i \in 1..n : IsLeaf(pos[i])'
  BY <1>2 DEF IsLeaf
<1>5. ASSUME NEW o \in Offsets', IsLeaf(o)'
      PROVE  \E i \in 1..n : pos[i] = o
  <2>1. o \in Offsets /\ IsLeaf(o)
    BY <1>5 DEF IsLeaf
  <2> QED
    BY <1>1, <2>1 DEF Chain
<1>6. \A i \in 1..(n - 1) : disk'[pos[i]].next = pos[i + 1]
  <2> SUFFICES ASSUME NEW i \in 1..(n - 1)
               PROVE  disk'[pos[i]].next = pos[i + 1]
    OBVIOUS
  <2>1. i \in 1..n
    BY <1>2
  <2> QED
    BY <1>1, <1>2, <2>1 DEF Chain
<1>7. \A i, j \in 1..n : pos[i] = pos[j] => i = j
  BY <1>1 DEF Chain
<1>8. pos[1] = meta'.leaf_offset
  BY <1>1 DEF Chain
<1>9. Chain(pos)'
  BY <1>2, <1>3, <1>4, <1>5, <1>6, <1>7, <1>8 DEF Chain
<1> QED
  BY <1>9 DEF ChainInv

(* insert() splits a leaf: the new leaf follows it on the chain. *)
LEMMA SplitLeafChain ==
    ASSUME NEW lev, Inv(lev), ChainInv, insert_split_leaf
    PROVE  ChainInv'
<1>1. PICK pos : Chain(pos)
  BY DEF ChainInv
<1>2. PICK q, new, l, r : LeafSplit(q, new, l, r)
  BY LeafSplitEffect
<1>3. SplitRow(q) /\ q = search_leaf /\ new = meta.slot
  BY <1>2, LeafSplitRow DEF LeafSplit
<1>4. /\ q \in Offsets /\ new \notin Offsets /\ Offsets' = Offsets \cup {new}
      /\ disk'[q].kind = "leaf" /\ disk'[new].kind = "leaf"
      /\ \A o \in Offsets \ {q} : disk'[o].kind = disk[o].kind
  BY <1>2 DEF LeafSplit, LeafNodes, Offsets, NullableOffsets
<1>5. IsLeaf(q)
  <2>1. Searching /\ ~(call.height > 1)
    BY DEF insert_split_leaf, AtLeaf, Searching
  <2> QED
    BY <1>3, <2>1, LeafReached
<1>51. PICK n \in Nat \ {0} : n = meta.leaf_node_num
  BY <1>1 DEF Chain
<1>6. /\ n \in Nat \ {0} /\ pos \in [1..n -> Offsets]
      /\ \A i \in 1..n : pos[i] \in Offsets /\ IsLeaf(pos[i])
      /\ \A o \in Offsets : IsLeaf(o) => \E i \in 1..n : pos[i] = o
      /\ \A i, j \in 1..n : pos[i] = pos[j] => i = j
      /\ pos[1] = meta.leaf_offset
      /\ \A i \in 1..(n - 1) : disk[pos[i]].next = pos[i + 1]
  BY <1>1, <1>51 DEF Chain
<1>7. meta'.leaf_node_num = n + 1 /\ meta'.leaf_offset = meta.leaf_offset
  BY <1>51 DEF insert_split_leaf, alloc_leaf, Inv, MetaOK
<1>8. PICK k \in 1..n : pos[k] = q
  BY <1>4, <1>5, <1>6
<1>9. /\ disk'[q].next = new /\ disk'[new].next = disk[q].next
      /\ \A o \in Offsets \ {q} : disk'[o].next = disk[o].next
  BY <1>3 DEF SplitRow
<1> DEFINE pos2 == [i \in 1..(n + 1) |-> IF i <= k THEN pos[i]
                                         ELSE IF i = k + 1 THEN new
                                         ELSE pos[i - 1]]
<1>10. /\ \A i \in 1..k : pos2[i] = pos[i] /\ i \in 1..n
       /\ pos2[k + 1] = new
       /\ \A i \in (k + 2)..(n + 1) : pos2[i] = pos[i - 1] /\ i - 1 \in (k + 1)..n
       /\ \A i \in 1..(n + 1) : i \in 1..k \/ i = k + 1 \/ i \in (k + 2)..(n + 1)
  BY <1>6
<1>11. pos2 \in [1..(n + 1) -> Offsets']
  BY <1>4, <1>6
<1> HIDE DEF pos2
<1>12. \A i \in 1..(n + 1) : IsLeaf(pos2[i])'
  <2>1. \A i \in 1..n : disk'[pos[i]].kind = "leaf"
    BY <1>4, <1>6 DEF IsLeaf
  <2> SUFFICES ASSUME NEW i \in 1..(n + 1)
               PROVE  disk'[pos2[i]].kind = "leaf"
    BY DEF IsLeaf
  <2>2. CASE i \in 1..k
    BY <1>10, <2>1, <2>2
  <2>3. CASE i = k + 1
    BY <1>4, <1>10, <2>3
  <2>4. CASE i \in (k + 2)..(n + 1)
    <3>1. pos2[i] = pos[i - 1] /\ i - 1 \in 1..n
      BY <1>10, <2>4
    <3> QED
      BY <2>1, <3>1
  <2> QED
    BY <1>10, <2>2, <2>3, <2>4
<1>13. ASSUME NEW o \in Offsets', IsLeaf(o)'
       PROVE  \E i \in 1..(n + 1) : pos2[i] = o
  <2>1. CASE o = new
    BY <1>6, <1>10, <2>1
  <2>2. CASE o # new
    <3>1. o \in Offsets /\ IsLeaf(o)
      BY <1>4, <1>5, <1>13, <2>2 DEF IsLeaf
    <3>2. PICK i \in 1..n : pos[i] = o
      BY <1>6, <3>1
    <3>3. CASE i <= k
      <4>1. i \in 1..k /\ i \in 1..(n + 1)
        BY <3>3
      <4> QED
        BY <1>10, <3>2, <4>1
    <3>4. CASE i > k
      <4>1. i + 1 \in (k + 2)..(n + 1) /\ (i + 1) - 1 = i /\ i + 1 \in 1..(n + 1)
        BY <1>6, <3>4
      <4> QED
        BY <1>10, <3>2, <4>1
    <3> QED
      BY <3>3, <3>4
  <2> QED
    BY <2>1, <2>2
<1>14. ASSUME NEW i \in 1..(n + 1), NEW j \in 1..(n + 1), i < j
       PROVE  pos2[i] # pos2[j]
  <2>1. \A a, b \in 1..n : a < b => pos[a] # pos[b]
    BY <1>6
  <2>2. \A a \in 1..n : pos[a] # new
    BY <1>4, <1>6
  <2>3. i \in 1..k \/ i = k + 1 \/ i \in (k + 2)..(n + 1)
    BY <1>10
  <2>4. CASE j \in 1..k
    <3>1. i \in 1..k
      BY <1>14, <2>4
    <3> QED
      BY <1>10, <1>14, <2>1, <2>4, <3>1
  <2>5. CASE j = k + 1
    <3>1. i \in 1..k
      BY <1>14, <2>5
    <3> QED
      BY <1>10, <2>2, <2>5, <3>1
  <2>6. CASE j \in (k + 2)..(n + 1)
    <3>1. pos2[j] = pos[j - 1] /\ j - 1 \in 1..n /\ j - 1 > k
      BY <1>10, <2>6
    <3>2. CASE i \in 1..k
      <4>1. i < j - 1 /\ i \in 1..n
        BY <1>6, <3>1, <3>2
      <4> QED
        BY <1>10, <2>1, <3>1, <3>2, <4>1
    <3>3. CASE i = k + 1
      BY <1>10, <2>2, <3>1, <3>3
    <3>4. CASE i \in (k + 2)..(n + 1)
      <4>1. pos2[i] = pos[i - 1] /\ i - 1 \in 1..n /\ i - 1 < j - 1
        BY <1>10, <1>14, <3>4
      <4> QED
        BY <2>1, <3>1, <4>1
    <3> QED
      BY <2>3, <3>2, <3>3, <3>4
  <2> QED
    BY <1>10, <2>4, <2>5, <2>6
<1>15. \A i, j \in 1..(n + 1) : pos2[i] = pos2[j] => i = j
  BY <1>6, <1>14
<1>16. pos2[1] = meta'.leaf_offset
  BY <1>6, <1>7, <1>10
<1>17. ASSUME NEW i \in 1..n
       PROVE  disk'[pos2[i]].next = pos2[i + 1]
  <2>1. \A a \in 1..n : a # k => pos[a] \in Offsets \ {q}
    BY <1>6, <1>8
  <2>2. CASE i < k
    <3>0. i \in 1..k /\ i + 1 \in 1..k /\ i \in 1..(n - 1)
      BY <2>2
    <3>1. pos2[i] = pos[i] /\ pos2[i + 1] = pos[i + 1] /\ i \in 1..(n - 1)
      BY <1>10, <3>0
    <3> QED
      BY <1>6, <1>9, <2>1, <2>2, <3>1
  <2>3. CASE i = k
    BY <1>8, <1>9, <1>10, <2>3
  <2>4. CASE i = k + 1
    <3>1. i \in (k + 1)..n /\ i + 1 \in (k + 2)..(n + 1) /\ (i + 1) - 1 = k + 1
      BY <1>6, <2>4
    <3>2. pos2[i] = new /\ pos2[i + 1] = pos[k + 1] /\ k \in 1..(n - 1)
      BY <1>6, <1>10, <2>4, <3>1
    <3> QED
      BY <1>6, <1>8, <1>9, <3>2
  <2>5. CASE i > k + 1
    <3>1. i \in (k + 2)..(n + 1) /\ i + 1 \in (k + 2)..(n + 1) /\ (i + 1) - 1 = i
      BY <1>6, <2>5
    <3>2. pos2[i] = pos[i - 1] /\ pos2[i + 1] = pos[i]
      BY <1>10, <3>1
    <3>3. i - 1 \in 1..(n - 1) /\ i - 1 \in 1..n /\ i - 1 # k /\ (i - 1) + 1 = i
      BY <1>6, <2>5
    <3> QED
      BY <1>6, <1>9, <2>1, <3>2, <3>3
  <2> QED
    BY <1>6, <2>2, <2>3, <2>4, <2>5
<1>18. Chain(pos2)'
  <2>1. n + 1 \in Nat \ {0} /\ (n + 1) - 1 = n
    BY <1>6
  <2> QED
    BY <1>7, <1>11, <1>12, <1>13, <1>15, <1>16, <1>17, <2>1 DEF Chain
<1> QED
  BY <1>18 DEF ChainInv

(* Every step of the tree keeps the leaves on one chain. *)
LEMMA NextChain == IInv /\ ChainInv /\ [Next]_vars => ChainInv'
<1> SUFFICES ASSUME IInv, ChainInv, [Next]_vars
             PROVE  ChainInv'
  OBVIOUS
<1>0. PICK lev : Inv(lev)
  BY DEF IInv
<1>1. CASE \/ BeginAny \/ search_index \/ search \/ update
           \/ insert_same_key \/ insert_into_leaf
  <2>1. KeptRow /\ UNCHANGED meta
    BY <1>0, <1>1, QuietRow
  <2>2. \A o \in Offsets : disk'[o].kind = disk[o].kind
    <3>1. UNCHANGED disk \/ \E q, b : LeafWritten(q, b)
      <4>1. CASE update \/ insert_into_leaf
        BY <1>0, <4>1, UpdateEffect, InsertIntoLeafEffect
      <4>2. CASE BeginAny \/ search_index \/ search \/ insert_same_key
        BY <4>2 DEF BeginAny, Begin, search_index, search, insert_same_key
      <4> QED
        BY <1>1, <4>1, <4>2
    <3>2. ASSUME NEW q, NEW b, LeafWritten(q, b)
          PROVE  \A o \in Offsets : disk'[o].kind = disk[o].kind
      <4>1. disk' = unmap(disk, q, b) /\ b.kind = "leaf" /\ disk[q].kind = "leaf"
        BY <3>2 DEF LeafWritten, LeafNodes, IsLeaf
      <4> QED
        BY <1>0, <4>1, SlotPositive DEF unmap
    <3> QED
      BY <3>1, <3>2
  <2>3. Offsets' = Offsets
    BY <2>1 DEF Offsets
  <2> QED
    BY <1>0, <2>1, <2>2, <2>3, SameChain DEF KeptRow
<1>2. CASE insert_split_leaf
  BY <1>0, <1>2, SplitLeafChain
<1>3. CASE insert_new_root
  <2>1. PICK new, root : RootAdded(new, root)
    BY <1>0, <1>3, RootAddedEffect
  <2>2. /\ Offsets' = Offsets \cup {new} /\ disk'[new].kind = "internal"
        /\ \A o \in Offsets : disk'[o].kind = disk[o].kind
    BY <2>1 DEF RootAdded, InternalNodes
  <2>3. KeptRow
    BY <1>0, <1>3, RootRow
  <2>4. meta'.leaf_node_num = meta.leaf_node_num /\ meta'.leaf_offset = meta.leaf_offset
    BY <1>0, <1>3 DEF insert_new_root, alloc_internal, Inv, MetaOK
  <2> QED
    BY <1>0, <2>2, <2>3, <2>4, SameChain DEF KeptRow
<1>4. CASE insert_into_index
  <2>1. PICK q, b : IndexWritten(q, b)
    BY <1>0, <1>4, IndexWrittenEffect
  <2>2. /\ q \in Offsets /\ disk' = unmap(disk, q, b) /\ b.kind = "internal"
        /\ q = call.offset
    BY <2>1 DEF IndexWritten, InternalNodes
  <2>3. disk[q].kind = "internal"
    <3>1. Inserting /\ call.offset # 0
      BY <1>4 DEF insert_into_index, Inserting
    <3> QED
      BY <1>0, <2>2, <3>1, InsertCall, IndexFacts DEF IsInternal
  <2>4. \A o \in Offsets : disk'[o].kind = disk[o].kind
    BY <1>0, <2>2, <2>3, SlotPositive DEF unmap
  <2>5. UNCHANGED meta /\ Offsets' = Offsets
    BY <1>4 DEF insert_into_index, Offsets
  <2>6. KeptRow
    BY <1>0, <1>4, IntoIndexRow
  <2> QED
    BY <1>0, <2>4, <2>5, <2>6, SameChain DEF KeptRow
<1>5. CASE insert_split_index
  <2>1. PICK q, new, l, r : IndexSplit(q, new, l, r)
    BY <1>0, <1>5, IndexSplitEffect
  <2>2. /\ q \in Offsets /\ q = call.offset /\ Offsets' = Offsets \cup {new}
        /\ disk'[new].kind = "internal" /\ disk'[q].kind = "internal"
        /\ \A o \in Offsets \ {q} : disk'[o].kind = disk[o].kind
    BY <2>1 DEF IndexSplit, InternalNodes
  <2>3. disk[q].kind = "internal"
    <3>1. Inserting /\ call.offset # 0
      BY <1>5 DEF insert_split_index, Inserting
    <3> QED
      BY <1>0, <2>2, <3>1, InsertCall, IndexFacts DEF IsInternal
  <2>4. SplitRow(q)
    BY <1>0, <1>5, <2>2, IndexSplitRow
  <2>5. \A o \in Offsets : IsLeaf(o) => o # q
    BY <2>3 DEF IsLeaf
  <2>6. meta'.leaf_node_num = meta.leaf_node_num /\ meta'.leaf_offset = meta.leaf_offset
    BY <1>0, <1>5 DEF insert_split_index, alloc_internal, Inv, MetaOK
  <2>7. /\ \A o \in Offsets : disk'[o].kind = disk[o].kind
        /\ \A o \in Offsets : IsLeaf(o) => disk'[o].next = disk[o].next
    BY <2>2, <2>3, <2>4, <2>5 DEF SplitRow
  <2> QED
    BY <1>0, <2>2, <2>6, <2>7, SameChain
<1>6. CASE UNCHANGED vars
  <2>1. UNCHANGED <<meta, disk>> /\ Offsets' = Offsets
    BY <1>6 DEF vars, Offsets
  <2> QED
    BY <1>0, <2>1, SameChain
<1> QED
  BY <1>1, <1>2, <1>3, <1>4, <1>5, <1>6 DEF Next, Step

-----------------------------------------------------------------------------
(* The map as a set of records. *)
Holds(c, x) == \E i \in DOMAIN c : c[i] = x

Stock == {x \in Records : \E o \in Leaves : Holds(disk[o].children, x)}

Single(S) == \A r, s \in S : r.key = s.key => r = s

MapOf(S) == [k \in {r.key : r \in S} |-> (CHOOSE r \in S : r.key = k).value]

MapInv == IInv /\ LinkInv /\ OrdInv /\ ChainInv

(* Reading the map. *)
LEMMA MapReads ==
    ASSUME NEW S \in SUBSET Records, Single(S)
    PROVE  /\ \A k : k \in DOMAIN MapOf(S) <=> \E r \in S : r.key = k
           /\ \A r \in S : MapOf(S)[r.key] = r.value
<1>1. ASSUME NEW r \in S
      PROVE  MapOf(S)[r.key] = r.value
  <2>1. (CHOOSE s \in S : s.key = r.key) = r
    BY DEF Single
  <2> QED
    BY <2>1 DEF MapOf
<1> QED
  BY <1>1 DEF MapOf

(* A record for a new key. *)
LEMMA MapInserts ==
    ASSUME NEW S \in SUBSET Records, Single(S), NEW rec \in Records,
           \A r \in S : r.key # rec.key
    PROVE  MapOf(S \cup {rec}) =
               [k \in DOMAIN MapOf(S) \cup {rec.key} |->
                   IF k = rec.key THEN rec.value ELSE MapOf(S)[k]]
<1> DEFINE T == S \cup {rec}
           g == [k \in DOMAIN MapOf(S) \cup {rec.key} |->
                    IF k = rec.key THEN rec.value ELSE MapOf(S)[k]]
<1>1. T \in SUBSET Records /\ Single(T) /\ \A r : r \in T <=> r \in S \/ r = rec
  BY DEF Single
<1>2. DOMAIN MapOf(T) = DOMAIN g
  <2>1. \A k : k \in DOMAIN MapOf(T) <=> \E r \in T : r.key = k
    BY <1>1, MapReads
  <2>2. \A k : k \in DOMAIN MapOf(S) <=> \E r \in S : r.key = k
    BY MapReads
  <2>3. DOMAIN g = DOMAIN MapOf(S) \cup {rec.key}
    OBVIOUS
  <2> HIDE DEF T, g
  <2> QED
    BY <1>1, <2>1, <2>2, <2>3
<1>3. ASSUME NEW k \in DOMAIN MapOf(T)
      PROVE  MapOf(T)[k] = g[k]
  <2>1. PICK r \in T : r.key = k
    BY <1>1, MapReads
  <2>2. MapOf(T)[k] = r.value
    BY <1>1, <2>1, MapReads
  <2>3. CASE r = rec
    BY <2>1, <2>2, <2>3
  <2>4. CASE r \in S
    <3>1. MapOf(S)[k] = r.value /\ k # rec.key /\ k \in DOMAIN MapOf(S)
      BY <2>1, <2>4, MapReads
    <3> HIDE DEF T
    <3> QED
      BY <2>2, <3>1
  <2> QED
    BY <1>1, <2>1, <2>3, <2>4
<1>4. /\ MapOf(T) = [k \in DOMAIN MapOf(T) |-> MapOf(T)[k]]
      /\ g = [k \in DOMAIN g |-> g[k]]
  BY DEF MapOf
<1> HIDE DEF T, g
<1>5. MapOf(T) = g
  BY <1>2, <1>3, <1>4
<1> QED
  BY <1>5 DEF T, g

(* Another record for a known key. *)
LEMMA MapUpdates ==
    ASSUME NEW S \in SUBSET Records, Single(S), NEW old \in S,
           NEW rec \in Records, rec.key = old.key
    PROVE  MapOf((S \ {old}) \cup {rec}) = [MapOf(S) EXCEPT ![rec.key] = rec.value]
<1> DEFINE T == (S \ {old}) \cup {rec}
           g == [MapOf(S) EXCEPT ![rec.key] = rec.value]
<1>1. /\ T \in SUBSET Records /\ Single(T)
      /\ \A r : r \in T <=> (r \in S /\ r # old) \/ r = rec
  BY DEF Single
<1>2. DOMAIN g = DOMAIN MapOf(S) /\ \A k \in DOMAIN g :
          g[k] = IF k = rec.key THEN rec.value ELSE MapOf(S)[k]
  BY DEF MapOf
<1>31. MapOf(T) = [k \in DOMAIN MapOf(T) |-> MapOf(T)[k]]
  <2> HIDE DEF T
  <2> QED
    BY DEF MapOf
<1>32. g = [k \in DOMAIN g |-> g[k]]
  OBVIOUS
<1> HIDE DEF T, g
<1>4. DOMAIN MapOf(T) = DOMAIN g
  <2>1. \A k : k \in DOMAIN MapOf(T) <=> \E r \in T : r.key = k
    BY <1>1, MapReads
  <2>2. \A k : k \in DOMAIN MapOf(S) <=> \E r \in S : r.key = k
    BY MapReads
  <2>3. \A k : (\E r \in T : r.key = k) <=> (\E r \in S : r.key = k)
    BY <1>1
  <2> QED
    BY <1>2, <2>1, <2>2, <2>3
<1>5. ASSUME NEW k \in DOMAIN MapOf(T)
      PROVE  MapOf(T)[k] = g[k]
  <2>1. PICK r \in T : r.key = k
    BY <1>1, MapReads
  <2>2. MapOf(T)[k] = r.value
    BY <1>1, <2>1, MapReads
  <2>3. CASE r = rec
    BY <1>2, <1>4, <2>1, <2>2, <2>3
  <2>4. CASE r \in S /\ r # old
    <3>1. MapOf(S)[k] = r.value /\ k # rec.key
      BY <2>1, <2>4, MapReads DEF Single
    <3> QED
      BY <1>2, <1>4, <2>2, <3>1
  <2> QED
    BY <1>1, <2>1, <2>3, <2>4
<1>6. MapOf(T) = g
  BY <1>31, <1>32, <1>4, <1>5
<1> QED
  BY <1>6 DEF T, g

(* The contents of the tree are its stock, in which no key occurs twice. *)
LEMMA ContentsIsStock ==
    ASSUME MapInv
    PROVE  /\ Contents = MapOf(Stock)
           /\ Stock \in SUBSET Records
           /\ Single(Stock)
<1>1. PICK lev : Inv(lev)
  BY DEF MapInv, IInv
<1>2. PICK own : Ord(own)
  BY DEF MapInv, OrdInv
<1>3. LeafChain = Leaves
  BY <1>1, ChainIsAll DEF MapInv
<1>4. ASSUME NEW o \in Leaves
      PROVE  /\ o \in Offsets /\ disk[o].children \in Seq(Records)
             /\ DOMAIN disk[o].children = 1..Len(disk[o].children)
             /\ \A i \in 1..Len(disk[o].children) : disk[o].children[i] \in Records
             /\ LeafOrder(disk[o].children, own[o])
             /\ Len(disk[o].children) \in Nat
  <2>1. o \in Offsets /\ IsLeaf(o)
    BY DEF Leaves
  <2>2. disk[o].children \in Seq(Records)
    BY <1>1, <2>1, BlockFacts DEF LeafNodes
  <2>3. LeafOrder(disk[o].children, own[o])
    BY <1>2, <2>1 DEF Ord
  <2> QED
    BY <2>1, <2>2, <2>3
<1>5. UNION {ToSet(disk[o].children) : o \in LeafChain} = Stock
  BY <1>3, <1>4 DEF Stock, ToSet, Holds
<1>6. Contents = MapOf(Stock)
  <2>1. Contents = MapOf(UNION {ToSet(disk[o].children) : o \in LeafChain})
    BY Zenon DEF Contents, MapOf
  <2> QED
    BY <1>5, <2>1
<1>7. ASSUME NEW r \in Stock, NEW s \in Stock, r.key = s.key
      PROVE  r = s
  <2>1. PICK o \in Leaves : Holds(disk[o].children, r)
    BY DEF Stock
  <2>2. PICK p \in Leaves : Holds(disk[p].children, s)
    BY DEF Stock
  <2>3. PICK i \in 1..Len(disk[o].children) : disk[o].children[i] = r
    BY <1>4, <2>1 DEF Holds
  <2>4. PICK j \in 1..Len(disk[p].children) : disk[p].children[j] = s
    BY <1>4, <2>2 DEF Holds
  <2>5. r.key \in own[o] /\ s.key \in own[p]
    BY <1>4, <2>3, <2>4 DEF LeafOrder
  <2>6. o = p
    BY <1>2, <1>7, <2>5 DEF Ord, Leaves
  <2>7. r.key \in Nat
    BY KeysAssumption DEF Stock, Records
  <2>8. i = j
    <3>1. \A x, y \in 1..Len(disk[o].children) :
              x < y => disk[o].children[x].key < disk[o].children[y].key
      BY <1>4 DEF LeafOrder, SortedTo
    <3> QED
      BY <1>7, <2>3, <2>4, <2>6, <2>7, <3>1
  <2> QED
    BY <2>3, <2>4, <2>6, <2>8
<1> QED
  BY <1>6, <1>7 DEF Stock, Single

StockIsMap == Contents = MapOf(Stock) /\ Stock \in SUBSET Records /\ Single(Stock)

(* The same for every reachable state, in the form the steps use. *)
LEMMA ContentsFacts == MapInv => StockIsMap
BY ContentsIsStock DEF StockIsMap

-----------------------------------------------------------------------------
(* What a step does to the stock. *)

(* Inserting a record into a leaf adds that record and no other. *)
LEMMA AddedHolds ==
    ASSUME NEW R0, NEW c \in Seq(R0), NEW R, NEW rec, NEW c2,
           RecordAdded(c, R, rec, c2)
    PROVE  \A x : Holds(c2, x) <=> Holds(c, x) \/ x = rec
<1>1. PICK w \in 1..(Len(c) + 1) :
          /\ c2 \in Seq(R) /\ Len(c2) = Len(c) + 1
          /\ \A j \in 1..(w - 1) : c2[j] = c[j]
          /\ c2[w] = rec
          /\ \A j \in (w + 1)..(Len(c) + 1) : c2[j] = c[j - 1]
  BY DEF RecordAdded
<1>2. /\ DOMAIN c = 1..Len(c) /\ DOMAIN c2 = 1..(Len(c) + 1) /\ Len(c) \in Nat
  BY <1>1
<1>3. ASSUME NEW x, Holds(c2, x)
      PROVE  Holds(c, x) \/ x = rec
  <2>1. PICK i \in 1..(Len(c) + 1) : c2[i] = x
    BY <1>2, <1>3 DEF Holds
  <2>2. CASE i < w
    <3>1. i \in 1..(w - 1) /\ i \in 1..Len(c)
      BY <1>2, <2>2
    <3> QED
      BY <1>1, <1>2, <2>1, <3>1 DEF Holds
  <2>3. CASE i = w
    BY <1>1, <2>1, <2>3
  <2>4. CASE i > w
    <3>1. i \in (w + 1)..(Len(c) + 1) /\ i - 1 \in 1..Len(c)
      BY <1>2, <2>4
    <3> QED
      BY <1>1, <1>2, <2>1, <3>1 DEF Holds
  <2> QED
    BY <1>2, <2>2, <2>3, <2>4
<1>4. ASSUME NEW x, Holds(c, x)
      PROVE  Holds(c2, x)
  <2>1. PICK i \in 1..Len(c) : c[i] = x
    BY <1>2, <1>4 DEF Holds
  <2>2. CASE i < w
    <3>1. i \in 1..(w - 1) /\ i \in 1..(Len(c) + 1)
      BY <1>2, <2>2
    <3> QED
      BY <1>1, <1>2, <2>1, <3>1 DEF Holds
  <2>3. CASE ~(i < w)
    <3>1. i + 1 \in (w + 1)..(Len(c) + 1) /\ i + 1 \in 1..(Len(c) + 1) /\ (i + 1) - 1 = i
      BY <1>2, <2>3
    <3>2. c2[i + 1] = x
      BY <1>1, <2>1, <3>1
    <3> QED
      BY <1>2, <3>1, <3>2 DEF Holds
  <2> QED
    BY <2>2, <2>3
<1>5. Holds(c2, rec)
  BY <1>1, <1>2 DEF Holds
<1> QED
  BY <1>3, <1>4, <1>5

(* Two halves hold what the whole held. *)
LEMMA HalvesHold ==
    ASSUME NEW E, NEW c \in Seq(E), NEW p \in 1..(Len(c) - 1)
    PROVE  \A x : Holds(c, x) <=> \/ Holds(SubSeq(c, 1, p), x)
                                  \/ Holds(SubSeq(c, p + 1, Len(c)), x)
<1> DEFINE l == SubSeq(c, 1, p)
           r == SubSeq(c, p + 1, Len(c))
<1>1. /\ l \in Seq(E) /\ Len(l) = p
      /\ r \in Seq(E) /\ Len(r) = Len(c) - p
      /\ \A i \in 1..p : l[i] = c[i]
      /\ \A i \in 1..(Len(c) - p) : r[i] = c[p + i]
  BY HalvesLists
<1>2. /\ DOMAIN c = 1..Len(c) /\ DOMAIN l = 1..p /\ DOMAIN r = 1..(Len(c) - p)
      /\ Len(c) \in Nat
  BY <1>1
<1> HIDE DEF l, r
<1>3. ASSUME NEW x, Holds(c, x)
      PROVE  Holds(l, x) \/ Holds(r, x)
  <2>1. PICK i \in 1..Len(c) : c[i] = x
    BY <1>2, <1>3 DEF Holds
  <2>2. CASE i <= p
    <3>1. i \in 1..p
      BY <2>2
    <3> QED
      BY <1>1, <1>2, <2>1, <3>1 DEF Holds
  <2>3. CASE i > p
    <3>1. i - p \in 1..(Len(c) - p) /\ p + (i - p) = i
      BY <1>2, <2>3
    <3>2. r[i - p] = x
      BY <1>1, <2>1, <3>1
    <3> QED
      BY <1>2, <3>1, <3>2 DEF Holds
  <2> QED
    BY <2>2, <2>3
<1>4. ASSUME NEW x, Holds(l, x)
      PROVE  Holds(c, x)
  <2>1. PICK i \in 1..p : l[i] = x
    BY <1>2, <1>4 DEF Holds
  <2>2. i \in 1..Len(c)
    BY <1>2
  <2> QED
    BY <1>1, <1>2, <2>1, <2>2 DEF Holds
<1>5. ASSUME NEW x, Holds(r, x)
      PROVE  Holds(c, x)
  <2>1. PICK i \in 1..(Len(c) - p) : r[i] = x
    BY <1>2, <1>5 DEF Holds
  <2>2. p + i \in 1..Len(c)
    BY <1>2
  <2> QED
    BY <1>1, <1>2, <2>1, <2>2 DEF Holds
<1> QED
  BY <1>3, <1>4, <1>5 DEF l, r

(* A split leaf and its new neighbour hold what it held and the record. *)
LEMMA LeafHalvesHold ==
    ASSUME NEW c \in Seq(Records), Len(c) = ORDER, NEW lc, NEW rc,
           LeafHalves(c, lc, rc)
    PROVE  \A x : Holds(lc, x) \/ Holds(rc, x)
                      <=> Holds(c, x) \/ x = Record(call.key, call.value)
<1> DEFINE rec == Record(call.key, call.value)
<1>1. PICK p \in 1..(ORDER - 1) :
          \/ /\ lc = SubSeq(c, 1, p)
             /\ RecordAdded(SubSeq(c, p + 1, ORDER), Records, rec, rc)
          \/ /\ RecordAdded(SubSeq(c, 1, p), Records, rec, lc)
             /\ rc = SubSeq(c, p + 1, ORDER)
  BY DEF LeafHalves
<1>2. /\ SubSeq(c, 1, p) \in Seq(Records) /\ SubSeq(c, p + 1, ORDER) \in Seq(Records)
      /\ p \in 1..(Len(c) - 1)
  BY HalvesLists
<1>3. \A x : Holds(c, x) <=> \/ Holds(SubSeq(c, 1, p), x)
                             \/ Holds(SubSeq(c, p + 1, ORDER), x)
  BY <1>2, HalvesHold
<1> HIDE DEF rec
<1>4. CASE /\ lc = SubSeq(c, 1, p)
           /\ RecordAdded(SubSeq(c, p + 1, ORDER), Records, rec, rc)
  <2>1. \A x : Holds(rc, x) <=> Holds(SubSeq(c, p + 1, ORDER), x) \/ x = rec
    BY <1>2, <1>4, AddedHolds
  <2> QED
    BY <1>3, <1>4, <2>1 DEF rec
<1>5. CASE /\ RecordAdded(SubSeq(c, 1, p), Records, rec, lc)
           /\ rc = SubSeq(c, p + 1, ORDER)
  <2>1. \A x : Holds(lc, x) <=> Holds(SubSeq(c, 1, p), x) \/ x = rec
    BY <1>2, <1>5, AddedHolds
  <2> QED
    BY <1>3, <1>5, <2>1 DEF rec
<1> QED
  BY <1>1, <1>4, <1>5

(* Blocks that hold the same records make the same stock. *)
LEMMA SameStock ==
    ASSUME Leaves' = Leaves,
           \A o \in Leaves : disk'[o].children = disk[o].children
    PROVE  Stock' = Stock
BY DEF Stock

(* The record a call looks for is in the leaf it has reached, at the place *)
(* that std::lower_bound returns, or nowhere in the tree.                  *)
LEMMA Lookup ==
    ASSUME MapInv, Searching, ~(call.height > 1)
    PROVE  LET c == leaf.children
               r == find_record(leaf, call.key)
           IN  /\ call.key \in Keys
               /\ call.key \in DOMAIN Contents <=> binary_search(leaf, call.key)
               /\ r \in 1..(Len(c) + 1) /\ Len(c) \in Nat
               /\ binary_search(leaf, call.key) <=> r <= Len(c) /\ c[r].key = call.key
               /\ r <= Len(c) => c[r] \in Records
               /\ r <= Len(c) /\ c[r].key = call.key =>
                      /\ Contents[call.key] = c[r].value
                      /\ c[r] \in Stock
<1> DEFINE c == leaf.children
           r == find_record(leaf, call.key)
           k == call.key
<1>1. PICK lev : Inv(lev)
  BY DEF MapInv, IInv
<1>2. PICK own : Ord(own)
  BY DEF MapInv, OrdInv
<1>3. /\ call \in SearchCalls /\ search_leaf \in Offsets /\ IsLeaf(search_leaf)
      /\ leaf \in LeafNodes /\ c \in Seq(Records) /\ leaf = disk[search_leaf]
  BY <1>1, LeafReached DEF leaf
<1>4. k \in Keys /\ k \in Nat /\ call.height = 1
  <2>1. call.key \in Keys /\ call.height \in Nat \ {0}
    BY <1>3 DEF SearchCalls
  <2>2. call.key \in Nat
    BY <2>1, KeysAssumption
  <2>3. call.height = 1
    BY <2>1
  <2> QED
    BY <2>1, <2>2, <2>3
<1>5. /\ Len(c) \in Nat /\ DOMAIN c = 1..Len(c)
      /\ \A i \in 1..Len(c) : c[i] \in Records /\ c[i].key \in Nat
  <2>1. \A x \in Records : x.key \in Nat
    BY KeysAssumption DEF Records
  <2> QED
    BY <1>3, <2>1
<1>6. SortedTo(c, Len(c))
  BY <1>2, <1>3 DEF Ord, LeafOrder
<1>7. /\ r \in 1..(Len(c) + 1)
      /\ \A j \in 1..(r - 1) : c[j].key < k
      /\ r <= Len(c) => k <= c[r].key
  BY <1>4, <1>5, LowerBound DEF find_record
<1> HIDE DEF r
<1>8. binary_search(leaf, k) <=> r <= Len(c) /\ c[r].key = k
  <2>1. ASSUME NEW j \in 1..Len(c), c[j].key = k
        PROVE  r <= Len(c) /\ c[r].key = k
    <3>1. ~(j < r)
      BY <1>4, <1>5, <1>7, <2>1
    <3>2. r <= Len(c) /\ r \in 1..Len(c) /\ (r = j \/ r < j)
      BY <1>5, <1>7, <3>1
    <3>3. r < j => c[r].key < c[j].key
      BY <1>6, <3>2 DEF SortedTo
    <3> QED
      BY <1>4, <1>5, <1>7, <2>1, <3>2, <3>3
  <2>2. ASSUME r <= Len(c), c[r].key = k
        PROVE  binary_search(leaf, k)
    BY <1>5, <1>7, <2>2 DEF binary_search
  <2> QED
    BY <1>5, <2>1, <2>2 DEF binary_search
<1>9. /\ Contents = MapOf(Stock) /\ Stock \in SUBSET Records /\ Single(Stock)
  BY ContentsIsStock
<1>10. ASSUME NEW i \in 1..Len(c)
       PROVE  c[i] \in Stock
  <2>1. search_leaf \in Leaves
    BY <1>3 DEF Leaves
  <2> HIDE DEF c
  <2>2. Holds(c, c[i])
    BY <1>5 DEF Holds
  <2> QED
    BY <1>3, <1>5, <2>1, <2>2 DEF Stock, c
<1>11. \A x : x \in DOMAIN Contents <=> \E s \in Stock : s.key = x
  BY <1>9, MapReads
<1>12. k \in DOMAIN Contents <=> binary_search(leaf, k)
  <2>1. ASSUME binary_search(leaf, k)
        PROVE  k \in DOMAIN Contents
    BY <1>5, <1>10, <1>11, <2>1 DEF binary_search
  <2>2. ASSUME k \in DOMAIN Contents
        PROVE  binary_search(leaf, k)
    <3>1. PICK s \in Stock : s.key = k
      BY <1>11, <2>2
    <3>2. PICK o \in Leaves : Holds(disk[o].children, s)
      BY <3>1 DEF Stock
    <3>3. o \in Offsets /\ IsLeaf(o) /\ binary_search(disk[o], k)
      BY <3>1, <3>2 DEF Leaves, Holds, binary_search
    <3>4. LeafOwnsKey
      BY OwnerFound DEF MapInv
    <3>5. o = search_leaf
      BY <1>4, <3>3, <3>4 DEF LeafOwnsKey, Searching
    <3> QED
      BY <1>3, <3>3, <3>5
  <2> QED
    BY <2>1, <2>2
<1>13. ASSUME r <= Len(c), c[r].key = k
       PROVE  Contents[k] = c[r].value /\ c[r] \in Stock
  <2>1. r \in 1..Len(c)
    BY <1>5, <1>7, <1>13
  <2>2. c[r] \in Stock
    BY <1>10, <2>1
  <2>3. MapOf(Stock)[c[r].key] = c[r].value
    BY <1>9, <2>2, MapReads
  <2> QED
    BY <1>9, <1>13, <2>2, <2>3
<1>14. r <= Len(c) => c[r] \in Records
  BY <1>5, <1>7
<1> QED
  BY <1>4, <1>5, <1>7, <1>8, <1>12, <1>13, <1>14 DEF r

(* A record written into the leaf that a call has reached. *)
LEMMA WrittenStock ==
    ASSUME NEW lev, Inv(lev), NEW q \in Leaves, NEW b, b.kind = "leaf",
           disk' = unmap(disk, q, b), UNCHANGED meta
    PROVE  /\ Leaves' = Leaves
           /\ disk'[q].children = b.children
           /\ \A o \in Leaves \ {q} : disk'[o].children = disk[o].children
<1>1. q \in Offsets /\ disk[q].kind = "leaf" /\ DOMAIN disk = Offsets /\ Offsets' = Offsets
  BY SlotPositive DEF Leaves, IsLeaf, Offsets
<1>2. disk'[q] = b /\ \A o \in Offsets \ {q} : disk'[o] = disk[o]
  BY <1>1 DEF unmap
<1> QED
  BY <1>1, <1>2 DEF Leaves, IsLeaf

(* insert() into a leaf that has room. *)
LEMMA InsertStock ==
    ASSUME NEW lev, Inv(lev), insert_into_leaf
    PROVE  Stock' = Stock \cup {Record(call.key, call.value)}
<1>1. /\ Searching /\ ~(call.height > 1) /\ call.op = "insert"
      /\ UNCHANGED meta
  BY DEF insert_into_leaf, AtLeaf, Searching
<1> DEFINE b == insert_record_no_split(leaf, call.key, call.value)
           rec == Record(call.key, call.value)
<1>2. disk' = unmap(disk, search_leaf, b)
  BY DEF insert_into_leaf
<1>3. call.value \in Values /\ call.key \in Keys
  BY <1>1, LeafReached DEF Inv, CallOK, SearchCalls
<1>4. /\ leaf \in LeafNodes /\ search_leaf \in Offsets /\ IsLeaf(search_leaf)
      /\ leaf.children \in Seq(Records) /\ leaf = disk[search_leaf]
  BY <1>1, LeafReached DEF leaf
<1>5. b \in LeafNodes /\ b.kind = "leaf" /\ rec \in Records
  <2>1. b \in LeafNodes
    BY <1>3, <1>4, InsertRecordHere
  <2> QED
    BY <1>3, <2>1 DEF LeafNodes, Record, Records
<1>6. RecordAdded(leaf.children, Records, rec, b.children)
  <2>1. /\ Keys \in SUBSET Nat /\ Records = RecordsOver(Keys, Values)
        /\ leaf \in LeafNodesOver(Keys, Values, NullableOffsets)
    BY <1>4, KeysAssumption, NodeSets
  <2> QED
    BY <1>3, <2>1, InsertRecordEntries
<1> HIDE DEF b, rec
<1>7. \A x : Holds(b.children, x) <=> Holds(leaf.children, x) \/ x = rec
  BY <1>4, <1>6, AddedHolds
<1>8. PICK q \in Leaves : q = search_leaf
  BY <1>4 DEF Leaves
<1>9. /\ Leaves' = Leaves
      /\ disk'[q].children = b.children
      /\ \A o \in Leaves \ {q} : disk'[o].children = disk[o].children
  BY <1>1, <1>2, <1>5, <1>8, WrittenStock
<1>10. ASSUME NEW x \in Records
       PROVE  x \in Stock' <=> x \in Stock \/ x = rec
  BY <1>4, <1>7, <1>8, <1>9 DEF Stock
<1>11. Stock' \subseteq Records /\ Stock \subseteq Records
  BY DEF Stock, Records
<1> QED
  BY <1>5, <1>10, <1>11 DEF rec

(* insert() into a full leaf. *)
LEMMA SplitStock ==
    ASSUME NEW lev, Inv(lev), insert_split_leaf
    PROVE  Stock' = Stock \cup {Record(call.key, call.value)}
<1>1. /\ Searching /\ ~(call.height > 1) /\ call.op = "insert"
      /\ Len(leaf.children) = ORDER
  BY DEF insert_split_leaf, AtLeaf, Searching
<1>2. PICK q, new, l, r : LeafSplit(q, new, l, r)
  BY LeafSplitEffect
<1> DEFINE rec == Record(call.key, call.value)
<1>3. call.value \in Values /\ call.key \in Keys
  BY <1>1, LeafReached DEF Inv, CallOK, SearchCalls
<1>4. /\ q \in Offsets /\ IsLeaf(q) /\ leaf.children \in Seq(Records) /\ leaf = disk[q]
      /\ q = search_leaf
  BY <1>1, <1>2, LeafReached DEF leaf, LeafSplit
<1>5. rec \in Records
  BY <1>3 DEF Record, Records
<1>6. /\ new \notin Offsets /\ Offsets' = Offsets \cup {new}
      /\ disk'[q] = l /\ disk'[new] = r
      /\ disk'[q].kind = "leaf" /\ disk'[new].kind = "leaf"
      /\ \A o \in Offsets \ {q} : /\ disk'[o].kind = disk[o].kind
                                  /\ disk'[o].children = disk[o].children
      /\ LeafHalves(disk[q].children, l.children, r.children)
  BY <1>2 DEF LeafSplit, LeafNodes, Offsets, NullableOffsets
<1> HIDE DEF rec
<1>7. \A x : Holds(l.children, x) \/ Holds(r.children, x)
                 <=> Holds(disk[q].children, x) \/ x = rec
  BY <1>1, <1>4, <1>6, LeafHalvesHold DEF rec
<1>8. /\ q \in Leaves /\ Leaves' = Leaves \cup {new} /\ new \notin Leaves
      /\ \A o \in Leaves \ {q} : disk'[o].children = disk[o].children
  BY <1>4, <1>6 DEF Leaves, IsLeaf
<1>9. ASSUME NEW x \in Records
      PROVE  x \in Stock' <=> x \in Stock \/ x = rec
  <2>1. x \in Stock' <=> \/ Holds(l.children, x) \/ Holds(r.children, x)
                         \/ \E o \in Leaves \ {q} : Holds(disk[o].children, x)
    BY <1>6, <1>8 DEF Stock
  <2>2. x \in Stock <=> \/ Holds(disk[q].children, x)
                        \/ \E o \in Leaves \ {q} : Holds(disk[o].children, x)
    BY <1>8 DEF Stock
  <2> QED
    BY <1>7, <2>1, <2>2
<1>10. Stock' \subseteq Records /\ Stock \subseteq Records
  BY DEF Stock, Records
<1> QED
  BY <1>5, <1>9, <1>10 DEF rec

(* update() of a record that is there. *)
LEMMA UpdateStock ==
    ASSUME NEW lev, Inv(lev), LinkInv, OrdInv, ChainInv, AtLeaf("update"),
           UNCHANGED meta,
           NEW r, r = find_record(leaf, call.key), r <= Len(leaf.children),
           leaf.children[r].key = call.key,
           disk' = [disk EXCEPT ![search_leaf].children[r].value = call.value]
    PROVE  Stock' = (Stock \ {leaf.children[r]}) \cup {Record(call.key, call.value)}
<1>1. Searching /\ ~(call.height > 1) /\ call.op = "update"
  BY DEF AtLeaf, Searching
<1> DEFINE c == leaf.children
           rec == Record(call.key, call.value)
           c2 == [c EXCEPT ![r] = [c[r] EXCEPT !.value = call.value]]
           b == [leaf EXCEPT !.children = c2]
<1>2. MapInv
  BY DEF MapInv, IInv, Inv
<1>3. /\ r \in 1..Len(c) /\ c[r] \in Stock /\ c[r] \in Records
      /\ call.key \in Keys /\ Len(c) \in Nat
  BY <1>1, <1>2, Lookup
<1>4. call.value \in Values
  BY <1>1 DEF Inv, CallOK
<1>5. /\ leaf \in LeafNodes /\ search_leaf \in Offsets /\ IsLeaf(search_leaf)
      /\ c \in Seq(Records) /\ leaf = disk[search_leaf]
  BY <1>1, LeafReached DEF leaf
<1>6. rec \in Records /\ [c[r] EXCEPT !.value = call.value] = rec
  <2>1. ASSUME NEW e \in Records, e.key = call.key
        PROVE  [e EXCEPT !.value = call.value] = rec
    BY <2>1 DEF Records, Record
  <2>2. rec \in Records
    BY <1>3, <1>4 DEF Records, Record
  <2> HIDE DEF c, rec
  <2>3. c[r].key = call.key
    BY DEF c
  <2> QED
    BY <1>3, <2>1, <2>2, <2>3
<1>7. disk' = unmap(disk, search_leaf, b)
  <2>1. disk' = [disk EXCEPT ![search_leaf] = b]
    BY <1>5
  <2>2. disk = [o \in Offsets |-> disk[o]] /\ DOMAIN disk = Offsets
    BY DEF Inv
  <2> HIDE DEF b
  <2>3. unmap(disk, search_leaf, b) =
            [o \in Offsets |-> IF o = search_leaf THEN b ELSE disk[o]]
    BY <1>5, <2>2 DEF unmap
  <2>4. disk' = [o \in Offsets |-> IF o = search_leaf THEN b ELSE disk[o]]
    BY <1>5, <2>1, <2>2
  <2> QED
    BY <2>3, <2>4
<1>8. b.kind = "leaf" /\ b.children = c2
  BY <1>5 DEF LeafNodes
<1>9. /\ DOMAIN c = 1..Len(c) /\ DOMAIN c2 = 1..Len(c) /\ c2[r] = rec
      /\ \A i \in 1..Len(c) : i # r => c2[i] = c[i]
  <2> HIDE DEF c, rec
  <2> QED
    BY <1>3, <1>5, <1>6
<1> HIDE DEF b, c2, rec
<1>10. PICK q \in Leaves : q = search_leaf
  BY <1>5 DEF Leaves
<1>11. /\ Leaves' = Leaves
       /\ disk'[q].children = c2 /\ disk[q].children = c
       /\ \A o \in Leaves \ {q} : disk'[o].children = disk[o].children
  BY <1>5, <1>7, <1>8, <1>10, WrittenStock
<1> HIDE DEF c
<1>12. Stock \in SUBSET Records /\ Single(Stock)
  BY <1>2, ContentsIsStock
<1>13. \A x \in Records : (\E o \in Leaves : Holds(disk[o].children, x)) => x \in Stock
  BY DEF Stock
<1>14. ASSUME NEW i \in 1..Len(c), i # r
       PROVE  c[i] # c[r]
  <2>1. PICK own : Ord(own)
    BY DEF OrdInv
  <2>2. SortedTo(c, Len(c))
    BY <1>5, <1>10, <1>11, <2>1 DEF Ord, LeafOrder
  <2>3. c[i].key \in Nat /\ c[r].key \in Nat
    <3>1. c[i] \in Records /\ c[r] \in Records
      BY <1>3, <1>5
    <3> QED
      BY <3>1, KeysAssumption DEF Records
  <2>4. c[i].key < c[r].key \/ c[r].key < c[i].key
    BY <1>3, <1>14, <2>2 DEF SortedTo
  <2> QED
    BY <2>3, <2>4
<1>15. \A x : Holds(c2, x) <=> x = rec \/ (Holds(c, x) /\ x # c[r])
  <2>1. ASSUME NEW x, Holds(c2, x)
        PROVE  x = rec \/ (Holds(c, x) /\ x # c[r])
    <3>1. PICK i \in 1..Len(c) : c2[i] = x
      BY <1>9, <2>1 DEF Holds
    <3> QED
      BY <1>9, <1>14, <3>1 DEF Holds
  <2>2. ASSUME NEW x, Holds(c, x), x # c[r]
        PROVE  Holds(c2, x)
    <3>1. PICK i \in 1..Len(c) : c[i] = x
      BY <1>9, <2>2 DEF Holds
    <3> QED
      BY <1>9, <2>2, <3>1 DEF Holds
  <2>3. Holds(c2, rec)
    BY <1>3, <1>9 DEF Holds
  <2> QED
    BY <2>1, <2>2, <2>3
<1>16. ASSUME NEW o \in Leaves \ {q}
       PROVE  ~Holds(disk[o].children, c[r])
  <2>1. PICK own : Ord(own)
    BY DEF OrdInv
  <2>2. o \in Offsets /\ IsLeaf(o) /\ q \in Offsets /\ IsLeaf(q)
    BY <1>16 DEF Leaves
  <2>3. /\ LeafOrder(disk[o].children, own[o]) /\ LeafOrder(c, own[q])
        /\ own[o] \cap own[q] = {}
    BY <1>11, <1>16, <2>1, <2>2 DEF Ord
  <2>4. disk[o].children \in Seq(Records)
    BY <2>2, BlockFacts DEF LeafNodes
  <2>5. DOMAIN disk[o].children = 1..Len(disk[o].children)
    BY <2>4
  <2>6. c[r].key \in own[q]
    BY <1>3, <2>3 DEF LeafOrder
  <2> QED
    BY <2>3, <2>5, <2>6 DEF LeafOrder, Holds
<1>17. ASSUME NEW x \in Records
       PROVE  x \in Stock' <=> x = rec \/ (x \in Stock /\ x # c[r])
  <2>1. x \in Stock' <=> \/ Holds(c2, x)
                         \/ \E o \in Leaves \ {q} : Holds(disk[o].children, x)
    BY <1>11 DEF Stock
  <2>2. x \in Stock <=> \/ Holds(c, x)
                        \/ \E o \in Leaves \ {q} : Holds(disk[o].children, x)
    BY <1>11 DEF Stock
  <2> QED
    BY <1>15, <1>16, <2>1, <2>2
<1>18. Stock' \subseteq Records /\ Stock \subseteq Records
  BY DEF Stock, Records
<1> QED
  BY <1>6, <1>17, <1>18 DEF rec, c

(* A step inside the index changes no record. *)
LEMMA IndexStock ==
    ASSUME NEW lev, Inv(lev),
           insert_new_root \/ insert_into_index \/ insert_split_index
    PROVE  Stock' = Stock
<1>1. CASE insert_new_root
  <2>1. PICK new, root : RootAdded(new, root)
    BY <1>1, RootAddedEffect
  <2>2. /\ Offsets' = Offsets \cup {new} /\ disk'[new].kind = "internal"
        /\ \A o \in Offsets : /\ disk'[o].kind = disk[o].kind
                              /\ disk'[o].children = disk[o].children
        /\ new \notin Offsets
    BY <2>1 DEF RootAdded, InternalNodes, Offsets, NullableOffsets
  <2>3. Leaves' = Leaves /\ \A o \in Leaves : disk'[o].children = disk[o].children
    BY <2>2 DEF Leaves, IsLeaf
  <2> QED
    BY <2>3, SameStock
<1>2. CASE insert_into_index \/ insert_split_index
  <2>1. Inserting /\ call.offset # 0
    BY <1>2 DEF insert_into_index, insert_split_index, Inserting
  <2>2. call.offset \in Offsets /\ disk[call.offset].kind = "internal"
    BY <2>1, InsertCall, IndexFacts DEF IsInternal
  <2>3. CASE insert_into_index
    <3>1. PICK q, b : IndexWritten(q, b)
      BY <2>3, IndexWrittenEffect
    <3>2. /\ q = call.offset /\ disk' = unmap(disk, q, b) /\ b.kind = "internal"
          /\ Offsets' = Offsets
      BY <2>3, <3>1 DEF IndexWritten, InternalNodes, insert_into_index, Offsets
    <3>3. disk'[q].kind = "internal" /\ \A o \in Offsets \ {q} : disk'[o] = disk[o]
      BY <2>2, <3>2, SlotPositive DEF unmap
    <3>4. Leaves' = Leaves /\ \A o \in Leaves : disk'[o].children = disk[o].children
      BY <2>2, <3>2, <3>3 DEF Leaves, IsLeaf
    <3> QED
      BY <3>4, SameStock
  <2>4. CASE insert_split_index
    <3>1. PICK q, new, l, r : IndexSplit(q, new, l, r)
      BY <2>4, IndexSplitEffect
    <3>2. /\ q = call.offset /\ Offsets' = Offsets \cup {new} /\ new \notin Offsets
          /\ disk'[new].kind = "internal" /\ disk'[q].kind = "internal"
          /\ \A o \in Offsets \ {q} : /\ disk'[o].kind = disk[o].kind
                                      /\ disk'[o].children = disk[o].children
      BY <3>1 DEF IndexSplit, InternalNodes, Offsets, NullableOffsets
    <3>3. Leaves' = Leaves /\ \A o \in Leaves : disk'[o].children = disk[o].children
      BY <2>2, <3>2 DEF Leaves, IsLeaf
    <3> QED
      BY <3>3, SameStock
  <2> QED
    BY <1>2, <2>3, <2>4
<1> QED
  BY <1>1, <1>2

-----------------------------------------------------------------------------
(* The steps of the map that the steps of the tree are. *)

(* search(), found or not. *)
LEMMA SearchRefines ==
    ASSUME MapInv, search, Contents' = Contents
    PROVE  Abstract!Search(call.key)
<1> DEFINE c == leaf.children
           r == find_record(leaf, call.key)
<1>1. Searching /\ ~(call.height > 1) /\ call.op = "search"
  BY DEF search, AtLeaf, Searching
<1>2. /\ call.key \in Keys
      /\ call.key \in DOMAIN Contents <=> r <= Len(c) /\ c[r].key = call.key
      /\ r <= Len(c) => c[r] \in Records
      /\ r <= Len(c) /\ c[r].key = call.key => Contents[call.key] = c[r].value
  BY <1>1, Lookup
<1>3. result' = IF r <= Len(c)
                THEN [op |-> "search", key |-> call.key,
                      code |-> IF c[r].key = call.key THEN 0 ELSE 1,
                      value |-> c[r].value]
                ELSE [op |-> "search", key |-> call.key, code |-> -1,
                      value |-> NoValue]
  BY <1>1 DEF search, Report
<1> HIDE DEF c, r
<1>4. r <= Len(c) => c[r].value \in Values
  BY <1>2 DEF Records
<1>5. result'.op = "search" /\ result'.key = call.key
  BY <1>3
<1>6. CASE call.key \in DOMAIN Contents
  <2>1. result' = [op |-> "search", key |-> call.key, code |-> 0,
                   value |-> Contents[call.key]]
    BY <1>2, <1>3, <1>6
  <2>2. result' \in [op : Abstract!Ops, key : Keys, code : {0},
                     value : {Contents[call.key]}]
    BY <1>2, <2>1 DEF Abstract!Ops
  <2> QED
    BY <1>5, <1>6, <2>2 DEF Abstract!Search, Abstract!Reports, Abstract!With
<1>7. CASE call.key \notin DOMAIN Contents
  <2>1. /\ result'.code \in {-1, 1} /\ result'.value \in Values \cup {NoValue}
        /\ result' = [op |-> "search", key |-> call.key, code |-> result'.code,
                      value |-> result'.value]
    <3>1. CASE r <= Len(c)
      <4>1. result' = [op |-> "search", key |-> call.key, code |-> 1,
                       value |-> c[r].value]
        BY <1>2, <1>3, <1>7, <3>1
      <4> QED
        BY <1>4, <3>1, <4>1
    <3>2. CASE ~(r <= Len(c))
      <4>1. result' = [op |-> "search", key |-> call.key, code |-> -1,
                       value |-> NoValue]
        BY <1>3, <3>2
      <4> QED
        BY <4>1
    <3> QED
      BY <3>1, <3>2
  <2>2. result' \in [op : Abstract!Ops, key : Keys, code : {-1, 1},
                     value : Values \cup {NoValue}]
    BY <1>2, <2>1 DEF Abstract!Ops
  <2> QED
    BY <1>5, <1>7, <2>2 DEF Abstract!Search, Abstract!Reports, Abstract!With
<1> QED
  BY <1>6, <1>7

(* update(). *)
LEMMA UpdateRefines ==
    ASSUME MapInv, MapInv', update
    PROVE  call.value \in Values /\ Abstract!Update(call.key, call.value)
<1> DEFINE c == leaf.children
           r == find_record(leaf, call.key)
           rec == Record(call.key, call.value)
<1>0. PICK lev : Inv(lev)
  BY DEF MapInv, IInv
<1>1. /\ Searching /\ ~(call.height > 1) /\ call.op = "update" /\ UNCHANGED meta
      /\ AtLeaf("update")
  BY DEF update, AtLeaf, Searching
<1>2. /\ call.key \in Keys
      /\ call.key \in DOMAIN Contents <=> r <= Len(c) /\ c[r].key = call.key
      /\ r <= Len(c) /\ c[r].key = call.key => c[r] \in Stock
  BY <1>1, Lookup
<1>3. call.value \in Values
  BY <1>0, <1>1 DEF Inv, CallOK
<1>4. /\ Contents = MapOf(Stock) /\ Stock \in SUBSET Records /\ Single(Stock)
      /\ Contents' = MapOf(Stock')
  <2>1. StockIsMap'
    BY ContentsFacts, PTL
  <2> QED
    BY <2>1, ContentsIsStock DEF StockIsMap
<1>5. CASE /\ r <= Len(c) /\ c[r].key = call.key
           /\ disk' = [disk EXCEPT ![search_leaf].children[r].value = call.value]
           /\ Report(0, NoValue)
  <2>1. Stock' = (Stock \ {c[r]}) \cup {rec}
    BY <1>0, <1>1, <1>5, UpdateStock DEF MapInv
  <2>2. rec \in Records /\ rec.key = call.key /\ rec.value = call.value
    BY <1>2, <1>3 DEF Record, Records
  <2>20. c[r] \in Stock /\ c[r].key = rec.key
    BY <1>2, <1>5, <2>2
  <2> HIDE DEF c, r, rec
  <2>3. MapOf((Stock \ {c[r]}) \cup {rec}) = [MapOf(Stock) EXCEPT ![rec.key] = rec.value]
    BY <1>4, <2>2, <2>20, MapUpdates
  <2>4. Contents' = [Contents EXCEPT ![call.key] = call.value]
    BY <1>4, <2>1, <2>2, <2>3
  <2>5. result' = [op |-> "update", key |-> call.key, code |-> 0, value |-> NoValue]
    BY <1>1, <1>5 DEF Report
  <2>6. result' \in [op : Abstract!Ops, key : Keys, code : {0}, value : {NoValue}]
    BY <1>2, <2>5 DEF Abstract!Ops
  <2> QED
    BY <1>2, <1>3, <1>5, <2>4, <2>5, <2>6
    DEF Abstract!Update, Abstract!Reports, Abstract!With
<1>6. CASE /\ ~(r <= Len(c) /\ c[r].key = call.key)
           /\ UNCHANGED disk
           /\ Report(1, NoValue) \/ Report(-1, NoValue)
  <2>1. Stock' = Stock
    BY <1>1, <1>6 DEF Stock, Leaves, Offsets, IsLeaf
  <2>2. Contents' = Contents
    BY <1>4, <2>1
  <2>3. /\ result'.code \in {-1, 1}
        /\ result' = [op |-> "update", key |-> call.key, code |-> result'.code,
                      value |-> NoValue]
    BY <1>1, <1>6 DEF Report
  <2>4. result' \in [op : Abstract!Ops, key : Keys, code : {-1, 1}, value : {NoValue}]
    BY <1>2, <2>3 DEF Abstract!Ops
  <2>5. result'.op = "update" /\ result'.key = call.key
    BY <2>3
  <2> HIDE DEF c, r
  <2> QED
    BY <1>2, <1>3, <1>6, <2>2, <2>4, <2>5
    DEF Abstract!Update, Abstract!Reports, Abstract!With
<1>7. \/ /\ r <= Len(c) /\ c[r].key = call.key
         /\ disk' = [disk EXCEPT ![search_leaf].children[r].value = call.value]
         /\ Report(0, NoValue)
      \/ /\ ~(r <= Len(c) /\ c[r].key = call.key)
         /\ UNCHANGED disk
         /\ Report(1, NoValue) \/ Report(-1, NoValue)
  <2>1. r \in 1..(Len(c) + 1) /\ Len(c) \in Nat
    BY <1>1, Lookup
  <2>2. \/ /\ r <= Len(c) /\ c[r].key = call.key
           /\ disk' = [disk EXCEPT ![search_leaf].children[r].value = call.value]
           /\ Report(0, NoValue)
        \/ r <= Len(c) /\ c[r].key # call.key /\ Report(1, NoValue) /\ UNCHANGED disk
        \/ r > Len(c) /\ Report(-1, NoValue) /\ UNCHANGED disk
    BY DEF update
  <2> HIDE DEF c, r, Report
  <2> QED
    BY <2>1, <2>2
<1> QED
  BY <1>5, <1>6, <1>7

(* insert(), with and without a split. *)
LEMMA InsertRefines ==
    ASSUME MapInv, MapInv',
           insert_same_key \/ insert_into_leaf \/ insert_split_leaf
    PROVE  call.value \in Values /\ Abstract!Insert(call.key, call.value)
<1> DEFINE rec == Record(call.key, call.value)
<1>0. PICK lev : Inv(lev)
  BY DEF MapInv, IInv
<1>1. Searching /\ ~(call.height > 1) /\ call.op = "insert"
  BY DEF insert_same_key, insert_into_leaf, insert_split_leaf, AtLeaf, Searching
<1>2. /\ call.key \in Keys
      /\ call.key \in DOMAIN Contents <=> binary_search(leaf, call.key)
  BY <1>1, Lookup
<1>3. call.value \in Values
  BY <1>0, <1>1 DEF Inv, CallOK
<1>4. /\ Contents = MapOf(Stock) /\ Stock \in SUBSET Records /\ Single(Stock)
      /\ Contents' = MapOf(Stock')
  <2>1. StockIsMap'
    BY ContentsFacts, PTL
  <2> QED
    BY <2>1, ContentsIsStock DEF StockIsMap
<1>5. CASE insert_same_key
  <2>1. Stock' = Stock
    BY <1>5 DEF insert_same_key, Stock, Leaves, Offsets, IsLeaf
  <2>2. Contents' = Contents
    BY <1>4, <2>1
  <2>3. result' = [op |-> "insert", key |-> call.key, code |-> 1, value |-> NoValue]
    BY <1>1, <1>5 DEF insert_same_key, Report
  <2>4. result' \in [op : Abstract!Ops, key : Keys, code : {1}, value : {NoValue}]
    BY <1>2, <2>3 DEF Abstract!Ops
  <2>5. call.key \in DOMAIN Contents
    BY <1>2, <1>5 DEF insert_same_key
  <2> QED
    BY <1>3, <2>2, <2>3, <2>4, <2>5
    DEF Abstract!Insert, Abstract!Reports, Abstract!With
<1>6. CASE insert_into_leaf \/ insert_split_leaf
  <2>1. Stock' = Stock \cup {rec}
    BY <1>0, <1>6, InsertStock, SplitStock
  <2>2. rec \in Records /\ rec.key = call.key /\ rec.value = call.value
    BY <1>2, <1>3 DEF Record, Records
  <2>3. call.key \notin DOMAIN Contents
    BY <1>2, <1>6 DEF insert_into_leaf, insert_split_leaf
  <2> HIDE DEF rec
  <2>4. \A s \in Stock : s.key # rec.key
    BY <1>4, <2>2, <2>3, MapReads
  <2>5. MapOf(Stock \cup {rec}) =
            [k \in DOMAIN MapOf(Stock) \cup {rec.key} |->
                IF k = rec.key THEN rec.value ELSE MapOf(Stock)[k]]
    BY <1>4, <2>2, <2>4, MapInserts
  <2>6. Contents' = [k \in DOMAIN Contents \cup {call.key} |->
                        IF k = call.key THEN call.value ELSE Contents[k]]
    BY <1>4, <2>1, <2>2, <2>5
  <2>7. result' = [op |-> "insert", key |-> call.key, code |-> 0, value |-> NoValue]
    BY <1>1, <1>6 DEF insert_into_leaf, insert_split_leaf, Report
  <2>8. result' \in [op : Abstract!Ops, key : Keys, code : {0}, value : {NoValue}]
    BY <1>2, <2>7 DEF Abstract!Ops
  <2> QED
    BY <1>3, <2>3, <2>6, <2>7, <2>8
    DEF Abstract!Insert, Abstract!Reports, Abstract!With
<1> QED
  BY <1>5, <1>6

(* Every step of the tree is a step of the map or leaves it alone. *)
LEMMA StepRefines ==
    ASSUME MapInv, MapInv', [Next]_vars
    PROVE  [Abstract!Next]_(Abstract!vars)
<1>0. PICK lev : Inv(lev)
  BY DEF MapInv, IInv
<1>1. Contents = MapOf(Stock) /\ Contents' = MapOf(Stock')
  <2>1. StockIsMap'
    BY ContentsFacts, PTL
  <2> QED
    BY <2>1, ContentsIsStock DEF StockIsMap
<1>2. CASE BeginAny \/ search_index \/ UNCHANGED vars
  <2>1. UNCHANGED <<meta, disk, result>>
    BY <1>2 DEF BeginAny, Begin, search_index, vars
  <2>2. Contents' = Contents
    BY <2>1 DEF Contents, LeafChain, NullableOffsets
  <2> QED
    BY <2>1, <2>2 DEF Abstract!vars
<1>3. CASE search
  <2>1. UNCHANGED <<meta, disk>> /\ Searching /\ ~(call.height > 1)
    BY <1>3 DEF search, AtLeaf, Searching
  <2>2. Contents' = Contents /\ call.key \in Keys
    <3>1. Contents' = Contents
      BY <2>1 DEF Contents, LeafChain, NullableOffsets
    <3>2. call.key \in Keys
      BY <2>1, Lookup
    <3> QED
      BY <3>1, <3>2
  <2>3. Abstract!Search(call.key)
    BY <1>3, <2>2, SearchRefines
  <2> QED
    BY <2>2, <2>3 DEF Abstract!Next
<1>4. CASE update
  <2>1. Searching /\ ~(call.height > 1)
    BY <1>4 DEF update, AtLeaf, Searching
  <2>2. call.key \in Keys
    BY <2>1, Lookup
  <2>3. call.value \in Values /\ Abstract!Update(call.key, call.value)
    BY <1>4, UpdateRefines
  <2> QED
    BY <2>2, <2>3 DEF Abstract!Next
<1>5. CASE insert_same_key \/ insert_into_leaf \/ insert_split_leaf
  <2>1. Searching /\ ~(call.height > 1)
    BY <1>5 DEF insert_same_key, insert_into_leaf, insert_split_leaf, AtLeaf, Searching
  <2>2. call.key \in Keys
    BY <2>1, Lookup
  <2>3. call.value \in Values /\ Abstract!Insert(call.key, call.value)
    BY <1>5, InsertRefines
  <2> QED
    BY <2>2, <2>3 DEF Abstract!Next
<1>6. CASE insert_new_root \/ insert_into_index \/ insert_split_index
  <2>1. Stock' = Stock
    BY <1>0, <1>6, IndexStock
  <2>2. UNCHANGED result
    BY <1>6 DEF insert_new_root, insert_into_index, insert_split_index
  <2> QED
    BY <1>1, <2>1, <2>2 DEF Abstract!vars
<1> QED
  BY <1>2, <1>3, <1>4, <1>5, <1>6 DEF Next, Step

(* A new file is the empty map. *)
LEMMA InitRefines == Init => Abstract!Init
<1> SUFFICES ASSUME Init
             PROVE  Abstract!Init
  OBVIOUS
<1>1. MapInv
  BY InitIInv, InitLinks, InitOrd, InitChain DEF MapInv
<1>2. Contents = MapOf(Stock)
  BY <1>1, ContentsIsStock
<1>3. /\ Offsets = 1..2 /\ disk[1].kind = "internal" /\ disk[2].children = <<>>
  BY DEF Init, init_from_empty, Offsets, InternalNode, LeafNode
<1>4. Stock = {}
  BY <1>3 DEF Stock, Leaves, IsLeaf, Holds
<1>5. Contents = Abstract!Empty
  BY <1>2, <1>4 DEF MapOf, Abstract!Empty
<1>6. result.op = "none"
  BY DEF Init, NoResult
<1> QED
  BY <1>5, <1>6 DEF Abstract!Init

(* The tree implements the map, for every order, every set of keys and     *)
(* values and every history of searches, inserts and updates: what a       *)
(* search returns is what was last stored for the key, an insert reports 0 *)
(* exactly for a key that is not there, an update exactly for one that is, *)
(* and no split of a leaf, of an index node or of the root adds, loses or  *)
(* changes a record that a walk along the leaves finds.                    *)
THEOREM TreeIsMap == Spec => RefinesMap
<1>1. Init => ChainInv
  BY InitChain
<1>2. IInv /\ ChainInv /\ [Next]_vars => ChainInv'
  BY NextChain
<1>3. Spec => []MapInv
  BY <1>1, <1>2, OrderInvariant, PTL DEF Spec, MapInv
<1>4. MapInv /\ MapInv' /\ [Next]_vars => [Abstract!Next]_(Abstract!vars)
  BY StepRefines
<1>5. Init => Abstract!Init
  BY InitRefines
<1> QED
  BY <1>3, <1>4, <1>5, PTL DEF Spec, RefinesMap, Abstract!Spec
-----------------------------------------------------------------------------
(***************************************************************************)
(* The next and prev fields thread every level of the index in its order,  *)
(* and the counters of meta are exact.  RowsLinked speaks of whole rows;   *)
(* the invariant is local: the blocks that one index node lists follow     *)
(* each other, and the last of them is followed by the first that the next *)
(* index node lists.  A block that was split off and not entered yet is    *)
(* skipped.                                                                *)
(***************************************************************************)

(* The block that follows o, among those which are entered in the index. *)
Follower ==
    [o \in Offsets |-> IF Inserting /\ o = call.old THEN disk[call.after].next
                       ELSE disk[o].next]

(* The children of entries c follow each other by F, and then comes z. *)
Linked(c, F, z) ==
    /\ \A i \in 1..(Len(c) - 1) : F[c[i].child] = c[i + 1].child
    /\ F[c[Len(c)].child] = z

FirstChild(o) == disk[o].children[1].child

(* What follows the last child of an index node. *)
Beyond(o) == IF disk[o].next = 0 THEN 0 ELSE FirstChild(disk[o].next)

Neighbours(o) ==
    LET p == disk[o].next
    IN  p # 0 => p # o /\ disk[p].prev = o /\ disk[p].kind = disk[o].kind

RowBelow(o) ==
    IsInternal(o) =>
        /\ disk[o].prev = 0 => disk[FirstChild(o)].prev = 0
        /\ Linked(disk[o].children, Follower, Beyond(o))

Internals == {o \in Offsets : IsInternal(o)}

RowInv ==
    /\ \A o \in Offsets : Neighbours(o)
    /\ \A o \in Offsets : RowBelow(o)
    /\ disk[meta.root_offset].prev = 0 /\ Follower[meta.root_offset] = 0
    /\ Inserting => disk[call.old].next = call.after
    /\ meta.internal_node_num = Cardinality(Internals)

-----------------------------------------------------------------------------
(* The child of entry w is now followed by value, and value by what        *)
(* followed the child before.                                              *)
Spliced(c, F, G, w, value) ==
    /\ \A i \in 1..Len(c) : i # w => G[c[i].child] = F[c[i].child]
    /\ G[c[w].child] = value /\ G[value] = F[c[w].child]

(* Entry w is doubled. *)
LEMMA DoubledLinked ==
    ASSUME NEW c, Len(c) \in Nat, NEW F, NEW G, NEW z, Linked(c, F, z),
           NEW E, NEW w, NEW key, NEW value, NEW c2,
           EntryAdded(c, E, w, key, value, c2), Spliced(c, F, G, w, value)
    PROVE  Linked(c2, G, z) /\ c2[1].child = c[1].child
<1> USE DEF Spliced
<1> DEFINE n == Len(c)
<1>1. /\ w \in 1..n /\ Len(c2) = n + 1
      /\ \A j \in 1..(w - 1) : c2[j] = c[j]
      /\ c2[w].child = c[w].child
      /\ c2[w + 1].child = value
      /\ \A j \in (w + 2)..(n + 1) : c2[j] = c[j - 1]
  BY DEF EntryAdded
<1>2. /\ \A i \in 1..(n - 1) : F[c[i].child] = c[i + 1].child
      /\ F[c[n].child] = z
  BY DEF Linked
<1>0. n \in Nat
  OBVIOUS
<1> HIDE DEF n
<1>3. \A j \in 1..n : j <= w => c2[j].child = c[j].child
  BY <1>0, <1>1
<1>4. \A j \in 1..n : w < j => c2[j + 1].child = c[j].child
  <2> SUFFICES ASSUME NEW j \in 1..n, w < j
               PROVE  c2[j + 1].child = c[j].child
    OBVIOUS
  <2>1. j + 1 \in (w + 2)..(n + 1) /\ (j + 1) - 1 = j
    BY <1>0, <1>1
  <2>2. c2[j + 1] = c[(j + 1) - 1]
    BY <1>1, <2>1
  <2> QED
    BY <2>1, <2>2
<1>5. ASSUME NEW i \in 1..n
      PROVE  G[c2[i].child] = c2[i + 1].child
  <2>1. CASE i < w
    <3>1. i \in 1..(n - 1) /\ i + 1 \in 1..n /\ i + 1 <= w /\ i # w /\ i <= w
      BY <1>0, <1>1, <2>1
    <3>2. c2[i].child = c[i].child /\ c2[i + 1].child = c[i + 1].child
      BY <1>3, <3>1
    <3> QED
      BY <1>2, <3>1, <3>2 DEF n
  <2>2. CASE i = w
    BY <1>1, <2>2
  <2>3. CASE i = w + 1
    <3>1. w \in 1..(n - 1) /\ i \in 1..n /\ w < i
      BY <1>0, <1>1, <2>3
    <3>2. c2[i + 1].child = c[i].child /\ c2[i].child = value
      BY <1>1, <1>4, <2>3, <3>1
    <3> QED
      BY <1>2, <2>3, <3>1, <3>2
  <2>4. CASE i > w + 1
    <3>1. /\ i - 1 \in 1..(n - 1) /\ i - 1 \in 1..n /\ w < i - 1
          /\ (i - 1) + 1 = i /\ i - 1 # w /\ w < i
      BY <1>0, <1>1, <2>4
    <3>2. c2[(i - 1) + 1].child = c[i - 1].child /\ c2[i + 1].child = c[i].child
      BY <1>4, <3>1
    <3>3. c2[i].child = c[i - 1].child
      BY <3>1, <3>2
    <3>4. G[c[i - 1].child] = F[c[i - 1].child] /\ F[c[i - 1].child] = c[i].child
      <4>1. F[c[i - 1].child] = c[(i - 1) + 1].child
        BY <1>2, <3>1
      <4> QED
        BY <3>1, <4>1 DEF n
    <3> QED
      BY <3>2, <3>3, <3>4
  <2> QED
    BY <1>0, <1>1, <2>1, <2>2, <2>3, <2>4
<1>6. G[c2[n + 1].child] = z
  <2>1. CASE w = n
    BY <1>1, <1>2, <2>1
  <2>2. CASE w # n
    <3>1. n \in 1..n /\ w < n /\ n # w
      BY <1>0, <1>1, <2>2
    <3> QED
      BY <1>2, <1>4, <3>1 DEF n
  <2> QED
    BY <2>1, <2>2
<1>7. c2[1].child = c[1].child
  <2>1. 1 \in 1..n /\ 1 <= w
    BY <1>0, <1>1
  <2> QED
    BY <1>3, <2>1
<1>8. Len(c2) - 1 = n
  BY <1>0, <1>1
<1> QED
  BY <1>1, <1>5, <1>6, <1>7, <1>8 DEF Linked

(* A node cut in two: the left part ends where the right one begins. *)
LEMMA CutLinked ==
    ASSUME NEW E, NEW c \in Seq(E), NEW p \in 1..(Len(c) - 1), NEW F, NEW z,
           Linked(c, F, z)
    PROVE  /\ Linked(SubSeq(c, 1, p), F, c[p + 1].child)
           /\ Linked(SubSeq(c, p + 1, Len(c)), F, z)
<1> DEFINE n == Len(c)
           l == SubSeq(c, 1, p)
           r == SubSeq(c, p + 1, n)
<1>1. /\ Len(l) = p /\ \A i \in 1..p : l[i] = c[i]
      /\ Len(r) = n - p /\ \A i \in 1..(n - p) : r[i] = c[p + i]
  BY HalvesLists
<1>2. /\ \A i \in 1..(n - 1) : F[c[i].child] = c[i + 1].child
      /\ F[c[n].child] = z
  BY DEF Linked
<1>0. n \in Nat /\ p \in Nat /\ p < n /\ p >= 1
  OBVIOUS
<1> HIDE DEF n, l, r
<1>3. Linked(l, F, c[p + 1].child)
  <2>1. ASSUME NEW i \in 1..(p - 1)
        PROVE  F[l[i].child] = l[i + 1].child
    <3>1. i \in 1..(n - 1) /\ i \in 1..p /\ i + 1 \in 1..p
      BY <1>0
    <3> QED
      BY <1>1, <1>2, <3>1
  <2>2. F[l[p].child] = c[p + 1].child
    <3>1. p \in 1..(n - 1) /\ p \in 1..p
      BY <1>0
    <3> QED
      BY <1>1, <1>2, <3>1
  <2> QED
    BY <1>1, <2>1, <2>2 DEF Linked
<1>4. Linked(r, F, z)
  <2>1. ASSUME NEW i \in 1..((n - p) - 1)
        PROVE  F[r[i].child] = r[i + 1].child
    <3>1. /\ p + i \in 1..(n - 1) /\ i \in 1..(n - p) /\ i + 1 \in 1..(n - p)
          /\ p + (i + 1) = (p + i) + 1
      BY <1>0
    <3>2. r[i] = c[p + i] /\ r[i + 1] = c[(p + i) + 1]
      BY <1>1, <3>1
    <3> QED
      BY <1>2, <3>1, <3>2
  <2>2. F[r[n - p].child] = z
    <3>1. n - p \in 1..(n - p) /\ p + (n - p) = n
      BY <1>0
    <3>2. r[n - p] = c[n]
      BY <1>1, <3>1
    <3> QED
      BY <1>2, <3>2
  <2> QED
    BY <1>1, <2>1, <2>2 DEF Linked
<1> QED
  BY <1>3, <1>4 DEF l, r, n

(* Only what the entries list matters. *)
LEMMA SameLinked ==
    ASSUME NEW c, Len(c) \in Nat \ {0}, NEW F, NEW G, NEW z, Linked(c, F, z),
           \A i \in 1..Len(c) : G[c[i].child] = F[c[i].child]
    PROVE  Linked(c, G, z)
<1>1. \A i \in 1..(Len(c) - 1) : i \in 1..Len(c)
  OBVIOUS
<1>2. Len(c) \in 1..Len(c)
  OBVIOUS
<1> QED
  BY <1>1, <1>2 DEF Linked

-----------------------------------------------------------------------------
(* A new file. *)
LEMMA InitRows == Init => RowInv
<1> SUFFICES ASSUME Init
             PROVE  RowInv
  OBVIOUS
<1>1. /\ meta.root_offset = 1 /\ Offsets = 1..2 /\ ~Inserting
      /\ meta.internal_node_num = 1
      /\ disk[1] = InternalNode(0, 0, 0, <<Entry(EmptyKey, 2)>>)
      /\ disk[2] = LeafNode(1, 0, 0, <<>>)
  BY DEF Init, init_from_empty, Offsets, Inserting, Idle
<1>2. /\ disk[1].kind = "internal" /\ disk[1].next = 0 /\ disk[1].prev = 0
      /\ disk[1].children = <<Entry(EmptyKey, 2)>>
      /\ disk[2].kind = "leaf" /\ disk[2].next = 0 /\ disk[2].prev = 0
  BY <1>1 DEF InternalNode, LeafNode
<1>3. Follower[1] = 0 /\ Follower[2] = 0
  BY <1>1, <1>2 DEF Follower
<1>4. FirstChild(1) = 2 /\ Len(disk[1].children) = 1 /\ Beyond(1) = 0
  BY <1>2 DEF FirstChild, Entry, Beyond
<1>5. Linked(disk[1].children, Follower, 0)
  <2>1. disk[1].children[1].child = 2
    BY <1>4 DEF FirstChild
  <2> QED
    BY <1>3, <1>4, <2>1 DEF Linked
<1>6. RowBelow(1) /\ RowBelow(2)
  BY <1>2, <1>4, <1>5 DEF RowBelow, IsInternal
<1>7. Neighbours(1) /\ Neighbours(2)
  BY <1>2 DEF Neighbours
<1>8. Cardinality(Internals) = 1
  <2>1. Internals = {1}
    BY <1>1, <1>2 DEF Internals, IsInternal
  <2> QED
    BY <2>1, FS_Singleton
<1>9. \A o \in Offsets : o = 1 \/ o = 2
  BY <1>1
<1> QED
  BY <1>1, <1>2, <1>3, <1>6, <1>7, <1>8, <1>9 DEF RowInv

(* The index nodes of the tree, as the steps below use them. *)
LEMMA InternalFacts ==
    ASSUME NEW lev, Inv(lev), NEW o \in Offsets, IsInternal(o)
    PROVE  /\ disk[o].children \in Seq(Entries)
           /\ Len(disk[o].children) \in Nat \ {0}
           /\ DOMAIN disk[o].children = 1..Len(disk[o].children)
           /\ \A i \in 1..Len(disk[o].children) : disk[o].children[i].child \in Offsets
           /\ FirstChild(o) \in Offsets /\ Lists(disk[o].children, FirstChild(o))
           /\ disk[o].next \in NullableOffsets /\ disk[o].prev \in NullableOffsets
<1>1. lev[o] \in 0..meta.height /\ ~IsLeaf(o)
  BY BlockFacts
<1>2. lev[o] # 0
  BY <1>1 DEF Inv, BlockOK
<1>3. lev[o] > 0
  BY <1>1, <1>2 DEF Inv, MetaOK
<1>4. /\ disk[o] \in InternalNodes /\ disk[o].children \in Seq(Entries)
      /\ Len(disk[o].children) \in 1..ORDER
      /\ DOMAIN disk[o].children = 1..Len(disk[o].children)
      /\ \A i \in 1..Len(disk[o].children) : disk[o].children[i].child \in Offsets
  BY <1>3, IndexFacts
<1>5. Len(disk[o].children) \in Nat \ {0} /\ 1 \in 1..Len(disk[o].children)
  BY <1>4
<1>6. disk[o].next \in NullableOffsets /\ disk[o].prev \in NullableOffsets
  BY <1>4 DEF InternalNodes
<1> QED
  BY <1>4, <1>5, <1>6 DEF FirstChild, Lists

(* An index node whose entries stay, and whose children keep what follows  *)
(* them.                                                                   *)
LEMMA KeptBelow ==
    ASSUME NEW lev, Inv(lev), RowInv, NEW o \in Offsets, IsInternal(o),
           disk'[o].children = disk[o].children, disk'[o].next = disk[o].next,
           \A x \in Offsets : disk'[x].prev = 0 <=> disk[x].prev = 0,
           \A p \in Offsets : IsInternal(p) => FirstChild(p)' = FirstChild(p),
           \A i \in 1..Len(disk[o].children) :
               Follower'[disk[o].children[i].child] = Follower[disk[o].children[i].child]
    PROVE  RowBelow(o)'
<1> DEFINE c == disk[o].children
<1>1. /\ Len(c) \in Nat \ {0} /\ FirstChild(o) \in Offsets
      /\ disk[o].next \in NullableOffsets
  BY InternalFacts
<1>2. /\ disk[o].prev = 0 => disk[FirstChild(o)].prev = 0
      /\ Linked(c, Follower, Beyond(o))
  BY DEF RowInv, RowBelow
<1>3. Beyond(o)' = Beyond(o)
  <2>1. CASE disk[o].next = 0
    BY <2>1 DEF Beyond
  <2>2. CASE disk[o].next # 0
    <3>1. disk[o].next \in Offsets
      BY <1>1, <2>2, SlotPositive DEF Offsets, NullableOffsets
    <3>2. disk[disk[o].next].kind = disk[o].kind
      BY <2>2 DEF RowInv, Neighbours
    <3>3. IsInternal(disk[o].next)
      BY <3>2 DEF IsInternal
    <3>4. FirstChild(disk[o].next)' = FirstChild(disk[o].next)
      <4>1. PICK p : p = disk[o].next
        OBVIOUS
      <4>2. FirstChild(p)' = FirstChild(p)
        BY <3>1, <3>3, <4>1
      <4> QED
        BY <4>1, <4>2 DEF FirstChild
    <3> QED
      BY <2>2, <3>4 DEF Beyond
  <2> QED
    BY <2>1, <2>2
<1>4. Linked(c, Follower', Beyond(o))
  BY <1>1, <1>2, SameLinked
<1>5. disk'[o].prev = 0 => disk'[FirstChild(o)].prev = 0
  BY <1>1, <1>2
<1>6. FirstChild(o)' = FirstChild(o)
  OBVIOUS
<1> QED
  BY <1>3, <1>4, <1>5, <1>6 DEF RowBelow

(* The steps that write no link. *)
LEMMA QuietRows ==
    ASSUME NEW lev, Inv(lev), RowInv,
           \/ BeginAny \/ search_index \/ search \/ update
           \/ insert_same_key \/ insert_into_leaf
    PROVE  RowInv'
<1>1. /\ ~Inserting
  BY DEF BeginAny, Begin, search_index, search, update, insert_same_key,
         insert_into_leaf, AtLeaf, Inserting, Idle
<1>2. ~Inserting'
  <2>1. CASE BeginAny
    BY <2>1 DEF BeginAny, Begin, Inserting
  <2>2. CASE search_index
    <3>1. call \in SearchCalls
      BY <2>2 DEF search_index, Inv, CallOK, Idle, InsertCalls, SearchCalls
    <3>2. call'.proc = "search_index"
      BY <2>2, <3>1 DEF search_index, SearchCalls
    <3> QED
      BY <3>2 DEF Inserting
  <2>3. CASE \/ search \/ update \/ insert_same_key \/ insert_into_leaf
    BY <2>3 DEF search, update, insert_same_key, insert_into_leaf, Inserting, Idle
  <2> QED
    BY <2>1, <2>2, <2>3
<1>3. KeptRow /\ UNCHANGED meta
  BY QuietRow
<1>4. \A o \in Offsets : /\ disk'[o].kind = disk[o].kind
                         /\ IsInternal(o) => disk'[o].children = disk[o].children
  <2>1. CASE BeginAny \/ search_index \/ search \/ insert_same_key
    BY <2>1 DEF BeginAny, Begin, search_index, search, insert_same_key
  <2>2. CASE update \/ insert_into_leaf
    <3>1. CASE UNCHANGED disk
      BY <3>1
    <3>2. CASE \E q, b : LeafWritten(q, b)
      <4>1. PICK q, b : LeafWritten(q, b)
        BY <3>2
      <4>2. /\ q \in Offsets /\ IsLeaf(q) /\ disk' = unmap(disk, q, b)
            /\ b.kind = "leaf"
        BY <4>1 DEF LeafWritten, LeafNodes
      <4>3. disk'[q] = b /\ \A o \in Offsets \ {q} : disk'[o] = disk[o]
        BY <4>2, SlotPositive DEF unmap
      <4> QED
        BY <4>2, <4>3 DEF IsLeaf, IsInternal
    <3> QED
      BY <2>2, <3>1, <3>2, UpdateEffect, InsertIntoLeafEffect
  <2> QED
    BY <2>1, <2>2
<1>5. Offsets' = Offsets
  BY <1>3 DEF Offsets
<1>6. \A o \in Offsets : Follower'[o] = Follower[o]
  BY <1>1, <1>2, <1>3, <1>5 DEF Follower, KeptRow
<1>7. \A o \in Offsets : IsInternal(o) => FirstChild(o)' = FirstChild(o)
  BY <1>4 DEF FirstChild
<1>8. ASSUME NEW o \in Offsets
      PROVE  RowBelow(o)'
  <2>1. CASE IsInternal(o)
    <3>1. \A i \in 1..Len(disk[o].children) :
              Follower'[disk[o].children[i].child] = Follower[disk[o].children[i].child]
      BY <1>6, <2>1, InternalFacts
    <3> QED
      BY <1>3, <1>4, <1>7, <2>1, <3>1, KeptBelow DEF KeptRow
  <2>2. CASE ~IsInternal(o)
    BY <1>4, <2>2 DEF RowBelow, IsInternal
  <2> QED
    BY <2>1, <2>2
<1>9. ASSUME NEW o \in Offsets
      PROVE  Neighbours(o)'
  <2>1. disk[o].next \in NullableOffsets
    BY BlockFacts
  <2>2. disk[o].next # 0 => disk[o].next \in Offsets
    BY <2>1, SlotPositive DEF Offsets, NullableOffsets
  <2> QED
    BY <1>3, <1>4, <2>2 DEF RowInv, Neighbours, KeptRow
<1>10. Internals' = Internals
  BY <1>4, <1>5 DEF Internals, IsInternal
<1>11. meta.root_offset \in Offsets
  BY DEF Inv, MetaOK
<1> QED
  BY <1>2, <1>3, <1>5, <1>6, <1>8, <1>9, <1>10, <1>11 DEF RowInv, KeptRow

(* A split links the new block in behind q: every block keeps its          *)
(* neighbours, and prev is null where it was.                              *)
LEMMA SplitNeighbours ==
    ASSUME NEW lev, Inv(lev), RowInv, NEW q \in Offsets, SplitRow(q),
           Offsets' = Offsets \cup {meta.slot},
           disk'[meta.slot].kind = disk[q].kind,
           \A o \in Offsets : disk'[o].kind = disk[o].kind
    PROVE  /\ \A o \in Offsets' : Neighbours(o)'
           /\ \A o \in Offsets : disk'[o].prev = 0 <=> disk[o].prev = 0
           /\ disk'[meta.slot].prev # 0
<1>1. PICK new \in Nat \ {0} : new = meta.slot
  BY SlotPositive
<1>2. new \notin Offsets /\ q # 0 /\ q # new
  BY <1>1, SlotPositive DEF Offsets
<1> DEFINE nx == disk[q].next
<1>3. /\ disk'[q].next = new /\ disk'[q].prev = disk[q].prev
      /\ disk'[new].next = nx /\ disk'[new].prev = q
      /\ \A o \in Offsets \ {q} :
             /\ disk'[o].next = disk[o].next
             /\ disk'[o].prev = IF o = nx THEN new ELSE disk[o].prev
  BY <1>1 DEF SplitRow
<1>4. \A o \in Offsets : disk[o].next # 0 =>
          /\ disk[o].next \in Offsets /\ disk[o].next # o
          /\ disk[disk[o].next].prev = o
          /\ disk[disk[o].next].kind = disk[o].kind
  <2> SUFFICES ASSUME NEW o \in Offsets, disk[o].next # 0
               PROVE  /\ disk[o].next \in Offsets /\ disk[o].next # o
                      /\ disk[disk[o].next].prev = o
                      /\ disk[disk[o].next].kind = disk[o].kind
    OBVIOUS
  <2>1. disk[o].next \in NullableOffsets
    BY BlockFacts
  <2>2. disk[o].next \in Offsets
    BY <2>1, SlotPositive DEF Offsets, NullableOffsets
  <2> QED
    BY <2>2 DEF RowInv, Neighbours
<1>5. \A o \in Offsets : disk'[o].prev = 0 <=> disk[o].prev = 0
  <2> SUFFICES ASSUME NEW o \in Offsets
               PROVE  disk'[o].prev = 0 <=> disk[o].prev = 0
    OBVIOUS
  <2>1. CASE o = q \/ o # nx
    BY <1>3, <2>1
  <2>2. CASE o # q /\ o = nx
    <3>1. nx # 0 /\ disk[o].prev = q
      BY <1>4, <2>2, SlotPositive DEF Offsets
    <3> QED
      BY <1>2, <1>3, <2>2, <3>1
  <2> QED
    BY <2>1, <2>2
<1>6. ASSUME NEW o \in Offsets'
      PROVE  disk'[o].next # 0 => /\ disk'[o].next # o
                                  /\ disk'[disk'[o].next].prev = o
                                  /\ disk'[disk'[o].next].kind = disk'[o].kind
  <2>1. CASE o = q
    BY <1>1, <1>2, <1>3, <2>1
  <2>2. CASE o = new
    <3>1. CASE nx = 0
      BY <1>3, <2>2, <3>1
    <3>2. CASE nx # 0
      <4>1. nx \in Offsets /\ disk[nx].prev = q /\ disk[nx].kind = disk[q].kind
        BY <1>4, <3>2
      <4>2. disk'[nx].kind = disk'[new].kind
        BY <1>1, <4>1
      <4>3. disk'[nx].prev = new
        BY <1>3, <1>4, <3>2, <4>1
      <4> QED
        BY <1>2, <1>3, <2>2, <4>1, <4>2, <4>3
    <3> QED
      BY <3>1, <3>2
  <2>3. CASE o \in Offsets \ {q}
    <3> SUFFICES ASSUME disk[o].next # 0
                 PROVE  /\ disk[o].next # o /\ disk'[disk[o].next].prev = o
                        /\ disk'[disk[o].next].kind = disk'[o].kind
      BY <1>3, <2>3
    <3>1. PICK y \in Offsets : y = disk[o].next
      BY <1>4, <2>3
    <3>2. y # o /\ disk[y].prev = o /\ disk[y].kind = disk[o].kind
      BY <1>4, <2>3, <3>1
    <3>3. y # nx
      <4>1. y = nx => disk[y].prev = q
        BY <1>4, <3>1
      <4> QED
        BY <2>3, <3>2, <4>1
    <3>4. disk'[y].prev = o
      BY <1>3, <3>2, <3>3
    <3> QED
      BY <2>3, <3>1, <3>2, <3>4
  <2> QED
    BY <1>1, <2>1, <2>2, <2>3
<1> QED
  BY <1>1, <1>2, <1>3, <1>5, <1>6 DEF Neighbours

(* What alloc does to the count of index nodes. *)
LEMMA CountedIndex ==
    ASSUME NEW lev, Inv(lev)
    PROVE  /\ alloc_leaf(meta).internal_node_num = meta.internal_node_num
           /\ alloc_internal(meta).internal_node_num = meta.internal_node_num + 1
           /\ \A x, y : [alloc_internal(meta) EXCEPT !.root_offset = x, !.height = y]
                            .internal_node_num = meta.internal_node_num + 1
BY DEF alloc_leaf, alloc_internal, Inv, MetaOK

(* One more index node. *)
LEMMA OneMoreInternal ==
    ASSUME NEW lev, Inv(lev), NEW new, new \notin Offsets, Offsets' = Offsets \cup {new},
           disk'[new].kind = "internal",
           \A o \in Offsets : disk'[o].kind = disk[o].kind
    PROVE  Cardinality(Internals') = Cardinality(Internals) + 1
<1>1. Internals' = Internals \cup {new} /\ new \notin Internals
  BY DEF Internals, IsInternal
<1>2. IsFiniteSet(Internals)
  <2>1. IsFiniteSet(Offsets)
    <3>1. meta.slot - 1 \in Int
      BY SlotPositive
    <3>2. IsFiniteSet(1..(meta.slot - 1))
      BY <3>1, FS_Interval
    <3> QED
      BY <3>2 DEF Offsets
  <2> QED
    BY <2>1, FS_Subset DEF Internals
<1> QED
  BY <1>1, <1>2, FS_AddElement

(* insert() splits a leaf: the followers of all leaves in the index stay. *)
LEMMA SplitLeafRows ==
    ASSUME NEW lev, Inv(lev), RowInv, insert_split_leaf
    PROVE  RowInv'
<1>1. /\ Searching /\ ~(call.height > 1) /\ ~Inserting /\ meta' = alloc_leaf(meta)
  BY DEF insert_split_leaf, AtLeaf, Searching, Inserting
<1>2. PICK q, new, l, r : LeafSplit(q, new, l, r)
  BY LeafSplitEffect
<1>3. /\ q = search_leaf /\ new = meta.slot /\ q \in Offsets /\ new \notin Offsets
      /\ Offsets' = Offsets \cup {new}
      /\ disk'[q].kind = "leaf" /\ disk'[new].kind = "leaf"
      /\ call'.proc = "insert_key_to_index" /\ call'.old = q /\ call'.after = new
  BY <1>2 DEF LeafSplit, Offsets, NullableOffsets, LeafNodes
<1>4. \A o \in Offsets \ {q} : /\ disk'[o].kind = disk[o].kind
                               /\ disk'[o].children = disk[o].children
  BY <1>2 DEF LeafSplit
<1>5. IsLeaf(q)
  BY <1>1, <1>3, LeafReached
<1>6. SplitRow(q)
  BY <1>3, LeafSplitRow
<1>7. /\ \A o \in Offsets' : Neighbours(o)'
      /\ \A o \in Offsets : disk'[o].prev = 0 <=> disk[o].prev = 0
  <2>1. \A o \in Offsets : disk'[o].kind = disk[o].kind
    BY <1>3, <1>4, <1>5 DEF IsLeaf
  <2> QED
    BY <1>3, <1>5, <1>6, <2>1, SplitNeighbours DEF IsLeaf
<1>8. Inserting'
  BY <1>3 DEF Inserting
<1>9. \A o \in Offsets : Follower'[o] = Follower[o]
  <2>1. \A o \in Offsets : Follower'[o] = IF o = q THEN disk'[new].next ELSE disk'[o].next
    BY <1>3, <1>8 DEF Follower
  <2>2. \A o \in Offsets : Follower[o] = disk[o].next
    BY <1>1 DEF Follower
  <2>3. /\ disk'[new].next = disk[q].next
        /\ \A o \in Offsets \ {q} : disk'[o].next = disk[o].next
    BY <1>3, <1>6 DEF SplitRow
  <2> QED
    BY <2>1, <2>2, <2>3
<1>10. \A o \in Offsets : IsInternal(o) => o # q /\ FirstChild(o)' = FirstChild(o)
  BY <1>4, <1>5 DEF FirstChild, IsInternal, IsLeaf
<1>11. ASSUME NEW o \in Offsets'
       PROVE  RowBelow(o)'
  <2>1. CASE o \in Offsets /\ IsInternal(o)
    <3>1. \A i \in 1..Len(disk[o].children) :
              Follower'[disk[o].children[i].child] = Follower[disk[o].children[i].child]
      BY <1>9, <2>1, InternalFacts
    <3>2. disk'[o].children = disk[o].children /\ disk'[o].next = disk[o].next
      BY <1>4, <1>6, <1>10, <2>1 DEF SplitRow
    <3> QED
      BY <1>7, <1>10, <2>1, <3>1, <3>2, KeptBelow
  <2>2. CASE ~(o \in Offsets /\ IsInternal(o))
    BY <1>3, <1>4, <2>2 DEF RowBelow, IsInternal
  <2> QED
    BY <2>1, <2>2
<1>12. Internals' = Internals
  BY <1>3, <1>4, <1>5 DEF Internals, IsInternal, IsLeaf
<1>13. /\ meta.root_offset \in Offsets /\ meta'.root_offset = meta.root_offset
       /\ meta'.internal_node_num = meta.internal_node_num
  BY <1>1, AllocMeta, CountedIndex DEF Inv, MetaOK
<1>14. disk'[q].next = new
  BY <1>3, <1>6 DEF SplitRow
<1> QED
  BY <1>3, <1>7, <1>9, <1>11, <1>12, <1>13, <1>14 DEF RowInv

(* insert_key_to_index puts a new root above the two halves of the old. *)
LEMMA NewRootRows ==
    ASSUME NEW lev, Inv(lev), LinkInv, RowInv, insert_new_root
    PROVE  RowInv'
<1>1. /\ Inserting /\ call.offset = 0 /\ ~Inserting'
  BY DEF insert_new_root, Inserting, Idle
<1>2. /\ call.old \in Offsets /\ call.after \in Offsets
      /\ call.old = meta.root_offset
  BY <1>1, InsertCall
<1>3. PICK new, root : RootAdded(new, root)
  BY RootAddedEffect
<1>4. /\ Offsets' = Offsets \cup {new} /\ new \notin Offsets /\ new = meta.slot
      /\ new # 0
      /\ disk'[new].children = <<Entry(call.key, call.old), Entry(EmptyKey, call.after)>>
      /\ disk'[new].kind = "internal"
      /\ \A o \in Offsets : /\ disk'[o].kind = disk[o].kind
                            /\ disk'[o].children = disk[o].children
      /\ meta' = [alloc_internal(meta) EXCEPT !.root_offset = new, !.height = @ + 1]
  BY <1>3, SlotPositive DEF RootAdded, Offsets, NullableOffsets, InternalNodes
<1>5. /\ KeptRow /\ disk'[new].next = 0 /\ disk'[new].prev = 0
  BY <1>4, RootRow
<1>6. /\ disk[call.old].next = call.after /\ Follower[call.old] = 0
      /\ disk[call.old].prev = 0
  BY <1>1, <1>2 DEF RowInv
<1>7. disk[call.after].next = 0
  BY <1>1, <1>2, <1>6 DEF Follower
<1>8. /\ \A o \in Offsets : Follower'[o] = disk[o].next
      /\ \A o \in Offsets : o # call.old => Follower[o] = disk[o].next
      /\ Follower'[new] = 0
  <2>1. \A o \in Offsets' : Follower'[o] = disk'[o].next
    BY <1>1 DEF Follower
  <2>2. \A o \in Offsets : o # call.old => Follower[o] = disk[o].next
    BY DEF Follower
  <2> QED
    BY <1>4, <1>5, <2>1, <2>2 DEF KeptRow
<1>9. \A o \in Offsets : IsInternal(o) => FirstChild(o)' = FirstChild(o)
  BY <1>4 DEF FirstChild
<1>10. ASSUME NEW o \in Offsets, IsInternal(o)
       PROVE  RowBelow(o)'
  <2>1. ASSUME NEW i \in 1..Len(disk[o].children)
        PROVE  Follower'[disk[o].children[i].child] = Follower[disk[o].children[i].child]
    <3>1. /\ disk[o].children[i].child \in Offsets
          /\ disk[o].children[i].child = call.old => o = call.offset
      BY <1>1, <1>10, OnlyParentLists
    <3>2. o # 0
      BY SlotPositive DEF Offsets
    <3> QED
      BY <1>1, <1>8, <3>1, <3>2
  <2> QED
    BY <1>4, <1>5, <1>9, <1>10, <2>1, KeptBelow DEF KeptRow
<1>11. RowBelow(new)'
  <2> DEFINE c == disk'[new].children
  <2>1. Len(c) = 2 /\ c[1].child = call.old /\ c[2].child = call.after
    BY <1>4 DEF Entry
  <2> HIDE DEF c
  <2>2. Linked(c, Follower', 0)
    <3>1. Follower'[call.old] = call.after /\ Follower'[call.after] = 0
      BY <1>2, <1>6, <1>7, <1>8
    <3>2. \A i \in 1..(Len(c) - 1) : i = 1
      BY <2>1
    <3> QED
      BY <2>1, <3>1, <3>2 DEF Linked
  <2>3. Beyond(new)' = 0
    BY <1>5 DEF Beyond
  <2>4. FirstChild(new)' = call.old
    BY <2>1 DEF FirstChild, c
  <2>5. disk'[call.old].prev = 0
    BY <1>2, <1>5, <1>6 DEF KeptRow
  <2> QED
    BY <2>2, <2>3, <2>4, <2>5 DEF RowBelow, c
<1>12. ASSUME NEW o \in Offsets'
       PROVE  RowBelow(o)'
  <2>1. CASE o = new
    BY <1>11, <2>1
  <2>2. CASE o \in Offsets /\ IsInternal(o)
    BY <1>10, <2>2
  <2>3. CASE o \in Offsets /\ ~IsInternal(o)
    BY <1>4, <2>3 DEF RowBelow, IsInternal
  <2> QED
    BY <1>4, <2>1, <2>2, <2>3
<1>13. ASSUME NEW o \in Offsets'
       PROVE  Neighbours(o)'
  <2>1. CASE o = new
    BY <1>5, <2>1 DEF Neighbours
  <2>2. CASE o \in Offsets
    <3>1. disk[o].next \in NullableOffsets
      BY <2>2, BlockFacts
    <3>2. disk[o].next # 0 => disk[o].next \in Offsets
      BY <3>1, SlotPositive DEF Offsets, NullableOffsets
    <3> QED
      BY <1>4, <1>5, <2>2, <3>2 DEF RowInv, Neighbours, KeptRow
  <2> QED
    BY <1>4, <2>1, <2>2
<1>14. Cardinality(Internals') = Cardinality(Internals) + 1
  BY <1>4, OneMoreInternal
<1>15. meta'.internal_node_num = meta.internal_node_num + 1 /\ meta'.root_offset = new
  BY <1>4, AllocMeta, CountedIndex
<1> QED
  BY <1>1, <1>5, <1>8, <1>12, <1>13, <1>14, <1>15 DEF RowInv

(* From F to G the block `value' comes in behind old; the entries c list   *)
(* old and not yet value.                                                  *)
Entered(c, F, G, old, value) ==
    /\ Len(c) \in Nat /\ DOMAIN c = 1..Len(c) /\ NoneTwice(c)
    /\ \A x : Lists(c, x) /\ x # old => G[x] = F[x]
    /\ G[old] = value /\ G[value] = F[old]

(* The entry of old is doubled: the entries follow each other again. *)
LEMMA EntryLinked ==
    ASSUME NEW c, NEW F, NEW G, NEW z, Linked(c, F, z), NEW old, NEW value,
           Entered(c, F, G, old, value),
           NEW E, NEW w, NEW key, NEW c2,
           EntryAdded(c, E, w, key, value, c2), c[w].child = old
    PROVE  Linked(c2, G, z) /\ c2[1].child = c[1].child
<1> USE DEF Entered
<1>1. w \in 1..Len(c)
  BY DEF EntryAdded
<1>2. ASSUME NEW i \in 1..Len(c), i # w
      PROVE  G[c[i].child] = F[c[i].child]
  <2>1. i < w \/ w < i
    BY <1>1, <1>2
  <2>2. c[i].child # old
    BY <1>1, <2>1 DEF NoneTwice
  <2>3. Lists(c, c[i].child)
    BY DEF Lists
  <2> QED
    BY <2>2, <2>3
<1>3. Spliced(c, F, G, w, value)
  BY <1>2 DEF Spliced
<1> QED
  BY <1>3, DoubledLinked

(* The entry of the block that was split, in the node insert_key_to_index  *)
(* is called for.                                                          *)
LEMMA PendingEntry ==
    ASSUME NEW lev, Inv(lev), LinkInv, NEW own, Ord(own), Inserting, call.offset # 0
    PROVE  LET q == call.offset
               c == disk[q].children
           IN  /\ q \in Offsets /\ IsInternal(q) /\ NoneTwice(c)
               /\ c \in Seq(Entries) /\ DOMAIN c = 1..Len(c)
               /\ \E x \in 1..Len(c) :
                      /\ c[x].child = call.old
                      /\ SplitBelow(c, own[q], Region(own), x, call.key,
                                    own[call.old], own[call.after])
<1> DEFINE q == call.offset
           c == disk[q].children
<1>1. /\ q \in Offsets /\ lev[q] \in Nat \ {0} /\ call.key \in Keys
      /\ call.old \in Offsets /\ call.after \in Offsets
  BY InsertCall
<1>2. lev[q] > 0
  BY <1>1
<1>3. /\ IsInternal(q) /\ c \in Seq(Entries) /\ DOMAIN c = 1..Len(c)
      /\ Len(c) \in 1..ORDER
  BY <1>1, <1>2, IndexFacts
<1>4. NoneTwice(c)
  BY <1>1, <1>3 DEF LinkInv, ChildLinks
<1>5. PICK x \in 1..Len(c) : c[x].child = call.old
  BY <1>3, OldListed DEF Lists
<1>6. IndexOrder(c, own[q], Region(own)) /\ own[q] \in SUBSET Nat
  <2>1. own[q] \in SUBSET Keys
    BY <1>1 DEF Ord
  <2> QED
    BY <1>1, <1>3, <2>1, KeysAssumption DEF Ord
<1>7. Region(own)[call.old] = own[call.old] \cup own[call.after]
  BY <1>1 DEF Region
<1>8. Divides(call.key, own[call.old], own[call.after])
  BY DEF Ord
<1>9. call.key \in Nat /\ Len(c) \in Nat
  <2>1. call.key \in Nat
    BY <1>1, KeysAssumption
  <2>2. Len(c) \in Nat
    BY <1>3
  <2> QED
    BY <2>1, <2>2
<1>10. SplitBelow(c, own[q], Region(own), x, call.key, own[call.old], own[call.after])
  <2> HIDE DEF c, q
  <2> QED
    BY <1>5, <1>6, <1>7, <1>8, <1>9 DEF SplitBelow
<1> QED
  BY <1>1, <1>3, <1>4, <1>5, <1>10

(* insert_key_to_index enters the pending block into a node with room. *)
LEMMA IntoIndexRows ==
    ASSUME NEW lev, Inv(lev), LinkInv, OrdInv, RowInv, insert_into_index
    PROVE  RowInv'
<1>1. /\ Inserting /\ call.offset # 0 /\ ~Inserting' /\ UNCHANGED meta
  BY DEF insert_into_index, Inserting, Idle
<1>2. call.old \in Offsets /\ call.after \in Offsets /\ call.old # call.after
  BY <1>1, InsertCall DEF LinkInv, PendingLinks
<1>3. PICK q, b : IndexWritten(q, b)
  BY IndexWrittenEffect
<1> DEFINE c == disk[q].children
<1>4. /\ q = call.offset /\ disk' = unmap(disk, q, b) /\ b.kind = "internal"
      /\ EntryAdded(c, Entries, upper_bound(c, Len(c) - 1, call.key),
                    call.key, call.after, b.children)
  BY <1>3 DEF IndexWritten, InternalNodes
<1>5. PICK own : Ord(own)
  BY DEF OrdInv
<1>6. /\ q \in Offsets /\ IsInternal(q) /\ NoneTwice(c)
      /\ c \in Seq(Entries) /\ DOMAIN c = 1..Len(c)
  BY <1>1, <1>4, <1>5, PendingEntry
<1>7. PICK x \in 1..Len(c) :
          /\ c[x].child = call.old
          /\ SplitBelow(c, own[q], Region(own), x, call.key,
                        own[call.old], own[call.after])
  BY <1>1, <1>4, <1>5, PendingEntry
<1>8. EntryAdded(c, Entries, x, call.key, call.after, b.children)
  <2>1. upper_bound(c, Len(c) - 1, call.key) = x
    <3> HIDE DEF c
    <3> QED
      BY <1>7, EntryPlace
  <2> QED
    BY <1>4, <2>1
<1>9. disk'[q] = b /\ \A o \in Offsets \ {q} : disk'[o] = disk[o]
  BY <1>4, <1>6, SlotPositive DEF unmap
<1>10. Offsets' = Offsets
  BY <1>1 DEF Offsets
<1>11. KeptRow
  BY IntoIndexRow
<1>12. /\ \A o \in Offsets : Follower'[o] = disk[o].next
       /\ \A o \in Offsets : o # call.old => Follower[o] = disk[o].next
       /\ Follower[call.old] = disk[call.after].next
       /\ disk[call.old].next = call.after
  BY <1>1, <1>2, <1>10, <1>11 DEF Follower, KeptRow, RowInv
<1>13. Entered(c, Follower, Follower', call.old, call.after)
  <2>1. ASSUME NEW y, Lists(c, y), y # call.old
        PROVE  Follower'[y] = Follower[y]
    <3>1. y \in Offsets
      BY <1>6, <2>1, ListedBlocks
    <3> QED
      BY <1>12, <2>1, <3>1
  <2>2. Len(c) \in Nat
    BY <1>6
  <2> QED
    BY <1>2, <1>6, <1>12, <2>1, <2>2 DEF Entered
<1>14. /\ disk[q].prev = 0 => disk[FirstChild(q)].prev = 0
       /\ Linked(c, Follower, Beyond(q))
  BY <1>6 DEF RowInv, RowBelow
<1>15. Linked(b.children, Follower', Beyond(q)) /\ b.children[1].child = c[1].child
  <2>1. PICK F, G, z, d, old, value : /\ F = Follower /\ G = Follower' /\ z = Beyond(q)
                                      /\ d = c /\ old = call.old /\ value = call.after
    OBVIOUS
  <2> HIDE DEF c
  <2>2. /\ Linked(d, F, z) /\ Entered(d, F, G, old, value)
        /\ EntryAdded(d, Entries, x, call.key, value, b.children) /\ d[x].child = old
    BY <1>7, <1>8, <1>13, <1>14, <2>1
  <2>3. Linked(b.children, G, z) /\ b.children[1].child = d[1].child
    BY <2>2, EntryLinked
  <2> QED
    BY <2>1, <2>3
<1>16. \A o \in Offsets : IsInternal(o) => FirstChild(o)' = FirstChild(o)
  BY <1>9, <1>15 DEF FirstChild
<1>17. \A o \in Offsets : disk'[o].kind = disk[o].kind
  BY <1>4, <1>6, <1>9 DEF IsInternal
<1>18. RowBelow(q)'
  <2>1. Beyond(q)' = Beyond(q)
    <3>1. disk[q].next \in NullableOffsets
      BY <1>6, InternalFacts
    <3>2. disk[q].next # 0 => disk[q].next \in Offsets /\ IsInternal(disk[q].next)
      <4>1. disk[q].next # 0 => disk[q].next \in Offsets
        BY <3>1, SlotPositive DEF Offsets, NullableOffsets
      <4> QED
        BY <1>6, <4>1 DEF RowInv, Neighbours, IsInternal
    <3>3. PICK p : p = disk[q].next
      OBVIOUS
    <3>4. p # 0 => FirstChild(p)' = FirstChild(p)
      BY <1>16, <3>2, <3>3
    <3>5. disk'[q].next = p
      BY <1>6, <1>11, <3>3 DEF KeptRow
    <3> QED
      BY <3>3, <3>4, <3>5 DEF Beyond, FirstChild
  <2>2. FirstChild(q)' = FirstChild(q) /\ FirstChild(q) \in Offsets
    BY <1>6, <1>16, InternalFacts
  <2> QED
    BY <1>6, <1>9, <1>11, <1>14, <1>15, <2>1, <2>2 DEF RowBelow, KeptRow
<1>19. ASSUME NEW o \in Offsets
       PROVE  RowBelow(o)'
  <2>1. CASE o # q /\ IsInternal(o)
    <3>1. ASSUME NEW i \in 1..Len(disk[o].children)
          PROVE  Follower'[disk[o].children[i].child] = Follower[disk[o].children[i].child]
      <4>1. /\ disk[o].children[i].child \in Offsets
            /\ disk[o].children[i].child # call.old
        BY <1>1, <1>4, <2>1, OnlyParentLists
      <4> QED
        BY <1>12, <4>1
    <3> QED
      BY <1>9, <1>11, <1>16, <2>1, <3>1, KeptBelow DEF KeptRow
  <2>2. CASE o = q
    BY <1>18, <2>2
  <2>3. CASE ~IsInternal(o)
    BY <1>17, <2>3 DEF RowBelow, IsInternal
  <2> QED
    BY <2>1, <2>2, <2>3
<1>20. ASSUME NEW o \in Offsets
       PROVE  Neighbours(o)'
  <2>1. disk[o].next \in NullableOffsets
    BY BlockFacts
  <2>2. disk[o].next # 0 => disk[o].next \in Offsets
    BY <2>1, SlotPositive DEF Offsets, NullableOffsets
  <2> QED
    BY <1>11, <1>17, <2>2 DEF RowInv, Neighbours, KeptRow
<1>21. Internals' = Internals
  BY <1>10, <1>17 DEF Internals, IsInternal
<1>22. /\ meta.root_offset \in Offsets /\ Follower'[meta.root_offset] = 0
       /\ disk'[meta.root_offset].prev = 0
  <2>1. meta.root_offset \in Offsets
    BY DEF Inv, MetaOK
  <2>2. meta.root_offset # call.old
    BY <1>1 DEF LinkInv, PendingLinks
  <2> QED
    BY <1>11, <1>12, <2>1, <2>2 DEF RowInv, KeptRow
<1> QED
  BY <1>1, <1>10, <1>19, <1>20, <1>21, <1>22 DEF RowInv

(* The halves of a full node, one of them with the new entry: the left one *)
(* ends where the right one begins.                                        *)
LEMMA HalvesLinked ==
    ASSUME NEW c \in Seq(Entries), Len(c) = ORDER, NEW p \in 1..(ORDER - 1),
           NEW x \in 1..ORDER, c[x].child = call.old,
           NEW lc, NEW rc, HalfGrown(c, x, p, lc, rc),
           NEW F, NEW G, NEW z, Linked(c, F, z),
           Entered(c, F, G, call.old, call.after)
    PROVE  /\ Linked(lc, G, rc[1].child) /\ Linked(rc, G, z)
           /\ lc[1].child = c[1].child
<1> DEFINE lh == SubSeq(c, 1, p)
           rh == SubSeq(c, p + 1, ORDER)
<1>0. ORDER \in Nat /\ ORDER >= 4
  BY OrderAssumption
<1>1. p \in Nat /\ p >= 1 /\ p < ORDER /\ x \in Nat
  BY <1>0
<1>2. /\ lh \in Seq(Entries) /\ Len(lh) = p /\ \A i \in 1..p : lh[i] = c[i]
      /\ rh \in Seq(Entries) /\ Len(rh) = ORDER - p
      /\ \A i \in 1..(ORDER - p) : rh[i] = c[p + i]
      /\ NoneTwice(lh) /\ NoneTwice(rh)
      /\ \A o : Lists(c, o) <=> Lists(lh, o) \/ Lists(rh, o)
      /\ \A o : ~(Lists(lh, o) /\ Lists(rh, o))
  BY HalvesLists DEF Entered
<1>3. /\ Linked(lh, F, c[p + 1].child) /\ Linked(rh, F, z)
  BY CutLinked
<1>4. /\ HalfGrown(c, x, p, lc, rc) =>
         \/ p < x /\ lc = lh
            /\ EntryAdded(rh, Entries', x - p, call.key, call.after, rc)
         \/ x <= p /\ rc = rh
            /\ EntryAdded(lh, Entries', x, call.key, call.after, lc)
  BY DEF HalfGrown
<1> HIDE DEF lh, rh
<1>5. /\ Len(lh) \in Nat \ {0} /\ DOMAIN lh = 1..Len(lh)
      /\ Len(rh) \in Nat \ {0} /\ DOMAIN rh = 1..Len(rh)
      /\ lh[1] = c[1] /\ rh[1] = c[p + 1]
  <2>1. Len(lh) \in Nat \ {0} /\ Len(rh) \in Nat \ {0}
    BY <1>0, <1>1, <1>2
  <2>2. 1 \in 1..p /\ 1 \in 1..(ORDER - p)
    BY <1>0, <1>1
  <2>3. DOMAIN lh = 1..Len(lh) /\ DOMAIN rh = 1..Len(rh)
    BY <1>2
  <2> QED
    BY <1>2, <2>1, <2>2, <2>3
<1>6. /\ \A y : Lists(c, y) /\ y # call.old => G[y] = F[y]
      /\ G[call.old] = call.after /\ G[call.after] = F[call.old]
  BY DEF Entered
<1>7. Entered(lh, F, G, call.old, call.after) /\ Entered(rh, F, G, call.old, call.after)
  BY <1>2, <1>5, <1>6 DEF Entered
<1>8. /\ \A i \in 1..Len(lh) : Lists(lh, lh[i].child)
      /\ \A i \in 1..Len(rh) : Lists(rh, rh[i].child)
  BY <1>5 DEF Lists
<1>9. CASE p < x /\ lc = lh
           /\ EntryAdded(rh, Entries', x - p, call.key, call.after, rc)
  <2>1. x - p \in 1..(ORDER - p) /\ p + (x - p) = x
    BY <1>0, <1>1, <1>9
  <2>2. rh[x - p] = c[x] /\ x - p \in 1..Len(rh)
    BY <1>2, <2>1
  <2>3. Linked(rc, G, z) /\ rc[1].child = c[p + 1].child
    BY <1>3, <1>5, <1>7, <1>9, <2>2, EntryLinked
  <2>4. Lists(rh, call.old)
    BY <1>8, <2>2
  <2>5. \A i \in 1..Len(lh) : G[lh[i].child] = F[lh[i].child]
    BY <1>2, <1>6, <1>8, <2>4
  <2>6. Linked(lh, G, c[p + 1].child)
    BY <1>3, <1>5, <2>5, SameLinked
  <2> QED
    BY <1>5, <1>9, <2>3, <2>6
<1>10. CASE x <= p /\ rc = rh
            /\ EntryAdded(lh, Entries', x, call.key, call.after, lc)
  <2>1. x \in 1..p
    BY <1>0, <1>1, <1>10
  <2>2. lh[x] = c[x] /\ x \in 1..Len(lh)
    BY <1>2, <2>1
  <2>3. Linked(lc, G, c[p + 1].child) /\ lc[1].child = c[1].child
    BY <1>3, <1>5, <1>7, <1>10, <2>2, EntryLinked
  <2>4. Lists(lh, call.old)
    BY <1>8, <2>2
  <2>5. \A i \in 1..Len(rh) : G[rh[i].child] = F[rh[i].child]
    BY <1>2, <1>6, <1>8, <2>4
  <2>6. Linked(rh, G, z)
    BY <1>3, <1>5, <2>5, SameLinked
  <2> QED
    BY <1>5, <1>10, <2>3, <2>6
<1> QED
  BY <1>4, <1>9, <1>10

(* insert_key_to_index splits a full node. *)
LEMMA SplitIndexRows ==
    ASSUME NEW lev, Inv(lev), LinkInv, OrdInv, RowInv, insert_split_index
    PROVE  RowInv'
<1>1. /\ Inserting /\ call.offset # 0 /\ meta' = alloc_internal(meta)
  BY DEF insert_split_index, Inserting
<1>2. /\ call.old \in Offsets /\ call.after \in Offsets /\ call.old # call.after
      /\ call.old # call.offset /\ call.key \in Nat
  <2>1. /\ call.old \in Offsets /\ call.after \in Offsets /\ call.key \in Keys
        /\ lev[call.offset] = lev[call.old] + 1
    BY <1>1, InsertCall
  <2>2. lev[call.old] \in Nat
    BY <2>1, BlockFacts
  <2>3. call.old # call.offset
    BY <2>1, <2>2
  <2>4. call.key \in Nat
    BY <2>1, KeysAssumption
  <2> QED
    BY <1>1, <2>1, <2>3, <2>4 DEF LinkInv, PendingLinks
<1>3. PICK q, new, l, r : IndexSplit(q, new, l, r)
  BY IndexSplitEffect
<1> DEFINE c == disk[q].children
<1>4. /\ q = call.offset /\ q \in Offsets /\ new = meta.slot /\ new \notin Offsets
      /\ Offsets' = Offsets \cup {new}
      /\ Len(c) = ORDER
      /\ disk'[q] = l /\ disk'[q].kind = "internal"
      /\ disk'[new] = r /\ disk'[new].kind = "internal"
      /\ call'.proc = "insert_key_to_index"
      /\ call'.old = q /\ call'.after = new
      /\ IndexHalves(c, l.children, r.children)
  BY <1>3 DEF IndexSplit, Offsets, NullableOffsets, InternalNodes
<1>5. \A o \in Offsets \ {q} : /\ disk'[o].kind = disk[o].kind
                               /\ disk'[o].children = disk[o].children
  BY <1>3 DEF IndexSplit
<1>6. PICK own : Ord(own)
  BY DEF OrdInv
<1>7. /\ IsInternal(q) /\ NoneTwice(c) /\ c \in Seq(Entries) /\ DOMAIN c = 1..Len(c)
  BY <1>1, <1>4, <1>6, PendingEntry
<1>8. PICK x \in 1..Len(c) :
          /\ c[x].child = call.old
          /\ SplitBelow(c, own[q], Region(own), x, call.key,
                        own[call.old], own[call.after])
  BY <1>1, <1>4, <1>6, PendingEntry
<1>9. SplitRow(q)
  BY <1>4, IndexSplitRow
<1>10. \A o \in Offsets : disk'[o].kind = disk[o].kind
  BY <1>4, <1>5, <1>7 DEF IsInternal
<1>11. /\ \A o \in Offsets' : Neighbours(o)'
       /\ \A o \in Offsets : disk'[o].prev = 0 <=> disk[o].prev = 0
       /\ disk'[new].prev # 0
  BY <1>4, <1>7, <1>9, <1>10, SplitNeighbours DEF IsInternal
<1>12. /\ disk'[q].next = new /\ disk'[new].next = disk[q].next
       /\ \A o \in Offsets \ {q} : disk'[o].next = disk[o].next
  BY <1>4, <1>9 DEF SplitRow
<1>13. \A o \in Offsets : Follower'[o] = disk[o].next
  <2>1. Inserting'
    BY <1>4 DEF Inserting
  <2>2. \A o \in Offsets : Follower'[o] = IF o = q THEN disk'[new].next ELSE disk'[o].next
    BY <1>4, <2>1 DEF Follower
  <2> QED
    BY <1>12, <2>2
<1>14. /\ \A o \in Offsets : o # call.old => Follower[o] = disk[o].next
       /\ Follower[call.old] = disk[call.after].next
       /\ disk[call.old].next = call.after
  BY <1>1, <1>2 DEF Follower, RowInv
<1>15. Entered(c, Follower, Follower', call.old, call.after)
  <2>1. ASSUME NEW y, Lists(c, y), y # call.old
        PROVE  Follower'[y] = Follower[y]
    <3>1. y \in Offsets
      BY <1>4, <1>7, <2>1, ListedBlocks
    <3> QED
      BY <1>13, <1>14, <2>1, <3>1
  <2>2. Len(c) \in Nat
    BY <1>7
  <2> QED
    BY <1>2, <1>7, <1>13, <1>14, <2>1, <2>2 DEF Entered
<1>16. /\ disk[q].prev = 0 => disk[FirstChild(q)].prev = 0
       /\ Linked(c, Follower, Beyond(q))
  BY <1>4, <1>7 DEF RowInv, RowBelow
<1>17. /\ Linked(l.children, Follower', r.children[1].child)
       /\ Linked(r.children, Follower', Beyond(q))
       /\ l.children[1].child = c[1].child
  <2>1. PICK F, G, z, d, lc, rc : /\ F = Follower /\ G = Follower' /\ z = Beyond(q)
                                  /\ d = c /\ lc = l.children /\ rc = r.children
    OBVIOUS
  <2>2. PICK S, U, A, B : /\ S = own[q] /\ U = Region(own)
                          /\ A = own[call.old] /\ B = own[call.after]
    OBVIOUS
  <2> HIDE DEF c
  <2>3. /\ SplitBelow(d, S, U, x, call.key, A, B) /\ d[x].child = call.old
        /\ d \in Seq(Entries) /\ Len(d) = ORDER /\ NoneTwice(d)
        /\ IndexHalves(d, lc, rc) /\ x \in 1..ORDER
    BY <1>4, <1>7, <1>8, <2>1, <2>2
  <2>4. HalvesAt(d, S, U, x, A, B, lc, rc)
    BY <1>2, <2>3 DEF HalvesAt, SplitBelow
  <2>5. PICK p \in 2..(ORDER - 1) : HalfGrown(d, x, p, lc, rc)
    BY <2>4, HalvesPlace
  <2>6. p \in 1..(ORDER - 1)
    BY <2>5, OrderAssumption
  <2>7. Linked(d, F, z) /\ Entered(d, F, G, call.old, call.after)
    BY <1>15, <1>16, <2>1
  <2>8. Linked(lc, G, rc[1].child) /\ Linked(rc, G, z) /\ lc[1].child = d[1].child
    BY <2>3, <2>5, <2>6, <2>7, HalvesLinked
  <2> QED
    BY <2>1, <2>8
<1>18. \A o \in Offsets : IsInternal(o) => FirstChild(o)' = FirstChild(o)
  BY <1>4, <1>5, <1>17 DEF FirstChild
<1>19. new # 0 /\ q # new
  BY <1>4, SlotPositive
<1>20. RowBelow(q)'
  <2>1. Beyond(q)' = r.children[1].child
    BY <1>4, <1>12, <1>19 DEF Beyond, FirstChild
  <2>2. FirstChild(q)' = FirstChild(q) /\ FirstChild(q) \in Offsets
    BY <1>4, <1>7, <1>18, InternalFacts
  <2>3. disk'[q].prev = 0 => disk'[FirstChild(q)].prev = 0
    BY <1>4, <1>11, <1>16, <2>2
  <2> QED
    BY <1>4, <1>17, <2>1, <2>2, <2>3 DEF RowBelow
<1>21. RowBelow(new)'
  <2>1. Beyond(new)' = Beyond(q)
    <3>1. PICK p : p = disk[q].next
      OBVIOUS
    <3>2. p # 0 => p \in Offsets /\ IsInternal(p)
      <4>1. p \in NullableOffsets
        BY <1>4, <1>7, <3>1, InternalFacts
      <4>2. p # 0 => p \in Offsets
        BY <4>1, SlotPositive DEF Offsets, NullableOffsets
      <4> QED
        BY <1>4, <1>7, <3>1, <4>2 DEF RowInv, Neighbours, IsInternal
    <3>3. p # 0 => FirstChild(p)' = FirstChild(p)
      BY <1>18, <3>2
    <3>4. disk'[new].next = p
      BY <1>12, <3>1
    <3> QED
      BY <3>1, <3>3, <3>4 DEF Beyond, FirstChild
  <2> QED
    BY <1>4, <1>11, <1>17, <2>1 DEF RowBelow
<1>22. ASSUME NEW o \in Offsets'
       PROVE  RowBelow(o)'
  <2>1. CASE o \in Offsets /\ o # q /\ IsInternal(o)
    <3>1. ASSUME NEW i \in 1..Len(disk[o].children)
          PROVE  Follower'[disk[o].children[i].child] = Follower[disk[o].children[i].child]
      <4>1. /\ disk[o].children[i].child \in Offsets
            /\ disk[o].children[i].child # call.old
        BY <1>1, <1>4, <2>1, OnlyParentLists
      <4> QED
        BY <1>13, <1>14, <4>1
    <3>2. disk'[o].children = disk[o].children /\ disk'[o].next = disk[o].next
      BY <1>5, <1>12, <2>1
    <3> QED
      BY <1>11, <1>18, <2>1, <3>1, <3>2, KeptBelow
  <2>2. CASE o = q \/ o = new
    BY <1>20, <1>21, <2>2
  <2>3. CASE o \in Offsets /\ ~IsInternal(o)
    BY <1>10, <2>3 DEF RowBelow, IsInternal
  <2> QED
    BY <1>4, <2>1, <2>2, <2>3
<1>23. Cardinality(Internals') = Cardinality(Internals) + 1
  BY <1>4, <1>10, OneMoreInternal
<1>24. /\ meta'.internal_node_num = meta.internal_node_num + 1
       /\ meta'.root_offset = meta.root_offset
  BY <1>1, AllocMeta, CountedIndex
<1>25. disk'[meta.root_offset].prev = 0 /\ Follower'[meta.root_offset] = 0
  <2>1. meta.root_offset \in Offsets
    BY DEF Inv, MetaOK
  <2>2. meta.root_offset # call.old
    BY <1>1 DEF LinkInv, PendingLinks
  <2> QED
    BY <1>11, <1>13, <1>14, <2>1, <2>2 DEF RowInv
<1> QED
  BY <1>4, <1>11, <1>12, <1>22, <1>23, <1>24, <1>25 DEF RowInv

LEMMA NextRows == IInv /\ LinkInv /\ OrdInv /\ RowInv /\ [Next]_vars => RowInv'
<1> SUFFICES ASSUME IInv, LinkInv, OrdInv, RowInv, [Next]_vars
             PROVE  RowInv'
  OBVIOUS
<1>1. PICK lev : Inv(lev)
  BY DEF IInv
<1>2. CASE \/ BeginAny \/ search_index \/ search \/ update
           \/ insert_same_key \/ insert_into_leaf
  BY <1>1, <1>2, QuietRows
<1>3. CASE insert_split_leaf
  BY <1>1, <1>3, SplitLeafRows
<1>4. CASE insert_new_root
  BY <1>1, <1>4, NewRootRows
<1>5. CASE insert_into_index
  BY <1>1, <1>5, IntoIndexRows
<1>6. CASE insert_split_index
  BY <1>1, <1>6, SplitIndexRows
<1>7. CASE UNCHANGED vars
  <2>1. UNCHANGED <<meta, disk, call>>
    BY <1>7 DEF vars
  <2>2. UNCHANGED <<Offsets, Inserting, Internals>>
    BY <2>1 DEF Offsets, Inserting, Internals, IsInternal
  <2>3. UNCHANGED Follower
    BY <2>1, <2>2 DEF Follower
  <2>4. \A o : Neighbours(o)' = Neighbours(o)
    BY <2>1 DEF Neighbours
  <2>5. \A o : RowBelow(o)' = RowBelow(o)
    BY <2>1, <2>3 DEF RowBelow, IsInternal, FirstChild, Beyond, Linked
  <2> QED
    BY <2>1, <2>2, <2>3, <2>4, <2>5 DEF RowInv
<1> QED
  BY <1>2, <1>3, <1>4, <1>5, <1>6, <1>7 DEF Next, Step

-----------------------------------------------------------------------------
(* The rows, as sequences of offsets that F threads. *)

(* The elements of s follow each other by F, and then comes z. *)
Threaded(s, F, z) ==
    /\ Len(s) \in Nat \ {0}
    /\ \A i \in 1..(Len(s) - 1) : F[s[i]] = s[i + 1]
    /\ F[s[Len(s)]] = z

LEMMA ConcatThreaded ==
    ASSUME NEW S, NEW s \in Seq(S), NEW t \in Seq(S), NEW F, NEW z,
           Threaded(s, F, t[1]), Threaded(t, F, z)
    PROVE  /\ s \o t \in Seq(S) /\ Threaded(s \o t, F, z) /\ (s \o t)[1] = s[1]
           /\ ToSet(s) \subseteq ToSet(s \o t) /\ ToSet(t) \subseteq ToSet(s \o t)
<1> DEFINE m == Len(s)
           n == Len(t)
           u == s \o t
<1>0. m \in Nat \ {0} /\ n \in Nat \ {0}
  BY DEF Threaded
<1>1. /\ u \in Seq(S) /\ Len(u) = m + n
      /\ \A i \in 1..(m + n) : u[i] = IF i <= m THEN s[i] ELSE t[i - m]
  BY ConcatProperties
<1>2. /\ \A i \in 1..(m - 1) : F[s[i]] = s[i + 1]
      /\ F[s[m]] = t[1]
      /\ \A i \in 1..(n - 1) : F[t[i]] = t[i + 1]
      /\ F[t[n]] = z
  BY DEF Threaded
<1>3. /\ DOMAIN s = 1..m /\ DOMAIN t = 1..n /\ DOMAIN u = 1..(m + n)
  BY <1>1
<1> HIDE DEF m, n, u
<1>4. \A i \in 1..m : i \in 1..(m + n) /\ u[i] = s[i]
  BY <1>0, <1>1
<1>5. \A i \in 1..n : m + i \in 1..(m + n) /\ u[m + i] = t[i]
  <2> SUFFICES ASSUME NEW i \in 1..n
               PROVE  m + i \in 1..(m + n) /\ u[m + i] = t[i]
    OBVIOUS
  <2>1. m + i \in 1..(m + n) /\ ~(m + i <= m) /\ (m + i) - m = i
    BY <1>0
  <2> QED
    BY <1>1, <2>1
<1>6. ASSUME NEW i \in 1..((m + n) - 1)
      PROVE  F[u[i]] = u[i + 1]
  <2>1. CASE i < m
    <3>1. i \in 1..(m - 1) /\ i \in 1..m /\ i + 1 \in 1..m
      BY <1>0, <2>1
    <3> QED
      BY <1>2, <1>4, <3>1
  <2>2. CASE i = m
    <3>1. m \in 1..m /\ 1 \in 1..n
      BY <1>0
    <3> QED
      BY <1>2, <1>4, <1>5, <2>2, <3>1
  <2>3. CASE i > m
    <3>1. PICK k \in 1..(n - 1) : i = m + k
      <4>1. i - m \in 1..(n - 1) /\ i = m + (i - m)
        BY <1>0, <2>3
      <4> QED
        BY <4>1
    <3>2. k \in 1..n /\ k + 1 \in 1..n /\ i + 1 = m + (k + 1)
      BY <1>0, <3>1
    <3>3. u[i] = t[k] /\ u[i + 1] = t[k + 1]
      BY <1>5, <3>1, <3>2
    <3> QED
      BY <1>2, <3>1, <3>3
  <2> QED
    BY <1>0, <2>1, <2>2, <2>3
<1>7. F[u[m + n]] = z
  <2>1. n \in 1..n
    BY <1>0
  <2> QED
    BY <1>2, <1>5, <2>1
<1>8. Threaded(u, F, z)
  <2>1. Len(u) \in Nat \ {0}
    BY <1>0, <1>1
  <2> QED
    BY <1>1, <1>6, <1>7, <2>1 DEF Threaded
<1>9. u[1] = s[1]
  <2>1. 1 \in 1..m
    BY <1>0
  <2> QED
    BY <1>4, <2>1
<1>10. ToSet(s) \subseteq ToSet(u) /\ ToSet(t) \subseteq ToSet(u)
  BY <1>3, <1>4, <1>5 DEF ToSet
<1> QED
  BY <1>1, <1>8, <1>9, <1>10 DEF u

(* The parts of s, each followed by the first element of the next part. *)
PartsThreaded(s, F, z) ==
    \A i \in 1..Len(s) : Threaded(s[i], F, IF i = Len(s) THEN z ELSE s[i + 1][1])

LEMMA FlattenThreaded ==
    ASSUME NEW S, NEW s \in Seq(Seq(S)), Len(s) # 0, NEW F, NEW z,
           PartsThreaded(s, F, z)
    PROVE  /\ Threaded(FlattenSeq(s), F, z)
           /\ FlattenSeq(s)[1] = s[1][1]
           /\ \A i \in 1..Len(s) : ToSet(s[i]) \subseteq ToSet(FlattenSeq(s))
<1> DEFINE n == Len(s)
<1>0. n \in Nat \ {0} /\ \A i \in 1..n : s[i] \in Seq(S)
  OBVIOUS
<1>1. PICK f : /\ FlattenSeq(s) = f[n]
               /\ \A i \in 1..n : f[i] = IF i = 1 THEN s[i] ELSE f[i - 1] \o s[i]
  BY FlattenParts
<1> DEFINE After(m) == IF m = n THEN z ELSE s[m + 1][1]
<1>2. \A i \in 1..n : Threaded(s[i], F, After(i))
  BY DEF PartsThreaded
<1> HIDE DEF n
<1> DEFINE Good(m) == /\ f[m] \in Seq(S) /\ Threaded(f[m], F, After(m))
                      /\ f[m][1] = s[1][1]
                      /\ \A i \in 1..m : ToSet(s[i]) \subseteq ToSet(f[m])
           Bad == {m \in 1..n : ~Good(m)}
<1>3. Bad = {}
  <2> SUFFICES ASSUME Bad # {}
               PROVE  FALSE
    OBVIOUS
  <2>1. Bad \in SUBSET Nat
    BY <1>0
  <2> HIDE DEF Bad
  <2>2. PICK m \in Bad : \A k \in Bad : m <= k
    BY <2>1, LeastElement
  <2>3. m \in 1..n /\ ~Good(m)
    BY <2>2 DEF Bad
  <2>4. CASE m = 1
    <3>1. f[1] = s[1] /\ s[1] \in Seq(S) /\ Threaded(s[1], F, After(1))
      BY <1>0, <1>1, <1>2, <2>3, <2>4
    <3>2. \A i \in 1..1 : i = 1
      OBVIOUS
    <3> HIDE DEF After
    <3>3. Good(1)
      BY <3>1, <3>2
    <3> QED
      BY <2>3, <2>4, <3>3
  <2>5. CASE m # 1
    <3>1. /\ m - 1 \in 1..n /\ m - 1 \notin Bad /\ m - 1 # n /\ (m - 1) + 1 = m
          /\ \A i \in 1..m : i = m \/ i \in 1..(m - 1)
      BY <1>0, <2>1, <2>2, <2>3, <2>5
    <3>2. Good(m - 1)
      BY <3>1 DEF Bad
    <3>3. After(m - 1) = s[m][1]
      BY <3>1
    <3>4. f[m] = f[m - 1] \o s[m] /\ s[m] \in Seq(S) /\ Threaded(s[m], F, After(m))
      BY <1>0, <1>1, <1>2, <2>3, <2>5
    <3> HIDE DEF After
    <3>5. /\ f[m] \in Seq(S) /\ Threaded(f[m], F, After(m)) /\ f[m][1] = f[m - 1][1]
          /\ ToSet(f[m - 1]) \subseteq ToSet(f[m]) /\ ToSet(s[m]) \subseteq ToSet(f[m])
      <4>1. PICK a, b, y : a = f[m - 1] /\ b = s[m] /\ y = After(m)
        OBVIOUS
      <4>2. /\ a \in Seq(S) /\ b \in Seq(S)
            /\ Threaded(a, F, b[1]) /\ Threaded(b, F, y)
        BY <3>2, <3>3, <3>4, <4>1
      <4>3. /\ a \o b \in Seq(S) /\ Threaded(a \o b, F, y) /\ (a \o b)[1] = a[1]
            /\ ToSet(a) \subseteq ToSet(a \o b) /\ ToSet(b) \subseteq ToSet(a \o b)
        BY <4>2, ConcatThreaded
      <4> QED
        BY <3>4, <4>1, <4>3
    <3>6. ASSUME NEW i \in 1..m
          PROVE  ToSet(s[i]) \subseteq ToSet(f[m])
      BY <3>1, <3>2, <3>5
    <3>7. Good(m)
      BY <3>2, <3>5, <3>6
    <3> QED
      BY <2>3, <3>7
  <2> QED
    BY <2>4, <2>5
<1>4. Good(n)
  <2>1. n \in 1..n
    BY <1>0
  <2> QED
    BY <1>3, <2>1
<1> QED
  BY <1>1, <1>4 DEF n

(* A row of the index that starts at a block without a left neighbour and  *)
(* ends at one without a right one.                                        *)
WholeRow(row) ==
    /\ Threaded(row, Follower, 0)
    /\ disk[row[1]].prev = 0

(* What the children of a whole row make. *)
LEMMA RowStep ==
    ASSUME NEW lev, Inv(lev), RowInv, ~Inserting, NEW k \in 1..meta.height,
           NEW row \in Seq(Level(lev, k)), WholeRow(row)
    PROVE  /\ WholeRow(RowUnder(row))
           /\ \A j \in 1..Len(row) : ToSet(Children(row[j])) \subseteq ToSet(RowUnder(row))
<1> DEFINE n == Len(row)
           kids == [j \in DOMAIN row |-> Children(row[j])]
<1>0. /\ n \in Nat \ {0} /\ DOMAIN row = 1..n
      /\ \A j \in 1..(n - 1) : Follower[row[j]] = row[j + 1]
      /\ Follower[row[n]] = 0 /\ disk[row[1]].prev = 0
  BY DEF WholeRow, Threaded
<1>1. \A j \in 1..n : row[j] \in Offsets /\ IsInternal(row[j])
  <2> SUFFICES ASSUME NEW j \in 1..n
               PROVE  row[j] \in Offsets /\ IsInternal(row[j])
    OBVIOUS
  <2>1. row[j] \in Level(lev, k)
    OBVIOUS
  <2>2. meta.height \in Nat
    BY DEF Inv, MetaOK
  <2>3. row[j] \in Offsets /\ lev[row[j]] > 0
    BY <2>1, <2>2 DEF Level
  <2> QED
    BY <2>3, IndexFacts
<1>2. \A o \in Offsets : Follower[o] = disk[o].next
  BY DEF Follower
<1> HIDE DEF n
<1>3. ASSUME NEW o \in Offsets, IsInternal(o)
      PROVE  /\ Children(o) \in Seq(Offsets) /\ Children(o)[1] = FirstChild(o)
             /\ Threaded(Children(o), Follower, Beyond(o))
  <2> DEFINE c == disk[o].children
  <2>1. /\ Len(c) \in Nat \ {0} /\ DOMAIN c = 1..Len(c)
        /\ \A i \in 1..Len(c) : c[i].child \in Offsets
    BY <1>3, InternalFacts
  <2>2. Linked(c, Follower, Beyond(o))
    BY <1>3 DEF RowInv, RowBelow
  <2>3. Children(o) = [i \in 1..Len(c) |-> c[i].child]
    BY <2>1 DEF Children
  <2>4. Children(o) \in Seq(Offsets) /\ Len(Children(o)) = Len(c)
    <3> HIDE DEF c
    <3>1. Children(o) \in Seq(Offsets)
      BY <2>1, <2>3, IsASeq
    <3>2. DOMAIN Children(o) = 1..Len(c) /\ DOMAIN Children(o) = 1..Len(Children(o))
      BY <2>3, <3>1
    <3>3. Len(Children(o)) \in Nat /\ Len(c) \in Nat
      BY <2>1, <3>1
    <3> QED
      BY <3>1, <3>2, <3>3
  <2>5. \A i \in 1..Len(c) : Children(o)[i] = c[i].child
    BY <2>3
  <2>6. /\ 1 \in 1..Len(c) /\ Len(c) \in 1..Len(c)
        /\ \A i \in 1..(Len(c) - 1) : i \in 1..Len(c) /\ i + 1 \in 1..Len(c)
    BY <2>1
  <2>7. Children(o)[1] = FirstChild(o)
    BY <2>5, <2>6 DEF FirstChild
  <2>8. Threaded(Children(o), Follower, Beyond(o))
    <3> HIDE DEF c
    <3> QED
      BY <2>1, <2>2, <2>4, <2>5, <2>6 DEF Linked, Threaded
  <2> QED
    BY <2>4, <2>7, <2>8
<1>4. /\ kids \in Seq(Seq(Offsets)) /\ Len(kids) = n
      /\ \A j \in 1..n : kids[j] = Children(row[j])
  <2>1. \A j \in 1..n : Children(row[j]) \in Seq(Offsets)
    BY <1>1, <1>3
  <2>2. kids = [j \in 1..n |-> Children(row[j])]
    BY <1>0
  <2>3. kids \in Seq(Seq(Offsets))
    <3> HIDE DEF kids
    <3> QED
      BY <1>0, <2>1, <2>2, IsASeq
  <2>4. DOMAIN kids = 1..n /\ DOMAIN kids = 1..Len(kids)
    <3>1. DOMAIN kids = 1..n
      BY <2>2
    <3> HIDE DEF kids
    <3> QED
      BY <2>3, <3>1
  <2> HIDE DEF kids
  <2>5. Len(kids) = n
    <3>1. Len(kids) \in Nat /\ n \in Nat
      BY <1>0, <2>3
    <3> QED
      BY <2>4, <3>1
  <2> QED
    BY <2>2, <2>3, <2>5
<1>5. RowUnder(row) = FlattenSeq(kids)
  BY DEF RowUnder
<1> HIDE DEF kids
<1>6. PartsThreaded(kids, Follower, 0)
  <2> SUFFICES ASSUME NEW j \in 1..n
               PROVE  Threaded(kids[j], Follower, IF j = n THEN 0 ELSE kids[j + 1][1])
    BY <1>4 DEF PartsThreaded
  <2>1. /\ kids[j] = Children(row[j])
        /\ Threaded(Children(row[j]), Follower, Beyond(row[j]))
    BY <1>1, <1>3, <1>4
  <2>2. CASE j = n
    <3>1. disk[row[j]].next = 0
      BY <1>0, <1>1, <1>2, <2>2
    <3>2. Beyond(row[j]) = 0
      BY <3>1 DEF Beyond
    <3> QED
      BY <2>1, <2>2, <3>2
  <2>3. CASE j # n
    <3>1. j \in 1..(n - 1) /\ j + 1 \in 1..n
      BY <1>0, <2>3
    <3>2. disk[row[j]].next = row[j + 1] /\ row[j + 1] # 0
      <4>1. row[j] \in Offsets /\ row[j + 1] \in Offsets
        BY <1>1, <3>1
      <4>2. 0 \notin Offsets
        BY SlotPositive DEF Offsets
      <4> QED
        BY <1>0, <1>2, <3>1, <4>1, <4>2
    <3>3. Beyond(row[j]) = FirstChild(row[j + 1])
      BY <3>2 DEF Beyond
    <3>4. kids[j + 1][1] = FirstChild(row[j + 1])
      BY <1>1, <1>3, <1>4, <3>1
    <3> QED
      BY <2>1, <2>3, <3>3, <3>4
  <2> QED
    BY <2>2, <2>3
<1>7. PICK F : F = Follower
  OBVIOUS
<1>8. /\ Threaded(FlattenSeq(kids), F, 0) /\ FlattenSeq(kids)[1] = kids[1][1]
      /\ \A j \in 1..n : ToSet(kids[j]) \subseteq ToSet(FlattenSeq(kids))
  BY <1>0, <1>4, <1>6, <1>7, FlattenThreaded
<1>9. disk[kids[1][1]].prev = 0
  <2>1. 1 \in 1..n
    BY <1>0
  <2>2. kids[1][1] = FirstChild(row[1])
    BY <1>1, <1>3, <1>4, <2>1
  <2> QED
    BY <1>0, <1>1, <2>1, <2>2 DEF RowInv, RowBelow
<1> QED
  BY <1>4, <1>5, <1>7, <1>8, <1>9 DEF WholeRow, n

(* Between calls every row is whole, and holds all blocks of its level. *)
LEMMA RowsWhole ==
    ASSUME NEW lev, Inv(lev), LinkInv, RowInv, ~Inserting, NEW i \in 0..meta.height
    PROVE  /\ Rows[i] \in Seq(Level(lev, meta.height - i)) /\ WholeRow(Rows[i])
           /\ ToSet(Rows[i]) = Level(lev, meta.height - i)
<1> DEFINE h == meta.height
           Good(k) == /\ WholeRow(Rows[k])
                      /\ Level(lev, h - k) \subseteq ToSet(Rows[k])
           Bad == {k \in 0..h : ~Good(k)}
<1>0. h \in Nat /\ meta.root_offset \in Offsets /\ lev[meta.root_offset] = h
  BY DEF Inv, MetaOK
<1>1. \A k \in 0..h : Rows[k] \in Seq(Level(lev, h - k))
  BY RowBlocks
<1>2. \A k \in 0..h : Rows[k] = IF k = 0 THEN <<meta.root_offset>>
                                ELSE RowUnder(Rows[k - 1])
  BY RowsUnfold
<1>3. ASSUME NEW o \in Offsets, o # meta.root_offset
      PROVE  LET p == disk[o].parent IN
             p \in Offsets /\ lev[p] = lev[o] + 1 /\ o \in ToSet(Children(p))
  <2>1. disk[o].parent # 0
    BY <1>3 DEF Inv, BlockOK
  <2>2. /\ disk[o].parent \in Offsets /\ lev[disk[o].parent] = lev[o] + 1
    BY <2>1, ParentBlocks
  <2>3. Lists(disk[disk[o].parent].children, o)
    BY <2>1 DEF LinkInv, ParentLink
  <2> QED
    BY <2>2, <2>3 DEF Lists, ToSet, Children
<1>4. \A o \in Offsets : lev[o] = h => o = meta.root_offset
  <2> SUFFICES ASSUME NEW o \in Offsets, lev[o] = h, o # meta.root_offset
               PROVE  FALSE
    OBVIOUS
  <2>1. disk[o].parent \in Offsets /\ lev[disk[o].parent] = h + 1
    BY <1>3
  <2>2. lev[disk[o].parent] \in 0..h
    BY <2>1, BlockFacts
  <2> QED
    BY <1>0, <2>1, <2>2
<1>5. Bad = {}
  <2> SUFFICES ASSUME Bad # {}
               PROVE  FALSE
    OBVIOUS
  <2>1. Bad \in SUBSET Nat
    BY <1>0
  <2> HIDE DEF Bad
  <2>2. PICK m \in Bad : \A k \in Bad : m <= k
    BY <2>1, LeastElement
  <2>3. m \in 0..h /\ ~Good(m)
    BY <2>2 DEF Bad
  <2>4. CASE m = 0
    <3>1. Rows[0] = <<meta.root_offset>>
      BY <1>2, <2>3, <2>4
    <3>2. PICK row : row = Rows[0]
      OBVIOUS
    <3>3. Len(row) = 1 /\ row[1] = meta.root_offset /\ DOMAIN row = 1..1
      BY <3>1, <3>2
    <3>4. WholeRow(row)
      <4>1. \A j \in 1..(Len(row) - 1) : FALSE
        BY <3>3
      <4>2. Follower[row[Len(row)]] = 0
        BY <3>3 DEF RowInv
      <4>3. Threaded(row, Follower, 0)
        BY <3>3, <4>1, <4>2 DEF Threaded
      <4> QED
        BY <3>3, <4>3 DEF WholeRow, RowInv
    <3>5. Level(lev, h - 0) \subseteq ToSet(row)
      <4>1. h - 0 = h
        BY <1>0
      <4>2. Level(lev, h) \subseteq {meta.root_offset}
        BY <1>4 DEF Level
      <4>3. meta.root_offset \in ToSet(row)
        BY <3>3 DEF ToSet
      <4> QED
        BY <4>1, <4>2, <4>3
    <3> QED
      BY <2>3, <2>4, <3>2, <3>4, <3>5
  <2>5. CASE m # 0
    <3>1. /\ m - 1 \in 0..h /\ m - 1 \notin Bad
          /\ h - (m - 1) \in 1..h /\ h - (m - 1) = (h - m) + 1
      BY <1>0, <2>1, <2>2, <2>3, <2>5
    <3>2. Good(m - 1)
      BY <3>1 DEF Bad
    <3>3. PICK row, k : row = Rows[m - 1] /\ k = h - (m - 1)
      OBVIOUS
    <3>4. row \in Seq(Level(lev, k)) /\ k \in 1..h /\ WholeRow(row)
      BY <1>1, <3>1, <3>2, <3>3
    <3>5. /\ WholeRow(RowUnder(row))
          /\ \A j \in 1..Len(row) :
                 ToSet(Children(row[j])) \subseteq ToSet(RowUnder(row))
      BY <3>4, RowStep
    <3>6. Rows[m] = RowUnder(row)
      BY <1>2, <2>3, <2>5, <3>3
    <3>7. ASSUME NEW o \in Level(lev, h - m)
          PROVE  o \in ToSet(RowUnder(row))
      <4>1. o \in Offsets /\ lev[o] = h - m
        BY <3>7 DEF Level
      <4>2. o # meta.root_offset
        BY <1>0, <2>3, <2>5, <4>1
      <4>3. PICK p \in Offsets : lev[p] = lev[o] + 1 /\ o \in ToSet(Children(p))
        BY <1>3, <4>1, <4>2
      <4>4. p \in Level(lev, k)
        BY <3>1, <3>3, <4>1, <4>3 DEF Level
      <4>5. p \in ToSet(row)
        BY <3>2, <3>3, <4>4
      <4>6. PICK j \in 1..Len(row) : row[j] = p
        BY <3>4, <4>5 DEF ToSet
      <4> QED
        BY <3>5, <4>3, <4>6
    <3> QED
      BY <2>3, <3>5, <3>6, <3>7
  <2> QED
    BY <2>4, <2>5
<1>6. Good(i)
  BY <1>5
<1>7. ToSet(Rows[i]) \subseteq Level(lev, h - i)
  BY <1>1 DEF ToSet
<1> QED
  BY <1>1, <1>6, <1>7

(* The prev fields of a whole row point back. *)
LEMMA RowPrev ==
    ASSUME NEW lev, Inv(lev), RowInv, ~Inserting, NEW row \in Seq(Offsets), WholeRow(row)
    PROVE  \A j \in 1..Len(row) :
               /\ disk[row[j]].next = IF j = Len(row) THEN 0 ELSE row[j + 1]
               /\ disk[row[j]].prev = IF j = 1 THEN 0 ELSE row[j - 1]
<1> DEFINE n == Len(row)
<1>1. /\ n \in Nat \ {0} /\ \A j \in 1..n : row[j] \in Offsets
      /\ \A j \in 1..(n - 1) : Follower[row[j]] = row[j + 1]
      /\ Follower[row[n]] = 0 /\ disk[row[1]].prev = 0
  BY DEF WholeRow, Threaded
<1>2. \A o \in Offsets : Follower[o] = disk[o].next
  BY DEF Follower
<1>3. 0 \notin Offsets
  BY SlotPositive DEF Offsets
<1> HIDE DEF n
<1>4. \A j \in 1..n : disk[row[j]].next = IF j = n THEN 0 ELSE row[j + 1]
  <2> SUFFICES ASSUME NEW j \in 1..n
               PROVE  disk[row[j]].next = IF j = n THEN 0 ELSE row[j + 1]
    OBVIOUS
  <2>1. j = n \/ j \in 1..(n - 1)
    BY <1>1
  <2>2. j \in 1..(n - 1) => j # n
    BY <1>1
  <2> QED
    BY <1>1, <1>2, <2>1, <2>2
<1>5. ASSUME NEW j \in 1..n, j # 1
      PROVE  disk[row[j]].prev = row[j - 1]
  <2>1. j - 1 \in 1..n /\ j - 1 # n /\ (j - 1) + 1 = j
    BY <1>1, <1>5
  <2>2. row[j - 1] \in Offsets /\ row[j] \in Offsets
    BY <1>1, <2>1
  <2>3. disk[row[j - 1]].next = row[j]
    BY <1>4, <2>1
  <2> QED
    BY <1>3, <2>2, <2>3 DEF RowInv, Neighbours
<1> QED
  BY <1>1, <1>4, <1>5 DEF n

(* The row of the leaves is the chain that starts at meta.leaf_offset, as  *)
(* long as meta.leaf_node_num says, and has no leaf twice.                 *)
LEMMA LeafRow ==
    ASSUME NEW lev, Inv(lev), RowInv, ~Inserting, ChainInv,
           NEW row \in Seq(Offsets), WholeRow(row), \A j \in 1..Len(row) : IsLeaf(row[j])
    PROVE  /\ meta.leaf_offset = row[1] /\ meta.leaf_node_num = Len(row)
           /\ \A i, j \in 1..Len(row) : row[i] = row[j] => i = j
<1>1. PICK pos : Chain(pos)
  BY DEF ChainInv
<1> DEFINE n == meta.leaf_node_num
           L == Len(row)
<1>2. /\ n \in Nat \ {0} /\ \A i \in 1..n : pos[i] \in Offsets
      /\ \A o \in Offsets : IsLeaf(o) => \E i \in 1..n : pos[i] = o
      /\ \A i, j \in 1..n : pos[i] = pos[j] => i = j
      /\ pos[1] = meta.leaf_offset
      /\ \A i \in 1..(n - 1) : disk[pos[i]].next = pos[i + 1]
  BY <1>1 DEF Chain
<1>3. L \in Nat \ {0} /\ \A j \in 1..L : row[j] \in Offsets /\ IsLeaf(row[j])
  BY DEF WholeRow, Threaded
<1>4. \A j \in 1..L : /\ disk[row[j]].next = IF j = L THEN 0 ELSE row[j + 1]
                      /\ disk[row[j]].prev = IF j = 1 THEN 0 ELSE row[j - 1]
  BY RowPrev
<1>5. 0 \notin Offsets
  BY SlotPositive DEF Offsets
<1> HIDE DEF n, L
<1>6. ASSUME NEW i \in 1..n, i # 1
      PROVE  /\ i - 1 \in 1..n /\ disk[pos[i]].prev = pos[i - 1]
  <2>1. i - 1 \in 1..n /\ i - 1 \in 1..(n - 1) /\ (i - 1) + 1 = i
    BY <1>2, <1>6
  <2>2. disk[pos[i - 1]].next = pos[i]
    BY <1>2, <2>1
  <2>3. pos[i - 1] \in Offsets /\ pos[i] \in Offsets
    BY <1>2, <2>1
  <2> QED
    BY <1>5, <2>1, <2>2, <2>3 DEF RowInv, Neighbours
<1>7. pos[1] = row[1]
  <2>1. 1 \in 1..L
    BY <1>3
  <2>2. PICK i \in 1..n : pos[i] = row[1]
    BY <1>2, <1>3, <2>1
  <2>3. disk[row[1]].prev = 0
    BY <1>4, <2>1
  <2>4. i = 1
    BY <1>2, <1>5, <1>6, <2>2, <2>3
  <2> QED
    BY <2>2, <2>4
<1> DEFINE Good(j) == j \in 1..n /\ row[j] = pos[j]
           Bad == {j \in 1..L : ~Good(j)}
<1>8. Bad = {}
  <2> SUFFICES ASSUME Bad # {}
               PROVE  FALSE
    OBVIOUS
  <2>1. Bad \in SUBSET Nat
    BY <1>3
  <2> HIDE DEF Bad
  <2>2. PICK m \in Bad : \A k \in Bad : m <= k
    BY <2>1, LeastElement
  <2>3. m \in 1..L /\ ~Good(m)
    BY <2>2 DEF Bad
  <2>4. m # 1
    <3>1. 1 \in 1..n
      BY <1>2
    <3> QED
      BY <1>7, <2>3, <3>1
  <2>5. m - 1 \in 1..L /\ m - 1 \notin Bad /\ m - 1 # L /\ (m - 1) + 1 = m
    BY <1>3, <2>1, <2>2, <2>3, <2>4
  <2>6. m - 1 \in 1..n /\ row[m - 1] = pos[m - 1]
    BY <2>5 DEF Bad
  <2>7. disk[row[m - 1]].next = row[m] /\ disk[row[m]].prev = row[m - 1]
    BY <1>4, <2>3, <2>4, <2>5
  <2>8. row[m] \in Offsets /\ row[m - 1] \in Offsets /\ IsLeaf(row[m])
    BY <1>3, <2>3, <2>5
  <2>9. PICK i \in 1..n : pos[i] = row[m]
    BY <1>2, <2>8
  <2>10. i # 1
    <3>1. 1 \in 1..L
      BY <1>3
    <3>2. disk[pos[1]].prev = 0
      BY <1>4, <1>7, <3>1
    <3> QED
      BY <1>5, <2>7, <2>8, <2>9, <3>2
  <2>11. i - 1 \in 1..n /\ pos[i - 1] = pos[m - 1]
    BY <1>6, <2>6, <2>7, <2>9, <2>10
  <2>12. i - 1 = m - 1
    BY <1>2, <2>6, <2>11
  <2>13. i = m
    BY <1>2, <1>3, <2>3, <2>9, <2>12
  <2> QED
    BY <2>3, <2>9, <2>13
<1>9. L \in 1..n /\ row[L] = pos[L]
  <2>1. L \in 1..L
    BY <1>3
  <2> QED
    BY <1>8, <2>1
<1>10. L = n
  <2> SUFFICES ASSUME L # n
               PROVE  FALSE
    OBVIOUS
  <2>1. L \in 1..(n - 1) /\ L + 1 \in 1..n /\ L \in 1..L
    BY <1>2, <1>3, <1>9
  <2>2. disk[row[L]].next = 0 /\ disk[pos[L]].next = pos[L + 1]
    BY <1>2, <1>4, <2>1
  <2>3. pos[L + 1] \in Offsets
    BY <1>2, <2>1
  <2> QED
    BY <1>5, <1>9, <2>2, <2>3
<1>11. \A j \in 1..L : j \in 1..n /\ row[j] = pos[j]
  BY <1>8
<1>12. \A i, j \in 1..L : row[i] = row[j] => i = j
  BY <1>2, <1>11
<1> QED
  BY <1>2, <1>7, <1>10, <1>12 DEF n, L

(* Between calls, after any searches, inserts and updates and however the  *)
(* blocks were split, the next and prev fields thread every level of the   *)
(* index in its order, the leaves start at meta.leaf_offset, and meta      *)
(* counts exactly the index nodes and the leaves: node_create, which links *)
(* a new block in before the index knows it, and the climb of              *)
(* insert_key_to_index never leave a block out of its row or in the wrong  *)
(* place.                                                                  *)
THEOREM RowsThreaded == Spec => []RowsLinked
<1> DEFINE All == IInv /\ LinkInv /\ OrdInv /\ ChainInv /\ RowInv
<1>1. Init => All
  BY InitIInv, InitLinks, InitOrd, InitChain, InitRows
<1>2. All /\ [Next]_vars => All'
  BY NextIInv, NextLinks, NextOrd, NextChain, NextRows
<1>3. All => RowsLinked
  <2> SUFFICES ASSUME All, call = Idle
               PROVE  RowsLinked
    BY DEF RowsLinked
  <2>1. PICK lev : Inv(lev)
    BY DEF IInv
  <2>2. ~Inserting
    BY DEF Inserting, Idle
  <2> DEFINE h == meta.height
  <2>3. h \in Nat \ {0}
    BY <2>1 DEF Inv, MetaOK
  <2>4. \A i \in 0..h : /\ Rows[i] \in Seq(Level(lev, h - i)) /\ WholeRow(Rows[i])
                        /\ ToSet(Rows[i]) = Level(lev, h - i)
    BY <2>1, <2>2, RowsWhole
  <2>5. \A i \in 0..h : Rows[i] \in Seq(Offsets)
    <3>1. \A k : Level(lev, k) \subseteq Offsets
      BY DEF Level
    <3> HIDE DEF h
    <3> SUFFICES ASSUME NEW i \in 0..h
                 PROVE  Rows[i] \in Seq(Offsets)
      OBVIOUS
    <3>2. PICK row, k : row = Rows[i] /\ k = h - i
      OBVIOUS
    <3>3. row \in Seq(Level(lev, k))
      BY <2>4, <3>2
    <3>4. row \in Seq(Offsets)
      BY <3>1, <3>3
    <3> QED
      BY <3>2, <3>4
  <2>6. ASSUME NEW i \in 0..h, NEW j \in DOMAIN Rows[i]
        PROVE  /\ disk[Rows[i][j]].next = IF j = Len(Rows[i]) THEN 0 ELSE Rows[i][j + 1]
               /\ disk[Rows[i][j]].prev = IF j = 1 THEN 0 ELSE Rows[i][j - 1]
    <3>1. PICK row : row = Rows[i]
      OBVIOUS
    <3>2. row \in Seq(Offsets) /\ WholeRow(row)
      BY <2>4, <2>5, <3>1
    <3>3. j \in 1..Len(row)
      BY <3>1, <3>2
    <3>4. /\ disk[row[j]].next = IF j = Len(row) THEN 0 ELSE row[j + 1]
          /\ disk[row[j]].prev = IF j = 1 THEN 0 ELSE row[j - 1]
      BY <2>1, <2>2, <3>2, <3>3, RowPrev
    <3> QED
      BY <3>1, <3>4
  <2>7. meta.leaf_offset = Rows[h][1] /\ meta.leaf_node_num = Len(Rows[h])
    <3>1. PICK row : row = Rows[h]
      OBVIOUS
    <3>2. h \in 0..h /\ h - h = 0
      BY <2>3
    <3>3. /\ row \in Seq(Offsets) /\ WholeRow(row) /\ row \in Seq(Level(lev, 0))
      BY <2>4, <2>5, <3>1, <3>2
    <3>4. ASSUME NEW j \in 1..Len(row)
          PROVE  IsLeaf(row[j])
      <4>1. row[j] \in Level(lev, 0)
        BY <3>3
      <4> QED
        BY <2>1, <4>1 DEF Level, Inv, BlockOK
    <3> QED
      BY <2>1, <2>2, <3>1, <3>3, <3>4, LeafRow
  <2>8. UNION {ToSet(Rows[i]) : i \in 0..(h - 1)} = Internals
    <3>1. ASSUME NEW i \in 0..(h - 1), NEW o \in ToSet(Rows[i])
          PROVE  o \in Internals
      <4>1. i \in 0..h /\ h - i > 0
        BY <2>3
      <4>2. o \in Offsets /\ lev[o] = h - i
        BY <2>4, <4>1 DEF Level
      <4>3. lev[o] > 0
        BY <4>1, <4>2
      <4>4. IsInternal(o)
        BY <2>1, <4>2, <4>3, IndexFacts
      <4> QED
        BY <4>2, <4>4 DEF Internals
    <3>2. ASSUME NEW o \in Internals
          PROVE  \E i \in 0..(h - 1) : o \in ToSet(Rows[i])
      <4>1. o \in Offsets /\ IsInternal(o)
        BY DEF Internals
      <4>2. lev[o] \in 0..h /\ lev[o] # 0
        <5>1. lev[o] \in 0..h /\ ~IsLeaf(o)
          BY <2>1, <4>1, BlockFacts
        <5> QED
          BY <2>1, <4>1, <5>1 DEF Inv, BlockOK
      <4>3. h - lev[o] \in 0..(h - 1) /\ h - lev[o] \in 0..h /\ h - (h - lev[o]) = lev[o]
        BY <2>3, <4>2
      <4>4. PICK i \in 0..(h - 1) : i \in 0..h /\ h - i = lev[o]
        BY <4>3
      <4>5. o \in Level(lev, h - i)
        BY <4>1, <4>4 DEF Level
      <4> QED
        BY <2>4, <4>4, <4>5
    <3> QED
      BY <3>1, <3>2
  <2>9. meta.internal_node_num = Cardinality(Internals)
    BY DEF RowInv
  <2> QED
    BY <2>6, <2>7, <2>8, <2>9 DEF RowsLinked
<1> QED
  BY <1>1, <1>2, <1>3, PTL DEF Spec
-----------------------------------------------------------------------------
(***************************************************************************)
(* search_range returns the smallest keys of the range: the leaves, in the *)
(* order of the chain, are the leaves in the order of what they own.       *)
(***************************************************************************)
Before(A, B) == \A x \in A, y \in B : x < y

(* Blocks in the order of what they own. *)
OwnsInOrder(row, own) ==
    \A i, j \in 1..Len(row) : i < j => Before(own[row[i]], own[row[j]])

(* The parts of s, in order and each of them in order. *)
PartsInOrder(s, own) ==
    /\ \A i \in 1..Len(s) : OwnsInOrder(s[i], own)
    /\ \A i, j \in 1..Len(s) : i < j =>
           \A x \in ToSet(s[i]), y \in ToSet(s[j]) : Before(own[x], own[y])

(* Two rows make one if the first owns smaller keys. *)
LEMMA ConcatInOrder ==
    ASSUME NEW S, NEW s \in Seq(S), NEW t \in Seq(S), NEW own,
           OwnsInOrder(s, own), OwnsInOrder(t, own),
           \A x \in ToSet(s), y \in ToSet(t) : Before(own[x], own[y])
    PROVE  /\ s \o t \in Seq(S) /\ OwnsInOrder(s \o t, own)
           /\ ToSet(s \o t) = ToSet(s) \cup ToSet(t)
<1> DEFINE m == Len(s)
           n == Len(t)
           u == s \o t
<1>0. m \in Nat /\ n \in Nat
  OBVIOUS
<1>1. /\ u \in Seq(S) /\ Len(u) = m + n
      /\ \A i \in 1..(m + n) : u[i] = IF i <= m THEN s[i] ELSE t[i - m]
  BY ConcatProperties
<1>2. DOMAIN s = 1..m /\ DOMAIN t = 1..n /\ DOMAIN u = 1..(m + n)
  BY <1>1
<1> HIDE DEF m, n, u
<1>3. \A i \in 1..m : i \in 1..(m + n) /\ u[i] = s[i]
  BY <1>0, <1>1
<1>4. ASSUME NEW i \in 1..(m + n), ~(i <= m)
      PROVE  i - m \in 1..n /\ u[i] = t[i - m]
  BY <1>0, <1>1, <1>4
<1>5. \A i \in 1..n : m + i \in 1..(m + n) /\ u[m + i] = t[i]
  <2> SUFFICES ASSUME NEW i \in 1..n
               PROVE  m + i \in 1..(m + n) /\ u[m + i] = t[i]
    OBVIOUS
  <2>1. m + i \in 1..(m + n) /\ ~(m + i <= m) /\ (m + i) - m = i
    BY <1>0
  <2> QED
    BY <1>1, <2>1
<1>6. ToSet(u) = ToSet(s) \cup ToSet(t)
  <2>1. ASSUME NEW x \in ToSet(u)
        PROVE  x \in ToSet(s) \cup ToSet(t)
    <3>1. PICK i \in 1..(m + n) : u[i] = x
      BY <1>2 DEF ToSet
    <3>2. CASE i <= m
      <4>1. i \in 1..m
        BY <1>0, <3>1, <3>2
      <4> QED
        BY <1>2, <1>3, <3>1, <4>1 DEF ToSet
    <3>3. CASE ~(i <= m)
      BY <1>2, <1>4, <3>1, <3>3 DEF ToSet
    <3> QED
      BY <3>2, <3>3
  <2>2. ToSet(s) \subseteq ToSet(u) /\ ToSet(t) \subseteq ToSet(u)
    BY <1>2, <1>3, <1>5 DEF ToSet
  <2> QED
    BY <2>1, <2>2
<1>7. ASSUME NEW i \in 1..(m + n), NEW j \in 1..(m + n), i < j
      PROVE  Before(own[u[i]], own[u[j]])
  <2>1. CASE j <= m
    <3>1. i \in 1..m /\ j \in 1..m
      BY <1>0, <1>7, <2>1
    <3>2. Before(own[s[i]], own[s[j]])
      BY <1>7, <3>1 DEF OwnsInOrder, m
    <3> QED
      BY <1>3, <3>1, <3>2
  <2>2. CASE ~(i <= m)
    <3>1. i - m \in 1..n /\ j - m \in 1..n /\ i - m < j - m
      BY <1>0, <1>7, <2>2
    <3>2. Before(own[t[i - m]], own[t[j - m]])
      BY <3>1 DEF OwnsInOrder, n
    <3>3. u[i] = t[i - m] /\ u[j] = t[j - m]
      BY <1>0, <1>4, <1>7, <2>2
    <3> QED
      BY <3>2, <3>3
  <2>3. CASE i <= m /\ ~(j <= m)
    <3>1. i \in 1..m
      BY <1>0, <2>3
    <3>2. u[i] \in ToSet(s)
      BY <1>2, <1>3, <3>1 DEF ToSet
    <3>3. u[j] \in ToSet(t)
      BY <1>2, <1>4, <2>3 DEF ToSet
    <3> QED
      BY <3>2, <3>3
  <2> QED
    BY <2>1, <2>2, <2>3
<1>8. OwnsInOrder(u, own)
  BY <1>1, <1>7 DEF OwnsInOrder
<1> QED
  BY <1>1, <1>6, <1>8 DEF u

(* The parts of a row. *)
LEMMA FlattenInOrder ==
    ASSUME NEW S, NEW s \in Seq(Seq(S)), Len(s) # 0, NEW own, PartsInOrder(s, own)
    PROVE  OwnsInOrder(FlattenSeq(s), own)
<1> DEFINE n == Len(s)
<1>0. n \in Nat \ {0} /\ \A i \in 1..n : s[i] \in Seq(S)
  OBVIOUS
<1>1. PICK f : /\ FlattenSeq(s) = f[n]
               /\ \A i \in 1..n : f[i] = IF i = 1 THEN s[i] ELSE f[i - 1] \o s[i]
  BY FlattenParts
<1>2. /\ \A i \in 1..n : OwnsInOrder(s[i], own)
      /\ \A i, j \in 1..n : i < j =>
             \A x \in ToSet(s[i]), y \in ToSet(s[j]) : Before(own[x], own[y])
  BY DEF PartsInOrder
<1> HIDE DEF n
<1> DEFINE Good(m) == /\ f[m] \in Seq(S) /\ OwnsInOrder(f[m], own)
                      /\ \A x \in ToSet(f[m]) : \E i \in 1..m : x \in ToSet(s[i])
           Bad == {m \in 1..n : ~Good(m)}
<1>3. Bad = {}
  <2> SUFFICES ASSUME Bad # {}
               PROVE  FALSE
    OBVIOUS
  <2>1. Bad \in SUBSET Nat
    BY <1>0
  <2> HIDE DEF Bad
  <2>2. PICK m \in Bad : \A k \in Bad : m <= k
    BY <2>1, LeastElement
  <2>3. m \in 1..n /\ ~Good(m)
    BY <2>2 DEF Bad
  <2>4. CASE m = 1
    <3>1. f[1] = s[1] /\ s[1] \in Seq(S) /\ OwnsInOrder(s[1], own) /\ 1 \in 1..1
      BY <1>0, <1>1, <1>2, <2>3, <2>4
    <3>2. Good(1)
      BY <3>1
    <3> QED
      BY <2>3, <2>4, <3>2
  <2>5. CASE m # 1
    <3>1. /\ m - 1 \in 1..n /\ m - 1 \notin Bad
          /\ \A i \in 1..(m - 1) : i \in 1..m /\ i \in 1..n /\ i < m
      BY <1>0, <2>1, <2>2, <2>3, <2>5
    <3>2. Good(m - 1)
      BY <3>1 DEF Bad
    <3>3. f[m] = f[m - 1] \o s[m] /\ s[m] \in Seq(S) /\ OwnsInOrder(s[m], own)
      BY <1>0, <1>1, <1>2, <2>3, <2>5
    <3>4. \A x \in ToSet(f[m - 1]), y \in ToSet(s[m]) : Before(own[x], own[y])
      BY <1>2, <2>3, <3>1, <3>2
    <3>5. /\ f[m] \in Seq(S) /\ OwnsInOrder(f[m], own)
          /\ ToSet(f[m]) = ToSet(f[m - 1]) \cup ToSet(s[m])
      <4>1. PICK a, b : a = f[m - 1] /\ b = s[m]
        OBVIOUS
      <4>2. /\ a \in Seq(S) /\ b \in Seq(S) /\ OwnsInOrder(a, own) /\ OwnsInOrder(b, own)
            /\ \A x \in ToSet(a), y \in ToSet(b) : Before(own[x], own[y])
        BY <3>2, <3>3, <3>4, <4>1
      <4>3. /\ a \o b \in Seq(S) /\ OwnsInOrder(a \o b, own)
            /\ ToSet(a \o b) = ToSet(a) \cup ToSet(b)
        BY <4>2, ConcatInOrder
      <4> QED
        BY <3>3, <4>1, <4>3
    <3>6. m \in 1..m
      BY <1>0, <2>3
    <3>7. Good(m)
      BY <3>1, <3>2, <3>5, <3>6
    <3> QED
      BY <2>3, <3>7
  <2> QED
    BY <2>4, <2>5
<1>4. n \in 1..n
  BY <1>0
<1> QED
  BY <1>1, <1>3, <1>4
(* The blocks that an index node lists are in the order of what they own.  *)
LEMMA ChildrenInOrder ==
    ASSUME NEW lev, Inv(lev), NEW own, Ord(own), ~Inserting,
           NEW o \in Offsets, IsInternal(o)
    PROVE  /\ Children(o) \in Seq(Offsets) /\ OwnsInOrder(Children(o), own)
           /\ \A x \in ToSet(Children(o)) : own[x] \subseteq own[o]
<1> DEFINE c == disk[o].children
           n == Len(c)
<1>1. /\ n \in Nat \ {0} /\ DOMAIN c = 1..n
      /\ \A i \in 1..n : c[i].child \in Offsets
  BY InternalFacts
<1>2. Region(own) = own
  BY DEF Region, Ord
<1>3. IndexOrder(c, own[o], own)
  BY <1>2 DEF Ord
<1>4. Children(o) = [i \in 1..n |-> c[i].child]
  BY <1>1 DEF Children
<1>5. own[o] \subseteq Nat
  BY KeysAssumption DEF Ord
<1> HIDE DEF c, n
<1>6. Children(o) \in Seq(Offsets) /\ Len(Children(o)) = n
  <2>1. Children(o) \in Seq(Offsets)
    BY <1>1, <1>4, IsASeq
  <2>2. PICK s : s = Children(o)
    OBVIOUS
  <2>3. DOMAIN s = 1..n
    BY <1>4, <2>2
  <2>4. s \in Seq(Offsets)
    BY <2>1, <2>2
  <2>5. DOMAIN s = 1..Len(s) /\ Len(s) \in Nat
    BY <2>4
  <2>6. Len(s) = n
    BY <1>1, <2>3, <2>5
  <2> QED
    BY <2>1, <2>2, <2>6
<1>7. \A i \in 1..n : own[Children(o)[i]] = {x \in own[o] : Within(c, i, x)}
  BY <1>3, <1>4 DEF IndexOrder, n
<1>8. ASSUME NEW i \in 1..n, NEW j \in 1..n, i < j,
             NEW x \in own[Children(o)[i]], NEW y \in own[Children(o)[j]]
      PROVE  x < y
  <2>1. i \in i..(n - 1) /\ i \in 1..(j - 1) /\ i \in 1..(n - 1)
    BY <1>1, <1>8
  <2>2. Within(c, i, x) /\ Within(c, j, y) /\ x \in Nat /\ y \in Nat
    BY <1>5, <1>7
  <2>3. x < c[i].key /\ c[i].key <= y
    BY <2>1, <2>2 DEF Within, n
  <2>4. c[i].key \in Nat
    BY <1>3, <1>5, <2>1 DEF IndexOrder, n
  <2> QED
    BY <2>2, <2>3, <2>4
<1>9. OwnsInOrder(Children(o), own)
  BY <1>6, <1>8 DEF OwnsInOrder, Before
<1>10. ASSUME NEW x \in ToSet(Children(o))
       PROVE  own[x] \subseteq own[o]
  <2>1. PICK i \in 1..n : Children(o)[i] = x
    BY <1>4 DEF ToSet
  <2> QED
    BY <1>7, <2>1
<1> QED
  BY <1>6, <1>9, <1>10

(* What the children of an ordered row make. *)
LEMMA RowStepInOrder ==
    ASSUME NEW lev, Inv(lev), NEW own, Ord(own), ~Inserting, NEW k \in 1..meta.height,
           NEW row \in Seq(Level(lev, k)), Len(row) # 0, OwnsInOrder(row, own)
    PROVE  OwnsInOrder(RowUnder(row), own)
<1> DEFINE n == Len(row)
           kids == [j \in DOMAIN row |-> Children(row[j])]
<1>0. n \in Nat \ {0} /\ DOMAIN row = 1..n
  OBVIOUS
<1>1. \A j \in 1..n : row[j] \in Offsets /\ IsInternal(row[j])
  <2> SUFFICES ASSUME NEW j \in 1..n
               PROVE  row[j] \in Offsets /\ IsInternal(row[j])
    OBVIOUS
  <2>1. row[j] \in Level(lev, k)
    OBVIOUS
  <2>2. meta.height \in Nat
    BY DEF Inv, MetaOK
  <2>3. row[j] \in Offsets /\ lev[row[j]] > 0
    BY <2>1, <2>2 DEF Level
  <2> QED
    BY <2>3, IndexFacts
<1>2. \A j \in 1..n : /\ Children(row[j]) \in Seq(Offsets)
                      /\ OwnsInOrder(Children(row[j]), own)
                      /\ \A x \in ToSet(Children(row[j])) : own[x] \subseteq own[row[j]]
  BY <1>1, ChildrenInOrder
<1>3. \A i, j \in 1..n : i < j => Before(own[row[i]], own[row[j]])
  BY DEF OwnsInOrder
<1> HIDE DEF n
<1>4. /\ kids \in Seq(Seq(Offsets)) /\ Len(kids) = n
      /\ \A j \in 1..n : kids[j] = Children(row[j])
  <2>1. kids = [j \in 1..n |-> Children(row[j])]
    BY <1>0
  <2>2. kids \in Seq(Seq(Offsets))
    <3> HIDE DEF kids
    <3> QED
      BY <1>0, <1>2, <2>1, IsASeq
  <2>3. DOMAIN kids = 1..n /\ DOMAIN kids = 1..Len(kids)
    <3>1. DOMAIN kids = 1..n
      BY <2>1
    <3> HIDE DEF kids
    <3> QED
      BY <2>2, <3>1
  <2> HIDE DEF kids
  <2>4. Len(kids) \in Nat
    BY <2>2
  <2>5. Len(kids) = n
    BY <1>0, <2>3, <2>4
  <2> QED
    BY <2>1, <2>2, <2>5
<1>5. RowUnder(row) = FlattenSeq(kids)
  BY DEF RowUnder
<1> HIDE DEF kids
<1>6. ASSUME NEW i \in 1..n, NEW j \in 1..n, i < j,
             NEW x \in ToSet(kids[i]), NEW y \in ToSet(kids[j])
      PROVE  Before(own[x], own[y])
  <2>1. own[x] \subseteq own[row[i]] /\ own[y] \subseteq own[row[j]]
    BY <1>2, <1>4
  <2> QED
    BY <1>3, <1>6, <2>1 DEF Before
<1>7. PartsInOrder(kids, own)
  BY <1>2, <1>4, <1>6 DEF PartsInOrder
<1> QED
  BY <1>0, <1>4, <1>5, <1>7, FlattenInOrder

(* The leaves, in the order of the chain and of what they own. *)
LeafList(row, own) ==
    /\ row \in Seq(Offsets) /\ Len(row) # 0
    /\ \A j \in 1..Len(row) :
           /\ IsLeaf(row[j])
           /\ disk[row[j]].next = IF j = Len(row) THEN 0 ELSE row[j + 1]
    /\ \A o \in Leaves : \E j \in 1..Len(row) : row[j] = o
    /\ \A i, j \in 1..Len(row) : row[i] = row[j] => i = j
    /\ Ord(own) /\ OwnsInOrder(row, own)

LEMMA RowsInOrder ==
    ASSUME NEW lev, Inv(lev), LinkInv, RowInv, ~Inserting, NEW own, Ord(own),
           NEW i \in 0..meta.height
    PROVE  OwnsInOrder(Rows[i], own)
<1> DEFINE h == meta.height
           Bad == {k \in 0..h : ~OwnsInOrder(Rows[k], own)}
<1>0. h \in Nat
  BY DEF Inv, MetaOK
<1>1. \A k \in 0..h : Rows[k] \in Seq(Level(lev, h - k)) /\ WholeRow(Rows[k])
  BY RowsWhole
<1>2. \A k \in 0..h : Rows[k] = IF k = 0 THEN <<meta.root_offset>>
                                ELSE RowUnder(Rows[k - 1])
  BY RowsUnfold
<1>3. Bad = {}
  <2> SUFFICES ASSUME Bad # {}
               PROVE  FALSE
    OBVIOUS
  <2>1. Bad \in SUBSET Nat
    BY <1>0
  <2> HIDE DEF Bad
  <2>2. PICK m \in Bad : \A k \in Bad : m <= k
    BY <2>1, LeastElement
  <2>3. m \in 0..h /\ ~OwnsInOrder(Rows[m], own)
    BY <2>2 DEF Bad
  <2>4. CASE m = 0
    <3>1. Rows[0] = <<meta.root_offset>>
      BY <1>2, <2>3, <2>4
    <3>2. Len(Rows[0]) = 1
      BY <3>1
    <3>3. \A x, y \in 1..1 : ~(x < y)
      OBVIOUS
    <3> QED
      BY <2>3, <2>4, <3>2, <3>3 DEF OwnsInOrder
  <2>5. CASE m # 0
    <3>1. /\ m - 1 \in 0..h /\ m - 1 \notin Bad /\ h - (m - 1) \in 1..h
      BY <1>0, <2>1, <2>2, <2>3, <2>5
    <3>2. PICK row, k : row = Rows[m - 1] /\ k = h - (m - 1)
      OBVIOUS
    <3>3. OwnsInOrder(row, own)
      BY <3>1, <3>2 DEF Bad
    <3>4. row \in Seq(Level(lev, k)) /\ k \in 1..h /\ Len(row) # 0
      BY <1>1, <3>1, <3>2 DEF WholeRow, Threaded
    <3>5. OwnsInOrder(RowUnder(row), own)
      BY <3>3, <3>4, RowStepInOrder
    <3> QED
      BY <1>2, <2>3, <2>5, <3>2, <3>5
  <2> QED
    BY <2>4, <2>5
<1> QED
  BY <1>3

(* Between calls there is such a list. *)
LEMMA LeavesInOrder ==
    ASSUME MapInv, RowInv, ~Inserting
    PROVE  \E row, own : LeafList(row, own)
<1>1. PICK lev : Inv(lev)
  BY DEF MapInv, IInv
<1>2. PICK own : Ord(own)
  BY DEF MapInv, OrdInv
<1> DEFINE h == meta.height
<1>3. h \in Nat /\ h \in 0..h /\ h - h = 0
  BY <1>1 DEF Inv, MetaOK
<1>4. PICK row : row = Rows[h]
  OBVIOUS
<1>5. /\ row \in Seq(Level(lev, 0)) /\ WholeRow(row) /\ ToSet(row) = Level(lev, 0)
  BY <1>1, <1>3, <1>4, RowsWhole DEF MapInv
<1>6. OwnsInOrder(row, own)
  BY <1>1, <1>2, <1>3, <1>4, RowsInOrder DEF MapInv
<1>7. row \in Seq(Offsets) /\ Len(row) # 0
  BY <1>5 DEF Level, WholeRow, Threaded
<1>8. \A j \in 1..Len(row) : IsLeaf(row[j])
  <2> SUFFICES ASSUME NEW j \in 1..Len(row)
               PROVE  IsLeaf(row[j])
    OBVIOUS
  <2>1. row[j] \in Level(lev, 0)
    BY <1>5
  <2> QED
    BY <1>1, <2>1 DEF Level, Inv, BlockOK
<1>9. \A i, j \in 1..Len(row) : row[i] = row[j] => i = j
  BY <1>1, <1>5, <1>7, <1>8, LeafRow DEF MapInv
<1>10. \A j \in 1..Len(row) :
           disk[row[j]].next = IF j = Len(row) THEN 0 ELSE row[j + 1]
  BY <1>1, <1>5, <1>7, RowPrev
<1>11. ASSUME NEW o \in Leaves
       PROVE  \E j \in 1..Len(row) : row[j] = o
  <2>1. o \in Offsets /\ IsLeaf(o)
    BY DEF Leaves
  <2>2. o \in Level(lev, 0)
    BY <1>1, <2>1 DEF Level, Inv, BlockOK
  <2> QED
    BY <1>5, <1>7, <2>2 DEF ToSet
<1> QED
  BY <1>2, <1>6, <1>7, <1>8, <1>9, <1>10, <1>11 DEF LeafList
-----------------------------------------------------------------------------
(* The descent of search_leaf, between calls. *)
LEMMA ChildOwns ==
    ASSUME NEW lev, Inv(lev), NEW own, Ord(own), ~Inserting,
           NEW o \in Offsets, lev[o] > 0, NEW key \in Keys, key \in own[o]
    PROVE  LET x == disk[o].children[find_index(disk[o], key)].child
           IN  x \in Offsets /\ lev[x] = lev[o] - 1 /\ key \in own[x]
<1> DEFINE c == disk[o].children
           i == find_index(disk[o], key)
<1>1. /\ i \in 1..Len(c) /\ c[i].child \in Offsets
      /\ lev[c[i].child] = lev[o] - 1
  BY Descend
<1>2. /\ IsInternal(o) /\ Len(c) \in 1..ORDER /\ RealSeparators(Keys, c)
  BY IndexFacts
<1>3. \A j \in 1..(Len(c) - 1) : c[j].key \in Nat
  BY <1>2, KeysAssumption DEF RealSeparators
<1>4. Len(c) \in Nat \ {0}
  BY <1>2, OrderAssumption
<1>5. Region(own) = own
  BY DEF Region, Ord
<1>6. IndexOrder(c, own[o], own)
  BY <1>2, <1>5 DEF Ord
<1>7. Within(c, i, key)
  <2>1. SortedTo(c, Len(c) - 1) /\ key \in Nat
    BY <1>6, KeysAssumption DEF IndexOrder
  <2> HIDE DEF c
  <2>2. LET u == upper_bound(c, Len(c) - 1, key)
        IN  u \in 1..Len(c) /\ Within(c, u, key)
    BY <1>3, <1>4, <2>1, FoundWithin
  <2> QED
    BY <2>2 DEF find_index, c
<1> HIDE DEF c, i
<1>8. key \in own[c[i].child]
  BY <1>1, <1>6, <1>7 DEF IndexOrder
<1> QED
  BY <1>1, <1>8 DEF c, i

(* It ends at the leaf that owns the key. *)
LEMMA LeafForOwns ==
    ASSUME NEW lev, Inv(lev), NEW own, Ord(own), ~Inserting, NEW key \in Keys
    PROVE  LeafFor(key) \in Leaves /\ key \in own[LeafFor(key)]
<1> DEFINE n == meta.height
           down(o) == disk[o].children[find_index(disk[o], key)].child
           Is(f, m) == f = [k \in 0..m |-> IF k = 0 THEN meta.root_offset ELSE down(f[k - 1])]
           Bad == {m \in 0..n : ~\E f : Is(f, m)}
<1>0. n \in Nat
  BY DEF Inv, MetaOK
<1>1. \E f : Is(f, n)
  <2>0. n \in 0..n
    BY <1>0
  <2> HIDE DEF n, down, Is
  <2> SUFFICES ASSUME Bad # {}
               PROVE  FALSE
    BY <2>0
  <2>1. Bad \in SUBSET Nat
    OBVIOUS
  <2> HIDE DEF Bad
  <2>2. PICK m \in Bad : \A k \in Bad : m <= k
    BY <2>1, LeastElement
  <2>3. m \in 0..n /\ ~\E f : Is(f, m)
    BY <2>2 DEF Bad
  <2> USE DEF Is
  <2>4. CASE m = 0
    <3> DEFINE g == [k \in 0..0 |-> meta.root_offset]
    <3>1. g = [k \in 0..0 |-> IF k = 0 THEN meta.root_offset ELSE down(g[k - 1])]
      OBVIOUS
    <3> QED
      BY <2>3, <2>4, <3>1
  <2>5. CASE m # 0
    <3>1. m - 1 \in 0..n /\ m - 1 \notin Bad
      BY <1>0, <2>1, <2>2, <2>3, <2>5
    <3>2. PICK f : Is(f, m - 1)
      BY <3>1 DEF Bad
    <3> DEFINE g == [k \in 0..m |-> IF k < m THEN f[k] ELSE down(f[m - 1])]
    <3>3. \A k \in 0..(m - 1) : f[k] = IF k = 0 THEN meta.root_offset ELSE down(f[k - 1])
      BY <3>2
    <3>4. \A k \in 0..m : g[k] = IF k = 0 THEN meta.root_offset ELSE down(g[k - 1])
      BY <1>0, <2>3, <2>5, <3>3
    <3>5. g = [k \in 0..m |-> IF k = 0 THEN meta.root_offset ELSE down(g[k - 1])]
      <4>1. g = [k \in 0..m |-> g[k]]
        OBVIOUS
      <4> HIDE DEF g
      <4> QED
        BY <3>4, <4>1
    <3> QED
      BY <2>3, <3>5
  <2> QED
    BY <2>4, <2>5
<1> DEFINE org == CHOOSE f : Is(f, n)
<1>2. Is(org, n)
  BY <1>1
<1>3. LeafFor(key) = org[n]
  BY DEF LeafFor
<1>4. \A k \in 0..n : org[k] = IF k = 0 THEN meta.root_offset ELSE down(org[k - 1])
  BY <1>2
<1> HIDE DEF org, Is, Bad
<1> DEFINE Good(k) == org[k] \in Offsets /\ lev[org[k]] = n - k /\ key \in own[org[k]]
           Odd == {k \in 0..n : ~Good(k)}
<1>5. Odd = {}
  <2> SUFFICES ASSUME Odd # {}
               PROVE  FALSE
    OBVIOUS
  <2>1. Odd \in SUBSET Nat
    OBVIOUS
  <2> HIDE DEF Odd
  <2>2. PICK m \in Odd : \A k \in Odd : m <= k
    BY <2>1, LeastElement
  <2>3. m \in 0..n /\ ~Good(m)
    BY <2>2 DEF Odd
  <2>4. m # 0
    <3>1. org[0] = meta.root_offset
      BY <1>0, <1>4
    <3>2. meta.root_offset \in Offsets /\ lev[meta.root_offset] = n /\ n - 0 = n
      BY <1>0 DEF Inv, MetaOK
    <3>3. key \in own[meta.root_offset]
      BY <3>2 DEF Ord, Region
    <3> QED
      BY <2>3, <3>1, <3>2, <3>3
  <2>5. m - 1 \in 0..n /\ m - 1 \notin Odd
    BY <1>0, <2>1, <2>2, <2>3, <2>4
  <2>6. Good(m - 1) /\ org[m] = down(org[m - 1])
    BY <1>4, <2>3, <2>4, <2>5 DEF Odd
  <2>7. n - (m - 1) > 0 /\ (n - (m - 1)) - 1 = n - m
    BY <1>0, <2>3, <2>4
  <2>8. down(org[m - 1]) \in Offsets /\ lev[down(org[m - 1])] = lev[org[m - 1]] - 1
        /\ key \in own[down(org[m - 1])]
    BY <2>6, <2>7, ChildOwns
  <2> HIDE DEF down, n
  <2> QED
    BY <2>3, <2>6, <2>7, <2>8
<1>6. Good(n)
  BY <1>0, <1>5
<1>7. IsLeaf(org[n])
  <2>1. lev[org[n]] = 0
    BY <1>0, <1>6
  <2> QED
    BY <1>6, <2>1 DEF Inv, BlockOK
<1> HIDE DEF n
<1> QED
  BY <1>3, <1>6, <1>7 DEF Leaves
-----------------------------------------------------------------------------
(* What a call has copied: v is the beginning of the records G of the       *)
(* range, in the order of their keys ...                                    *)
Begins(v, G) ==
    /\ SortedTo(v, Len(v))
    /\ \A i \in 1..Len(v) : v[i] \in G
    /\ \A x \in G : \A i \in 1..Len(v) :
           x.key < v[i].key => \E j \in 1..Len(v) : v[j] = x

(* ... it has those of A, and r is the first record it does not have.      *)
HasAll(v, A) == \A x \in A : \E j \in 1..Len(v) : v[j] = x

FirstMissing(v, G, r) ==
    /\ r \in G
    /\ \A i \in 1..Len(v) : v[i].key < r.key
    /\ \A x \in G : r.key <= x.key \/ \E j \in 1..Len(v) : v[j] = x

(* n records of c, from entry first on, appended to v. *)
LEMMA AppendedPart ==
    ASSUME NEW R, NEW v \in Seq(R), NEW c \in Seq(R), NEW first \in 1..(Len(c) + 1),
           NEW n \in Nat, first + n <= Len(c) + 1
    PROVE  LET v2 == v \o SubSeq(c, first, first + n - 1) IN
           /\ v2 \in Seq(R) /\ Len(v2) = Len(v) + n
           /\ \A i \in 1..Len(v) : v2[i] = v[i]
           /\ \A i \in 1..n : v2[Len(v) + i] = c[first + i - 1]
<1> DEFINE s == SubSeq(c, first, first + n - 1)
           m == Len(v)
           v2 == v \o s
<1>0. m \in Nat /\ Len(c) \in Nat
  OBVIOUS
<1>1. /\ s \in Seq(R) /\ Len(s) = n
      /\ \A i \in 1..n : s[i] = c[first + i - 1]
  <2>1. /\ s \in Seq(R)
        /\ Len(s) = IF first <= first + n - 1 THEN (first + n - 1) - first + 1 ELSE 0
        /\ \A i \in 1..Len(s) : s[i] = c[first + i - 1]
    <3>1. \A i \in first..(first + n - 1) : i \in 1..Len(c)
      BY <1>0
    <3>2. \A i \in first..(first + n - 1) : c[i] \in R
      BY <3>1
    <3>3. first \in Int /\ first + n - 1 \in Int
      BY <1>0
    <3> QED
      BY <3>1, <3>2, <3>3, SubSeqProperties
  <2> HIDE DEF s
  <2>2. Len(s) = n
    BY <1>0, <2>1
  <2> QED
    BY <2>1, <2>2
<1> HIDE DEF s
<1>2. /\ v2 \in Seq(R) /\ Len(v2) = m + n
      /\ \A i \in 1..(m + n) : v2[i] = IF i <= m THEN v[i] ELSE s[i - m]
  BY <1>1, ConcatProperties
<1> HIDE DEF v2, m
<1>3. ASSUME NEW i \in 1..m
      PROVE  v2[i] = v[i]
  <2>1. i \in 1..(m + n) /\ i <= m
    BY <1>0
  <2> QED
    BY <1>2, <2>1
<1>4. ASSUME NEW i \in 1..n
      PROVE  v2[m + i] = c[first + i - 1]
  <2>1. m + i \in 1..(m + n) /\ ~(m + i <= m) /\ (m + i) - m = i
    BY <1>0
  <2> QED
    BY <1>1, <1>2, <2>1
<1> QED
  BY <1>2, <1>3, <1>4 DEF v2, m, s

(* The next part of the range: c[first..past - 1] are the records of the   *)
(* range in one leaf, A those in the leaves before, which are copied, and  *)
(* C those in the leaves behind.                                           *)
Parting(c, first, past, G, A, C) ==
    /\ first \in 1..(Len(c) + 1) /\ past \in first..(Len(c) + 1)
    /\ \A x \in G : x.key \in Nat
    /\ SortedTo(c, Len(c))
    /\ \A i \in first..(past - 1) : c[i] \in G
    /\ \A x \in G : x \in A \/ x \in C \/ \E i \in first..(past - 1) : c[i] = x
    /\ \A x \in A : \A i \in first..(past - 1) : x.key < c[i].key
    /\ \A x \in C : \A i \in first..(past - 1) : c[i].key < x.key
    /\ A \subseteq G /\ C \subseteq G /\ \A x \in A, y \in C : x.key < y.key

Until(v, G, A) == Begins(v, G) /\ HasAll(v, A) /\ \A i \in 1..Len(v) : v[i] \in A

Appends(v2, v, c, first, n) == v2 = v \o SubSeq(c, first, first + n - 1)

PartCopied(R, v, c, G, A, C, first, past, n, v2) ==
    /\ v \in Seq(R) /\ c \in Seq(R)
    /\ Parting(c, first, past, G, A, C) /\ Until(v, G, A)
    /\ n \in 0..(past - first) /\ Appends(v2, v, c, first, n)

LEMMA CopiedPart ==
    ASSUME NEW R, NEW v, NEW c, NEW G, NEW A, NEW C, NEW first, NEW past, NEW n, NEW v2,
           PartCopied(R, v, c, G, A, C, first, past, n, v2)
    PROVE  /\ v2 \in Seq(R) /\ Len(v2) = Len(v) + n /\ Begins(v2, G) /\ HasAll(v2, A)
           /\ \A i \in 1..Len(v2) : \/ v2[i] \in A
                                    \/ \E j \in first..(past - 1) : v2[i] = c[j]
           /\ n = past - first =>
                  \A j \in first..(past - 1) : \E i \in 1..Len(v2) : v2[i] = c[j]
           /\ n # past - first =>
                  first + n \in first..(past - 1) /\ FirstMissing(v2, G, c[first + n])
<1> DEFINE m == Len(v)
<1> HIDE DEF m
<1> /\ v \in Seq(R) /\ c \in Seq(R)
    /\ Parting(c, first, past, G, A, C) /\ Until(v, G, A)
    /\ n \in 0..(past - first) /\ v2 = v \o SubSeq(c, first, first + n - 1)
  BY Zenon DEF PartCopied, Appends
<1> /\ first \in 1..(Len(c) + 1) /\ past \in first..(Len(c) + 1)
    /\ \A x \in G : x.key \in Nat
    /\ SortedTo(c, Len(c))
    /\ \A i \in first..(past - 1) : c[i] \in G
    /\ \A x \in G : x \in A \/ x \in C \/ \E i \in first..(past - 1) : c[i] = x
    /\ \A x \in A : \A i \in first..(past - 1) : x.key < c[i].key
    /\ \A x \in C : \A i \in first..(past - 1) : c[i].key < x.key
    /\ A \subseteq G /\ C \subseteq G /\ \A x \in A, y \in C : x.key < y.key
  BY Zenon DEF Parting
<1> Begins(v, G) /\ HasAll(v, A) /\ \A i \in 1..Len(v) : v[i] \in A
  BY Zenon DEF Until
<1> USE DEF m
<1>0. m \in Nat /\ Len(c) \in Nat /\ first + n <= Len(c) + 1 /\ n \in Nat
  OBVIOUS
<1>1. /\ v2 \in Seq(R) /\ Len(v2) = m + n
      /\ \A i \in 1..m : v2[i] = v[i]
      /\ \A i \in 1..n : v2[m + i] = c[first + i - 1]
  <2>1. LET w == v \o SubSeq(c, first, first + n - 1) IN
        /\ w \in Seq(R) /\ Len(w) = Len(v) + n
        /\ \A i \in 1..Len(v) : w[i] = v[i]
        /\ \A i \in 1..n : w[Len(v) + i] = c[first + i - 1]
    <3> HIDE DEF m
    <3> QED
      BY <1>0, AppendedPart
  <2> QED
    BY <2>1, Zenon
<1>2. /\ \A i \in 1..m : v[i] \in A
      /\ \A i, j \in 1..m : i < j => v[i].key < v[j].key
      /\ \A i, j \in 1..Len(c) : i < j => c[i].key < c[j].key
  BY DEF Begins, SortedTo
<1>3. \A x \in G : \A i \in 1..m : x.key < v[i].key => \E j \in 1..m : v[j] = x
  BY DEF Begins
<1>4. \A x \in A : \E j \in 1..m : v[j] = x
  BY DEF HasAll
<1> HIDE DEF m
<1>5. \A i \in 1..(m + n) : i \in 1..m \/ \E k \in 1..n : i = m + k
  <2> SUFFICES ASSUME NEW i \in 1..(m + n), i \notin 1..m
               PROVE  \E k \in 1..n : i = m + k
    OBVIOUS
  <2>1. i - m \in 1..n /\ i = m + (i - m)
    BY <1>0
  <2> QED
    BY <2>1
<1>6. \A k \in 1..n : first + k - 1 \in first..(past - 1) /\ m + k \in 1..(m + n)
  BY <1>0
<1>7. \A i \in 1..m : i \in 1..(m + n)
  BY <1>0
<1>8. \A i \in 1..(m + n) : \/ i \in 1..m /\ v2[i] = v[i] /\ v2[i] \in A
                            \/ \E k \in 1..n : /\ i = m + k /\ v2[i] = c[first + k - 1]
                                               /\ first + k - 1 \in first..(past - 1)
  BY <1>1, <1>2, <1>5, <1>6
<1>9. ASSUME NEW i \in 1..(m + n), NEW j \in 1..(m + n), i < j
      PROVE  v2[i].key < v2[j].key
  <2>1. CASE j \in 1..m
    <3>1. i \in 1..m
      BY <1>0, <1>9, <2>1
    <3> QED
      BY <1>1, <1>2, <1>9, <2>1, <3>1
  <2>2. CASE i \in 1..m /\ j \notin 1..m
    BY <1>0, <1>1, <1>2, <1>8, <2>2
  <2>3. CASE i \notin 1..m
    <3>1. PICK k \in 1..n : i = m + k /\ v2[i] = c[first + k - 1]
      BY <1>8, <2>3
    <3>2. j \notin 1..m
      BY <1>0, <1>9, <2>3
    <3>3. PICK l \in 1..n : j = m + l /\ v2[j] = c[first + l - 1]
      BY <1>8, <3>2
    <3>4. /\ first + k - 1 \in 1..Len(c) /\ first + l - 1 \in 1..Len(c)
          /\ first + k - 1 < first + l - 1
      BY <1>0, <1>9, <3>1, <3>3
    <3> QED
      BY <1>2, <3>1, <3>3, <3>4
  <2> QED
    BY <2>1, <2>2, <2>3
<1>10. ASSUME NEW x \in G, NEW i \in 1..(m + n), x.key < v2[i].key
       PROVE  \E j \in 1..(m + n) : v2[j] = x
  <2>1. CASE i \in 1..m
    BY <1>1, <1>3, <1>7, <1>10, <2>1
  <2>2. CASE i \notin 1..m
    <3>1. PICK k \in 1..n, p \in first..(past - 1) : p = first + k - 1 /\ v2[i] = c[p]
      BY <1>8, <2>2
    <3>2. c[p] \in G /\ x.key < c[p].key
      BY <1>10, <3>1
    <3>3. x.key \in Nat /\ c[p].key \in Nat
      BY <3>2
    <3>4. x \notin C
      <4> SUFFICES ASSUME x \in C
                   PROVE  FALSE
        OBVIOUS
      <4>1. c[p].key < x.key
        OBVIOUS
      <4> QED
        BY <3>2, <3>3, <4>1
    <3>5. CASE x \in A
      BY <1>1, <1>4, <1>7, <3>5
    <3>6. CASE x \notin A
      <4>1. PICK q \in first..(past - 1) : c[q] = x
        BY <3>4, <3>6
      <4>2. q < first + k - 1
        <5>1. q \in 1..Len(c) /\ p \in 1..Len(c)
          BY <1>0
        <5>2. q > p => c[p].key < c[q].key
          BY <1>2, <5>1
        <5>3. ~(q > p) /\ q # p
          BY <3>2, <3>3, <4>1, <5>2
        <5> QED
          BY <3>1, <5>1, <5>3
      <4>3. q - first + 1 \in 1..n /\ first + (q - first + 1) - 1 = q
        BY <1>0, <4>1, <4>2
      <4>4. v2[m + (q - first + 1)] = x
        BY <1>1, <4>1, <4>3
      <4> QED
        BY <1>6, <4>3, <4>4
    <3> QED
      BY <3>5, <3>6
  <2> QED
    BY <2>1, <2>2
<1>11. \A i \in 1..(m + n) : v2[i] \in G
  BY <1>8
<1>12. Begins(v2, G)
  BY <1>1, <1>9, <1>10, <1>11 DEF Begins, SortedTo
<1>13. HasAll(v2, A)
  BY <1>1, <1>4, <1>7 DEF HasAll
<1>14. ASSUME n = past - first, NEW j \in first..(past - 1)
       PROVE  \E i \in 1..(m + n) : v2[i] = c[j]
  <2>1. j - first + 1 \in 1..n /\ first + (j - first + 1) - 1 = j
    BY <1>0, <1>14
  <2>2. v2[m + (j - first + 1)] = c[j]
    BY <1>1, <2>1
  <2> QED
    BY <1>6, <2>1, <2>2
<1>15. ASSUME n # past - first
       PROVE  first + n \in first..(past - 1) /\ FirstMissing(v2, G, c[first + n])
  <2>1. first + n \in first..(past - 1) /\ first + n \in 1..Len(c)
    BY <1>0, <1>15
  <2>2. c[first + n] \in G
    BY <2>1
  <2>3. ASSUME NEW i \in 1..(m + n)
        PROVE  v2[i].key < c[first + n].key
    <3>1. CASE i \in 1..m
      BY <1>1, <1>2, <2>1, <3>1
    <3>2. CASE i \notin 1..m
      <4>1. PICK k \in 1..n : v2[i] = c[first + k - 1]
        BY <1>8, <3>2
      <4>2. first + k - 1 \in 1..Len(c) /\ first + k - 1 < first + n
        <5>1. k \in Nat /\ 1 <= k /\ k <= n
          BY <1>0
        <5> QED
          BY <1>0, <2>1, <5>1
      <4> QED
        BY <1>2, <2>1, <4>1, <4>2
    <3> QED
      BY <3>1, <3>2
  <2>4. ASSUME NEW x \in G, ~(c[first + n].key <= x.key)
        PROVE  \E j \in 1..(m + n) : v2[j] = x
    <3>1. x.key \in Nat /\ c[first + n].key \in Nat /\ x.key < c[first + n].key
      BY <2>2, <2>4
    <3>2. x \notin C
      BY <2>1, <3>1
    <3>3. CASE x \in A
      BY <1>1, <1>4, <1>7, <3>3
    <3>4. CASE x \notin A
      <4>1. PICK q \in first..(past - 1) : c[q] = x
        BY <3>2, <3>4
      <4>2. q < first + n
        <5>1. q \in 1..Len(c)
          BY <1>0
        <5>2. q > first + n => c[first + n].key < c[q].key
          BY <1>2, <2>1, <5>1
        <5> QED
          BY <2>1, <3>1, <4>1, <5>1, <5>2
      <4>3. q - first + 1 \in 1..n /\ first + (q - first + 1) - 1 = q
        BY <1>0, <4>1, <4>2
      <4>4. v2[m + (q - first + 1)] = x
        BY <1>1, <4>1, <4>3
      <4> QED
        BY <1>6, <4>3, <4>4
    <3> QED
      BY <3>3, <3>4
  <2> QED
    BY <1>1, <2>1, <2>2, <2>3, <2>4 DEF FirstMissing
<1> QED
  BY <1>1, <1>8, <1>12, <1>13, <1>14, <1>15 DEF m
-----------------------------------------------------------------------------
(* The tree between calls, as search_range sees it: row lists the leaves    *)
(* of the blocks D, which hold the records X in the order of their keys;    *)
(* the descent for k ends in F[k], between the smaller keys and the greater *)
(* ones.                                                                    *)
RecordsOf(D, o) == D[o].children

Table(row, D, X, F) ==
    /\ Len(row) \in Nat \ {0} /\ \A p \in 1..Len(row) : row[p] \in Nat \ {0}
    /\ \A p, q \in 1..Len(row) : row[p] = row[q] => p = q
    /\ \A p \in 1..Len(row) : D[row[p]].next = IF p = Len(row) THEN 0 ELSE row[p + 1]
    /\ \A p \in 1..Len(row) :
           LET c == RecordsOf(D, row[p])
           IN  c \in Seq(Records) /\ SortedTo(c, Len(c)) /\ \A i \in 1..Len(c) : c[i] \in X
    /\ X \subseteq Records
    /\ \A x \in X : \E p \in 1..Len(row) : Holds(RecordsOf(D, row[p]), x)
    /\ \A p, q \in 1..Len(row) : p < q =>
           \A x, y : Holds(RecordsOf(D, row[p]), x) /\ Holds(RecordsOf(D, row[q]), y)
                         => x.key < y.key
    /\ \A k \in Keys : \E p \in 1..Len(row) :
           /\ row[p] = F[k]
           /\ \A q \in 1..(p - 1) : \A x : Holds(RecordsOf(D, row[q]), x) => x.key < k
           /\ \A q \in (p + 1)..Len(row) : \A x : Holds(RecordsOf(D, row[q]), x) => k < x.key
    /\ \A k, l \in Keys : k <= l =>
           \A p, q \in 1..Len(row) : row[p] = F[k] /\ row[q] = F[l] => p <= q

Leaf == [k \in Keys |-> LeafFor(k)]

(* Between calls the tree is like that. *)
LEMMA TreeTable ==
    ASSUME MapInv, RowInv, ~Inserting
    PROVE  \E row : Table(row, disk, Stock, Leaf)
<1>1. PICK lev : Inv(lev)
  BY DEF MapInv, IInv
<1>2. PICK row, own : LeafList(row, own)
  BY LeavesInOrder
<1>3. /\ row \in Seq(Offsets) /\ Len(row) # 0 /\ Ord(own) /\ OwnsInOrder(row, own)
      /\ \A j \in 1..Len(row) : IsLeaf(row[j])
      /\ \A j \in 1..Len(row) : disk[row[j]].next = IF j = Len(row) THEN 0 ELSE row[j + 1]
      /\ \A o \in Leaves : \E j \in 1..Len(row) : row[j] = o
      /\ \A i, j \in 1..Len(row) : row[i] = row[j] => i = j
  BY <1>2, Zenon DEF LeafList
<1>4. Len(row) \in Nat \ {0} /\ \A p \in 1..Len(row) : row[p] \in Offsets
  BY <1>3
<1>5. Offsets \subseteq Nat \ {0}
  BY SlotPositive DEF Offsets
<1>6. \A k \in Keys : k \in Nat
  BY KeysAssumption
<1>7. Stock \in SUBSET Records
  BY ContentsIsStock
<1>8. ASSUME NEW p \in 1..Len(row)
      PROVE  LET c == RecordsOf(disk, row[p])
             IN  /\ c \in Seq(Records) /\ SortedTo(c, Len(c))
                 /\ \A i \in 1..Len(c) : c[i] \in Stock
                 /\ \A x : Holds(c, x) => x.key \in own[row[p]]
  <2> DEFINE c == disk[row[p]].children
  <2>1. row[p] \in Offsets /\ IsLeaf(row[p]) /\ row[p] \in Leaves
    BY <1>3, <1>4 DEF Leaves
  <2>2. c \in Seq(Records)
    BY <1>1, <2>1, BlockFacts DEF LeafNodes
  <2>3. LeafOrder(c, own[row[p]])
    BY <1>3, <2>1 DEF Ord
  <2>4. DOMAIN c = 1..Len(c) /\ \A i \in 1..Len(c) : c[i] \in Records
    BY <2>2
  <2>5. \A i \in 1..Len(c) : Holds(c, c[i])
    <3> HIDE DEF c
    <3> QED
      BY <2>4 DEF Holds
  <2>6. \A i \in 1..Len(c) : c[i] \in Stock
    BY <2>1, <2>4, <2>5 DEF Stock
  <2>7. \A x : Holds(c, x) => x.key \in own[row[p]]
    <3> HIDE DEF c
    <3> QED
      BY <2>3, <2>4 DEF Holds, LeafOrder
  <2>8. SortedTo(c, Len(c))
    BY <2>3, Zenon DEF LeafOrder
  <2> QED
    BY <2>2, <2>6, <2>7, <2>8, Zenon DEF RecordsOf
<1>9. ASSUME NEW x \in Stock
      PROVE  \E p \in 1..Len(row) : Holds(RecordsOf(disk, row[p]), x)
  <2>1. PICK o \in Leaves : Holds(disk[o].children, x)
    BY DEF Stock
  <2>2. PICK p \in 1..Len(row) : row[p] = o
    BY <1>3
  <2> QED
    BY <2>1, <2>2 DEF RecordsOf
<1>10. \A p, q \in 1..Len(row) : p < q => Before(own[row[p]], own[row[q]])
  BY <1>3, Zenon DEF OwnsInOrder
<1>11. ASSUME NEW p \in 1..Len(row), NEW q \in 1..Len(row), p < q,
              NEW x, NEW y, Holds(RecordsOf(disk, row[p]), x), Holds(RecordsOf(disk, row[q]), y)
       PROVE  x.key < y.key
  <2>1. x.key \in own[row[p]] /\ y.key \in own[row[q]]
    BY <1>8, <1>11, Zenon
  <2> QED
    BY <1>10, <1>11, <2>1 DEF Before
<1>12. ASSUME NEW k \in Keys
       PROVE  \E p \in 1..Len(row) :
                  /\ row[p] = Leaf[k]
                  /\ \A q \in 1..(p - 1) : \A x :
                         Holds(RecordsOf(disk, row[q]), x) => x.key < k
                  /\ \A q \in (p + 1)..Len(row) : \A x :
                         Holds(RecordsOf(disk, row[q]), x) => k < x.key
  <2>1. LeafFor(k) \in Leaves /\ k \in own[LeafFor(k)] /\ Leaf[k] = LeafFor(k)
    BY <1>1, <1>3, LeafForOwns DEF Leaf
  <2>2. PICK p \in 1..Len(row) : row[p] = LeafFor(k)
    BY <1>3, <2>1
  <2>3. ASSUME NEW q \in 1..(p - 1), NEW x, Holds(RecordsOf(disk, row[q]), x)
        PROVE  x.key < k
    <3>1. q \in 1..Len(row) /\ q < p
      BY <1>4
    <3>2. x.key \in own[row[q]]
      BY <1>8, <2>3, <3>1, Zenon
    <3> QED
      BY <1>10, <2>1, <2>2, <3>1, <3>2 DEF Before
  <2>4. ASSUME NEW q \in (p + 1)..Len(row), NEW x, Holds(RecordsOf(disk, row[q]), x)
        PROVE  k < x.key
    <3>1. q \in 1..Len(row) /\ p < q
      BY <1>4
    <3>2. x.key \in own[row[q]]
      BY <1>8, <2>4, <3>1, Zenon
    <3> QED
      BY <1>10, <2>1, <2>2, <3>1, <3>2 DEF Before
  <2> QED
    BY <2>1, <2>2, <2>3, <2>4
<1>13. /\ \A p \in 1..Len(row) :
              LET c == RecordsOf(disk, row[p])
              IN  c \in Seq(Records) /\ SortedTo(c, Len(c)) /\ \A i \in 1..Len(c) : c[i] \in Stock
       /\ \A p, q \in 1..Len(row) : p < q =>
              \A x, y : Holds(RecordsOf(disk, row[p]), x) /\ Holds(RecordsOf(disk, row[q]), y)
                            => x.key < y.key
  BY <1>8, <1>11, Zenon
<1>14. \A p \in 1..Len(row) : row[p] \in Nat \ {0}
  BY <1>4, <1>5
<1>15. ASSUME NEW k \in Keys, NEW l \in Keys, k <= l,
              NEW p \in 1..Len(row), NEW q \in 1..Len(row), row[p] = Leaf[k], row[q] = Leaf[l]
       PROVE  p <= q
  <2>1. k \in own[row[p]] /\ l \in own[row[q]]
    BY <1>1, <1>3, <1>15, LeafForOwns DEF Leaf
  <2>2. k \in Nat /\ l \in Nat /\ p \in Int /\ q \in Int
    BY KeysAssumption
  <2>3. q < p => l < k
    BY <1>10, <2>1, Zenon DEF Before
  <2>4. k <= l
    BY <1>15, Zenon
  <2>5. ~(l < k)
    BY <2>2, <2>4
  <2> QED
    BY <2>2, <2>3, <2>5
<1>16. \A k, l \in Keys : k <= l =>
           \A p, q \in 1..Len(row) : row[p] = Leaf[k] /\ row[q] = Leaf[l] => p <= q
  BY <1>15, Zenon
<1> QED
  BY <1>3, <1>4, <1>7, <1>9, <1>12, <1>13, <1>14, <1>16, Zenon DEF Table
-----------------------------------------------------------------------------
Span(X, lo, hi) == {x \in X : lo <= x.key /\ x.key <= hi}

(* The records of G in the leaves before and behind position p. *)
Earlier(D, row, p, G) ==
    {x \in G : \E q \in 1..(p - 1) : Holds(RecordsOf(D, row[q]), x)}
Later(D, row, p, G) ==
    {x \in G : \E q \in (p + 1)..Len(row) : Holds(RecordsOf(D, row[q]), x)}

Scans == [at : {"leaves", "mark", "done"}, left : Keys, right : Keys,
          max : Nat \ {0}, off : Nat, values : Seq(Records), b : Nat, e : Nat,
          block : Nat, next : BOOLEAN, from : Keys]

(* The loop is at position p of the leaves, between those to which the two *)
(* ends of the range lead, and has copied what lies before.                *)
Reached(s, D, G, F, row) ==
    \E p \in 1..Len(row) :
        /\ row[p] = s.off
        /\ \E q \in 1..p : row[q] = F[s.from]
        /\ \E q \in p..Len(row) : row[q] = F[s.right]
        /\ Len(s.values) < s.max => HasAll(s.values, Earlier(D, row, p, G))
        /\ \A i \in 1..Len(s.values) : s.values[i] \in Earlier(D, row, p, G)

(* A call at any point: what is copied is the beginning of the range, and  *)
(* when it is as much as fits, entry b of block is the first that is not   *)
(* copied, unless b has reached the end e.                                 *)
ScanOK(s, D, X, F) ==
    LET G == Span(X, s.from, s.right)
        n == Len(s.values)
    IN  /\ s \in Scans /\ s.from <= s.right /\ n <= s.max /\ Begins(s.values, G)
        /\ s.at # "done" =>
               /\ s.left = s.from
               /\ n = s.max /\ s.b # s.e =>
                      FirstMissing(s.values, G, RecordsOf(D, s.block)[s.b])
        /\ s.at = "leaves" => \A row : Table(row, D, X, F) => Reached(s, D, G, F, row)
        /\ s.at # "leaves" /\ n < s.max => HasAll(s.values, G)
        /\ s.at = "done" /\ s.next => \E r \in G : s.left = r.key /\ FirstMissing(s.values, G, r)

(* Entries first to past - 1 of c are those between lo and hi. *)
Bounded(c, lo, hi, first, past) ==
    /\ first \in 1..(Len(c) + 1) /\ past \in first..(Len(c) + 1)
    /\ \A i \in 1..Len(c) : i \in first..(past - 1) <=> lo <= c[i].key /\ c[i].key <= hi

(* The entries from that of lower_bound on, and all, are not less than lo; *)
(* those before that of upper_bound, and all, are not greater than hi.     *)
FirstFrom(c, lo, first) ==
    /\ first \in 1..(Len(c) + 1)
    /\ \A i \in 1..Len(c) : lo <= c[i].key <=> first <= i
PastTo(c, hi, past) ==
    /\ past \in 1..(Len(c) + 1)
    /\ \A i \in 1..Len(c) : c[i].key <= hi <=> i < past

LEMMA LowerIsFirst ==
    ASSUME NEW c \in Seq(Records), SortedTo(c, Len(c)), NEW k \in Keys
    PROVE  FirstFrom(c, k, lower_bound(c, Len(c), k))
<1>1. /\ Len(c) \in Nat /\ k \in Nat
      /\ \A i \in 1..Len(c) : c[i].key \in Nat
  <2>1. \A x \in Records : x.key \in Nat
    BY KeysAssumption DEF Records
  <2> QED
    BY <2>1, KeysAssumption
<1> DEFINE u == lower_bound(c, Len(c), k)
<1>2. /\ u \in 1..(Len(c) + 1)
      /\ \A j \in 1..(u - 1) : c[j].key < k
      /\ u <= Len(c) => k <= c[u].key
  BY <1>1, LowerBound
<1> HIDE DEF u
<1>3. ASSUME NEW i \in 1..Len(c), u <= i
      PROVE  k <= c[i].key
  <2>1. u \in 1..Len(c)
    BY <1>1, <1>2, <1>3
  <2>2. u = i \/ c[u].key < c[i].key
    BY <1>3, <2>1 DEF SortedTo
  <2> QED
    BY <1>1, <1>2, <2>1, <2>2
<1>4. ASSUME NEW i \in 1..Len(c), ~(u <= i)
      PROVE  ~(k <= c[i].key)
  <2>1. i \in 1..(u - 1)
    BY <1>2, <1>4
  <2> QED
    BY <1>1, <1>2, <2>1
<1> QED
  BY <1>2, <1>3, <1>4 DEF FirstFrom, u

LEMMA UpperIsPast ==
    ASSUME NEW c \in Seq(Records), SortedTo(c, Len(c)), NEW k \in Keys
    PROVE  PastTo(c, k, upper_bound(c, Len(c), k))
<1>1. /\ Len(c) \in Nat /\ k \in Nat
      /\ \A i \in 1..Len(c) : c[i].key \in Nat
  <2>1. \A x \in Records : x.key \in Nat
    BY KeysAssumption DEF Records
  <2> QED
    BY <2>1, KeysAssumption
<1> DEFINE u == upper_bound(c, Len(c), k)
<1>2. /\ u \in 1..(Len(c) + 1)
      /\ \A j \in 1..(u - 1) : c[j].key <= k
      /\ u <= Len(c) => k < c[u].key
  BY <1>1, UpperBound
<1> HIDE DEF u
<1>3. ASSUME NEW i \in 1..Len(c), ~(i < u)
      PROVE  ~(c[i].key <= k)
  <2>1. u \in 1..Len(c)
    BY <1>1, <1>2, <1>3
  <2>2. u = i \/ c[u].key < c[i].key
    BY <1>2, <1>3, <2>1 DEF SortedTo
  <2> QED
    BY <1>1, <1>2, <2>1, <2>2
<1>4. ASSUME NEW i \in 1..Len(c), i < u
      PROVE  c[i].key <= k
  <2>1. i \in 1..(u - 1)
    BY <1>2, <1>4
  <2> QED
    BY <1>1, <1>2, <2>1
<1> QED
  BY <1>2, <1>3, <1>4 DEF PastTo, u

LEMMA BothBounds ==
    ASSUME NEW c \in Seq(Records), NEW lo \in Keys, NEW hi \in Keys, lo <= hi,
           NEW first, NEW past, FirstFrom(c, lo, first), PastTo(c, hi, past)
    PROVE  Bounded(c, lo, hi, first, past)
<1>1. /\ Len(c) \in Nat /\ lo \in Nat /\ hi \in Nat
      /\ \A i \in 1..Len(c) : c[i].key \in Nat
  <2>1. \A x \in Records : x.key \in Nat
    BY KeysAssumption DEF Records
  <2> QED
    BY <2>1, KeysAssumption
<1>2. /\ first \in 1..(Len(c) + 1) /\ past \in 1..(Len(c) + 1)
      /\ \A i \in 1..Len(c) : lo <= c[i].key <=> first <= i
      /\ \A i \in 1..Len(c) : c[i].key <= hi <=> i < past
  BY DEF FirstFrom, PastTo
<1>3. first <= past
  <2> SUFFICES ASSUME past < first
               PROVE  FALSE
    BY <1>2
  <2>1. past \in 1..Len(c) /\ ~(first <= past) /\ ~(past < past)
    BY <1>1, <1>2
  <2>2. ~(lo <= c[past].key) /\ ~(c[past].key <= hi) /\ c[past].key \in Nat
    BY <1>1, <1>2, <2>1
  <2> QED
    BY <1>1, <2>2
<1>4. \A i \in 1..Len(c) : i \in first..(past - 1) <=> first <= i /\ i < past
  BY <1>1, <1>2
<1> QED
  BY <1>1, <1>2, <1>3, <1>4 DEF Bounded

(* One leaf copied, at position p. *)
LeafCopying(row, D, X, F, lo, hi, p, v, first, past, n, v2) ==
    /\ Table(row, D, X, F) /\ lo \in Keys /\ hi \in Keys /\ p \in 1..Len(row)
    /\ v \in Seq(Records) /\ Bounded(RecordsOf(D, row[p]), lo, hi, first, past)
    /\ n \in 0..(past - first) /\ Appends(v2, v, RecordsOf(D, row[p]), first, n)
    /\ Until(v, Span(X, lo, hi), Earlier(D, row, p, Span(X, lo, hi)))

LeafDone(row, D, X, lo, hi, p, v, first, past, n, v2) ==
    LET G == Span(X, lo, hi)
        c == RecordsOf(D, row[p])
    IN  /\ v2 \in Seq(Records) /\ Len(v2) = Len(v) + n /\ Begins(v2, G)
        /\ HasAll(v2, Earlier(D, row, p, G))
        /\ \A i \in 1..Len(v2) : \/ v2[i] \in Earlier(D, row, p, G)
                                 \/ v2[i] \in G /\ Holds(c, v2[i])
        /\ n = past - first =>
               \A x \in G : Holds(c, x) => \E i \in 1..Len(v2) : v2[i] = x
        /\ n # past - first => FirstMissing(v2, G, c[first + n])

LEMMA LeafCopied ==
    ASSUME NEW row, NEW D, NEW X, NEW F, NEW lo, NEW hi, NEW p, NEW v, NEW first, NEW past,
           NEW n, NEW v2, LeafCopying(row, D, X, F, lo, hi, p, v, first, past, n, v2)
    PROVE  LeafDone(row, D, X, lo, hi, p, v, first, past, n, v2)
<1> /\ Table(row, D, X, F) /\ lo \in Keys /\ hi \in Keys /\ p \in 1..Len(row)
    /\ v \in Seq(Records) /\ Bounded(RecordsOf(D, row[p]), lo, hi, first, past)
    /\ n \in 0..(past - first) /\ Appends(v2, v, RecordsOf(D, row[p]), first, n)
  BY Zenon DEF LeafCopying
<1>u. Until(v, Span(X, lo, hi), Earlier(D, row, p, Span(X, lo, hi)))
  BY Zenon DEF LeafCopying
<1> DEFINE G == Span(X, lo, hi)
           c == RecordsOf(D, row[p])
           A == Earlier(D, row, p, G)
           C == Later(D, row, p, G)
<1>1. /\ Len(row) \in Nat
      /\ c \in Seq(Records) /\ SortedTo(c, Len(c)) /\ \A i \in 1..Len(c) : c[i] \in X
      /\ X \subseteq Records
      /\ \A x \in X : \E q \in 1..Len(row) : Holds(RecordsOf(D, row[q]), x)
      /\ \A q, r \in 1..Len(row) : q < r =>
             \A x, y : Holds(RecordsOf(D, row[q]), x) /\ Holds(RecordsOf(D, row[r]), y)
                           => x.key < y.key
  BY Zenon DEF Table
<1>2. Len(c) \in Nat /\ DOMAIN c = 1..Len(c)
  BY <1>1
<1>3. \A x \in X : x.key \in Nat
  BY <1>1, KeysAssumption DEF Records
<1>4. /\ first \in 1..(Len(c) + 1) /\ past \in first..(Len(c) + 1)
      /\ \A i \in 1..Len(c) : i \in first..(past - 1) <=> lo <= c[i].key /\ c[i].key <= hi
  BY Zenon DEF Bounded
<1>5. G \subseteq X /\ A \subseteq G /\ C \subseteq G
  BY DEF Span, Earlier, Later
<1> HIDE DEF c
<1>6. \A i \in first..(past - 1) : i \in 1..Len(c)
  BY <1>2, <1>4
<1>7. \A i \in 1..Len(c) : Holds(c, c[i]) /\ (c[i] \in G <=> i \in first..(past - 1))
  BY <1>1, <1>2, <1>4 DEF Holds, Span
<1>8. \A i \in first..(past - 1) : c[i] \in G
  BY <1>6, <1>7
<1>9. ASSUME NEW x \in G, Holds(c, x)
      PROVE  \E i \in first..(past - 1) : c[i] = x
  BY <1>2, <1>7, <1>9 DEF Holds
<1>10. ASSUME NEW x \in G
       PROVE  x \in A \/ x \in C \/ \E i \in first..(past - 1) : c[i] = x
  <2>1. PICK q \in 1..Len(row) : Holds(RecordsOf(D, row[q]), x)
    BY <1>1, <1>5
  <2>2. CASE q = p
    BY <1>9, <2>1, <2>2 DEF c
  <2>3. CASE q < p
    BY <1>1, <2>1, <2>3 DEF Earlier
  <2>4. CASE q > p
    BY <1>1, <2>1, <2>4 DEF Later
  <2> QED
    BY <2>2, <2>3, <2>4
<1>11. ASSUME NEW x \in A, NEW i \in first..(past - 1)
       PROVE  x.key < c[i].key
  <2>1. PICK q \in 1..(p - 1) : Holds(RecordsOf(D, row[q]), x)
    BY DEF Earlier
  <2>2. q \in 1..Len(row) /\ q < p
    BY <1>1
  <2>3. Holds(RecordsOf(D, row[p]), c[i])
    BY <1>6, <1>7 DEF c
  <2> QED
    BY <1>1, <2>1, <2>2, <2>3, Zenon
<1>12. ASSUME NEW x \in C, NEW i \in first..(past - 1)
       PROVE  c[i].key < x.key
  <2>1. PICK q \in (p + 1)..Len(row) : Holds(RecordsOf(D, row[q]), x)
    BY DEF Later
  <2>2. q \in 1..Len(row) /\ p < q
    BY <1>1
  <2>3. Holds(RecordsOf(D, row[p]), c[i])
    BY <1>6, <1>7 DEF c
  <2> QED
    BY <1>1, <2>1, <2>2, <2>3, Zenon
<1>13. ASSUME NEW x \in A, NEW y \in C
       PROVE  x.key < y.key
  <2>1. PICK q \in 1..(p - 1) : Holds(RecordsOf(D, row[q]), x)
    BY DEF Earlier
  <2>2. PICK r \in (p + 1)..Len(row) : Holds(RecordsOf(D, row[r]), y)
    BY DEF Later
  <2>3. q \in 1..Len(row) /\ r \in 1..Len(row) /\ q < r
    BY <1>1
  <2> QED
    BY <1>1, <2>1, <2>2, <2>3, Zenon
<1>14. \A x \in G : x.key \in Nat
  BY <1>3, <1>5
<1>15. Appends(v2, v, c, first, n)
  BY DEF c
<1> HIDE DEF G, A, C
<1>16. Until(v, G, A)
  BY <1>u DEF G, A
<1>17. Parting(c, first, past, G, A, C)
  <2>1. SortedTo(c, Len(c)) /\ first \in 1..(Len(c) + 1) /\ past \in first..(Len(c) + 1)
    BY <1>1, <1>4, Zenon
  <2> QED
    BY <2>1, <1>5, <1>8, <1>10, <1>11, <1>12, <1>13, <1>14, Zenon DEF Parting
<1>18. /\ v2 \in Seq(Records) /\ Len(v2) = Len(v) + n /\ Begins(v2, G) /\ HasAll(v2, A)
       /\ \A i \in 1..Len(v2) : \/ v2[i] \in A
                                \/ \E j \in first..(past - 1) : v2[i] = c[j]
       /\ n = past - first =>
              \A j \in first..(past - 1) : \E i \in 1..Len(v2) : v2[i] = c[j]
       /\ n # past - first =>
              first + n \in first..(past - 1) /\ FirstMissing(v2, G, c[first + n])
  <2>1. c \in Seq(Records)
    BY <1>1, Zenon
  <2> QED
    <3>1. PartCopied(Records, v, c, G, A, C, first, past, n, v2)
      BY <1>15, <1>16, <1>17, <2>1, Zenon DEF PartCopied
    <3> QED
      BY <3>1, CopiedPart, SMTT(30)
<1>19. \A i \in 1..Len(v2) : v2[i] \in A \/ (v2[i] \in G /\ Holds(c, v2[i]))
  <2> SUFFICES ASSUME NEW i \in 1..Len(v2), v2[i] \notin A
               PROVE  v2[i] \in G /\ Holds(c, v2[i])
    OBVIOUS
  <2>1. PICK j \in first..(past - 1) : v2[i] = c[j]
    BY <1>18, Zenon
  <2>2. j \in 1..Len(c) /\ c[j] \in G /\ Holds(c, c[j])
    BY <1>6, <1>7, <1>8, Zenon
  <2> QED
    BY <2>1, <2>2, Zenon
<1>20. n = past - first => \A x \in G : Holds(c, x) => \E i \in 1..Len(v2) : v2[i] = x
  <2> SUFFICES ASSUME n = past - first, NEW x \in G, Holds(c, x)
               PROVE  \E i \in 1..Len(v2) : v2[i] = x
    OBVIOUS
  <2>1. PICK j \in first..(past - 1) : c[j] = x
    BY <1>9, Zenon
  <2>2. \E i \in 1..Len(v2) : v2[i] = c[j]
    BY <1>18, Zenon
  <2> QED
    BY <2>1, <2>2, Zenon
<1> QED
  BY <1>18, <1>19, <1>20, Zenon DEF LeafDone, G, A, c
(* The records of the range in leaf p, and before and behind it. *)
RangeSplit(row, D, X, F, lo, hi, p) ==
    LET G == Span(X, lo, hi)
        c == RecordsOf(D, row[p])
    IN  /\ G \subseteq Records /\ Earlier(D, row, p, G) \subseteq G
        /\ \A x \in G : \/ x \in Earlier(D, row, p, G)
                        \/ Holds(c, x)
                        \/ x \in Later(D, row, p, G)
        /\ (\E q \in 1..p : row[q] = F[lo]) /\ row[p] # F[lo] =>
               \A x : Holds(c, x) => lo < x.key
        /\ (\E q \in p..Len(row) : row[q] = F[hi]) /\ row[p] # F[hi] =>
               p < Len(row) /\ \A x : Holds(c, x) => x.key < hi
        /\ row[p] = F[lo] => Earlier(D, row, p, G) = {}
        /\ row[p] = F[hi] => Later(D, row, p, G) = {}
        /\ p < Len(row) =>
               \A x : x \in Earlier(D, row, p + 1, G) <=>
                      x \in Earlier(D, row, p, G) \/ (x \in G /\ Holds(c, x))

LEMMA RangeParts ==
    ASSUME NEW row, NEW D, NEW X, NEW F, Table(row, D, X, F),
           NEW lo \in Keys, NEW hi \in Keys, NEW p \in 1..Len(row)
    PROVE  RangeSplit(row, D, X, F, lo, hi, p)
<1> DEFINE G == Span(X, lo, hi)
           c == RecordsOf(D, row[p])
           A == Earlier(D, row, p, G)
           C == Later(D, row, p, G)
<1>1. /\ Len(row) \in Nat
      /\ \A q, r \in 1..Len(row) : row[q] = row[r] => q = r
      /\ X \subseteq Records
      /\ \A x \in X : \E q \in 1..Len(row) : Holds(RecordsOf(D, row[q]), x)
      /\ \A k \in Keys : \E q \in 1..Len(row) :
           /\ row[q] = F[k]
           /\ \A r \in 1..(q - 1) : \A x : Holds(RecordsOf(D, row[r]), x) => x.key < k
           /\ \A r \in (q + 1)..Len(row) : \A x : Holds(RecordsOf(D, row[r]), x) => k < x.key
  BY Zenon DEF Table
<1>2. \A x \in G : x \in X /\ x.key \in Nat /\ lo <= x.key /\ x.key <= hi
  BY <1>1, KeysAssumption DEF Span, Records
<1>3. lo \in Nat /\ hi \in Nat
  BY KeysAssumption
<1>4. PICK a \in 1..Len(row) :
           /\ row[a] = F[lo]
           /\ \A r \in 1..(a - 1) : \A x : Holds(RecordsOf(D, row[r]), x) => x.key < lo
           /\ \A r \in (a + 1)..Len(row) : \A x : Holds(RecordsOf(D, row[r]), x) => lo < x.key
  BY <1>1, Zenon
<1>5. PICK b \in 1..Len(row) :
           /\ row[b] = F[hi]
           /\ \A r \in 1..(b - 1) : \A x : Holds(RecordsOf(D, row[r]), x) => x.key < hi
           /\ \A r \in (b + 1)..Len(row) : \A x : Holds(RecordsOf(D, row[r]), x) => hi < x.key
  BY <1>1, Zenon
<1>6. G \subseteq Records /\ A \subseteq G
  BY <1>1, <1>2 DEF Earlier
<1>7. ASSUME NEW x \in G
      PROVE  x \in A \/ Holds(c, x) \/ x \in C
  <2>1. PICK q \in 1..Len(row) : Holds(RecordsOf(D, row[q]), x)
    BY <1>1, <1>2
  <2>2. q = p \/ q \in 1..(p - 1) \/ q \in (p + 1)..Len(row)
    BY <1>1
  <2> QED
    BY <2>1, <2>2, Zenon DEF Earlier, Later
<1>8. ASSUME \E q \in 1..p : row[q] = F[lo], row[p] # F[lo]
      PROVE  \A x : Holds(c, x) => lo < x.key
  <2>1. PICK q \in 1..p : row[q] = F[lo]
    BY <1>8, Zenon
  <2>2. q \in 1..Len(row) /\ q # p
    BY <1>1, <1>8, <2>1
  <2>3. q = a
    BY <1>1, <1>4, <2>1, <2>2, Zenon
  <2>4. p \in (a + 1)..Len(row)
    BY <1>1, <2>2, <2>3
  <2> QED
    BY <1>4, <2>4, Zenon
<1>9. ASSUME \E q \in p..Len(row) : row[q] = F[hi], row[p] # F[hi]
      PROVE  p < Len(row) /\ \A x : Holds(c, x) => x.key < hi
  <2>1. PICK q \in p..Len(row) : row[q] = F[hi]
    BY <1>9, Zenon
  <2>2. q \in 1..Len(row) /\ q # p
    BY <1>1, <1>9, <2>1
  <2>3. q = b
    BY <1>1, <1>5, <2>1, <2>2, Zenon
  <2>4. p \in 1..(b - 1) /\ p < Len(row)
    BY <1>1, <2>2, <2>3
  <2> QED
    BY <1>5, <2>4, Zenon
<1>10. ASSUME row[p] = F[lo]
       PROVE  A = {}
  <2>1. p = a
    BY <1>1, <1>4, <1>10, Zenon
  <2>2. ASSUME NEW x \in A
        PROVE  FALSE
    <3>1. PICK q \in 1..(p - 1) : Holds(RecordsOf(D, row[q]), x)
      BY DEF Earlier
    <3>2. x.key < lo
      BY <1>4, <2>1, <3>1, Zenon
    <3> QED
      BY <1>2, <1>3, <1>6, <3>2
  <2> QED
    BY <2>2
<1>11. ASSUME row[p] = F[hi]
       PROVE  C = {}
  <2>1. p = b
    BY <1>1, <1>5, <1>11, Zenon
  <2>2. ASSUME NEW x \in C
        PROVE  FALSE
    <3>1. PICK q \in (p + 1)..Len(row) : x \in G /\ Holds(RecordsOf(D, row[q]), x)
      BY DEF Later
    <3>2. hi < x.key
      BY <1>5, <2>1, <3>1, Zenon
    <3> QED
      BY <1>2, <1>3, <3>1, <3>2
  <2> QED
    BY <2>2
<1>12. ASSUME p < Len(row), NEW x
       PROVE  x \in Earlier(D, row, p + 1, G) <=> x \in A \/ (x \in G /\ Holds(c, x))
  <2>1. \A q : q \in 1..((p + 1) - 1) <=> q = p \/ q \in 1..(p - 1)
    OBVIOUS
  <2> QED
    BY <2>1, Zenon DEF Earlier
<1> QED
  BY <1>6, <1>7, <1>8, <1>9, <1>10, <1>11, <1>12, Zenon DEF RangeSplit

ScanFields(s) ==
    /\ s.at \in {"leaves", "mark", "done"} /\ s.left \in Keys /\ s.right \in Keys
    /\ s.max \in Nat \ {0} /\ s.off \in Nat /\ s.values \in Seq(Records)
    /\ s.b \in Nat /\ s.e \in Nat /\ s.block \in Nat /\ s.next \in BOOLEAN /\ s.from \in Keys

LEMMA FieldsOfScan ==
    ASSUME NEW s \in Scans
    PROVE  ScanFields(s)
  BY DEF Scans, ScanFields

(* A call that has copied nothing. *)
LEMMA StartOK ==
    ASSUME NEW D, NEW X, NEW F, NEW s \in Scans, s.from <= s.right, s.at = "leaves",
           s.left = s.from, s.off = F[s.from], s.values = <<>>
    PROVE  ScanOK(s, D, X, F)
<1> DEFINE lo == s.from
           hi == s.right
           G == Span(X, lo, hi)
<1>1. lo \in Keys /\ hi \in Keys /\ s.max \in Nat \ {0} /\ Len(s.values) = 0
  BY FieldsOfScan DEF ScanFields
<1>2. \A x : Begins(s.values, x)
  BY <1>1 DEF Begins, SortedTo
<1>3. ASSUME NEW row, Table(row, D, X, F)
      PROVE  Reached(s, D, G, F, row)
  <2>1. /\ Len(row) \in Nat
        /\ \A k \in Keys : \E p \in 1..Len(row) : row[p] = F[k]
        /\ \A k, l \in Keys : k <= l =>
               \A p, q \in 1..Len(row) : row[p] = F[k] /\ row[q] = F[l] => p <= q
    BY <1>3, Zenon DEF Table
  <2>2. PICK p \in 1..Len(row) : row[p] = F[lo]
    BY <1>1, <2>1, Zenon
  <2>3. PICK q \in 1..Len(row) : row[q] = F[hi]
    BY <1>1, <2>1, Zenon
  <2>4. p <= q
    <3>1. \A x, y \in 1..Len(row) : row[x] = F[lo] /\ row[y] = F[hi] => x <= y
      BY <1>1, <2>1, Zenon
    <3> QED
      BY <2>2, <2>3, <3>1, Zenon
  <2>5. p \in 1..p /\ q \in p..Len(row)
    BY <2>1, <2>4
  <2>6. Earlier(D, row, p, G) = {}
    <3>1. RangeSplit(row, D, X, F, lo, hi, p)
      BY <1>1, <1>3, RangeParts
    <3> QED
      BY <2>2, <3>1, Zenon DEF RangeSplit
  <2>7. HasAll(s.values, Earlier(D, row, p, G))
    BY <2>6 DEF HasAll
  <2>8. \A i \in 1..Len(s.values) : s.values[i] \in Earlier(D, row, p, G)
    BY <1>1
  <2> QED
    BY <2>2, <2>3, <2>5, <2>7, <2>8, Zenon DEF Reached
<1>4. Len(s.values) <= s.max /\ Len(s.values) # s.max /\ s.at # "done"
  BY <1>1
<1> QED
  BY <1>2, <1>3, <1>4, Zenon DEF ScanOK
-----------------------------------------------------------------------------
(* The records first to past - 1 of block o copied, as many as fit. *)
Copies(s, s2, D, o, first, past) ==
    /\ s2 \in Scans /\ s2.left = s.left /\ s2.right = s.right /\ s2.max = s.max
    /\ s2.from = s.from /\ s2.block = o /\ s2.e = past
    /\ \E n \in 0..(past - first) :
           /\ n = (IF past - first < s.max - Len(s.values) THEN past - first
                   ELSE s.max - Len(s.values))
           /\ Appends(s2.values, s.values, RecordsOf(D, o), first, n)
           /\ s2.b = first + n

(* The state of the loop after position p, whose leaf s2 has copied. *)
CopiedTo(s2, D, G, row, p) ==
    LET c == RecordsOf(D, row[p])
        n == Len(s2.values)
        A == Earlier(D, row, p, G)
    IN  /\ n <= s2.max /\ Begins(s2.values, G)
        /\ \A i \in 1..n : s2.values[i] \in A \/ (s2.values[i] \in G /\ Holds(c, s2.values[i]))
        /\ n = s2.max /\ s2.b # s2.e => FirstMissing(s2.values, G, c[s2.b])
        /\ n < s2.max => /\ HasAll(s2.values, A)
                         /\ \A x \in G : Holds(c, x) => \E i \in 1..n : s2.values[i] = x

LEMMA CopyOK ==
    ASSUME NEW D, NEW X, NEW F, NEW row, Table(row, D, X, F), NEW s \in Scans, NEW s2,
           NEW p \in 1..Len(row), NEW first, NEW past,
           Bounded(RecordsOf(D, row[p]), s.from, s.right, first, past),
           Len(s.values) < s.max, Begins(s.values, Span(X, s.from, s.right)),
           HasAll(s.values, Earlier(D, row, p, Span(X, s.from, s.right))),
           \A i \in 1..Len(s.values) :
               s.values[i] \in Earlier(D, row, p, Span(X, s.from, s.right)),
           Copies(s, s2, D, row[p], first, past)
    PROVE  CopiedTo(s2, D, Span(X, s.from, s.right), row, p)
<1> DEFINE lo == s.from
           hi == s.right
           G == Span(X, lo, hi)
           c == RecordsOf(D, row[p])
           A == Earlier(D, row, p, G)
<1>1. /\ lo \in Keys /\ hi \in Keys /\ s.max \in Nat \ {0} /\ s.values \in Seq(Records)
      /\ Len(s.values) \in Nat
  BY FieldsOfScan DEF ScanFields
<1>2. PICK n \in 0..(past - first) :
           /\ n = (IF past - first < s.max - Len(s.values) THEN past - first
                   ELSE s.max - Len(s.values))
           /\ Appends(s2.values, s.values, c, first, n)
           /\ s2.b = first + n
  BY Zenon DEF Copies
<1>3. s2.max = s.max /\ s2.e = past
  BY Zenon DEF Copies
<1>4. first \in Nat /\ past \in Nat /\ first <= past
  <2>1. Len(c) \in Nat
    BY Zenon, LenProperties DEF Table
  <2>2. first \in 1..(Len(c) + 1) /\ past \in first..(Len(c) + 1)
    BY Zenon DEF Bounded
  <2> QED
    BY <2>1, <2>2
<1>5. LET g == Span(X, lo, hi)
          d == RecordsOf(D, row[p])
      IN  /\ s2.values \in Seq(Records) /\ Len(s2.values) = Len(s.values) + n
          /\ Begins(s2.values, g)
          /\ HasAll(s2.values, Earlier(D, row, p, g))
          /\ \A i \in 1..Len(s2.values) : \/ s2.values[i] \in Earlier(D, row, p, g)
                                          \/ s2.values[i] \in g /\ Holds(d, s2.values[i])
          /\ n = past - first =>
                 \A x \in g : Holds(d, x) => \E i \in 1..Len(s2.values) : s2.values[i] = x
          /\ n # past - first => FirstMissing(s2.values, g, d[first + n])
  <2>1. LeafCopying(row, D, X, F, lo, hi, p, s.values, first, past, n, s2.values)
    <3>1. Until(s.values, Span(X, lo, hi), Earlier(D, row, p, Span(X, lo, hi)))
      BY Zenon DEF Until
    <3> QED
      BY <1>1, <1>2, <3>1, Zenon DEF LeafCopying
  <2>2. LeafDone(row, D, X, lo, hi, p, s.values, first, past, n, s2.values)
    BY <2>1, LeafCopied, Zenon
  <2> QED
    BY <2>2, Zenon DEF LeafDone
<1>6. /\ Len(s2.values) = Len(s.values) + n
      /\ Begins(s2.values, G)
      /\ HasAll(s2.values, A)
      /\ \A i \in 1..Len(s2.values) : \/ s2.values[i] \in A
                                      \/ s2.values[i] \in G /\ Holds(c, s2.values[i])
      /\ n = past - first =>
             \A x \in G : Holds(c, x) => \E i \in 1..Len(s2.values) : s2.values[i] = x
      /\ n # past - first => FirstMissing(s2.values, G, c[first + n])
  BY <1>5, Zenon
<1> HIDE DEF G, c, A
<1>7. Len(s2.values) <= s2.max
  BY <1>1, <1>2, <1>3, <1>4, <1>6
<1>8. s2.b # s2.e => n # past - first
  BY <1>2, <1>3, <1>4
<1>9. Len(s2.values) < s2.max => n = past - first
  BY <1>1, <1>2, <1>3, <1>4, <1>6
<1> QED
  BY <1>2, <1>6, <1>7, <1>8, <1>9, Zenon DEF CopiedTo, G, c, A

(* A call in its loop over the leaves. *)
InLoop(s, D, X, F) ==
    LET G == Span(X, s.from, s.right)
    IN  /\ s.at = "leaves" /\ s \in Scans /\ s.from <= s.right /\ s.left = s.from
        /\ Begins(s.values, G) /\ \A row : Table(row, D, X, F) => Reached(s, D, G, F, row)

LEMMA ScanLoop ==
    ASSUME NEW s, NEW D, NEW X, NEW F, ScanOK(s, D, X, F), s.at = "leaves"
    PROVE  InLoop(s, D, X, F)
<1>1. s.at # "done"
  OBVIOUS
<1> QED
  BY <1>1, Zenon DEF ScanOK, InLoop

(* The leaf of the loop copied, from entry first to before past. *)
LEMMA LoopCopies ==
    ASSUME NEW D, NEW X, NEW F, NEW s, InLoop(s, D, X, F), Len(s.values) < s.max,
           NEW s2, NEW first, NEW past, Copies(s, s2, D, s.off, first, past),
           NEW row, Table(row, D, X, F), NEW p \in 1..Len(row), row[p] = s.off,
           HasAll(s.values, Earlier(D, row, p, Span(X, s.from, s.right))),
           \A i \in 1..Len(s.values) :
               s.values[i] \in Earlier(D, row, p, Span(X, s.from, s.right)),
           FirstFrom(RecordsOf(D, row[p]), s.from, first),
           PastTo(RecordsOf(D, row[p]), s.right, past)
    PROVE  CopiedTo(s2, D, Span(X, s.from, s.right), row, p)
<1>1. s \in Scans /\ s.from <= s.right /\ Begins(s.values, Span(X, s.from, s.right))
  BY Zenon DEF InLoop
<1>2. s.from \in Keys /\ s.right \in Keys
  BY <1>1, FieldsOfScan DEF ScanFields
<1>3. RecordsOf(D, row[p]) \in Seq(Records)
  BY Zenon DEF Table
<1>4. Bounded(RecordsOf(D, row[p]), s.from, s.right, first, past)
  BY <1>1, <1>2, <1>3, BothBounds
<1>5. Copies(s, s2, D, row[p], first, past)
  BY Zenon
<1> QED
  BY <1>1, <1>4, <1>5, CopyOK, Zenon

LEMMA EntriesHeld ==
    ASSUME NEW c \in Seq(Records)
    PROVE  Len(c) \in Nat /\ \A i \in 1..Len(c) : c[i].key \in Nat /\ Holds(c, c[i])
<1>1. \A i \in 1..Len(c) : c[i] \in Records /\ i \in DOMAIN c
  OBVIOUS
<1>2. \A x \in Records : x.key \in Nat
  BY KeysAssumption DEF Records
<1> QED
  BY <1>1, <1>2 DEF Holds

(* From which entry on the leaf at position p is copied. *)
LEMMA LoopFirst ==
    ASSUME NEW D, NEW X, NEW F, NEW lo \in Keys, NEW row, Table(row, D, X, F),
           NEW p \in 1..Len(row), \E q \in 1..p : row[q] = F[lo], row[p] # F[lo]
    PROVE  FirstFrom(RecordsOf(D, row[p]), lo, 1)
<1> DEFINE c == RecordsOf(D, row[p])
<1>1. c \in Seq(Records)
  BY Zenon DEF Table
<1>2. Len(c) \in Nat /\ \A i \in 1..Len(c) : c[i].key \in Nat /\ Holds(c, c[i])
  BY <1>1, EntriesHeld, Zenon
<1>3. \A x : Holds(c, x) => lo < x.key
  <2>1. RangeSplit(row, D, X, F, lo, lo, p)
    BY RangeParts
  <2> QED
    BY <2>1, Zenon DEF RangeSplit
<1> HIDE DEF c
<1>4. \A i \in 1..Len(c) : lo <= c[i].key /\ 1 <= i
  BY <1>2, <1>3, KeysAssumption
<1> QED
  BY <1>2, <1>4 DEF FirstFrom, c

(* Before the leaf of the end of the range, leaves are copied to their end. *)
BeforeLast(D, X, F, hi, row, p) ==
    /\ Table(row, D, X, F) /\ hi \in Keys /\ p \in 1..Len(row)
    /\ \E q \in p..Len(row) : row[q] = F[hi]
    /\ row[p] # F[hi]

LEMMA LoopPast ==
    ASSUME NEW D, NEW X, NEW F, NEW hi, NEW row, NEW p, BeforeLast(D, X, F, hi, row, p)
    PROVE  /\ PastTo(RecordsOf(D, row[p]), hi, Len(RecordsOf(D, row[p])) + 1)
           /\ p < Len(row)
<1> /\ Table(row, D, X, F) /\ hi \in Keys /\ p \in 1..Len(row)
    /\ \E q \in p..Len(row) : row[q] = F[hi]
    /\ row[p] # F[hi]
  BY Zenon DEF BeforeLast
<1> DEFINE c == RecordsOf(D, row[p])
<1>1. c \in Seq(Records)
  BY Zenon DEF Table
<1>2. Len(c) \in Nat /\ \A i \in 1..Len(c) : c[i].key \in Nat /\ Holds(c, c[i])
  BY <1>1, EntriesHeld, Zenon
<1>3. p < Len(row) /\ \A x : Holds(c, x) => x.key < hi
  <2>1. RangeSplit(row, D, X, F, hi, hi, p)
    BY RangeParts
  <2> QED
    BY <2>1, Zenon DEF RangeSplit
<1> HIDE DEF c
<1>4. \A i \in 1..Len(c) : c[i].key <= hi /\ i < Len(c) + 1
  BY <1>2, <1>3, KeysAssumption
<1> QED
  BY <1>2, <1>3, <1>4 DEF PastTo, c

LEMMA CopyLeafOK ==
    ASSUME NEW D, NEW X, NEW F, NEW s, InLoop(s, D, X, F), s.off # F[s.right],
           Len(s.values) < s.max, NEW s2, NEW first,
           first = (IF s.off = F[s.left]
                    THEN lower_bound(D[s.off].children, Len(D[s.off].children), s.left)
                    ELSE 1),
           Copies(s, s2, D, s.off, first, Len(D[s.off].children) + 1),
           s2.at = "leaves", s2.off = D[s.off].next,
           NEW row0, Table(row0, D, X, F)
    PROVE  ScanOK(s2, D, X, F)
<1> DEFINE lo == s.from
           hi == s.right
           G == Span(X, lo, hi)
           past == Len(D[s.off].children) + 1
<1>1. s \in Scans /\ s.from <= s.right /\ s.left = s.from /\ Begins(s.values, G)
  BY Zenon DEF InLoop
<1>2. lo \in Keys /\ hi \in Keys /\ Len(s.values) \in Nat /\ s.max \in Nat
  BY <1>1, FieldsOfScan DEF ScanFields
<1>3. ASSUME NEW row, Table(row, D, X, F)
      PROVE  \E p \in 1..Len(row) :
                 row[p] = s.off /\ CopiedTo(s2, D, G, row, p) /\ Reached(s2, D, G, F, row)
  <2>1. Reached(s, D, G, F, row)
    BY <1>3, Zenon DEF InLoop
  <2>2. PICK p \in 1..Len(row) :
        /\ row[p] = s.off
        /\ \E q \in 1..p : row[q] = F[lo]
        /\ \E q \in p..Len(row) : row[q] = F[hi]
        /\ Len(s.values) < s.max => HasAll(s.values, Earlier(D, row, p, G))
        /\ \A i \in 1..Len(s.values) : s.values[i] \in Earlier(D, row, p, G)
    BY <2>1, Zenon DEF Reached
  <2>3. row[p] # F[hi] /\ Len(row) \in Nat /\ p \in Nat
    <3>1. Len(row) \in Nat \ {0}
      BY <1>3, Zenon DEF Table
    <3>2. row[p] # F[hi] /\ p \in 1..Len(row)
      BY <2>2, Zenon
    <3> QED
      BY <3>1, <3>2
  <2>4. PastTo(RecordsOf(D, row[p]), hi, past) /\ p < Len(row)
    <3>1. PastTo(RecordsOf(D, row[p]), hi, Len(RecordsOf(D, row[p])) + 1) /\ p < Len(row)
      <4>1. BeforeLast(D, X, F, hi, row, p)
        BY <1>2, <1>3, <2>2, <2>3, Zenon DEF BeforeLast
      <4> QED
        BY <4>1, LoopPast, Zenon
    <3> QED
      BY <2>2, <3>1, Zenon DEF RecordsOf
  <2>5. FirstFrom(RecordsOf(D, row[p]), lo, first)
    <3>1. CASE row[p] = F[lo]
      <4>1. first = lower_bound(RecordsOf(D, row[p]), Len(RecordsOf(D, row[p])), lo)
        BY <1>1, <2>2, <3>1, Zenon DEF RecordsOf
      <4>2. /\ RecordsOf(D, row[p]) \in Seq(Records)
            /\ SortedTo(RecordsOf(D, row[p]), Len(RecordsOf(D, row[p])))
        BY <1>3, <2>2, Zenon DEF Table
      <4> QED
        BY <1>2, <4>1, <4>2, LowerIsFirst, Zenon
    <3>2. CASE row[p] # F[lo]
      <4>1. first = 1
        BY <1>1, <2>2, <3>2, Zenon
      <4> QED
        BY <1>2, <1>3, <2>2, <3>2, <4>1, LoopFirst, Zenon
    <3> QED
      BY <3>1, <3>2
  <2>6. CopiedTo(s2, D, G, row, p)
    BY <1>3, <2>2, <2>4, <2>5, LoopCopies, Zenon
  <2>7. Reached(s2, D, G, F, row)
    <3>1. s2.from = lo /\ s2.right = hi /\ s2.max = s.max
      BY Zenon DEF Copies
    <3>2. p + 1 \in 1..Len(row) /\ row[p + 1] = s2.off
      <4>1. D[row[p]].next = IF p = Len(row) THEN 0 ELSE row[p + 1]
        BY <1>3, <2>2, Zenon DEF Table
      <4>2. p # Len(row) /\ p + 1 \in 1..Len(row)
        BY <2>3, <2>4
      <4> QED
        BY <2>2, <4>1, <4>2, Zenon
    <3>3. \E q \in 1..(p + 1) : row[q] = F[lo]
      <4>1. \A q \in 1..p : q \in 1..(p + 1)
        BY <2>3
      <4> QED
        BY <2>2, <4>1, Zenon
    <3>4. \E q \in (p + 1)..Len(row) : row[q] = F[hi]
      <4>1. \A q \in p..Len(row) : q # p => q \in (p + 1)..Len(row)
        BY <2>3
      <4> QED
        BY <2>2, <2>3, <4>1, Zenon
    <3>5. \A x : x \in Earlier(D, row, p + 1, G) <=>
                 x \in Earlier(D, row, p, G) \/ (x \in G /\ Holds(RecordsOf(D, row[p]), x))
      <4>1. RangeSplit(row, D, X, F, lo, hi, p)
        BY <1>2, <1>3, <2>2, RangeParts, Zenon
      <4> QED
        BY <2>4, <4>1, Zenon DEF RangeSplit
    <3>6. Len(s2.values) < s2.max => HasAll(s2.values, Earlier(D, row, p + 1, G))
      BY <2>6, <3>5, Zenon DEF HasAll, CopiedTo
    <3>7. \A i \in 1..Len(s2.values) : s2.values[i] \in Earlier(D, row, p + 1, G)
      BY <2>6, <3>5, Zenon DEF CopiedTo
    <3> QED
      BY <3>1, <3>2, <3>3, <3>4, <3>6, <3>7, Zenon DEF Reached
  <2> QED
    BY <2>2, <2>6, <2>7, Zenon
<1>4. /\ s2 \in Scans /\ s2.left = s.left /\ s2.right = s.right /\ s2.from = s.from
      /\ s2.block = s.off
  BY Zenon DEF Copies
<1>5. PICK p \in 1..Len(row0) : row0[p] = s.off /\ CopiedTo(s2, D, G, row0, p)
  BY <1>3, Zenon
<1>6. /\ Len(s2.values) <= s2.max /\ Begins(s2.values, G)
      /\ Len(s2.values) = s2.max /\ s2.b # s2.e =>
             FirstMissing(s2.values, G, RecordsOf(D, s2.block)[s2.b])
  BY <1>4, <1>5, Zenon DEF CopiedTo
<1>7. \A row : Table(row, D, X, F) => Reached(s2, D, G, F, row)
  BY <1>3, Zenon
<1>8. s2.at # "done"
  OBVIOUS
<1> QED
  BY <1>1, <1>4, <1>6, <1>7, <1>8, Zenon DEF ScanOK

LEMMA LastLeafOK ==
    ASSUME NEW D, NEW X, NEW F, NEW s, InLoop(s, D, X, F), s.off = F[s.right] \/ s.off = 0,
           Len(s.values) < s.max, NEW s2, NEW c, c = D[F[s.right]].children,
           Copies(s, s2, D, F[s.right], lower_bound(c, Len(c), s.left),
                  upper_bound(c, Len(c), s.right)),
           s2.at = "mark", NEW row, Table(row, D, X, F)
    PROVE  ScanOK(s2, D, X, F)
<1> DEFINE lo == s.from
           hi == s.right
           G == Span(X, lo, hi)
           first == lower_bound(c, Len(c), s.left)
           past == upper_bound(c, Len(c), s.right)
<1>1. s \in Scans /\ s.from <= s.right /\ s.left = s.from /\ Begins(s.values, G)
  BY Zenon DEF InLoop
<1>2. lo \in Keys /\ hi \in Keys
  BY <1>1, FieldsOfScan DEF ScanFields
<1>3. Reached(s, D, G, F, row)
  BY Zenon DEF InLoop
<1>4. PICK p \in 1..Len(row) :
        /\ row[p] = s.off
        /\ \E q \in 1..p : row[q] = F[lo]
        /\ \E q \in p..Len(row) : row[q] = F[hi]
        /\ Len(s.values) < s.max => HasAll(s.values, Earlier(D, row, p, G))
        /\ \A i \in 1..Len(s.values) : s.values[i] \in Earlier(D, row, p, G)
  BY <1>3, Zenon DEF Reached
<1>5. s.off = F[hi]
  <2>1. row[p] # 0
    BY Zenon DEF Table
  <2> QED
    BY <1>4, <2>1, Zenon
<1>6. c = RecordsOf(D, row[p])
  BY <1>4, <1>5, Zenon DEF RecordsOf
<1>7. c \in Seq(Records) /\ SortedTo(c, Len(c))
  BY <1>6, Zenon DEF Table
<1>8. FirstFrom(RecordsOf(D, row[p]), lo, first) /\ PastTo(RecordsOf(D, row[p]), hi, past)
  BY <1>1, <1>2, <1>6, <1>7, LowerIsFirst, UpperIsPast, Zenon
<1>9. Copies(s, s2, D, s.off, first, past)
  BY <1>5, Zenon
<1> HIDE DEF first, past
<1>10. CopiedTo(s2, D, G, row, p)
  BY <1>4, <1>8, <1>9, LoopCopies, Zenon
<1>11. /\ s2 \in Scans /\ s2.left = s.left /\ s2.right = s.right /\ s2.from = s.from
       /\ s2.block = s.off
  BY <1>9, Zenon DEF Copies
<1>12. /\ Len(s2.values) <= s2.max /\ Begins(s2.values, G)
       /\ Len(s2.values) = s2.max /\ s2.b # s2.e =>
              FirstMissing(s2.values, G, RecordsOf(D, s2.block)[s2.b])
  BY <1>4, <1>10, <1>11, Zenon DEF CopiedTo
<1>13. Len(s2.values) < s2.max => HasAll(s2.values, G)
  <2>1. RangeSplit(row, D, X, F, lo, hi, p)
    BY <1>2, <1>4, RangeParts, Zenon
  <2>2. \A x \in G : x \in Earlier(D, row, p, G) \/ Holds(RecordsOf(D, row[p]), x)
    <3>1. Later(D, row, p, G) = {}
      BY <1>4, <1>5, <2>1, Zenon DEF RangeSplit
    <3>2. \A x \in G : \/ x \in Earlier(D, row, p, G)
                       \/ Holds(RecordsOf(D, row[p]), x)
                       \/ x \in Later(D, row, p, G)
      BY <2>1, Zenon DEF RangeSplit
    <3> QED
      BY <3>1, <3>2, Zenon
  <2> QED
    BY <1>10, <2>2, Zenon DEF CopiedTo, HasAll
<1>14. s2.at # "done" /\ s2.at # "leaves"
  OBVIOUS
<1> QED
  BY <1>1, <1>11, <1>12, <1>13, <1>14, Zenon DEF ScanOK

(* The array is full. *)
LEMMA FullOK ==
    ASSUME NEW D, NEW X, NEW F, NEW s, ScanOK(s, D, X, F), s.at = "leaves",
           Len(s.values) = s.max, NEW s2 \in Scans, s2.at = "mark",
           s2.left = s.left, s2.right = s.right, s2.max = s.max, s2.from = s.from,
           s2.values = s.values, s2.b = s.b, s2.e = s.e, s2.block = s.block
    PROVE  ScanOK(s2, D, X, F)
<1> DEFINE G == Span(X, s.from, s.right)
<1>1. s.at # "done" /\ s2.at # "done" /\ s2.at # "leaves"
  OBVIOUS
<1>2. /\ s.from <= s.right /\ Len(s.values) <= s.max /\ Begins(s.values, G)
      /\ s.left = s.from
      /\ Len(s.values) = s.max /\ s.b # s.e =>
             FirstMissing(s.values, G, RecordsOf(D, s.block)[s.b])
  BY <1>1, Zenon DEF ScanOK
<1>3. ~(Len(s2.values) < s2.max)
  <2>1. s2.max \in Nat
    BY FieldsOfScan DEF ScanFields
  <2>2. Len(s2.values) = s2.max
    BY Zenon
  <2> QED
    BY <2>1, <2>2
<1> QED
  BY <1>1, <1>2, <1>3, Zenon DEF ScanOK

(* "mark for next iteration" *)
LEMMA MarkOK ==
    ASSUME NEW D, NEW X, NEW F, NEW s, ScanOK(s, D, X, F), s.at = "mark",
           NEW s2 \in Scans, s2.at = "done",
           s2.next <=> Len(s.values) = s.max /\ s.b # s.e,
           s2.next => s2.left = RecordsOf(D, s.block)[s.b].key,
           s2.right = s.right, s2.max = s.max, s2.from = s.from, s2.values = s.values
    PROVE  ScanOK(s2, D, X, F)
<1> DEFINE G == Span(X, s.from, s.right)
<1>1. s.at # "done" /\ s2.at # "leaves" /\ s.at # "leaves"
  OBVIOUS
<1>2. /\ s.from <= s.right /\ Len(s.values) <= s.max /\ Begins(s.values, G)
      /\ Len(s.values) = s.max /\ s.b # s.e =>
             FirstMissing(s.values, G, RecordsOf(D, s.block)[s.b])
      /\ Len(s.values) < s.max => HasAll(s.values, G)
  BY <1>1, Zenon DEF ScanOK
<1>3. s2.next => \E r \in G : s2.left = r.key /\ FirstMissing(s2.values, G, r)
  <2> SUFFICES ASSUME s2.next
               PROVE  \E r \in G : s2.left = r.key /\ FirstMissing(s2.values, G, r)
    OBVIOUS
  <2> DEFINE r == RecordsOf(D, s.block)[s.b]
  <2>1. FirstMissing(s.values, G, r) /\ s2.left = r.key
    BY <1>2, Zenon
  <2> HIDE DEF r
  <2>2. r \in G
    BY <2>1, Zenon DEF FirstMissing
  <2> QED
    BY <2>1, <2>2, Zenon
<1> QED
  BY <1>1, <1>2, <1>3, Zenon DEF ScanOK
-----------------------------------------------------------------------------
(* The records that Copy and the steps of the call build, field by field. *)
Overwrites(r, s, v, b, e, o) ==
    r = [s EXCEPT !.values = v, !.b = b, !.e = e, !.block = o]

LEMMA OverwrittenFields ==
    ASSUME NEW s \in Scans, NEW v \in Seq(Records), NEW b \in Nat, NEW e \in Nat, NEW o \in Nat,
           NEW r, Overwrites(r, s, v, b, e, o)
    PROVE  /\ r \in Scans /\ r.values = v /\ r.b = b /\ r.e = e /\ r.block = o
           /\ r.at = s.at /\ r.left = s.left /\ r.right = s.right /\ r.max = s.max
           /\ r.off = s.off /\ r.from = s.from
  BY DEF Overwrites, Scans

AdvancedTo(s2, r, o) == s2 = [r EXCEPT !.off = o]

LEMMA AdvancedFields ==
    ASSUME NEW r \in Scans, NEW o \in Nat, NEW s2, AdvancedTo(s2, r, o)
    PROVE  /\ s2 \in Scans /\ s2.values = r.values /\ s2.b = r.b /\ s2.e = r.e
           /\ s2.block = r.block /\ s2.at = r.at /\ s2.left = r.left /\ s2.right = r.right
           /\ s2.max = r.max /\ s2.off = o /\ s2.from = r.from
  BY DEF AdvancedTo, Scans

Leaving(s2, r) == s2 = [r EXCEPT !.at = "mark"]

LEMMA LeavingFields ==
    ASSUME NEW r \in Scans, NEW s2, Leaving(s2, r)
    PROVE  /\ s2 \in Scans /\ s2.values = r.values /\ s2.b = r.b /\ s2.e = r.e
           /\ s2.block = r.block /\ s2.at = "mark" /\ s2.left = r.left /\ s2.right = r.right
           /\ s2.max = r.max /\ s2.from = r.from
  BY DEF Leaving, Scans

LEMMA CopyCopies ==
    ASSUME scan \in Scans, Len(scan.values) < scan.max, NEW o \in Nat,
           NEW c, c = disk[o].children, c \in Seq(Records),
           NEW first \in 1..(Len(c) + 1), NEW past \in first..(Len(c) + 1)
    PROVE  /\ Copies(scan, Copy(o, first, past), disk, o, first, past)
           /\ Copy(o, first, past) \in Scans /\ Copy(o, first, past).at = scan.at
<1> DEFINE room == scan.max - Len(scan.values)
           n == IF past - first < room THEN past - first ELSE room
           v == scan.values \o SubSeq(c, first, first + n - 1)
           r == Copy(o, first, past)
<1>1. /\ scan.max \in Nat \ {0} /\ scan.values \in Seq(Records) /\ Len(scan.values) \in Nat
      /\ Len(c) \in Nat
  BY FieldsOfScan DEF ScanFields
<1>2. n \in 0..(past - first) /\ n \in Nat /\ first + n <= Len(c) + 1 /\ first + n \in Nat
      /\ past \in Nat
  <2> HIDE DEF room
  <2>1. past - first \in Nat /\ first \in Nat /\ past \in Nat /\ past <= Len(c) + 1
    BY <1>1
  <2>2. room \in Nat
    BY <1>1 DEF room
  <2>3. n = past - first \/ (n = room /\ ~(past - first < room))
    OBVIOUS
  <2> HIDE DEF n
  <2> QED
    BY <1>1, <2>1, <2>2, <2>3
<1>3. /\ Overwrites(r, scan, v, first + n, past, o)
      /\ Appends(v, scan.values, RecordsOf(disk, o), first, n)
  BY Zenon DEF Copy, Overwrites, Appends, RecordsOf
<1>4. v \in Seq(Records)
  <2> HIDE DEF n
  <2>1. LET v2 == scan.values \o SubSeq(c, first, first + n - 1) IN v2 \in Seq(Records)
    BY <1>1, <1>2, AppendedPart
  <2> QED
    BY <2>1, Zenon
<1>5. n = (IF past - first < scan.max - Len(scan.values) THEN past - first
           ELSE scan.max - Len(scan.values))
  OBVIOUS
<1> HIDE DEF n, v, r
<1>6. /\ r \in Scans /\ r.values = v /\ r.b = first + n /\ r.e = past /\ r.block = o
      /\ r.at = scan.at /\ r.left = scan.left /\ r.right = scan.right /\ r.max = scan.max
      /\ r.from = scan.from
  BY <1>2, <1>3, <1>4, OverwrittenFields
<1>7. Copies(scan, r, disk, o, first, past)
  BY <1>2, <1>3, <1>5, <1>6, Zenon DEF Copies
<1> QED
  BY <1>6, <1>7, Zenon DEF r
-----------------------------------------------------------------------------
(* The steps of the call. *)
LEMMA StartStep ==
    ASSUME MapInv, RowInv, NEW left \in Keys, NEW right \in Keys, NEW max \in MaxSizes,
           search_range(left, right, max)
    PROVE  ScanOK(scan', disk, Stock, Leaf)
<1>1. ~Inserting
  BY DEF search_range, Idle, Inserting
<1>2. PICK row : Table(row, disk, Stock, Leaf)
  BY <1>1, TreeTable
<1>3. LeafFor(left) = Leaf[left] /\ LeafFor(left) \in Nat
  <2>1. PICK p \in 1..Len(row) : row[p] = Leaf[left]
    BY <1>2, Zenon DEF Table
  <2>2. row[p] \in Nat \ {0}
    BY <1>2, <2>1, Zenon DEF Table
  <2>3. LeafFor(left) = Leaf[left]
    BY Zenon DEF Leaf
  <2> QED
    BY <2>1, <2>2, <2>3
<1>4. /\ left <= right
      /\ scan' = [at |-> "leaves", left |-> left, right |-> right, max |-> max,
                  off |-> LeafFor(left), values |-> <<>>, b |-> 0, e |-> 0,
                  block |-> 0, next |-> FALSE, from |-> left]
  BY Zenon DEF search_range
<1>5. max \in Nat \ {0} /\ <<>> \in Seq(Records)
  BY RangeAssumption
<1> DEFINE o == LeafFor(left)
<1> HIDE DEF o
<1>6. /\ scan' \in Scans /\ scan'.from = left /\ scan'.right = right /\ scan'.at = "leaves"
      /\ scan'.left = left /\ scan'.off = o /\ scan'.values = <<>>
  BY <1>3, <1>4, <1>5 DEF Scans, o
<1>7. scan'.off = Leaf[scan'.from] /\ scan'.from <= scan'.right /\ scan'.left = scan'.from
  BY <1>3, <1>4, <1>6, Zenon DEF o
<1> QED
  BY <1>6, <1>7, StartOK, Zenon

(* The leaf of the loop, as the tree has it. *)
LoopLeaf(p, row) ==
    /\ p \in 1..Len(row) /\ row[p] = scan.off /\ scan.off \in Nat \ {0}
    /\ disk[scan.off].children \in Seq(Records)
    /\ SortedTo(disk[scan.off].children, Len(disk[scan.off].children))
    /\ disk[scan.off].next \in Nat

LEMMA LeafOfLoop ==
    ASSUME InLoop(scan, disk, Stock, Leaf), NEW row, Table(row, disk, Stock, Leaf)
    PROVE  \E p : LoopLeaf(p, row)
<1>1. Reached(scan, disk, Span(Stock, scan.from, scan.right), Leaf, row)
  BY Zenon DEF InLoop
<1>2. PICK p \in 1..Len(row) : row[p] = scan.off
  BY <1>1, Zenon DEF Reached
<1>3. /\ \A q \in 1..Len(row) : row[q] \in Nat \ {0}
      /\ disk[row[p]].next = IF p = Len(row) THEN 0 ELSE row[p + 1]
      /\ RecordsOf(disk, row[p]) \in Seq(Records)
      /\ SortedTo(RecordsOf(disk, row[p]), Len(RecordsOf(disk, row[p])))
      /\ Len(row) \in Nat \ {0}
  BY <1>2, Zenon DEF Table
<1>4. disk[row[p]].next \in Nat
  <2>1. p # Len(row) => p + 1 \in 1..Len(row)
    BY <1>2, <1>3
  <2>2. p # Len(row) => row[p + 1] \in Nat
    BY <1>3, <2>1
  <2> QED
    BY <1>3, <2>2
<1> QED
  BY <1>2, <1>3, <1>4, Zenon DEF LoopLeaf, RecordsOf

LEMMA CopyLeafStep ==
    ASSUME MapInv, RowInv, ~Inserting, ScanOK(scan, disk, Stock, Leaf), CopyLeaf
    PROVE  ScanOK(scan', disk, Stock, Leaf)
<1> DEFINE c == disk[scan.off].children
           first == IF scan.off = Leaf[scan.left] THEN lower_bound(c, Len(c), scan.left) ELSE 1
           past == Len(c) + 1
           r == Copy(scan.off, first, past)
<1>1. PICK row : Table(row, disk, Stock, Leaf)
  BY TreeTable
<1>2. scan.at = "leaves" /\ Len(scan.values) < scan.max
  BY Zenon DEF CopyLeaf
<1>3. InLoop(scan, disk, Stock, Leaf)
  BY <1>2, ScanLoop, Zenon
<1>4. scan \in Scans
  BY <1>3, Zenon DEF InLoop
<1>5. scan.left \in Keys /\ scan.right \in Keys
  BY <1>4, FieldsOfScan DEF ScanFields
<1>6. LeafFor(scan.left) = Leaf[scan.left] /\ LeafFor(scan.right) = Leaf[scan.right]
  BY <1>5, Zenon DEF Leaf
<1>7. PICK p : LoopLeaf(p, row)
  BY <1>1, <1>3, LeafOfLoop, Zenon
<1>8. c \in Seq(Records) /\ SortedTo(c, Len(c)) /\ scan.off \in Nat /\ disk[scan.off].next \in Nat
  BY <1>7 DEF LoopLeaf
<1>9. /\ scan.off # Leaf[scan.right]
      /\ scan' = [r EXCEPT !.off = disk[scan.off].next]
  BY <1>6, Zenon DEF CopyLeaf, find_record
<1>10. Len(c) \in Nat /\ first \in 1..(Len(c) + 1) /\ past \in first..(Len(c) + 1)
  <2>1. Len(c) \in Nat
    BY <1>8
  <2>2. FirstFrom(c, scan.left, lower_bound(c, Len(c), scan.left))
    BY <1>5, <1>8, LowerIsFirst, Zenon
  <2>3. lower_bound(c, Len(c), scan.left) \in 1..(Len(c) + 1)
    BY <2>2, Zenon DEF FirstFrom
  <2>4. first \in 1..(Len(c) + 1)
    <3>1. 1 \in 1..(Len(c) + 1)
      BY <2>1
    <3> QED
      BY <2>3, <3>1, Zenon
  <2> HIDE DEF first
  <2> QED
    BY <2>1, <2>4
<1> HIDE DEF first, past, c
<1>11. /\ Copies(scan, r, disk, scan.off, first, past) /\ r \in Scans /\ r.at = scan.at
  BY <1>2, <1>4, <1>8, <1>10, CopyCopies, Zenon DEF c
<1> HIDE DEF r
<1>12. AdvancedTo(scan', r, disk[scan.off].next)
  BY <1>9, Zenon DEF AdvancedTo
<1>13. /\ scan' \in Scans /\ scan'.values = r.values /\ scan'.b = r.b /\ scan'.e = r.e
       /\ scan'.block = r.block /\ scan'.at = r.at /\ scan'.left = r.left
       /\ scan'.right = r.right /\ scan'.max = r.max /\ scan'.off = disk[scan.off].next
       /\ scan'.from = r.from
  BY <1>8, <1>11, <1>12, AdvancedFields
<1>14. Copies(scan, scan', disk, scan.off, first, past)
  BY <1>11, <1>13, Zenon DEF Copies
<1>15. scan'.at = "leaves"
  BY <1>2, <1>11, <1>13, Zenon
<1> QED
  BY <1>1, <1>2, <1>3, <1>9, <1>13, <1>14, <1>15, CopyLeafOK, Zenon DEF first, past, c

LEMMA LastLeafStep ==
    ASSUME MapInv, RowInv, ~Inserting, ScanOK(scan, disk, Stock, Leaf), LastLeaf
    PROVE  ScanOK(scan', disk, Stock, Leaf)
<1> DEFINE o == Leaf[scan.right]
           c == disk[o].children
           first == lower_bound(c, Len(c), scan.left)
           past == upper_bound(c, Len(c), scan.right)
           r == Copy(o, first, past)
<1>1. PICK row : Table(row, disk, Stock, Leaf)
  BY TreeTable
<1>2. scan.at = "leaves"
  BY Zenon DEF LastLeaf
<1>3. InLoop(scan, disk, Stock, Leaf)
  BY <1>2, ScanLoop, Zenon
<1>4. /\ scan \in Scans /\ scan.from <= scan.right /\ scan.left = scan.from
      /\ Len(scan.values) <= scan.max
  BY <1>3, Zenon DEF InLoop, ScanOK
<1>5. scan.left \in Keys /\ scan.right \in Keys /\ scan.max \in Nat /\ Len(scan.values) \in Nat
  BY <1>4, FieldsOfScan DEF ScanFields
<1>6. LeafFor(scan.right) = o
  BY <1>5, Zenon DEF Leaf
<1>7. CASE Len(scan.values) = scan.max
  <2>1. Leaving(scan', scan)
    BY <1>7, Zenon DEF LastLeaf, Leaving
  <2>2. /\ scan' \in Scans /\ scan'.values = scan.values /\ scan'.b = scan.b
        /\ scan'.e = scan.e /\ scan'.block = scan.block /\ scan'.at = "mark"
        /\ scan'.left = scan.left /\ scan'.right = scan.right /\ scan'.max = scan.max
        /\ scan'.from = scan.from
    BY <1>4, <2>1, LeavingFields
  <2> QED
    BY <1>2, <1>7, <2>2, FullOK, Zenon
<1>8. CASE Len(scan.values) # scan.max
  <2>1. Len(scan.values) < scan.max
    BY <1>4, <1>5, <1>8
  <2>2. /\ scan.off = o \/ scan.off = 0
        /\ Leaving(scan', r)
    BY <1>6, <1>8, Zenon DEF LastLeaf, find_record, Leaving
  <2>3. PICK p : LoopLeaf(p, row)
    BY <1>1, <1>3, LeafOfLoop, Zenon
  <2>4. c \in Seq(Records) /\ SortedTo(c, Len(c)) /\ o \in Nat
    BY <2>2, <2>3 DEF LoopLeaf
  <2>5. first \in 1..(Len(c) + 1) /\ past \in first..(Len(c) + 1)
    <3>1. FirstFrom(c, scan.left, first) /\ PastTo(c, scan.right, past)
      BY <1>5, <2>4, LowerIsFirst, UpperIsPast, Zenon
    <3> HIDE DEF first, past, c
    <3>2. scan.left <= scan.right
      BY <1>4, Zenon
    <3>3. Bounded(c, scan.left, scan.right, first, past)
      BY <1>5, <2>4, <3>1, <3>2, BothBounds
    <3> QED
      BY <3>3, Zenon DEF Bounded
  <2> HIDE DEF first, past, c, o
  <2>6. Copies(scan, r, disk, o, first, past) /\ r \in Scans
    BY <1>4, <2>1, <2>4, <2>5, CopyCopies, Zenon DEF c
  <2> HIDE DEF r
  <2>7. /\ scan' \in Scans /\ scan'.values = r.values /\ scan'.b = r.b /\ scan'.e = r.e
        /\ scan'.block = r.block /\ scan'.at = "mark" /\ scan'.left = r.left
        /\ scan'.right = r.right /\ scan'.max = r.max /\ scan'.from = r.from
    BY <2>2, <2>6, LeavingFields
  <2>8. Copies(scan, scan', disk, o, first, past)
    BY <2>6, <2>7, Zenon DEF Copies
  <2>9. scan'.at = "mark"
    BY <2>7, Zenon
  <2> QED
    BY <1>1, <1>3, <2>1, <2>2, <2>8, <2>9, LastLeafOK, Zenon DEF first, past, c, o
<1> QED
  BY <1>7, <1>8

LEMMA MarkStep ==
    ASSUME ScanOK(scan, disk, Stock, Leaf), Mark
    PROVE  ScanOK(scan', disk, Stock, Leaf)
<1> DEFINE more == Len(scan.values) = scan.max /\ scan.b # scan.e
           k == disk[scan.block].children[scan.b].key
           l == IF more THEN k ELSE scan.left
<1>1. scan \in Scans /\ scan.at = "mark" /\ scan.left \in Keys
  <2>1. scan \in Scans /\ scan.at = "mark"
    BY Zenon DEF ScanOK, Mark
  <2> QED
    BY <2>1, FieldsOfScan DEF ScanFields
<1>2. more => k \in Keys
  <2> SUFFICES ASSUME more
               PROVE  k \in Keys
    OBVIOUS
  <2>1. scan.at # "done"
    BY <1>1
  <2>2. FirstMissing(scan.values, Span(Stock, scan.from, scan.right),
                     RecordsOf(disk, scan.block)[scan.b])
    BY <2>1, Zenon DEF ScanOK
  <2>3. disk[scan.block].children[scan.b] \in Span(Stock, scan.from, scan.right)
    BY <2>2, Zenon DEF FirstMissing, RecordsOf
  <2> QED
    BY <2>3 DEF Span, Stock, Records
<1>3. l \in Keys
  BY <1>1, <1>2, Zenon
<1>4. scan' = [scan EXCEPT !.at = "done", !.next = more, !.left = l]
  BY Zenon DEF Mark
<1>5. more \in BOOLEAN
  OBVIOUS
<1>6. more => l = RecordsOf(disk, scan.block)[scan.b].key
  BY Zenon DEF RecordsOf
<1> HIDE DEF more, l, k
<1>7. /\ scan' \in Scans /\ scan'.at = "done" /\ scan'.next = more /\ scan'.left = l
      /\ scan'.right = scan.right /\ scan'.max = scan.max /\ scan'.from = scan.from
      /\ scan'.values = scan.values
  BY <1>1, <1>3, <1>4, <1>5 DEF Scans
<1>8. /\ scan'.next <=> Len(scan.values) = scan.max /\ scan.b # scan.e
      /\ scan'.next => scan'.left = RecordsOf(disk, scan.block)[scan.b].key
  BY <1>6, <1>7, Zenon DEF more
<1> QED
  BY <1>1, <1>7, <1>8, MarkOK, Zenon
-----------------------------------------------------------------------------
(* Between two calls nothing has been searched, or a call has returned or  *)
(* is at work on the tree as it is.                                        *)
ScanInv == scan = NoScan \/ (call = Idle /\ ScanOK(scan, disk, Stock, Leaf))

RangeInv == MapInv /\ RowInv /\ ScanInv

LEMMA InitRange == RangeInit => RangeInv
<1>1. Init => MapInv /\ RowInv
  BY InitIInv, InitLinks, InitOrd, InitChain, InitRows DEF MapInv
<1> QED
  BY <1>1 DEF RangeInit, RangeInv, ScanInv

LEMMA NextRange == RangeInv /\ [RangeNext]_<<vars, scan>> => RangeInv'
<1> SUFFICES ASSUME RangeInv, [RangeNext]_<<vars, scan>>
             PROVE  RangeInv'
  OBVIOUS
<1>1. MapInv /\ RowInv /\ ScanInv
  BY DEF RangeInv
<1>2. [Next]_vars
  BY DEF RangeNext, search_range, RangeStep, CopyLeaf, LastLeaf, Mark
<1>3. MapInv' /\ RowInv'
  BY <1>1, <1>2, NextIInv, NextLinks, NextOrd, NextChain, NextRows DEF MapInv
<1>4. UNCHANGED vars /\ call = Idle /\ ScanOK(scan', disk, Stock, Leaf) => ScanInv'
  <2> SUFFICES ASSUME UNCHANGED vars, call = Idle, ScanOK(scan', disk, Stock, Leaf)
               PROVE  ScanInv'
    OBVIOUS
  <2>1. disk' = disk /\ meta' = meta /\ call' = call
    BY DEF vars
  <2>2. Stock' = Stock
    BY <2>1 DEF Stock, Leaves, Offsets, IsLeaf
  <2>3. Leaf' = Leaf
    BY <2>1 DEF Leaf, LeafFor
  <2> QED
    BY <2>1, <2>2, <2>3 DEF ScanInv
<1>5. ASSUME scan' = NoScan
      PROVE  ScanInv'
  BY <1>5 DEF ScanInv, NoScan
<1>6. ASSUME NEW left \in Keys, NEW right \in Keys, NEW max \in MaxSizes,
             search_range(left, right, max)
      PROVE  ScanInv'
  <2>1. ScanOK(scan', disk, Stock, Leaf)
    BY <1>1, <1>6, StartStep
  <2>2. call = Idle /\ UNCHANGED vars
    BY <1>6, Zenon DEF search_range
  <2> QED
    BY <1>4, <2>1, <2>2, Zenon
<1>7. ASSUME RangeStep
      PROVE  ScanInv'
  <2>1. scan # NoScan
    BY <1>7 DEF RangeStep, CopyLeaf, LastLeaf, Mark, NoScan
  <2>2. call = Idle /\ ScanOK(scan, disk, Stock, Leaf) /\ ~Inserting
    BY <1>1, <2>1 DEF ScanInv, Idle, Inserting
  <2>3. ScanOK(scan', disk, Stock, Leaf)
    BY <1>1, <1>7, <2>2, CopyLeafStep, LastLeafStep, MarkStep, Zenon DEF RangeStep
  <2>4. UNCHANGED vars
    BY <1>7 DEF RangeStep, CopyLeaf, LastLeaf, Mark
  <2> QED
    BY <1>4, <2>2, <2>3, <2>4, Zenon
<1>8. ASSUME UNCHANGED <<vars, scan>>
      PROVE  ScanInv'
  <2>1. UNCHANGED vars /\ scan' = scan
    BY <1>8
  <2>2. CASE scan = NoScan
    BY <1>5, <2>1, <2>2, Zenon
  <2>3. CASE call = Idle /\ ScanOK(scan, disk, Stock, Leaf)
    <3>1. ScanOK(scan', disk, Stock, Leaf)
      BY <2>1, <2>3, Zenon
    <3> QED
      BY <1>4, <2>1, <2>3, <3>1, Zenon
  <2> QED
    BY <1>1, <2>2, <2>3, Zenon DEF ScanInv
<1>9. ScanInv'
  BY <1>5, <1>6, <1>7, <1>8, Zenon DEF RangeNext
<1> QED
  BY <1>3, <1>9 DEF RangeInv

-----------------------------------------------------------------------------
(* What a call that has returned says of the tree. *)
LEMMA ImageSize ==
    ASSUME NEW m \in Nat, NEW T, NEW f \in [1..m -> T],
           \A i, j \in 1..m : f[i] = f[j] => i = j, \A x \in T : \E i \in 1..m : f[i] = x
    PROVE  IsFiniteSet(T) /\ Cardinality(T) = m
<1>1. f \in Surjection(1..m, T) /\ f \in Injection(1..m, T)
  BY DEF Surjection, Injection, IsInjective
<1>2. IsFiniteSet(1..m) /\ Cardinality(1..m) = m
  BY FS_Interval
<1> QED
  BY <1>1, <1>2, FS_Surjection

(* The i-th of the records copied is the i-th of the range. *)
FirstKeys(T, m, v, G) ==
    /\ \A x \in G : x.key \in Nat
    /\ Len(v) \in Nat /\ Begins(v, G) /\ m \in 0..Len(v)
    /\ \A k : k \in T <=> \E j \in 1..m : v[j].key = k

LEMMA RankOf ==
    ASSUME NEW T, NEW m, NEW v, NEW G, FirstKeys(T, m, v, G)
    PROVE  IsFiniteSet(T) /\ Cardinality(T) = m
<1> /\ \A x \in G : x.key \in Nat
    /\ Len(v) \in Nat /\ Begins(v, G) /\ m \in 0..Len(v)
    /\ \A k : k \in T <=> \E j \in 1..m : v[j].key = k
  BY Zenon DEF FirstKeys
<1> DEFINE f == [j \in 1..m |-> v[j].key]
<1>1. m \in Nat /\ \A j \in 1..m : j \in 1..Len(v)
  OBVIOUS
<1>2. \A i, j \in 1..Len(v) : i < j => v[i].key < v[j].key
  BY DEF Begins, SortedTo
<1>3. \A j \in 1..m : v[j].key \in Nat
  BY <1>1 DEF Begins
<1>4. ASSUME NEW i \in 1..m, NEW j \in 1..m, f[i] = f[j]
      PROVE  i = j
  <2>1. v[i].key = v[j].key /\ v[i].key \in Nat
    BY <1>3, <1>4
  <2>2. ~(i < j) /\ ~(j < i)
    BY <1>1, <1>2, <2>1
  <2> QED
    BY <1>1, <2>2
<1>5. f \in [1..m -> T] /\ \A x \in T : \E j \in 1..m : f[j] = x
  OBVIOUS
<1> HIDE DEF f
<1> QED
  BY <1>1, <1>4, <1>5, ImageSize

(* The keys of the range that the properties speak of are those of the     *)
(* records in it, and the map has their values.                            *)
LEMMA RangeRecords ==
    ASSUME MapInv, scan \in Scans
    PROVE  LET G == Span(Stock, scan.from, scan.right)
           IN  /\ \A x \in G : x.key \in Nat /\ x.key <= scan.right /\ x.key \in Keys
               /\ \A k : k \in InRange <=> \E x \in G : x.key = k
               /\ \A x \in G : Contents[x.key] = x.value
               /\ \A x, y \in G : x.key = y.key => x = y
               /\ IsFiniteSet(InRange)
<1> DEFINE G == Span(Stock, scan.from, scan.right)
<1>1. Contents = MapOf(Stock) /\ Stock \in SUBSET Records /\ Single(Stock)
  BY ContentsFacts DEF StockIsMap
<1>2. /\ \A k : k \in DOMAIN MapOf(Stock) <=> \E r \in Stock : r.key = k
      /\ \A r \in Stock : MapOf(Stock)[r.key] = r.value
  BY <1>1, MapReads
<1>3. scan.from \in Nat /\ scan.right \in Nat
  BY FieldsOfScan, KeysAssumption DEF ScanFields
<1>4. \A x \in G : x \in Stock /\ x.key \in Nat /\ x.key <= scan.right /\ x.key \in Keys
  BY <1>1, KeysAssumption DEF Span, Records
<1>5. \A k : k \in InRange <=> \E x \in G : x.key = k
  <2>1. \A k : k \in DOMAIN Contents <=> \E r \in Stock : r.key = k
    BY <1>1, <1>2, Zenon
  <2> QED
    BY <2>1, Zenon DEF InRange, Span
<1>6. \A x \in G : Contents[x.key] = x.value
  BY <1>1, <1>2, <1>4, Zenon
<1>7. \A x, y \in G : x.key = y.key => x = y
  BY <1>1, <1>4, Zenon DEF Single
<1>8. IsFiniteSet(InRange)
  <2>1. InRange \in SUBSET Nat /\ \A k \in InRange : k <= scan.right
    <3> HIDE DEF G
    <3> QED
      BY <1>4, <1>5
  <2> QED
    BY <1>3, <2>1, FS_BoundedSetOfNaturals
<1> QED
  BY <1>4, <1>5, <1>6, <1>7, <1>8, Zenon

LEMMA ExactReturn ==
    ASSUME MapInv, ScanInv
    PROVE  RangeExact
<1> SUFFICES ASSUME scan.at = "done"
             PROVE  RangeExact
  BY DEF RangeExact
<1> DEFINE G == Span(Stock, scan.from, scan.right)
           v == scan.values
           n == Len(v)
           K == {v[i].key : i \in 1..n}
<1>1. ScanOK(scan, disk, Stock, Leaf)
  BY DEF ScanInv, NoScan
<1>2. /\ scan \in Scans /\ n <= scan.max /\ Begins(v, G)
      /\ n < scan.max => HasAll(v, G)
  <2>1. scan.at # "leaves"
    OBVIOUS
  <2> QED
    BY <1>1, <2>1, Zenon DEF ScanOK
<1>3. n \in Nat /\ scan.max \in Nat /\ DOMAIN v = 1..n
  BY <1>2, FieldsOfScan DEF ScanFields
<1>4. /\ \A x \in G : x.key \in Nat
      /\ \A k : k \in InRange <=> \E x \in G : x.key = k
      /\ \A x \in G : Contents[x.key] = x.value
      /\ IsFiniteSet(InRange)
  BY <1>2, RangeRecords, Zenon
<1>5. /\ \A i \in 1..n : v[i] \in G
      /\ \A i, j \in 1..n : i < j => v[i].key < v[j].key
      /\ \A x \in G : \A i \in 1..n : x.key < v[i].key => \E j \in 1..n : v[j] = x
  BY <1>2, Zenon DEF Begins, SortedTo
<1> HIDE DEF G, v, n
<1>6. IsFiniteSet(K) /\ Cardinality(K) = n
  <2>1. \A k : k \in K <=> \E j \in 1..n : v[j].key = k
    OBVIOUS
  <2>2. n \in 0..Len(v) /\ Len(v) \in Nat
    BY <1>3 DEF n
  <2> QED
    <3>1. FirstKeys(K, n, v, G)
      BY <1>2, <1>4, <2>1, <2>2, Zenon DEF FirstKeys, n
    <3> QED
      BY <3>1, RankOf, Zenon
<1>7. K \subseteq InRange
  BY <1>4, <1>5
<1>8. Cardinality(InRange) \in Nat /\ n <= Cardinality(InRange)
  BY <1>4, <1>6, <1>7, FS_Subset, FS_CardinalityType
<1>9. n < scan.max => Cardinality(InRange) = n
  <2> SUFFICES ASSUME n < scan.max
               PROVE  InRange = K
    BY <1>6
  <2>1. \A x \in G : \E j \in 1..n : v[j] = x
    BY <1>2 DEF HasAll, n
  <2> QED
    BY <1>4, <1>7, <2>1
<1>10. n = IF Cardinality(InRange) < scan.max THEN Cardinality(InRange) ELSE scan.max
  BY <1>2, <1>3, <1>8, <1>9
<1>11. ASSUME NEW i \in 1..n
       PROVE  /\ v[i].key \in InRange /\ v[i].value = Contents[v[i].key]
              /\ Cardinality({k \in InRange : k < v[i].key}) = i - 1
  <2> DEFINE T == {k \in InRange : k < v[i].key}
  <2>1. v[i] \in G
    BY <1>5
  <2>2. v[i].key \in InRange /\ v[i].value = Contents[v[i].key]
    BY <1>4, <2>1, Zenon
  <2>3. i - 1 \in 0..n
    BY <1>3
  <2>4. \A k : k \in T <=> \E j \in 1..(i - 1) : v[j].key = k
    <3>1. ASSUME NEW k \in T
          PROVE  \E j \in 1..(i - 1) : v[j].key = k
      <4>1. PICK x \in G : x.key = k
        BY <1>4
      <4>2. PICK j \in 1..n : v[j] = x
        BY <1>5, <4>1
      <4>3. ~(i < j) /\ i # j
        <5>1. k < v[i].key /\ v[j].key = k /\ k \in Nat /\ v[i].key \in Nat
          BY <1>4, <2>1, <4>1, <4>2
        <5>2. i < j => v[i].key < v[j].key
          BY <1>5
        <5> QED
          BY <5>1, <5>2
      <4>4. j \in 1..(i - 1)
        BY <1>3, <4>3
      <4> QED
        BY <4>1, <4>2, <4>4
    <3>2. ASSUME NEW j \in 1..(i - 1)
          PROVE  v[j].key \in T
      <4>1. j \in 1..n /\ j < i
        BY <1>3
      <4>2. v[j] \in G /\ v[j].key < v[i].key
        BY <1>5, <4>1
      <4>3. v[j].key \in InRange
        BY <1>4, <4>2, Zenon
      <4> QED
        BY <4>2, <4>3
    <3> QED
      BY <3>1, <3>2
  <2> HIDE DEF T
  <2>5. Cardinality(T) = i - 1
    <3>1. i - 1 \in 0..Len(v) /\ Len(v) \in Nat
      BY <1>3, <2>3 DEF n
    <3>2. FirstKeys(T, i - 1, v, G)
      BY <1>2, <1>4, <2>4, <3>1, Zenon DEF FirstKeys, n
    <3> QED
      BY <3>2, RankOf, Zenon
  <2> QED
    BY <2>2, <2>5 DEF T
<1>12. /\ Len(scan.values) = IF Cardinality(InRange) < scan.max THEN Cardinality(InRange)
                             ELSE scan.max
       /\ \A i \in DOMAIN scan.values :
              /\ scan.values[i].key \in InRange
              /\ scan.values[i].value = Contents[scan.values[i].key]
              /\ Cardinality({k \in InRange : k < scan.values[i].key}) = i - 1
  BY <1>3, <1>10, <1>11, Zenon DEF n, v
<1> QED
  BY <1>12, Zenon DEF RangeExact

LEMMA MarkedReturn ==
    ASSUME MapInv, ScanInv
    PROVE  NextLeft
<1> SUFFICES ASSUME scan.at = "done", scan.next
             PROVE  NextLeft
  BY DEF NextLeft
<1> DEFINE G == Span(Stock, scan.from, scan.right)
           v == scan.values
           n == Len(v)
<1>1. ScanOK(scan, disk, Stock, Leaf)
  BY DEF ScanInv, NoScan
<1>2. PICK r \in G : scan.left = r.key /\ FirstMissing(v, G, r)
  BY <1>1, Zenon DEF ScanOK
<1>3. scan \in Scans /\ Begins(v, G)
  BY <1>1, Zenon DEF ScanOK
<1>4. n \in Nat /\ DOMAIN v = 1..n
  BY <1>3, FieldsOfScan DEF ScanFields
<1>5. /\ \A x \in G : x.key \in Nat
      /\ \A k : k \in InRange <=> \E x \in G : x.key = k
  BY <1>3, RangeRecords, Zenon
<1>6. /\ \A i \in 1..n : v[i].key < r.key
      /\ \A x \in G : r.key <= x.key \/ \E j \in 1..n : v[j] = x
      /\ \A i \in 1..n : v[i] \in G
  BY <1>2, <1>3, Zenon DEF FirstMissing, Begins
<1>7. \A k : k \in Copied <=> \E i \in 1..n : v[i].key = k
  BY <1>4 DEF Copied
<1> HIDE DEF G, v, n
<1>8. r.key \in InRange /\ r.key \in Nat
  BY <1>2, <1>5, Zenon
<1>9. r.key \notin Copied
  <2> SUFFICES ASSUME r.key \in Copied
               PROVE  FALSE
    OBVIOUS
  <2>1. PICK i \in 1..n : v[i].key = r.key
    BY <1>7
  <2>2. v[i].key < r.key
    BY <1>6
  <2> QED
    BY <1>8, <2>1, <2>2
<1>10. ASSUME NEW k \in InRange \ Copied
       PROVE  r.key <= k
  <2>1. PICK x \in G : x.key = k
    BY <1>5
  <2>2. ~ \E j \in 1..n : v[j] = x
    BY <1>7, <2>1
  <2> QED
    BY <1>6, <2>1, <2>2
<1> QED
  BY <1>2, <1>8, <1>9, <1>10 DEF NextLeft

LEMMA RangeInvariant == RangeSpec => []RangeInv
BY InitRange, NextRange, PTL DEF RangeSpec

(* A search_range that has returned has copied the smallest keys of the    *)
(* range, in order, with their values, as many as fit or as there are.     *)
THEOREM RangeFound == RangeSpec => []RangeExact
<1>1. RangeInv => RangeExact
  BY ExactReturn DEF RangeInv
<1> QED
  BY <1>1, RangeInvariant, PTL

(* Where *next is set, *left is the smallest key of the range that the     *)
(* call has not returned: the caller's next call misses and repeats none.  *)
THEOREM RangeGoesOn == RangeSpec => []NextLeft
<1>1. RangeInv => NextLeft
  BY MarkedReturn DEF RangeInv
<1> QED
  BY <1>1, RangeInvariant, PTL
=============================================================================
