-------------------------- MODULE BPlusTree_proofs --------------------------
(***************************************************************************)
(* Proofs about BPlusTree for every ORDER >= 4 and every set of keys and   *)
(* values: its shape first, then the order of its keys.                    *)
(*                                                                         *)
(* TypeOK is not inductive: it says that the block which a call is about   *)
(* to map is an index node, and that depends on how deep the block lies.   *)
(* The inductive invariant therefore gives every block a level, its height *)
(* above the leaves, such that each entry points one level down and each   *)
(* parent field one level up.                                              *)
(***************************************************************************)
EXTENDS BPlusTreeInvariants, SequenceTheorems, WellFoundedInduction, TLAPS

-----------------------------------------------------------------------------
(***************************************************************************)
(* Facts about the operators of BPlusTreeNodes: what the binary searches   *)
(* return and what an insertion into a node does to its entries.           *)
(***************************************************************************)

Less == {pair \in Nat \X Nat : pair[1] < pair[2]}

(* Every non-empty set of naturals has a least element. *)
LEMMA LeastElement ==
    ASSUME NEW S \in SUBSET Nat, S # {}
    PROVE  \E m \in S : \A k \in S : m <= k
<1>1. IsWellFoundedOn(Less, Nat)
  BY NatLessThanWellFounded, Zenon DEF OpToRel, Less
<1>2. PICK m \in S : \A y \in S : <<y, m>> \notin Less
  BY <1>1, WFMin, Zenon
<1>3. ASSUME NEW y \in S, y < m
      PROVE  FALSE
  <2>1. <<y, m>> \in Nat \X Nat
    OBVIOUS
  <2>2. <<y, m>>[1] < <<y, m>>[2]
    BY <1>3
  <2>3. <<y, m>> \in Less
    BY <2>1, <2>2, Zenon DEF Less
  <2> QED
    BY <2>3, <1>2
<1>4. S \subseteq Nat
  OBVIOUS
<1> QED
  BY <1>3, <1>4

(* std::upper_bound as modelled returns the first entry whose key is       *)
(* greater than key, or the end of the range.                              *)
LEMMA UpperBound ==
    ASSUME NEW children, NEW m \in Nat, NEW key \in Nat,
           \A i \in 1..m : children[i].key \in Nat
    PROVE  LET u == upper_bound(children, m, key)
           IN  /\ u \in 1..(m + 1)
               /\ \A j \in 1..(u - 1) : children[j].key <= key
               /\ u <= m => key < children[u].key
<1> DEFINE Greater == {i \in 1..m : key < children[i].key}
           P(i) == /\ \A j \in 1..(i - 1) : children[j].key <= key
                   /\ i <= m => key < children[i].key
<1>0. Greater \in SUBSET Nat
  OBVIOUS
<1>1. \E i \in 1..(m + 1) : P(i)
  <2>1. CASE Greater = {}
    <3>1. P(m + 1)
      BY <2>1
    <3> QED
      BY <3>1
  <2>2. CASE Greater # {}
    <3> HIDE DEF Greater
    <3>1. PICK i \in Greater : \A k \in Greater : i <= k
      BY <1>0, <2>2, LeastElement, Zenon
    <3> USE DEF Greater
    <3>2. ASSUME NEW j \in 1..(i - 1)
          PROVE  children[j].key <= key
      BY <3>1
    <3> QED
      BY <3>1, <3>2
  <2> QED
    BY <2>1, <2>2
<1> QED
  BY <1>1 DEF upper_bound

(* std::lower_bound as modelled returns the first entry whose key is not   *)
(* less than key, or the end of the range.                                 *)
LEMMA LowerBound ==
    ASSUME NEW children, NEW m \in Nat, NEW key \in Nat,
           \A i \in 1..m : children[i].key \in Nat
    PROVE  LET u == lower_bound(children, m, key)
           IN  /\ u \in 1..(m + 1)
               /\ \A j \in 1..(u - 1) : children[j].key < key
               /\ u <= m => key <= children[u].key
<1> DEFINE NotLess == {i \in 1..m : key <= children[i].key}
           P(i) == /\ \A j \in 1..(i - 1) : children[j].key < key
                   /\ i <= m => key <= children[i].key
<1>0. NotLess \in SUBSET Nat
  OBVIOUS
<1>1. \E i \in 1..(m + 1) : P(i)
  <2>1. CASE NotLess = {}
    <3>1. P(m + 1)
      BY <2>1
    <3> QED
      BY <3>1
  <2>2. CASE NotLess # {}
    <3> HIDE DEF NotLess
    <3>1. PICK i \in NotLess : \A k \in NotLess : i <= k
      BY <1>0, <2>2, LeastElement, Zenon
    <3> USE DEF NotLess
    <3>2. ASSUME NEW j \in 1..(i - 1)
          PROVE  children[j].key < key
      BY <3>1
    <3> QED
      BY <3>1, <3>2
  <2> QED
    BY <2>1, <2>2
<1> QED
  BY <1>1 DEF lower_bound

(* InsertAt, entry by entry. *)
LEMMA InsertAtEntries ==
    ASSUME NEW S, NEW s \in Seq(S), NEW e \in S, NEW i \in 1..(Len(s) + 1)
    PROVE  /\ InsertAt(s, i, e) \in Seq(S)
           /\ Len(InsertAt(s, i, e)) = Len(s) + 1
           /\ \A j \in 1..(i - 1) : InsertAt(s, i, e)[j] = s[j]
           /\ InsertAt(s, i, e)[i] = e
           /\ \A j \in (i + 1)..(Len(s) + 1) : InsertAt(s, i, e)[j] = s[j - 1]
<1> DEFINE l == SubSeq(s, 1, i - 1)
           r == SubSeq(s, i, Len(s))
<1>1. l \in Seq(S) /\ Len(l) = i - 1 /\ \A j \in 1..(i - 1) : l[j] = s[j]
  BY SubSeqProperties
<1>2. r \in Seq(S) /\ Len(r) = Len(s) - i + 1
      /\ \A j \in 1..(Len(s) - i + 1) : r[j] = s[i + j - 1]
  BY SubSeqProperties
<1>3. InsertAt(s, i, e) = l \o <<e>> \o r
  BY DEF InsertAt
<1> HIDE DEF l, r
<1>4. <<e>> \in Seq(S) /\ Len(<<e>>) = 1 /\ <<e>>[1] = e
  OBVIOUS
<1> DEFINE le == l \o <<e>>
<1>5. /\ le \in Seq(S)
      /\ Len(le) = i
      /\ \A j \in 1..i : le[j] = IF j < i THEN s[j] ELSE e
  BY <1>1, <1>4, ConcatProperties
<1>6. InsertAt(s, i, e) = le \o r
  BY <1>3
<1> HIDE DEF le
<1>7. /\ le \o r \in Seq(S)
      /\ Len(le \o r) = Len(le) + Len(r)
      /\ \A j \in 1..(Len(le) + Len(r)) :
             (le \o r)[j] = IF j <= Len(le) THEN le[j] ELSE r[j - Len(le)]
  BY <1>2, <1>5, ConcatProperties, Zenon
<1>8. Len(s) \in Nat
  OBVIOUS
<1> DEFINE ins == InsertAt(s, i, e)
<1>9. /\ ins \in Seq(S)
      /\ Len(ins) = Len(s) + 1
      /\ \A j \in 1..(Len(s) + 1) :
             ins[j] = IF j <= i THEN le[j] ELSE r[j - i]
  BY <1>2, <1>5, <1>6, <1>7, <1>8
<1> HIDE DEF ins
<1>10. \A j \in 1..(i - 1) : ins[j] = s[j]
  BY <1>5, <1>8, <1>9, SMTT(30)
<1>11. ins[i] = e
  BY <1>5, <1>8, <1>9
<1>12. \A j \in (i + 1)..(Len(s) + 1) : ins[j] = s[j - 1]
  BY <1>2, <1>8, <1>9
<1> QED
  BY <1>9, <1>10, <1>11, <1>12 DEF ins

-----------------------------------------------------------------------------
(* Entries, records and nodes over a set K of keys, a set C of children, a *)
(* set V of values and a set P of offsets or null.                         *)
EntriesOver(K, C) == [key : K \cup {EmptyKey}, child : C]
RecordsOver(K, V) == [key : K, value : V]

IndexNodesOver(K, C, P) ==
    [kind : {"internal"}, parent : P, next : P, prev : P,
     children : Seq(EntriesOver(K, C))]
LeafNodesOver(K, V, P) ==
    [kind : {"leaf"}, parent : P, next : P, prev : P,
     children : Seq(RecordsOver(K, V))]

(* All keys but the last of an index node are keys of records. *)
RealSeparators(K, c) == \A i \in 1..(Len(c) - 1) : c[i].key \in K

(* The fields of an entry. *)
LEMMA EntryFields ==
    ASSUME NEW K \in SUBSET Nat, NEW C, NEW e \in EntriesOver(K, C)
    PROVE  e.key \in Nat /\ e.key \in K \cup {EmptyKey} /\ e.child \in C
<1>1. e.key \in K \cup {EmptyKey} /\ e.child \in C
  BY DEF EntriesOver
<1>2. K \cup {EmptyKey} \subseteq Nat
  BY DEF EmptyKey
<1> QED
  BY <1>1, <1>2, Zenon

(* find() on an index node that has an entry finds one of its entries: the *)
(* descent never leaves the array.                                         *)
LEMMA FindIndex ==
    ASSUME NEW K \in SUBSET Nat, NEW C, NEW node, NEW key \in Nat,
           node.children \in Seq(EntriesOver(K, C)),
           Len(node.children) >= 1
    PROVE  find_index(node, key) \in 1..Len(node.children)
<1> DEFINE c == node.children
           m == Len(c) - 1
<1>1. Len(c) \in Nat /\ m \in Nat
  OBVIOUS
<1>2. \A i \in 1..m : c[i].key \in Nat
  <2>1. \A i \in 1..m : c[i] \in EntriesOver(K, C)
    BY <1>1
  <2>2. \A e \in EntriesOver(K, C) : e.key \in Nat
    BY EntryFields
  <2> HIDE DEF c, m
  <2> QED
    BY <2>1, <2>2
<1> HIDE DEF c
<1>3. upper_bound(c, m, key) \in 1..(m + 1)
  BY <1>1, <1>2, UpperBound
<1> QED
  BY <1>1, <1>3 DEF find_index, c

(* c2 is c with rec added behind the records whose key is not greater.     *)
RecordAdded(c, R, rec, c2) ==
    \E w \in 1..(Len(c) + 1) :
        /\ \A j \in 1..(w - 1) : c[j].key <= rec.key
        /\ w <= Len(c) => rec.key < c[w].key
        /\ c2 \in Seq(R)
        /\ Len(c2) = Len(c) + 1
        /\ \A j \in 1..(w - 1) : c2[j] = c[j]
        /\ c2[w] = rec
        /\ \A j \in (w + 1)..(Len(c) + 1) : c2[j] = c[j - 1]

(* c2 is c with entry w doubled: the first copy has the new key and the    *)
(* old child, the second the old key and the new child.                    *)
EntryAdded(c, E, w, key, value, c2) ==
    /\ w \in 1..Len(c)
    /\ c2 \in Seq(E)
    /\ Len(c2) = Len(c) + 1
    /\ \A j \in 1..(w - 1) : c2[j] = c[j]
    /\ c2[w].key = key /\ c2[w].child = c[w].child
    /\ c2[w + 1].key = c[w].key /\ c2[w + 1].child = value
    /\ \A j \in (w + 2)..(Len(c) + 1) : c2[j] = c[j - 1]

(* insert_record_no_split, record by record.                               *)
LEMMA InsertRecordEntries ==
    ASSUME NEW K \in SUBSET Nat, NEW V, NEW P,
           NEW l \in LeafNodesOver(K, V, P),
           NEW key \in K, NEW value \in V
    PROVE  RecordAdded(l.children, RecordsOver(K, V), Record(key, value),
                       insert_record_no_split(l, key, value).children)
<1> DEFINE R == RecordsOver(K, V)
           c == l.children
           w == upper_bound(c, Len(c), key)
           rec == Record(key, value)
           new == InsertAt(c, w, rec)
<1>1. c \in Seq(R) /\ rec \in R
  BY DEF Record, RecordsOver, LeafNodesOver
<1>2. Len(c) \in Nat /\ key \in Nat /\ \A i \in 1..Len(c) : c[i].key \in Nat
  <2>1. \A i \in 1..Len(c) : c[i] \in R
    BY <1>1
  <2>2. ASSUME NEW r \in R PROVE r.key \in Nat
    BY DEF RecordsOver
  <2>3. Len(c) \in Nat /\ key \in Nat
    BY <1>1
  <2> HIDE DEF c, R
  <2> QED
    BY <2>1, <2>2, <2>3
<1>3. insert_record_no_split(l, key, value).children = new
  BY DEF insert_record_no_split, LeafNodesOver
<1> HIDE DEF c, rec, R
<1>4. /\ w \in 1..(Len(c) + 1)
      /\ \A j \in 1..(w - 1) : c[j].key <= key
      /\ w <= Len(c) => key < c[w].key
  BY <1>2, UpperBound
<1> HIDE DEF w
<1>5. /\ new \in Seq(R) /\ Len(new) = Len(c) + 1
      /\ \A j \in 1..(w - 1) : new[j] = c[j]
      /\ new[w] = rec
      /\ \A j \in (w + 1)..(Len(c) + 1) : new[j] = c[j - 1]
  BY <1>1, <1>4, InsertAtEntries
<1> HIDE DEF new
<1>6. rec.key = key
  BY DEF rec, Record
<1>7. RecordAdded(c, R, rec, new)
  BY <1>4, <1>5, <1>6 DEF RecordAdded
<1> QED
  BY <1>3, <1>7 DEF c, R, rec

(* insert_record_no_split adds one record and keeps the header. *)
LEMMA InsertRecord ==
    ASSUME NEW K \in SUBSET Nat, NEW V, NEW P,
           NEW l \in LeafNodesOver(K, V, P),
           NEW key \in K, NEW value \in V
    PROVE  LET ins == insert_record_no_split(l, key, value) IN
           /\ ins \in LeafNodesOver(K, V, P)
           /\ ins.parent = l.parent
           /\ Len(ins.children) = Len(l.children) + 1
<1> DEFINE new == insert_record_no_split(l, key, value).children
<1>1. new \in Seq(RecordsOver(K, V)) /\ Len(new) = Len(l.children) + 1
  <2>1. RecordAdded(l.children, RecordsOver(K, V), Record(key, value), new)
    BY InsertRecordEntries
  <2> QED
    BY <2>1 DEF RecordAdded
<1>0. insert_record_no_split(l, key, value) = [l EXCEPT !.children = new]
  BY DEF insert_record_no_split, LeafNodesOver
<1> HIDE DEF new
<1>2. /\ [l EXCEPT !.children = new] \in LeafNodesOver(K, V, P)
      /\ [l EXCEPT !.children = new].children = new
      /\ [l EXCEPT !.children = new].parent = l.parent
  BY <1>1 DEF LeafNodesOver
<1> QED
  BY <1>0, <1>1, <1>2

(* insert_key_to_index_no_split, entry by entry: the entry that find()     *)
(* returns is the one that is doubled.                                     *)
LEMMA InsertKeyEntries ==
    ASSUME NEW K \in SUBSET Nat, NEW C, NEW P,
           NEW node \in IndexNodesOver(K, C, P),
           Len(node.children) >= 1,
           NEW key \in K, NEW value \in C
    PROVE  EntryAdded(node.children, EntriesOver(K, C), find_index(node, key),
                      key, value,
                      insert_key_to_index_no_split(node, key, value).children)
<1> DEFINE E == EntriesOver(K, C)
           c == node.children
           w == find_index(node, key)
           ent == Entry(key, c[w].child)
           upd == [c[w] EXCEPT !.child = value]
           mid == [c EXCEPT ![w].child = value]
           new == InsertAt(mid, w, ent)
<1>0. key \in Nat
  OBVIOUS
<1>1. c \in Seq(E) /\ Len(c) \in Nat /\ DOMAIN c = 1..Len(c)
  BY DEF IndexNodesOver
<1>2. w \in 1..Len(c)
  BY <1>0, <1>1, FindIndex
<1>12. insert_key_to_index_no_split(node, key, value).children = new
  BY DEF insert_key_to_index_no_split, IndexNodesOver
<1> HIDE DEF w, c
<1>3. c[w] \in E
  BY <1>1, <1>2, ElementOfSeq
<1>4. /\ ent \in E /\ ent.key = key /\ ent.child = c[w].child
      /\ upd \in E /\ upd.key = c[w].key /\ upd.child = value
  BY <1>3 DEF EntriesOver, Entry
<1>5. mid = [c EXCEPT ![w] = upd]
  OBVIOUS
<1> HIDE DEF ent, upd, mid, E
<1>6. /\ mid \in Seq(E) /\ Len(mid) = Len(c)
      /\ \A j \in 1..Len(c) : mid[j] = IF j = w THEN upd ELSE c[j]
  BY <1>1, <1>2, <1>4, <1>5, ExceptSeq
<1>61. w \in 1..(Len(mid) + 1)
  BY <1>1, <1>2, <1>6
<1>62. /\ new \in Seq(E)
       /\ Len(new) = Len(mid) + 1
       /\ \A j \in 1..(w - 1) : new[j] = mid[j]
       /\ new[w] = ent
       /\ \A j \in (w + 1)..(Len(mid) + 1) : new[j] = mid[j - 1]
  <2>1. mid \in Seq(E) /\ ent \in E
    BY <1>4, <1>6
  <2> QED
    BY <2>1, <1>61, InsertAtEntries
<1> HIDE DEF new
<1>7. /\ Len(new) = Len(c) + 1
      /\ \A j \in 1..(w - 1) : new[j] = c[j]
      /\ new[w + 1] = upd
      /\ \A j \in (w + 2)..(Len(c) + 1) : new[j] = c[j - 1]
  <2>1. Len(new) = Len(c) + 1
    BY <1>6, <1>62
  <2>2. \A j \in 1..(w - 1) : new[j] = c[j]
    BY <1>1, <1>2, <1>6, <1>62
  <2>3. new[w + 1] = upd
    <3>1. w + 1 \in (w + 1)..(Len(mid) + 1) /\ (w + 1) - 1 = w
      BY <1>1, <1>2, <1>6
    <3> QED
      BY <3>1, <1>2, <1>6, <1>62
  <2>4. ASSUME NEW j \in (w + 2)..(Len(c) + 1)
        PROVE  new[j] = c[j - 1]
    <3>1. j \in (w + 1)..(Len(mid) + 1) /\ j - 1 \in 1..Len(c) /\ j - 1 # w
      BY <1>1, <1>2, <1>6
    <3> QED
      BY <3>1, <1>6, <1>62
  <2> QED
    BY <2>1, <2>2, <2>3, <2>4
<1>13. EntryAdded(c, E, w, key, value, new)
  BY <1>2, <1>4, <1>62, <1>7 DEF EntryAdded
<1> QED
  BY <1>12, <1>13 DEF w, c, E

(* insert_key_to_index_no_split adds one entry, keeps the header, and      *)
(* points to nothing but the old children and the new one.                 *)
LEMMA InsertKey ==
    ASSUME NEW K \in SUBSET Nat, NEW C, NEW P,
           NEW node \in IndexNodesOver(K, C, P),
           Len(node.children) >= 1,
           NEW key \in K, NEW value \in C
    PROVE  LET ins == insert_key_to_index_no_split(node, key, value) IN
           /\ ins \in IndexNodesOver(K, C, P)
           /\ ins.parent = node.parent
           /\ Len(ins.children) = Len(node.children) + 1
           /\ \A j \in DOMAIN ins.children :
                  \/ ins.children[j].child = value
                  \/ \E i \in DOMAIN node.children :
                         ins.children[j].child = node.children[i].child
           /\ RealSeparators(K, node.children) => RealSeparators(K, ins.children)
<1> DEFINE E == EntriesOver(K, C)
           c == node.children
           w == find_index(node, key)
           new == insert_key_to_index_no_split(node, key, value).children
<1>1. c \in Seq(E) /\ Len(c) \in Nat /\ DOMAIN c = 1..Len(c)
  BY DEF IndexNodesOver
<1>2. /\ w \in 1..Len(c)
      /\ new \in Seq(E)
      /\ Len(new) = Len(c) + 1
      /\ \A j \in 1..(w - 1) : new[j] = c[j]
      /\ new[w].key = key /\ new[w].child = c[w].child
      /\ new[w + 1].key = c[w].key /\ new[w + 1].child = value
      /\ \A j \in (w + 2)..(Len(c) + 1) : new[j] = c[j - 1]
  <2>1. EntryAdded(c, E, w, key, value, new)
    BY InsertKeyEntries
  <2> QED
    BY <2>1 DEF EntryAdded
<1>3. insert_key_to_index_no_split(node, key, value) = [node EXCEPT !.children = new]
  BY DEF insert_key_to_index_no_split, IndexNodesOver
<1> HIDE DEF w, c, new, E
<1>8. DOMAIN new = 1..(Len(c) + 1)
  BY <1>1, <1>2, LenProperties
<1>9. ASSUME NEW j \in 1..(Len(c) + 1)
      PROVE  new[j].child = value \/ \E i \in 1..Len(c) : new[j].child = c[i].child
  <2>1. CASE j \in 1..(w - 1)
    BY <1>1, <1>2, <2>1
  <2>2. CASE j = w
    BY <1>2, <2>2
  <2>3. CASE j = w + 1
    BY <1>2, <2>3
  <2>4. CASE j \in (w + 2)..(Len(c) + 1)
    BY <1>1, <1>2, <2>4
  <2> QED
    BY <1>1, <1>2, <2>1, <2>2, <2>3, <2>4
<1>10. ASSUME RealSeparators(K, c), NEW j \in 1..Len(c)
       PROVE  new[j].key \in K
  <2>0. \A i \in 1..(Len(c) - 1) : c[i].key \in K
    BY <1>10 DEF RealSeparators
  <2>1. CASE j \in 1..(w - 1)
    BY <1>1, <1>2, <2>0, <2>1
  <2>2. CASE j = w
    BY <1>2, <2>2
  <2>3. CASE j = w + 1
    BY <1>1, <1>2, <2>0, <2>3
  <2>4. CASE j \in (w + 2)..Len(c)
    BY <1>1, <1>2, <2>0, <2>4
  <2> QED
    BY <1>1, <1>2, <2>1, <2>2, <2>3, <2>4
<1>11. RealSeparators(K, c) => RealSeparators(K, new)
  BY <1>1, <1>2, <1>10 DEF RealSeparators
<1>13. /\ [node EXCEPT !.children = new] \in IndexNodesOver(K, C, P)
       /\ [node EXCEPT !.children = new].children = new
       /\ [node EXCEPT !.children = new].parent = node.parent
  BY <1>2 DEF E, IndexNodesOver
<1> QED
  BY <1>1, <1>2, <1>3, <1>8, <1>9, <1>11, <1>13 DEF E, c
-----------------------------------------------------------------------------
(* Which children an index node lists, and that it lists none twice.       *)
Lists(c, o)    == \E i \in DOMAIN c : c[i].child = o
NoneTwice(c)   == \A i, j \in DOMAIN c : i < j => c[i].child # c[j].child

(* Inserting an entry adds its child to those the node lists. *)
LEMMA AddedLists ==
    ASSUME NEW E, NEW c \in Seq(E), NEW E2, NEW w, NEW key, NEW value, NEW c2,
           EntryAdded(c, E2, w, key, value, c2)
    PROVE  /\ \A o : Lists(c2, o) <=> o = value \/ Lists(c, o)
           /\ NoneTwice(c) /\ ~Lists(c, value) => NoneTwice(c2)
<1>1. /\ w \in 1..Len(c) /\ c2 \in Seq(E2) /\ Len(c2) = Len(c) + 1
      /\ \A k \in 1..(w - 1) : c2[k] = c[k]
      /\ c2[w].child = c[w].child
      /\ c2[w + 1].child = value
      /\ \A k \in (w + 2)..(Len(c) + 1) : c2[k] = c[k - 1]
  BY DEF EntryAdded
<1>2. Len(c) \in Nat /\ DOMAIN c2 = 1..(Len(c) + 1) /\ DOMAIN c = 1..Len(c)
  BY <1>1
<1>3. \A j \in 1..Len(c) : j <= w => c2[j].child = c[j].child
  BY <1>1, <1>2
<1>4. \A j \in 1..Len(c) : w < j => c2[j + 1].child = c[j].child
  <2> TAKE j \in 1..Len(c)
  <2> HAVE w < j
  <2>1. j + 1 \in (w + 2)..(Len(c) + 1) /\ (j + 1) - 1 = j
    BY <1>1, <1>2
  <2> QED
    BY <1>1, <2>1
<1> DEFINE from(j) == IF j <= w THEN j ELSE j - 1
<1>5. \A j \in 1..(Len(c) + 1) : j # w + 1 =>
          from(j) \in 1..Len(c) /\ c2[j].child = c[from(j)].child
  BY <1>1, <1>2, <1>3
<1>6. w + 1 \in 1..(Len(c) + 1)
  BY <1>1, <1>2
<1>7. ASSUME NEW o
      PROVE  Lists(c2, o) <=> o = value \/ Lists(c, o)
  <2>1. ASSUME Lists(c2, o)
        PROVE  o = value \/ Lists(c, o)
    BY <1>1, <1>2, <1>5, <2>1 DEF Lists
  <2>2. ASSUME o = value
        PROVE  Lists(c2, o)
    BY <1>1, <1>2, <1>6, <2>2 DEF Lists
  <2>3. ASSUME Lists(c, o)
        PROVE  Lists(c2, o)
    <3>1. PICK i \in 1..Len(c) : c[i].child = o
      BY <1>2, <2>3 DEF Lists
    <3>2. CASE i <= w
      BY <1>2, <1>3, <3>1, <3>2 DEF Lists
    <3>3. CASE w < i
      <4>1. i + 1 \in DOMAIN c2 /\ c2[i + 1].child = o
        BY <1>2, <1>4, <3>1, <3>3
      <4> QED
        BY <4>1 DEF Lists
    <3> QED
      BY <1>1, <3>2, <3>3
  <2> QED
    BY <2>1, <2>2, <2>3
<1>8. ASSUME NoneTwice(c), ~Lists(c, value),
             NEW i \in 1..(Len(c) + 1), NEW j \in 1..(Len(c) + 1), i < j
      PROVE  c2[i].child # c2[j].child
  <2>0. \A x \in 1..(Len(c) + 1) : x # w + 1 => c2[x].child # value
    BY <1>2, <1>5, <1>8 DEF Lists
  <2>1. CASE i = w + 1
    <3>1. j # w + 1
      BY <1>8, <2>1
    <3> QED
      BY <1>1, <2>0, <2>1, <3>1
  <2>2. CASE j = w + 1
    <3>1. i # w + 1
      BY <1>8, <2>2
    <3> QED
      BY <1>1, <2>0, <2>2, <3>1
  <2>3. CASE i # w + 1 /\ j # w + 1
    <3>1. from(i) < from(j)
      BY <1>1, <1>2, <1>8, <2>3
    <3> QED
      BY <1>2, <1>5, <1>8, <2>3, <3>1 DEF NoneTwice
  <2> QED
    BY <2>1, <2>2, <2>3
<1> QED
  BY <1>2, <1>7, <1>8 DEF NoneTwice

(* Cutting a node in two parts what it lists. *)
LEMMA HalvesLists ==
    ASSUME NEW E, NEW c \in Seq(E), NEW p \in 1..(Len(c) - 1)
    PROVE  LET l == SubSeq(c, 1, p)
               r == SubSeq(c, p + 1, Len(c))
           IN  /\ l \in Seq(E) /\ Len(l) = p
               /\ r \in Seq(E) /\ Len(r) = Len(c) - p
               /\ \A i \in 1..p : l[i] = c[i]
               /\ \A i \in 1..(Len(c) - p) : r[i] = c[p + i]
               /\ \A o : Lists(c, o) <=> Lists(l, o) \/ Lists(r, o)
               /\ NoneTwice(c) => /\ NoneTwice(l) /\ NoneTwice(r)
                                  /\ \A o : ~(Lists(l, o) /\ Lists(r, o))
<1> DEFINE l == SubSeq(c, 1, p)
           r == SubSeq(c, p + 1, Len(c))
<1>0. Len(c) \in Nat /\ p \in Nat /\ DOMAIN c = 1..Len(c) /\ p <= Len(c)
  OBVIOUS
<1>1. l \in Seq(E) /\ Len(l) = p /\ \A i \in 1..p : l[i] = c[i]
  BY <1>0, SubSeqProperties
<1>2. /\ r \in Seq(E) /\ Len(r) = Len(c) - p
      /\ \A i \in 1..(Len(c) - p) : r[i] = c[p + i]
  BY <1>0, SubSeqProperties
<1> HIDE DEF l, r
<1>3. DOMAIN l = 1..p /\ DOMAIN r = 1..(Len(c) - p)
  BY <1>1, <1>2
<1>4. ASSUME NEW o
      PROVE  Lists(c, o) <=> Lists(l, o) \/ Lists(r, o)
  <2>1. ASSUME Lists(c, o)
        PROVE  Lists(l, o) \/ Lists(r, o)
    <3>1. PICK i \in 1..Len(c) : c[i].child = o
      BY <1>0, <2>1 DEF Lists
    <3>2. CASE i <= p
      BY <1>0, <1>1, <1>3, <3>1, <3>2 DEF Lists
    <3>3. CASE p < i
      <4>1. i - p \in 1..(Len(c) - p) /\ p + (i - p) = i
        BY <1>0, <3>3
      <4> QED
        BY <1>2, <1>3, <3>1, <4>1 DEF Lists
    <3> QED
      BY <1>0, <3>2, <3>3
  <2>2. Lists(l, o) => Lists(c, o)
    BY <1>0, <1>1, <1>3 DEF Lists
  <2>3. ASSUME Lists(r, o)
        PROVE  Lists(c, o)
    <3>1. PICK i \in 1..(Len(c) - p) : r[i].child = o
      BY <1>3, <2>3 DEF Lists
    <3>2. p + i \in 1..Len(c) /\ c[p + i].child = o
      BY <1>0, <1>2, <3>1
    <3> QED
      BY <1>0, <3>2 DEF Lists
  <2> QED
    BY <2>1, <2>2, <2>3
<1>5. ASSUME NoneTwice(c)
      PROVE  /\ NoneTwice(l) /\ NoneTwice(r)
             /\ \A o : ~(Lists(l, o) /\ Lists(r, o))
  <2>1. NoneTwice(l)
    BY <1>0, <1>1, <1>3, <1>5 DEF NoneTwice
  <2>2. NoneTwice(r)
    <3>1. ASSUME NEW i \in 1..(Len(c) - p), NEW j \in 1..(Len(c) - p), i < j
          PROVE  r[i].child # r[j].child
      <4>1. p + i \in 1..Len(c) /\ p + j \in 1..Len(c) /\ p + i < p + j
        BY <1>0, <3>1
      <4>2. c[p + i].child # c[p + j].child
        BY <1>0, <1>5, <4>1 DEF NoneTwice
      <4> QED
        BY <1>2, <4>2
    <3> QED
      BY <1>3, <3>1 DEF NoneTwice
  <2>3. ASSUME NEW i \in 1..p, NEW j \in 1..(Len(c) - p)
        PROVE  l[i].child # r[j].child
    <3>1. i \in 1..Len(c) /\ p + j \in 1..Len(c) /\ i < p + j
      BY <1>0
    <3>2. c[i].child # c[p + j].child
      BY <1>0, <1>5, <3>1 DEF NoneTwice
    <3> QED
      BY <1>1, <1>2, <3>2
  <2>4. \A o : ~(Lists(l, o) /\ Lists(r, o))
    BY <1>3, <2>3 DEF Lists
  <2> QED
    BY <2>1, <2>2, <2>4
<1> QED
  BY <1>1, <1>2, <1>4, <1>5 DEF l, r

-----------------------------------------------------------------------------

Inserting == call.proc = "insert_key_to_index"
Searching == call.proc = "search_index"

MetaOK == /\ meta \in [internal_node_num : Nat, leaf_node_num : Nat,
                       height : Nat \ {0}, slot : Nat,
                       root_offset : Offsets, leaf_offset : Offsets]
          /\ IsLeaf(meta.leaf_offset)

(* The block at o: its struct, its fill, the keys it is searched by (only  *)
(* the last key of an index node can be the empty key of the constructor), *)
(* and the levels of its children and of its parent.                       *)
BlockOK(lev, o) ==
    /\ disk[o] \in InternalNodes \cup LeafNodes
    /\ Len(disk[o].children) <= ORDER
    /\ IsLeaf(o) <=> lev[o] = 0
    /\ IsInternal(o) =>
           /\ Len(disk[o].children) >= 1
           /\ RealSeparators(Keys, disk[o].children)
           /\ \A i \in DOMAIN disk[o].children :
                  lev[disk[o].children[i].child] = lev[o] - 1
    /\ disk[o].parent # 0 => lev[disk[o].parent] = lev[o] + 1
    /\ disk[o].parent = 0 =>
           \/ o = meta.root_offset
           \/ Inserting /\ call.offset = 0 /\ o = call.after

(* The call in progress: the blocks it will map lie at the level where the *)
(* code expects them.                                                      *)
CallOK(lev) ==
    /\ call \in {Idle} \cup SearchCalls \cup InsertCalls
    /\ Searching => /\ lev[call.org] = call.height
                    /\ call.op # "search" => call.value \in Values
    /\ Inserting => /\ lev[call.old] = lev[call.after]
                    /\ call.offset # 0 => lev[call.offset] = lev[call.old] + 1
                    /\ call.offset = 0 => call.old = meta.root_offset

Inv(lev) ==
    /\ MetaOK
    /\ lev \in [Offsets -> 0..meta.height]
    /\ lev[meta.root_offset] = meta.height
    /\ DOMAIN disk = Offsets
    /\ disk = [o \in Offsets |-> disk[o]]
    /\ \A o \in Offsets : BlockOK(lev, o)
    /\ CallOK(lev)
    /\ result \in Results

IInv == \E lev \in [Offsets -> 0..meta.height] : Inv(lev)

-----------------------------------------------------------------------------
(* The same set of blocks, written with the parameters of the node lemmas. *)
LEMMA NodeSets ==
    /\ Entries = EntriesOver(Keys, Offsets)
    /\ Records = RecordsOver(Keys, Values)
    /\ InternalNodes = IndexNodesOver(Keys, Offsets, NullableOffsets)
    /\ LeafNodes = LeafNodesOver(Keys, Values, NullableOffsets)
BY DEF Entries, Records, EntriesOver, RecordsOver, InternalNodes, LeafNodes,
       IndexNodesOver, LeafNodesOver

(* A leaf with room takes one more record and stays a leaf block. *)
LEMMA InsertRecordHere ==
    ASSUME NEW l \in LeafNodes, NEW key \in Keys, NEW value \in Values
    PROVE  LET ins == insert_record_no_split(l, key, value) IN
           /\ ins \in LeafNodes
           /\ ins.parent = l.parent
           /\ Len(ins.children) = Len(l.children) + 1
<1>1. Keys \in SUBSET Nat
  BY KeysAssumption
<1>2. l \in LeafNodesOver(Keys, Values, NullableOffsets)
  BY NodeSets
<1>3. LET ins == insert_record_no_split(l, key, value) IN
      /\ ins \in LeafNodesOver(Keys, Values, NullableOffsets)
      /\ ins.parent = l.parent
      /\ Len(ins.children) = Len(l.children) + 1
  BY <1>1, <1>2, InsertRecord
<1> QED
  BY <1>3, NodeSets

(* An index node with room takes one more entry and stays an index block. *)
LEMMA InsertKeyHere ==
    ASSUME NEW node \in InternalNodes, Len(node.children) >= 1,
           NEW key \in Keys, NEW value \in Offsets
    PROVE  LET ins == insert_key_to_index_no_split(node, key, value) IN
           /\ ins \in InternalNodes
           /\ ins.parent = node.parent
           /\ Len(ins.children) = Len(node.children) + 1
           /\ \A j \in DOMAIN ins.children :
                  \/ ins.children[j].child = value
                  \/ \E i \in DOMAIN node.children :
                         ins.children[j].child = node.children[i].child
           /\ RealSeparators(Keys, node.children)
                  => RealSeparators(Keys, ins.children)
<1>1. Keys \in SUBSET Nat
  BY KeysAssumption
<1>2. node \in IndexNodesOver(Keys, Offsets, NullableOffsets)
  BY NodeSets
<1>3. LET ins == insert_key_to_index_no_split(node, key, value) IN
      /\ ins \in IndexNodesOver(Keys, Offsets, NullableOffsets)
      /\ ins.parent = node.parent
      /\ Len(ins.children) = Len(node.children) + 1
      /\ \A j \in DOMAIN ins.children :
             \/ ins.children[j].child = value
             \/ \E i \in DOMAIN node.children :
                    ins.children[j].child = node.children[i].child
      /\ RealSeparators(Keys, node.children)
             => RealSeparators(Keys, ins.children)
  BY <1>1, <1>2, InsertKey, Zenon
<1> QED
  BY <1>3, NodeSets

(* What BlockOK says of a block, struct by struct. *)
LEMMA BlockFacts ==
    ASSUME NEW lev, Inv(lev), NEW o \in Offsets
    PROVE  /\ IsLeaf(o) => disk[o] \in LeafNodes
           /\ ~IsLeaf(o) => disk[o] \in InternalNodes /\ IsInternal(o)
           /\ IsInternal(o) => ~IsLeaf(o)
           /\ disk[o].parent \in NullableOffsets
           /\ disk[o].next \in NullableOffsets
           /\ disk[o].prev \in NullableOffsets
           /\ Len(disk[o].children) \in 0..ORDER
           /\ lev[o] \in 0..meta.height
<1>1. disk[o] \in InternalNodes \cup LeafNodes /\ Len(disk[o].children) <= ORDER
  BY DEF Inv, BlockOK
<1>2. lev[o] \in 0..meta.height
  BY DEF Inv
<1>3. CASE disk[o] \in InternalNodes
  <2>1. /\ disk[o].kind = "internal"
        /\ disk[o].parent \in NullableOffsets
        /\ disk[o].next \in NullableOffsets
        /\ disk[o].prev \in NullableOffsets
        /\ disk[o].children \in Seq(Entries)
    BY <1>3 DEF InternalNodes
  <2>2. Len(disk[o].children) \in Nat
    BY <2>1
  <2> QED
    BY <1>1, <1>2, <1>3, <2>1, <2>2, OrderAssumption DEF IsLeaf, IsInternal
<1>4. CASE disk[o] \in LeafNodes
  <2>1. /\ disk[o].kind = "leaf"
        /\ disk[o].parent \in NullableOffsets
        /\ disk[o].next \in NullableOffsets
        /\ disk[o].prev \in NullableOffsets
        /\ disk[o].children \in Seq(Records)
    BY <1>4 DEF LeafNodes
  <2>2. Len(disk[o].children) \in Nat
    BY <2>1
  <2> QED
    BY <1>1, <1>2, <1>4, <2>1, <2>2, OrderAssumption DEF IsLeaf, IsInternal
<1> QED
  BY <1>1, <1>3, <1>4

(* An index node above the leaves, entry by entry. *)
LEMMA IndexFacts ==
    ASSUME NEW lev, Inv(lev), NEW o \in Offsets, lev[o] > 0
    PROVE  /\ disk[o] \in InternalNodes /\ IsInternal(o)
           /\ disk[o].children \in Seq(Entries)
           /\ Len(disk[o].children) \in 1..ORDER
           /\ DOMAIN disk[o].children = 1..Len(disk[o].children)
           /\ \A i \in 1..Len(disk[o].children) :
                  /\ disk[o].children[i] \in Entries
                  /\ disk[o].children[i].child \in Offsets
                  /\ lev[disk[o].children[i].child] = lev[o] - 1
           /\ RealSeparators(Keys, disk[o].children)
<1>1. ~IsLeaf(o)
  BY DEF Inv, BlockOK
<1>2. disk[o] \in InternalNodes /\ IsInternal(o) /\ Len(disk[o].children) \in 0..ORDER
  BY <1>1, BlockFacts
<1>3. /\ Len(disk[o].children) >= 1
      /\ RealSeparators(Keys, disk[o].children)
      /\ \A i \in DOMAIN disk[o].children :
             lev[disk[o].children[i].child] = lev[o] - 1
  BY <1>2 DEF Inv, BlockOK
<1>4. disk[o].children \in Seq(Entries)
  BY <1>2 DEF InternalNodes
<1>5. DOMAIN disk[o].children = 1..Len(disk[o].children)
  BY <1>4
<1>6. \A i \in 1..Len(disk[o].children) : disk[o].children[i] \in Entries
  BY <1>4
<1>7. \A e \in Entries : e.child \in Offsets
  BY DEF Entries
<1> QED
  BY <1>2, <1>3, <1>4, <1>5, <1>6, <1>7, OrderAssumption

(* find() on an index node returns one of its entries, which points one    *)
(* level down.                                                             *)
LEMMA Descend ==
    ASSUME NEW lev, Inv(lev), NEW o \in Offsets, lev[o] > 0, NEW key \in Keys
    PROVE  LET i == find_index(disk[o], key)
           IN  /\ i \in 1..Len(disk[o].children)
               /\ disk[o].children[i].child \in Offsets
               /\ lev[disk[o].children[i].child] = lev[o] - 1
<1>1. /\ disk[o].children \in Seq(EntriesOver(Keys, Offsets))
      /\ Len(disk[o].children) >= 1
  BY IndexFacts, NodeSets
<1>2. key \in Nat /\ Keys \in SUBSET Nat
  BY KeysAssumption
<1>3. find_index(disk[o], key) \in 1..Len(disk[o].children)
  BY <1>1, <1>2, FindIndex
<1> QED
  BY <1>3, IndexFacts

(* Where the descent ends. *)
LEMMA LeafReached ==
    ASSUME NEW lev, Inv(lev), Searching, ~(call.height > 1)
    PROVE  /\ call \in SearchCalls
           /\ call.org \in Offsets
           /\ lev[call.org] = 1
           /\ search_leaf \in Offsets
           /\ lev[search_leaf] = 0
           /\ IsLeaf(search_leaf)
           /\ leaf \in LeafNodes
           /\ leaf.children \in Seq(Records)
           /\ leaf.parent # 0 /\ leaf.parent \in Offsets /\ lev[leaf.parent] = 1
<1>1. call \in SearchCalls
  BY DEF Inv, CallOK, Searching, Idle, InsertCalls, SearchCalls
<1>2. call.org \in Offsets /\ call.key \in Keys /\ call.height \in Nat \ {0}
  BY <1>1 DEF SearchCalls
<1>3. lev[call.org] = 1
  BY <1>2 DEF Inv, CallOK
<1>4. search_leaf \in Offsets /\ lev[search_leaf] = 0
  BY <1>2, <1>3, Descend DEF search_leaf
<1> HIDE DEF search_leaf
<1>5. IsLeaf(search_leaf) /\ leaf \in LeafNodes
  BY <1>4, BlockFacts DEF Inv, BlockOK, leaf
<1>6. leaf.children \in Seq(Records)
  BY <1>5 DEF LeafNodes
<1>7. search_leaf # meta.root_offset
  BY <1>4 DEF Inv, MetaOK
<1>8. leaf.parent # 0 /\ lev[leaf.parent] = lev[search_leaf] + 1
  BY <1>4, <1>7 DEF Inv, BlockOK, leaf, Inserting, Searching
<1>9. leaf.parent \in Offsets
  BY <1>4, <1>8, BlockFacts DEF leaf, Inv, MetaOK, Offsets, NullableOffsets
<1> QED
  BY <1>1, <1>2, <1>3, <1>4, <1>5, <1>6, <1>8, <1>9

-----------------------------------------------------------------------------
(* The invariant implies the type invariant. *)
LEMMA InvTypeOK ==
    ASSUME NEW lev, Inv(lev)
    PROVE  TypeOK
<1>1. meta.root_offset \in Offsets /\ lev[meta.root_offset] > 0
  BY DEF Inv, MetaOK
<1>2. IsInternal(meta.root_offset)
  BY <1>1, IndexFacts
<1>3. disk \in [Offsets -> InternalNodes \cup LeafNodes]
  BY DEF Inv, BlockOK
<1>4. \A o \in Offsets : /\ Len(disk[o].children) <= ORDER
                         /\ IsInternal(o) => Len(disk[o].children) >= 1
  BY DEF Inv, BlockOK
<1>5. ASSUME Searching
      PROVE  IsInternal(call.org) /\ (call.op # "search" => call.value \in Values)
  <2>1. call \in SearchCalls
    BY <1>5 DEF Inv, CallOK, Searching, Idle, InsertCalls, SearchCalls
  <2>2. call.org \in Offsets /\ call.height \in Nat \ {0}
    BY <2>1 DEF SearchCalls
  <2>3. lev[call.org] > 0
    BY <1>5, <2>2 DEF Inv, CallOK
  <2> QED
    BY <1>5, <2>2, <2>3, IndexFacts DEF Inv, CallOK
<1>6. ASSUME Inserting, call.offset # 0
      PROVE  IsInternal(call.offset)
  <2>1. call \in InsertCalls
    BY <1>6 DEF Inv, CallOK, Inserting, Idle, InsertCalls, SearchCalls
  <2>2. call.offset \in Offsets /\ call.old \in Offsets
    BY <1>6, <2>1 DEF InsertCalls, Inv, MetaOK, Offsets, NullableOffsets
  <2>3. lev[call.offset] = lev[call.old] + 1 /\ lev[call.old] \in Nat
    BY <1>6, <2>2 DEF Inv, CallOK
  <2> QED
    BY <2>2, <2>3, IndexFacts
<1> QED
  BY <1>2, <1>3, <1>4, <1>5, <1>6
  DEF TypeOK, Inv, MetaOK, CallOK, Inserting, Searching

(* A new file: the root above one empty leaf. *)
LEMMA InitIInv == Init => IInv
<1> SUFFICES ASSUME Init
             PROVE  IInv
  OBVIOUS
<1> DEFINE lev == [o \in Offsets |-> IF o = 1 THEN 1 ELSE 0]
           root == InternalNode(0, 0, 0, <<Entry(EmptyKey, 2)>>)
           first == LeafNode(1, 0, 0, <<>>)
<1>1. Offsets = 1..2 /\ NullableOffsets = 0..2
  BY DEF Init, init_from_empty, Offsets, NullableOffsets
<1>0. disk = [o \in Offsets |-> disk[o]] /\ DOMAIN disk = Offsets
  BY <1>1 DEF Init, init_from_empty
<1>2. disk[1] = root /\ disk[2] = first
  BY <1>1 DEF Init, init_from_empty
<1>3. /\ call = Idle /\ call.proc = "idle"
      /\ meta.height = 1 /\ meta.root_offset = 1 /\ meta.leaf_offset = 2
      /\ ORDER \in Nat /\ ORDER >= 4
  BY OrderAssumption DEF Init, init_from_empty, Idle
<1>4. /\ root.children = <<Entry(EmptyKey, 2)>> /\ root.parent = 0
      /\ root.kind = "internal"
      /\ Len(root.children) = 1 /\ DOMAIN root.children = 1..1
      /\ root.children[1].child = 2
  BY DEF InternalNode, Entry
<1>5. /\ first.children = <<>> /\ first.parent = 1 /\ first.kind = "leaf"
      /\ Len(first.children) = 0
  BY DEF LeafNode
<1>6. root \in InternalNodes
  BY <1>1 DEF InternalNodes, InternalNode, Entry, Entries, EmptyKey
<1>7. first \in LeafNodes
  BY <1>1 DEF LeafNodes, LeafNode
<1> HIDE DEF root, first
<1>8. lev \in [Offsets -> 0..meta.height] /\ lev[1] = 1 /\ lev[2] = 0
  BY <1>1, <1>3
<1> HIDE DEF lev
<1>9. BlockOK(lev, 1)
  <2>1. RealSeparators(Keys, root.children)
    BY <1>4 DEF RealSeparators
  <2>2. \A i \in DOMAIN root.children : lev[root.children[i].child] = lev[1] - 1
    BY <1>4, <1>8
  <2>3. root.kind = "internal" /\ root.parent = 0 /\ Len(root.children) = 1
    BY <1>4
  <2> QED
    BY <1>2, <1>3, <1>6, <1>8, <2>1, <2>2, <2>3 DEF BlockOK, IsLeaf, IsInternal
<1>10. BlockOK(lev, 2)
  BY <1>2, <1>3, <1>5, <1>7, <1>8 DEF BlockOK, IsLeaf, IsInternal
<1>11. MetaOK
  BY <1>1, <1>2, <1>5 DEF Init, init_from_empty, MetaOK, IsLeaf
<1>12. CallOK(lev)
  BY <1>3 DEF CallOK, Searching, Inserting
<1>13. result \in Results
  BY DEF Init, NoResult, Results
<1>14. \A o \in Offsets : BlockOK(lev, o)
  BY <1>1, <1>9, <1>10
<1> QED
  BY <1>0, <1>3, <1>8, <1>11, <1>12, <1>13, <1>14 DEF IInv, Inv

-----------------------------------------------------------------------------

(* A step that allocates nothing and leaves block o alone. *)
LEMMA SameBlock ==
    ASSUME NEW lev, Inv(lev), ~(Inserting /\ call.offset = 0),
           UNCHANGED meta, NEW o \in Offsets, disk'[o] = disk[o]
    PROVE  BlockOK(lev, o)'
<1>1. InternalNodes' = InternalNodes /\ LeafNodes' = LeafNodes
  BY DEF Offsets, NullableOffsets, InternalNodes, LeafNodes, Entries, Records
<1>2. BlockOK(lev, o)
  BY DEF Inv
<1> QED
  BY <1>1, <1>2 DEF BlockOK, IsLeaf, IsInternal, RealSeparators

(* A step that writes at most one block, q, and allocates nothing. *)
LEMMA OneBlockStep ==
    ASSUME NEW lev, Inv(lev), ~(Inserting /\ call.offset = 0),
           UNCHANGED meta, NEW q \in Offsets, NEW b, disk' = unmap(disk, q, b),
           BlockOK(lev, q)', lev[q] = 0 => b.kind = "leaf",
           CallOK(lev)', result' \in Results
    PROVE  Inv(lev)'
<1>1. Offsets' = Offsets
  BY DEF Offsets
<1>2. disk' = [o \in Offsets |-> IF o = q THEN b ELSE disk[o]]
  BY DEF Inv, unmap
<1>3. disk' = [o \in Offsets |-> disk'[o]] /\ DOMAIN disk' = Offsets
  BY <1>2
<1>4. \A o \in Offsets : o # q => disk'[o] = disk[o]
  BY <1>2
<1>5. \A o \in Offsets : BlockOK(lev, o)'
  BY <1>4, SameBlock
<1>6. MetaOK'
  <2>1. meta.leaf_offset \in Offsets /\ IsLeaf(meta.leaf_offset)
    BY DEF Inv, MetaOK
  <2>2. lev[meta.leaf_offset] = 0
    BY <2>1 DEF Inv, BlockOK
  <2>3. IsLeaf(meta.leaf_offset)'
    BY <1>2, <2>1, <2>2 DEF IsLeaf
  <2> QED
    BY <1>1, <2>3 DEF Inv, MetaOK
<1>7. result' \in Results'
  BY DEF Results
<1> QED
  BY <1>1, <1>3, <1>5, <1>6, <1>7 DEF Inv

(* A step that writes no block. *)
LEMMA ReadOnlyStep ==
    ASSUME NEW lev, Inv(lev), ~(Inserting /\ call.offset = 0),
           UNCHANGED <<meta, disk>>,
           CallOK(lev)', result' \in Results
    PROVE  Inv(lev)'
<1>1. Offsets' = Offsets
  BY DEF Offsets
<1>2. \A o \in Offsets : BlockOK(lev, o)'
  BY SameBlock
<1> QED
  BY <1>1, <1>2 DEF Inv, MetaOK, IsLeaf, Results

(* Where a call ends. *)
LEMMA IdleCallOK ==
    ASSUME NEW lev, call' = Idle
    PROVE  CallOK(lev)'
BY DEF CallOK, Idle, Searching, Inserting

-----------------------------------------------------------------------------
(* One lemma per action of Next.                                           *)

(* A call of the public interface starts. *)
LEMMA BeginStep ==
    ASSUME NEW lev, Inv(lev), BeginAny
    PROVE  Inv(lev)'
<1> PICK key \in Keys, op \in {"search", "insert", "update"},
         value \in Values \cup {NoValue} :
             /\ Begin(op, key, value)
             /\ op # "search" => value \in Values
  BY DEF BeginAny
<1>1. ~Inserting
  BY DEF Begin, Idle, Inserting
<1>2. /\ call' = [proc |-> "search_index", op |-> op, key |-> key,
                  value |-> value, org |-> meta.root_offset,
                  height |-> meta.height]
      /\ UNCHANGED <<meta, disk, result>>
  BY DEF Begin
<1>3. meta.root_offset \in Offsets' /\ meta.height \in Nat \ {0}
  BY <1>2 DEF Inv, MetaOK, Offsets
<1>4. call' \in SearchCalls'
  BY <1>2, <1>3 DEF SearchCalls
<1>5. CallOK(lev)'
  BY <1>2, <1>4 DEF CallOK, Inv, Searching, Inserting
<1> QED
  BY <1>1, <1>2, <1>5, ReadOnlyStep DEF Inv

(* search_index goes down one level. *)
LEMMA SearchIndexStep ==
    ASSUME NEW lev, Inv(lev), search_index
    PROVE  Inv(lev)'
<1>1. Searching /\ ~Inserting /\ UNCHANGED <<meta, disk, result>>
  BY DEF search_index, Searching, Inserting
<1>2. call \in SearchCalls
  BY <1>1 DEF Inv, CallOK, Searching, Idle, InsertCalls, SearchCalls
<1>3. call.org \in Offsets /\ call.key \in Keys /\ call.height \in Nat /\ call.height > 1
  BY <1>2 DEF SearchCalls, search_index
<1>4. lev[call.org] = call.height
  BY <1>1 DEF Inv, CallOK
<1> DEFINE c == disk[call.org].children[find_index(disk[call.org], call.key)].child
<1>5. c \in Offsets /\ lev[c] = call.height - 1
  BY <1>3, <1>4, Descend
<1>6. call' = [call EXCEPT !.org = c, !.height = @ - 1]
  BY DEF search_index
<1> HIDE DEF c
<1>7. Offsets' = Offsets
  BY <1>1 DEF Offsets
<1>8. call' \in SearchCalls'
  <2>1. call.height - 1 \in Nat \ {0}
    BY <1>3
  <2>2. [call EXCEPT !.org = c, !.height = call.height - 1] \in SearchCalls
    BY <1>2, <1>5, <2>1 DEF SearchCalls
  <2>3. SearchCalls' = SearchCalls
    BY <1>7 DEF SearchCalls
  <2> QED
    BY <1>6, <2>2, <2>3
<1>9. /\ call'.org = c /\ call'.height = call.height - 1
      /\ call'.op = call.op /\ call'.value = call.value
      /\ call'.proc = "search_index"
  BY <1>2, <1>6 DEF SearchCalls
<1>10. CallOK(lev)'
  BY <1>1, <1>5, <1>8, <1>9 DEF CallOK, Inv, Searching, Inserting
<1> QED
  BY <1>1, <1>10, ReadOnlyStep DEF Inv

(* The record that find() returns on the leaf, or the end. *)
LEMMA FindRecord ==
    ASSUME NEW lev, Inv(lev), Searching, ~(call.height > 1)
    PROVE  LET r == find_record(leaf, call.key) IN
           /\ r \in 1..(Len(leaf.children) + 1)
           /\ r <= Len(leaf.children) =>
                  /\ leaf.children[r] \in Records
                  /\ leaf.children[r].value \in Values
<1>1. leaf.children \in Seq(Records) /\ call \in SearchCalls
  BY LeafReached
<1>2. call.key \in Nat
  BY <1>1, KeysAssumption DEF SearchCalls
<1>3. \A r \in Records : r.key \in Nat /\ r.value \in Values
  BY KeysAssumption DEF Records
<1>4. /\ Len(leaf.children) \in Nat
      /\ \A i \in 1..Len(leaf.children) : leaf.children[i] \in Records
  BY <1>1
<1>5. \A i \in 1..Len(leaf.children) : leaf.children[i].key \in Nat
  BY <1>3, <1>4
<1>6. find_record(leaf, call.key) \in 1..(Len(leaf.children) + 1)
  BY <1>2, <1>4, <1>5, LowerBound DEF find_record
<1> QED
  BY <1>3, <1>4, <1>6

(* What a search call reports is a result. *)
LEMMA ReportType ==
    ASSUME NEW lev, Inv(lev), Searching, NEW code \in {-1, 0, 1},
           NEW value \in Values \cup {NoValue}, Report(code, value)
    PROVE  result' \in Results
<1>1. call \in SearchCalls
  BY DEF Inv, CallOK, Searching, Idle, InsertCalls, SearchCalls
<1> QED
  BY <1>1 DEF SearchCalls, Report, Results

(* search() looks the key up in the leaf it reached and returns. *)
LEMMA SearchStep ==
    ASSUME NEW lev, Inv(lev), search
    PROVE  Inv(lev)'
<1>1. /\ Searching /\ ~(call.height > 1) /\ ~Inserting
      /\ call' = Idle /\ UNCHANGED <<meta, disk>>
  BY DEF search, AtLeaf, Searching, Inserting
<1>2. result' \in Results
  <2> DEFINE r == find_record(leaf, call.key)
  <2>1. CASE r <= Len(leaf.children)
    <3>1. leaf.children[r].value \in Values
      BY <1>1, <2>1, FindRecord
    <3>2. Report(IF leaf.children[r].key = call.key THEN 0 ELSE 1, leaf.children[r].value)
      BY <2>1 DEF search
    <3> QED
      BY <1>1, <3>1, <3>2, ReportType
  <2>2. CASE ~(r <= Len(leaf.children))
    <3>1. Report(-1, NoValue)
      BY <2>2 DEF search
    <3> QED
      BY <1>1, <3>1, ReportType
  <2> QED
    BY <2>1, <2>2
<1> QED
  BY <1>1, <1>2, IdleCallOK, ReadOnlyStep

(* insert() of a key the leaf holds returns 1 and writes nothing. *)
LEMMA InsertSameKeyStep ==
    ASSUME NEW lev, Inv(lev), insert_same_key
    PROVE  Inv(lev)'
<1>1. /\ Searching /\ ~Inserting /\ Report(1, NoValue)
      /\ call' = Idle /\ UNCHANGED <<meta, disk>>
  BY DEF insert_same_key, AtLeaf, Searching, Inserting
<1>2. result' \in Results
  BY <1>1, ReportType
<1> QED
  BY <1>1, <1>2, IdleCallOK, ReadOnlyStep

(* A call that rewrites the leaf it reached and returns. *)
LEMMA LeafWrite ==
    ASSUME NEW lev, Inv(lev), Searching, ~(call.height > 1),
           NEW b \in LeafNodes, b.parent = leaf.parent,
           Len(b.children) <= ORDER, disk' = unmap(disk, search_leaf, b),
           UNCHANGED meta, call' = Idle, result' \in Results
    PROVE  Inv(lev)'
<1>1. /\ search_leaf \in Offsets /\ lev[search_leaf] = 0
      /\ leaf.parent # 0 /\ lev[leaf.parent] = 1
  BY LeafReached
<1>2. b.kind = "leaf"
  BY DEF LeafNodes
<1>3. PICK q \in Offsets : q = search_leaf
  BY <1>1
<1>4. disk'[q] = b
  BY <1>3 DEF unmap, Inv
<1>5. LeafNodes' = LeafNodes
  BY DEF LeafNodes, NullableOffsets, Records
<1>6. BlockOK(lev, q)'
  BY <1>1, <1>2, <1>3, <1>4, <1>5 DEF BlockOK, IsLeaf, IsInternal
<1>7. CallOK(lev)' /\ ~Inserting
  BY IdleCallOK DEF Inserting, Searching
<1> QED
  BY <1>2, <1>3, <1>6, <1>7, OneBlockStep

(* update() rewrites at most the record of its key. *)
LEMMA UpdateStep ==
    ASSUME NEW lev, Inv(lev), update
    PROVE  Inv(lev)'
<1>1. /\ Searching /\ ~(call.height > 1) /\ ~Inserting
      /\ call' = Idle /\ UNCHANGED meta /\ call.op = "update"
  BY DEF update, AtLeaf, Searching, Inserting
<1> DEFINE r == find_record(leaf, call.key)
<1>2. CASE /\ r <= Len(leaf.children)
           /\ disk' = [disk EXCEPT ![search_leaf].children[r].value = call.value]
           /\ Report(0, NoValue)
  <2> DEFINE rec == [leaf.children[r] EXCEPT !.value = call.value]
             c == [leaf.children EXCEPT ![r] = rec]
             b == [leaf EXCEPT !.children = c]
  <2>1. call.value \in Values
    BY <1>1 DEF Inv, CallOK
  <2>2. /\ leaf \in LeafNodes /\ leaf.children \in Seq(Records)
        /\ search_leaf \in Offsets
    BY <1>1, LeafReached
  <2>3. r \in 1..Len(leaf.children) /\ leaf.children[r] \in Records
    BY <1>1, <1>2, <2>2, FindRecord
  <2>4. disk' = unmap(disk, search_leaf, b)
    <3>1. disk' = [disk EXCEPT ![search_leaf] = b]
      BY <1>2 DEF leaf
    <3>2. disk = [o \in Offsets |-> disk[o]]
      BY DEF Inv
    <3> HIDE DEF b
    <3> QED
      BY <2>2, <3>1, <3>2 DEF unmap
  <2> HIDE DEF r
  <2>5. rec \in Records
    BY <2>1, <2>3 DEF Records
  <2> HIDE DEF rec
  <2>6. c \in Seq(Records) /\ Len(c) = Len(leaf.children)
    BY <2>2, <2>3, <2>5, ExceptSeq
  <2> HIDE DEF c
  <2>7. b \in LeafNodes /\ b.parent = leaf.parent /\ b.children = c
    BY <2>2, <2>6 DEF LeafNodes
  <2>8. Len(leaf.children) <= ORDER
    BY <2>2, BlockFacts DEF leaf
  <2>9. result' \in Results
    BY <1>1, <1>2, ReportType
  <2> HIDE DEF b
  <2> QED
    BY <1>1, <2>4, <2>6, <2>7, <2>8, <2>9, LeafWrite
<1>3. CASE UNCHANGED disk /\ (Report(1, NoValue) \/ Report(-1, NoValue))
  <2>1. result' \in Results
    BY <1>1, <1>3, ReportType
  <2> QED
    BY <1>1, <1>3, <2>1, IdleCallOK, ReadOnlyStep
<1> QED
  BY <1>2, <1>3 DEF update

(* insert() into a leaf that has room. *)
LEMMA InsertIntoLeafStep ==
    ASSUME NEW lev, Inv(lev), insert_into_leaf
    PROVE  Inv(lev)'
<1>1. /\ Searching /\ ~(call.height > 1) /\ ~Inserting
      /\ call' = Idle /\ UNCHANGED meta /\ call.op = "insert"
      /\ Len(leaf.children) # ORDER
      /\ Report(0, NoValue)
  BY DEF insert_into_leaf, AtLeaf, Searching, Inserting
<1> DEFINE b == insert_record_no_split(leaf, call.key, call.value)
<1>2. disk' = unmap(disk, search_leaf, b)
  BY DEF insert_into_leaf
<1>3. call.value \in Values /\ call.key \in Keys
  BY <1>1, LeafReached DEF Inv, CallOK, SearchCalls
<1>4. leaf \in LeafNodes /\ search_leaf \in Offsets
  BY <1>1, LeafReached
<1>5. /\ b \in LeafNodes
      /\ b.parent = leaf.parent
      /\ Len(b.children) = Len(leaf.children) + 1
  BY <1>3, <1>4, InsertRecordHere
<1>6. Len(leaf.children) \in 0..ORDER
  BY <1>4, BlockFacts DEF leaf
<1>7. Len(b.children) <= ORDER
  BY <1>1, <1>5, <1>6, OrderAssumption
<1>8. result' \in Results
  BY <1>1, ReportType
<1> HIDE DEF b
<1> QED
  BY <1>1, <1>2, <1>5, <1>7, <1>8, LeafWrite

(* What update() and an insert() with room write: nothing but the leaf     *)
(* they reached, with the same keys or with the new record.                *)
LeafWritten(q, b) ==
    LET c == disk[q].children IN
    /\ q = search_leaf /\ q \in Offsets /\ IsLeaf(q)
    /\ disk' = unmap(disk, q, b)
    /\ b \in LeafNodes /\ b.parent = disk[q].parent
    /\ \/ /\ Len(b.children) = Len(c)
          /\ \A i \in 1..Len(c) : b.children[i].key = c[i].key
       \/ /\ RecordAdded(c, Records, Record(call.key, call.value), b.children)
          /\ ~binary_search(disk[q], call.key)

LEMMA InsertIntoLeafEffect ==
    ASSUME NEW lev, Inv(lev), insert_into_leaf
    PROVE  \E q, b : LeafWritten(q, b)
<1>1. /\ Searching /\ ~(call.height > 1) /\ call.op = "insert"
      /\ ~binary_search(leaf, call.key)
  BY DEF insert_into_leaf, AtLeaf, Searching
<1> DEFINE b == insert_record_no_split(leaf, call.key, call.value)
<1>2. disk' = unmap(disk, search_leaf, b)
  BY DEF insert_into_leaf
<1>3. call.value \in Values /\ call.key \in Keys
  BY <1>1, LeafReached DEF Inv, CallOK, SearchCalls
<1>4. leaf \in LeafNodes /\ search_leaf \in Offsets /\ IsLeaf(search_leaf)
  BY <1>1, LeafReached
<1>5. b \in LeafNodes /\ b.parent = leaf.parent
  BY <1>3, <1>4, InsertRecordHere
<1>6. RecordAdded(leaf.children, Records, Record(call.key, call.value), b.children)
  <2>1. /\ Keys \in SUBSET Nat /\ Records = RecordsOver(Keys, Values)
        /\ leaf \in LeafNodesOver(Keys, Values, NullableOffsets)
    BY <1>4, KeysAssumption, NodeSets
  <2> QED
    BY <1>3, <2>1, InsertRecordEntries
<1> HIDE DEF b
<1>7. LeafWritten(search_leaf, b)
  BY <1>1, <1>2, <1>4, <1>5, <1>6 DEF LeafWritten, leaf
<1> QED
  BY <1>7

LEMMA UpdateEffect ==
    ASSUME NEW lev, Inv(lev), update
    PROVE  UNCHANGED disk \/ \E q, b : LeafWritten(q, b)
<1>1. Searching /\ ~(call.height > 1) /\ call.op = "update"
  BY DEF update, AtLeaf, Searching
<1> DEFINE r == find_record(leaf, call.key)
<1>2. CASE /\ r <= Len(leaf.children)
           /\ disk' = [disk EXCEPT ![search_leaf].children[r].value = call.value]
  <2> DEFINE rec == [leaf.children[r] EXCEPT !.value = call.value]
             c == [leaf.children EXCEPT ![r] = rec]
             b == [leaf EXCEPT !.children = c]
  <2>1. call.value \in Values
    BY <1>1 DEF Inv, CallOK
  <2>2. /\ leaf \in LeafNodes /\ leaf.children \in Seq(Records)
        /\ search_leaf \in Offsets /\ IsLeaf(search_leaf)
    BY <1>1, LeafReached
  <2>3. r \in 1..Len(leaf.children) /\ leaf.children[r] \in Records
    BY <1>1, <1>2, <2>2, FindRecord
  <2>4. disk' = unmap(disk, search_leaf, b)
    <3>1. disk' = [disk EXCEPT ![search_leaf] = b]
      BY <1>2 DEF leaf
    <3>2. disk = [o \in Offsets |-> disk[o]]
      BY DEF Inv
    <3> HIDE DEF b
    <3> QED
      BY <2>2, <3>1, <3>2 DEF unmap
  <2> HIDE DEF r
  <2>5. rec \in Records /\ rec.key = leaf.children[r].key
    BY <2>1, <2>3 DEF Records
  <2> HIDE DEF rec
  <2>6. /\ c \in Seq(Records) /\ Len(c) = Len(leaf.children)
        /\ \A i \in 1..Len(leaf.children) :
               c[i] = IF i = r THEN rec ELSE leaf.children[i]
    BY <2>2, <2>3, <2>5, ExceptSeq
  <2> HIDE DEF c
  <2>7. \A i \in 1..Len(leaf.children) : c[i].key = leaf.children[i].key
    BY <2>5, <2>6
  <2>8. b \in LeafNodes /\ b.parent = leaf.parent /\ b.children = c
    BY <2>2, <2>6 DEF LeafNodes
  <2> HIDE DEF b
  <2>9. LeafWritten(search_leaf, b)
    BY <2>2, <2>4, <2>6, <2>7, <2>8 DEF LeafWritten, leaf
  <2> QED
    BY <2>9
<1> QED
  BY <1>2 DEF update

-----------------------------------------------------------------------------
(* Steps that allocate a block: the file grows by the block at meta.slot,  *)
(* and the level map by that block's level.                                *)
Extends(lev, lev2) ==
    /\ meta'.slot = meta.slot + 1
    /\ lev2 \in [Offsets' -> 0..meta'.height]
    /\ \A o \in Offsets : lev2[o] = lev[o]

(* A step that allocates extends the file; the old slots stay in it. *)
LEMMA Growth ==
    ASSUME meta.slot \in Nat \ {0}, meta'.slot = meta.slot + 1
    PROVE  /\ Offsets' = Offsets \cup {meta.slot}
           /\ NullableOffsets' = NullableOffsets \cup {meta.slot}
           /\ meta.slot \notin NullableOffsets
           /\ Offsets \subseteq NullableOffsets
           /\ InternalNodes \subseteq InternalNodes'
           /\ LeafNodes \subseteq LeafNodes'
<1>1. /\ Offsets' = Offsets \cup {meta.slot}
      /\ NullableOffsets' = NullableOffsets \cup {meta.slot}
      /\ meta.slot \notin NullableOffsets
      /\ Offsets \subseteq NullableOffsets
  BY DEF Offsets, NullableOffsets
<1>2. Entries \subseteq Entries'
  BY <1>1 DEF Entries
<1>3. Seq(Entries) \subseteq Seq(Entries')
  BY <1>2, SeqMonotonic
<1>4. InternalNodes \subseteq InternalNodes'
  BY <1>1, <1>3 DEF InternalNodes
<1>5. LeafNodes \subseteq LeafNodes'
  BY <1>1 DEF LeafNodes, Records
<1> QED
  BY <1>1, <1>4, <1>5

(* The slot that alloc() hands out is never the null offset. *)
LEMMA SlotPositive ==
    ASSUME NEW lev, Inv(lev)
    PROVE  meta.slot \in Nat \ {0} /\ DOMAIN disk = Offsets
BY DEF Inv, MetaOK, Offsets

(* The level map extended by the block just allocated. *)
LEMMA LevelOfNewBlock ==
    ASSUME NEW lev, Inv(lev), meta'.slot = meta.slot + 1,
           meta'.height \in Nat, meta.height <= meta'.height,
           NEW k \in 0..meta'.height
    PROVE  \E lev2 : Extends(lev, lev2) /\ lev2[meta.slot] = k
<1>1. lev \in [Offsets -> 0..meta.height] /\ meta.height \in Nat
  BY DEF Inv, MetaOK
<1>2. Offsets' = Offsets \cup {meta.slot} /\ meta.slot \notin Offsets
  BY SlotPositive, Growth
<1>3. \A o \in Offsets : lev[o] \in 0..meta'.height
  BY <1>1
<1> DEFINE lev2 == [o \in Offsets' |-> IF o = meta.slot THEN k ELSE lev[o]]
<1>4. Extends(lev, lev2)
  BY <1>2, <1>3 DEF Extends
<1>5. lev2[meta.slot] = k
  BY <1>2
<1> HIDE DEF lev2
<1> QED
  BY <1>4, <1>5

(* The header after an allocation that leaves the height alone. *)
LEMMA AllocMeta ==
    ASSUME NEW lev, Inv(lev)
    PROVE  /\ alloc_leaf(meta) \in
                  [internal_node_num : Nat, leaf_node_num : Nat,
                   height : Nat \ {0}, slot : Nat,
                   root_offset : Offsets, leaf_offset : Offsets]
           /\ alloc_leaf(meta).slot = meta.slot + 1
           /\ alloc_leaf(meta).height = meta.height
           /\ alloc_leaf(meta).root_offset = meta.root_offset
           /\ alloc_leaf(meta).leaf_offset = meta.leaf_offset
           /\ alloc_internal(meta) \in
                  [internal_node_num : Nat, leaf_node_num : Nat,
                   height : Nat \ {0}, slot : Nat,
                   root_offset : Offsets, leaf_offset : Offsets]
           /\ alloc_internal(meta).slot = meta.slot + 1
           /\ alloc_internal(meta).height = meta.height
           /\ alloc_internal(meta).root_offset = meta.root_offset
           /\ alloc_internal(meta).leaf_offset = meta.leaf_offset
<1>1. meta \in [internal_node_num : Nat, leaf_node_num : Nat,
                height : Nat \ {0}, slot : Nat,
                root_offset : Offsets, leaf_offset : Offsets]
  BY DEF Inv, MetaOK
<1>2. /\ meta.slot + 1 \in Nat /\ meta.leaf_node_num + 1 \in Nat
      /\ meta.internal_node_num + 1 \in Nat
  BY <1>1
<1> QED
  BY <1>1, <1>2 DEF alloc_leaf, alloc_internal

(* Setting a neighbour's prev changes nothing else. *)
LEMMA SetPrev ==
    ASSUME NEW lev, Inv(lev), meta'.slot = meta.slot + 1,
           NEW nx \in NullableOffsets, NEW o \in Offsets
    PROVE  LET d == set_prev(disk, nx, meta.slot) IN
           /\ DOMAIN d = Offsets
           /\ d[o] \in InternalNodes' \cup LeafNodes'
           /\ d[o].kind = disk[o].kind
           /\ d[o].parent = disk[o].parent
           /\ d[o].children = disk[o].children
<1>1. /\ meta.slot \in NullableOffsets'
      /\ InternalNodes \subseteq InternalNodes' /\ LeafNodes \subseteq LeafNodes'
  BY Growth, SlotPositive
<1>2. disk[o] \in InternalNodes \cup LeafNodes
  BY DEF Inv, BlockOK
<1>3. disk = [q \in Offsets |-> disk[q]]
  BY DEF Inv
<1> DEFINE d == set_prev(disk, nx, meta.slot)
           b == [disk[o] EXCEPT !.prev = meta.slot]
<1>4. DOMAIN d = Offsets
  BY <1>3 DEF set_prev
<1>5. d[o] = disk[o] \/ d[o] = b
  BY <1>3 DEF set_prev
<1>6. CASE disk[o] \in InternalNodes
  <2>1. disk[o] \in InternalNodes'
    BY <1>1, <1>6
  <2>2. /\ b \in InternalNodes' /\ b.kind = disk[o].kind
        /\ b.parent = disk[o].parent /\ b.children = disk[o].children
    BY <1>1, <2>1 DEF InternalNodes
  <2> HIDE DEF b, d
  <2>3. QED
    BY <1>4, <1>5, <2>1, <2>2 DEF d
<1>7. CASE disk[o] \in LeafNodes
  <2>1. disk[o] \in LeafNodes'
    BY <1>1, <1>7
  <2>2. /\ b \in LeafNodes' /\ b.kind = disk[o].kind
        /\ b.parent = disk[o].parent /\ b.children = disk[o].children
    BY <1>1, <2>1 DEF LeafNodes
  <2> HIDE DEF b, d
  <2>3. QED
    BY <1>4, <1>5, <2>1, <2>2 DEF d
<1> QED
  BY <1>2, <1>6, <1>7

(* A block of which only the header changed. *)
LEMMA KeptBlock ==
    ASSUME NEW lev, NEW lev2, Inv(lev), Extends(lev, lev2), NEW o \in Offsets,
           disk'[o] \in InternalNodes' \cup LeafNodes',
           disk'[o].kind = disk[o].kind,
           disk'[o].children = disk[o].children,
           \/ disk'[o].parent = disk[o].parent
           \/ disk'[o].parent # 0 /\ lev2[disk'[o].parent] = lev[o] + 1,
           disk'[o].parent = 0 =>
               \/ o = meta'.root_offset
               \/ Inserting' /\ call'.offset = 0 /\ o = call'.after
    PROVE  BlockOK(lev2, o)'
<1>1. BlockOK(lev, o) /\ lev2[o] = lev[o]
  BY DEF Inv, Extends
<1>2. IsLeaf(o)' = IsLeaf(o) /\ IsInternal(o)' = IsInternal(o)
  BY DEF IsLeaf, IsInternal
<1>3. ASSUME disk'[o].parent # 0
      PROVE  lev2[disk'[o].parent] = lev2[o] + 1
  <2>1. CASE disk'[o].parent = disk[o].parent
    <3>1. disk[o].parent \in Offsets
      BY <1>3, <2>1, BlockFacts DEF Offsets, NullableOffsets, Inv, MetaOK
    <3> QED
      BY <1>1, <1>3, <2>1, <3>1 DEF BlockOK, Extends
  <2> QED
    BY <1>1, <2>1
<1>4. ASSUME IsInternal(o), NEW i \in DOMAIN disk[o].children
      PROVE  lev2[disk[o].children[i].child] = lev2[o] - 1
  <2>1. lev[o] > 0
    <3>1. ~IsLeaf(o) /\ lev[o] \in 0..meta.height /\ meta.height \in Nat
      BY <1>4, BlockFacts DEF Inv, MetaOK
    <3>2. lev[o] # 0
      BY <1>1, <3>1 DEF BlockOK
    <3> QED
      BY <3>1, <3>2
  <2>2. /\ disk[o].children[i].child \in Offsets
        /\ lev[disk[o].children[i].child] = lev[o] - 1
    BY <1>4, <2>1, IndexFacts
  <2> QED
    BY <1>1, <2>2 DEF Extends
<1> QED
  BY <1>1, <1>2, <1>3, <1>4 DEF BlockOK

(* A leaf that the step wrote. *)
LEMMA NewLeafBlock ==
    ASSUME NEW lev2, NEW o, lev2[o] = 0,
           NEW b \in LeafNodes', disk'[o] = b, Len(b.children) <= ORDER,
           b.parent # 0, lev2[b.parent] = 1
    PROVE  BlockOK(lev2, o)'
<1>1. b.kind = "leaf"
  BY DEF LeafNodes
<1> QED
  BY <1>1 DEF BlockOK, IsLeaf, IsInternal

(* An index node that the step wrote. *)
LEMMA NewIndexBlock ==
    ASSUME NEW lev2, NEW o, lev2[o] \in Nat \ {0},
           NEW b \in InternalNodes', disk'[o] = b, Len(b.children) \in 1..ORDER,
           RealSeparators(Keys, b.children),
           \A i \in DOMAIN b.children : lev2[b.children[i].child] = lev2[o] - 1,
           b.parent # 0 => lev2[b.parent] = lev2[o] + 1,
           b.parent = 0 =>
               \/ o = meta'.root_offset
               \/ Inserting' /\ call'.offset = 0 /\ o = call'.after
    PROVE  BlockOK(lev2, o)'
<1>1. b.kind = "internal"
  BY DEF InternalNodes
<1> QED
  BY <1>1, OrderAssumption DEF BlockOK, IsLeaf, IsInternal

(* The invariant after a step that allocated a block. *)
LEMMA AllocStep ==
    ASSUME NEW lev, NEW lev2, Inv(lev), Extends(lev, lev2),
           meta' \in [internal_node_num : Nat, leaf_node_num : Nat,
                      height : Nat \ {0}, slot : Nat,
                      root_offset : Offsets', leaf_offset : Offsets'],
           meta'.leaf_offset = meta.leaf_offset,
           lev2[meta'.root_offset] = meta'.height,
           disk' = [o \in Offsets' |-> disk'[o]],
           \A o \in Offsets' : BlockOK(lev2, o)',
           CallOK(lev2)', result' \in Results
    PROVE  Inv(lev2)'
<1>1. meta.leaf_offset \in Offsets /\ lev[meta.leaf_offset] = 0
  BY DEF Inv, MetaOK, BlockOK
<1>2. lev2[meta.leaf_offset] = 0
  BY <1>1 DEF Extends
<1>3. IsLeaf(meta.leaf_offset)'
  BY <1>2 DEF BlockOK
<1>4. MetaOK'
  BY <1>3 DEF MetaOK
<1>5. DOMAIN disk' = Offsets'
  OBVIOUS
<1> QED
  BY <1>4, <1>5 DEF Inv, Extends, Results

-----------------------------------------------------------------------------
(* Both halves of a split leaf keep at least one record. *)
LEMMA LeafSplitPoint ==
    ASSUME NEW l, NEW key, Len(l.children) = ORDER
    PROVE  leaf_split_point(l, key) \in 1..(ORDER - 1)
BY OrderAssumption DEF leaf_split_point

(* Part of a node, with new links. *)
Part(node, next, prev, i, j) ==
    [node EXCEPT !.next = next, !.prev = prev, !.children = SubSeq(@, i, j)]

(* One half of a leaf. *)
LEMMA HalfLeaf ==
    ASSUME NEW P, NEW l \in LeafNodesOver(Keys, Values, P),
           Len(l.children) = ORDER, NEW nx \in P, NEW pv \in P,
           NEW i \in 1..ORDER, NEW j \in 1..ORDER, i <= j, j - i + 1 < ORDER
    PROVE  /\ Part(l, nx, pv, i, j) \in LeafNodesOver(Keys, Values, P)
           /\ Part(l, nx, pv, i, j).parent = l.parent
           /\ Len(Part(l, nx, pv, i, j).children) \in 1..(ORDER - 1)
<1> DEFINE h == Part(l, nx, pv, i, j)
<1> DEFINE c == SubSeq(l.children, i, j)
<1>1. l.children \in Seq(RecordsOver(Keys, Values))
  BY DEF LeafNodesOver
<1>2. c \in Seq(RecordsOver(Keys, Values)) /\ Len(c) = j - i + 1
  BY <1>1, SubSeqProperties, OrderAssumption
<1> HIDE DEF c
<1>3. h = [l EXCEPT !.next = nx, !.prev = pv, !.children = c]
  BY DEF c, Part
<1>4. h \in LeafNodesOver(Keys, Values, P) /\ h.parent = l.parent /\ h.children = c
  BY <1>2, <1>3 DEF LeafNodesOver
<1> QED
  BY <1>2, <1>4, OrderAssumption

(* That half with the new record. *)
LEMMA HalfLeafPlusRecord ==
    ASSUME NEW P, NEW h \in LeafNodesOver(Keys, Values, P),
           Len(h.children) \in 1..(ORDER - 1),
           NEW key \in Keys, NEW value \in Values,
           NEW h2, h2 = insert_record_no_split(h, key, value)
    PROVE  /\ h2 \in LeafNodesOver(Keys, Values, P)
           /\ h2.parent = h.parent
           /\ Len(h2.children) \in 1..ORDER
<1>1. Keys \in SUBSET Nat
  BY KeysAssumption
<1>2. /\ h2 \in LeafNodesOver(Keys, Values, P) /\ h2.parent = h.parent
      /\ Len(h2.children) = Len(h.children) + 1
  BY <1>1, InsertRecord
<1> QED
  BY <1>2, OrderAssumption

(* The records c of a full leaf and those of its two halves, one of which  *)
(* takes the new record.                                                   *)
LeafHalves(c, lc, rc) ==
    LET rec   == Record(call.key, call.value)
        right == call.key > c[ORDER \div 2 + 1].key
    IN  \E p \in 1..(ORDER - 1) :
            \/ /\ right /\ p = ORDER \div 2 + 1
               /\ lc = SubSeq(c, 1, p)
               /\ RecordAdded(SubSeq(c, p + 1, ORDER), Records, rec, rc)
            \/ /\ ~right /\ p = ORDER \div 2
               /\ RecordAdded(SubSeq(c, 1, p), Records, rec, lc)
               /\ rc = SubSeq(c, p + 1, ORDER)

(* What insert() of a full leaf writes: the leaf q becomes l and the new   *)
(* block r; of the other blocks at most a prev changes.                    *)
LeafSplit(q, new, l, r) ==
    /\ q = search_leaf /\ new = meta.slot
    /\ q \in Offsets /\ new \notin NullableOffsets
    /\ Offsets' = Offsets \cup {new}
    /\ NullableOffsets' = NullableOffsets \cup {new}
    /\ disk' = [o \in Offsets' |-> disk'[o]]
    /\ disk'[q] = l /\ l \in LeafNodes' /\ l.parent = leaf.parent
    /\ disk'[new] = r /\ r \in LeafNodes' /\ r.parent = leaf.parent
    /\ Len(l.children) \in 1..ORDER /\ Len(r.children) \in 1..ORDER
    /\ \A o \in Offsets \ {q} : /\ disk'[o] \in InternalNodes' \cup LeafNodes'
                               /\ disk'[o].kind = disk[o].kind
                               /\ disk'[o].parent = disk[o].parent
                               /\ disk'[o].children = disk[o].children
    /\ call' = [proc |-> "insert_key_to_index", offset |-> call.org,
                key |-> r.children[1].key, old |-> q, after |-> new]
    /\ LeafHalves(disk[q].children, l.children, r.children)

LEMMA LeafSplitEffect ==
    ASSUME NEW lev, Inv(lev), insert_split_leaf
    PROVE  \E q, new, l, r : LeafSplit(q, new, l, r)
<1>1. /\ Searching /\ ~(call.height > 1) /\ call.op = "insert"
      /\ meta' = alloc_leaf(meta) /\ Len(leaf.children) = ORDER
  BY DEF insert_split_leaf, AtLeaf, Searching
<1>2. /\ call \in SearchCalls /\ call.org \in Offsets
      /\ search_leaf \in Offsets /\ leaf \in LeafNodes
  BY <1>1, LeafReached
<1>3. call.value \in Values /\ call.key \in Keys
  BY <1>1, <1>2 DEF Inv, CallOK, SearchCalls
<1>4. PICK q \in Offsets : q = search_leaf
  BY <1>2
<1>5. PICK new \in Nat \ {0} : new = meta.slot
  BY SlotPositive
<1>6. meta.slot \in Nat \ {0} /\ meta'.slot = meta.slot + 1
  BY <1>1, SlotPositive, AllocMeta
<1>7. /\ Offsets' = Offsets \cup {new}
      /\ NullableOffsets' = NullableOffsets \cup {new}
      /\ new \notin NullableOffsets /\ new \notin Offsets
      /\ Offsets \subseteq NullableOffsets'
      /\ LeafNodes \subseteq LeafNodes'
  BY <1>5, <1>6, Growth
<1> DEFINE point == leaf_split_point(leaf, call.key)
           right == leaf_place_right(leaf, call.key)
           lhalf == Part(leaf, new, leaf.prev, 1, point)
           rhalf == Part(leaf, leaf.next, q, point + 1, ORDER)
           l == IF right THEN lhalf
                ELSE insert_record_no_split(lhalf, call.key, call.value)
           r == IF right THEN insert_record_no_split(rhalf, call.key, call.value)
                ELSE rhalf
           d == set_prev(disk, leaf.next, new)
<1>9. left_leaf(new) = lhalf /\ right_leaf = rhalf
  BY <1>1, <1>2, <1>4 DEF left_leaf, right_leaf, LeafNodes, Part
<1>10. /\ disk' = unmap(unmap(d, q, l), new, r)
       /\ call' = [proc |-> "insert_key_to_index", offset |-> call.org,
                   key |-> r.children[1].key, old |-> q, after |-> new]
  BY <1>4, <1>5, <1>9 DEF insert_split_leaf
<1>11. /\ leaf \in LeafNodesOver(Keys, Values, NullableOffsets')
       /\ LeafNodes' = LeafNodesOver(Keys, Values, NullableOffsets')
       /\ leaf.next \in NullableOffsets /\ leaf.next \in NullableOffsets'
       /\ leaf.prev \in NullableOffsets'
       /\ q \in NullableOffsets' /\ new \in NullableOffsets'
  <2>1. LeafNodes' = LeafNodesOver(Keys, Values, NullableOffsets')
    BY DEF LeafNodes, LeafNodesOver, Records, RecordsOver
  <2>2. leaf.next \in NullableOffsets /\ leaf.prev \in NullableOffsets
    BY <1>2 DEF LeafNodes
  <2> QED
    BY <1>2, <1>4, <1>7, <2>1, <2>2
<1>12. /\ point \in 1..(ORDER - 1)
       /\ 1 \in 1..ORDER /\ point \in 1..ORDER /\ point - 1 + 1 < ORDER
       /\ point + 1 \in 1..ORDER /\ ORDER \in 1..ORDER
       /\ point + 1 <= ORDER /\ ORDER - (point + 1) + 1 < ORDER
       /\ 1 <= point
  <2>1. point \in 1..(ORDER - 1)
    BY <1>1, LeafSplitPoint
  <2> HIDE DEF point
  <2> QED
    BY <2>1, OrderAssumption
<1>20. /\ right => point = ORDER \div 2 + 1
       /\ ~right => point = ORDER \div 2
       /\ right = (call.key > leaf.children[ORDER \div 2 + 1].key)
  BY <1>1, OrderAssumption DEF leaf_split_point, leaf_place_right
<1>21. /\ lhalf.children = SubSeq(leaf.children, 1, point)
       /\ rhalf.children = SubSeq(leaf.children, point + 1, ORDER)
  BY <1>2 DEF LeafNodes, Part
<1> HIDE DEF point, right
<1> HIDE DEF lhalf, rhalf
<1>121. /\ lhalf \in LeafNodes' /\ lhalf.parent = leaf.parent
        /\ Len(lhalf.children) \in 1..(ORDER - 1)
  BY <1>1, <1>11, <1>12, HalfLeaf DEF lhalf
<1>122. /\ rhalf \in LeafNodes' /\ rhalf.parent = leaf.parent
        /\ Len(rhalf.children) \in 1..(ORDER - 1)
  BY <1>1, <1>11, <1>12, HalfLeaf DEF rhalf
<1>13. l \in LeafNodes' /\ l.parent = leaf.parent /\ Len(l.children) \in 1..ORDER
  BY <1>3, <1>11, <1>121, OrderAssumption, HalfLeafPlusRecord
<1>14. r \in LeafNodes' /\ r.parent = leaf.parent /\ Len(r.children) \in 1..ORDER
  BY <1>3, <1>11, <1>122, OrderAssumption, HalfLeafPlusRecord
<1>22. LeafHalves(leaf.children, l.children, r.children)
  <2> DEFINE rec == Record(call.key, call.value)
  <2>0. Keys \in SUBSET Nat /\ Records = RecordsOver(Keys, Values)
    BY KeysAssumption DEF Records, RecordsOver
  <2>1. CASE right
    <3>1. l = lhalf /\ r = insert_record_no_split(rhalf, call.key, call.value)
      BY <2>1
    <3>2. RecordAdded(rhalf.children, Records, rec, r.children)
      BY <1>3, <1>11, <1>122, <2>0, <3>1, InsertRecordEntries
    <3> HIDE DEF l, r, rec
    <3> QED
      BY <1>12, <1>20, <1>21, <2>1, <3>1, <3>2 DEF LeafHalves, rec
  <2>2. CASE ~right
    <3>1. r = rhalf /\ l = insert_record_no_split(lhalf, call.key, call.value)
      BY <2>2
    <3>2. RecordAdded(lhalf.children, Records, rec, l.children)
      BY <1>3, <1>11, <1>121, <2>0, <3>1, InsertRecordEntries
    <3> HIDE DEF l, r, rec
    <3> QED
      BY <1>12, <1>20, <1>21, <2>2, <3>1, <3>2 DEF LeafHalves, rec
  <2> QED
    BY <2>1, <2>2
<1> HIDE DEF l, r
<1>15. \A o \in Offsets : /\ DOMAIN d = Offsets
                          /\ d[o] \in InternalNodes' \cup LeafNodes'
                          /\ d[o].kind = disk[o].kind
                          /\ d[o].parent = disk[o].parent
                          /\ d[o].children = disk[o].children
  BY <1>5, <1>6, <1>11, SetPrev
<1> HIDE DEF d
<1>16. disk' = [o \in Offsets' |-> IF o = new THEN r ELSE IF o = q THEN l ELSE d[o]]
  BY <1>4, <1>7, <1>10, <1>15 DEF unmap
<1>17. /\ disk' = [o \in Offsets' |-> disk'[o]]
       /\ disk'[new] = r /\ disk'[q] = l
       /\ \A o \in Offsets \ {q} : disk'[o] = d[o]
  BY <1>7, <1>16
<1>18. LeafSplit(q, new, l, r)
  BY <1>4, <1>5, <1>7, <1>10, <1>13, <1>14, <1>15, <1>17, <1>22 DEF LeafSplit, leaf
<1> QED
  BY <1>18

(* insert() into a full leaf: both halves and the neighbour are well formed. *)
LEMMA InsertSplitLeafStep ==
    ASSUME NEW lev, Inv(lev), insert_split_leaf
    PROVE  IInv'
<1>1. /\ Searching /\ ~(call.height > 1) /\ ~Inserting
      /\ meta' = alloc_leaf(meta) /\ Report(0, NoValue)
  BY DEF insert_split_leaf, AtLeaf, Searching, Inserting
<1>2. /\ call \in SearchCalls /\ call.org \in Offsets /\ lev[call.org] = 1
      /\ search_leaf \in Offsets /\ lev[search_leaf] = 0
      /\ leaf.parent # 0 /\ leaf.parent \in Offsets /\ lev[leaf.parent] = 1
  BY <1>1, LeafReached
<1>3. PICK q, new, l, r : LeafSplit(q, new, l, r)
  BY LeafSplitEffect
<1>4. /\ q = search_leaf /\ new = meta.slot
      /\ q \in Offsets /\ new \notin Offsets
      /\ Offsets' = Offsets \cup {new}
      /\ disk' = [o \in Offsets' |-> disk'[o]]
      /\ disk'[q] = l /\ l \in LeafNodes' /\ l.parent = leaf.parent
      /\ disk'[new] = r /\ r \in LeafNodes' /\ r.parent = leaf.parent
      /\ Len(l.children) \in 1..ORDER /\ Len(r.children) \in 1..ORDER
      /\ \A o \in Offsets \ {q} : /\ disk'[o] \in InternalNodes' \cup LeafNodes'
                                 /\ disk'[o].kind = disk[o].kind
                                 /\ disk'[o].parent = disk[o].parent
                                 /\ disk'[o].children = disk[o].children
      /\ call' = [proc |-> "insert_key_to_index", offset |-> call.org,
                  key |-> r.children[1].key, old |-> q, after |-> new]
  BY <1>3, SlotPositive DEF LeafSplit, Offsets, NullableOffsets
<1>6. /\ meta'.slot = meta.slot + 1 /\ meta'.height = meta.height
      /\ meta'.root_offset = meta.root_offset
      /\ meta'.leaf_offset = meta.leaf_offset
      /\ meta' \in [internal_node_num : Nat, leaf_node_num : Nat,
                    height : Nat \ {0}, slot : Nat,
                    root_offset : Offsets, leaf_offset : Offsets]
  BY <1>1, AllocMeta
<1>8. PICK lev2 : Extends(lev, lev2) /\ lev2[new] = 0
  <2>1. meta'.height \in Nat /\ meta.height <= meta'.height /\ 0 \in 0..meta'.height
    BY <1>6 DEF Inv, MetaOK
  <2>2. new = meta.slot
    BY <1>4
  <2> QED
    BY <1>6, <2>1, <2>2, LevelOfNewBlock
<1>18. ASSUME NEW o \in Offsets \ {q}
       PROVE  BlockOK(lev2, o)'
  <2>1. disk[o].parent = 0 => o = meta.root_offset
    BY <1>1 DEF Inv, BlockOK
  <2> QED
    BY <1>4, <1>6, <1>8, <2>1, KeptBlock
<1>19. /\ lev2[q] = 0 /\ lev2[leaf.parent] = 1 /\ lev2[call.org] = 1
  BY <1>2, <1>4, <1>8 DEF Extends
<1>20. BlockOK(lev2, q)' /\ BlockOK(lev2, new)'
  <2>1. Len(l.children) <= ORDER /\ Len(r.children) <= ORDER
    BY <1>4, OrderAssumption
  <2> QED
    BY <1>2, <1>4, <1>8, <1>19, <2>1, NewLeafBlock
<1>21. CallOK(lev2)'
  <2>1. r.children[1].key \in Keys
    <3>1. r.children \in Seq(Records)
      BY <1>4 DEF LeafNodes, Records
    <3>2. r.children[1] \in Records
      BY <1>4, <3>1, OrderAssumption
    <3> QED
      BY <3>2 DEF Records
  <2>2. call' \in InsertCalls'
    <3>1. call.org \in NullableOffsets' /\ q \in Offsets' /\ new \in Offsets'
      BY <1>2, <1>4 DEF Offsets, NullableOffsets
    <3> QED
      BY <1>4, <2>1, <3>1 DEF InsertCalls
  <2>3. /\ call'.proc = "insert_key_to_index" /\ call'.offset = call.org
        /\ call'.old = q /\ call'.after = new
    BY <1>4
  <2>4. call.org # 0
    BY <1>2 DEF Offsets
  <2> QED
    BY <1>8, <1>19, <2>2, <2>3, <2>4 DEF CallOK, Searching, Inserting
<1>22. result' \in Results
  BY <1>1, ReportType
<1>23. lev2[meta'.root_offset] = meta'.height
  BY <1>6, <1>8 DEF Extends, Inv, MetaOK
<1>24. \A o \in Offsets' : BlockOK(lev2, o)'
  BY <1>4, <1>18, <1>20
<1>241. /\ meta'.root_offset \in Offsets' /\ meta'.leaf_offset \in Offsets'
        /\ disk' = [o \in Offsets' |-> disk'[o]]
  BY <1>4, <1>6
<1>25. Inv(lev2)'
  BY <1>6, <1>8, <1>21, <1>22, <1>23, <1>24, <1>241, AllocStep
<1> QED
  BY <1>8, <1>25 DEF IInv, Extends

-----------------------------------------------------------------------------
(* A call of insert_key_to_index. *)
LEMMA InsertCall ==
    ASSUME NEW lev, Inv(lev), Inserting
    PROVE  /\ call \in InsertCalls
           /\ call.offset \in NullableOffsets
           /\ call.key \in Keys
           /\ call.old \in Offsets /\ call.after \in Offsets
           /\ lev[call.old] = lev[call.after]
           /\ call.offset = 0 => call.old = meta.root_offset
           /\ call.offset # 0 => /\ call.offset \in Offsets
                                 /\ lev[call.offset] = lev[call.old] + 1
                                 /\ lev[call.offset] \in Nat \ {0}
<1>1. call \in InsertCalls
  BY DEF Inv, CallOK, Inserting, Idle, InsertCalls, SearchCalls
<1>2. /\ call.offset \in NullableOffsets /\ call.key \in Keys
      /\ call.old \in Offsets /\ call.after \in Offsets
  BY <1>1 DEF InsertCalls
<1>3. call.offset # 0 => call.offset \in Offsets
  BY <1>2, SlotPositive DEF Offsets, NullableOffsets
<1>4. lev[call.old] \in Nat
  BY <1>2, BlockFacts
<1>5. /\ lev[call.old] = lev[call.after]
      /\ call.offset = 0 => call.old = meta.root_offset
      /\ call.offset # 0 => lev[call.offset] = lev[call.old] + 1
  BY DEF Inv, CallOK
<1> QED
  BY <1>1, <1>2, <1>3, <1>4, <1>5

(* reset_index_children_parent changes the parent field of the listed      *)
(* blocks and nothing else.                                                *)
LEMMA ResetParent ==
    ASSUME NEW d, NEW entries, NEW p, NEW o \in DOMAIN d,
           p \in NullableOffsets', d[o] \in InternalNodes' \cup LeafNodes'
    PROVE  LET e == reset_index_children_parent(d, entries, p) IN
           /\ DOMAIN e = DOMAIN d
           /\ e[o] \in InternalNodes' \cup LeafNodes'
           /\ e[o].kind = d[o].kind
           /\ e[o].children = d[o].children
           /\ (\E i \in DOMAIN entries : entries[i].child = o) => e[o].parent = p
           /\ ~(\E i \in DOMAIN entries : entries[i].child = o) => e[o] = d[o]
<1> DEFINE e == reset_index_children_parent(d, entries, p)
           b == [d[o] EXCEPT !.parent = p]
           listed == \E i \in DOMAIN entries : entries[i].child = o
<1>1. DOMAIN e = DOMAIN d /\ e[o] = IF listed THEN b ELSE d[o]
  BY DEF reset_index_children_parent
<1>2. CASE d[o] \in InternalNodes'
  <2>1. /\ b \in InternalNodes' /\ b.kind = d[o].kind
        /\ b.parent = p /\ b.children = d[o].children
    BY <1>2 DEF InternalNodes
  <2> HIDE DEF e, b, listed
  <2>2. /\ e[o] \in InternalNodes' \cup LeafNodes' /\ e[o].kind = d[o].kind
        /\ e[o].children = d[o].children
        /\ listed => e[o].parent = p
        /\ ~listed => e[o] = d[o]
    BY <1>1, <1>2, <2>1
  <2> QED
    BY <1>1, <2>2 DEF e, listed
<1>3. CASE d[o] \in LeafNodes'
  <2>1. /\ b \in LeafNodes' /\ b.kind = d[o].kind
        /\ b.parent = p /\ b.children = d[o].children
    BY <1>3 DEF LeafNodes
  <2> HIDE DEF e, b, listed
  <2>2. /\ e[o] \in InternalNodes' \cup LeafNodes' /\ e[o].kind = d[o].kind
        /\ e[o].children = d[o].children
        /\ listed => e[o].parent = p
        /\ ~listed => e[o] = d[o]
    BY <1>1, <1>3, <2>1
  <2> QED
    BY <1>1, <2>2 DEF e, listed
<1> QED
  BY <1>2, <1>3

(* What insert_key_to_index into a parent that has room writes: the node   *)
(* with the new entry.                                                     *)
IndexWritten(q, b) ==
    /\ q = call.offset /\ q \in Offsets
    /\ disk' = unmap(disk, q, b)
    /\ b \in InternalNodes /\ b.parent = disk[q].parent
    /\ Len(b.children) \in 1..ORDER
    /\ RealSeparators(Keys, b.children)
    /\ EntryAdded(disk[q].children, Entries,
                  upper_bound(disk[q].children, Len(disk[q].children) - 1, call.key),
                  call.key, call.after, b.children)

LEMMA IndexWrittenEffect ==
    ASSUME NEW lev, Inv(lev), insert_into_index
    PROVE  \E q, b : IndexWritten(q, b)
<1>1. Inserting /\ call.offset # 0
  BY DEF insert_into_index, Inserting
<1>2. /\ call.key \in Keys /\ call.after \in Offsets /\ call.offset \in Offsets
      /\ lev[call.offset] \in Nat \ {0}
  BY <1>1, InsertCall
<1>3. PICK q \in Offsets : q = call.offset
  BY <1>2
<1> DEFINE node == disk[q]
           b == insert_key_to_index_no_split(node, call.key, call.after)
<1>4. disk' = unmap(disk, q, b) /\ Len(node.children) < ORDER
  BY <1>3 DEF insert_into_index
<1>5. /\ node \in InternalNodes /\ Len(node.children) \in 1..ORDER
      /\ RealSeparators(Keys, node.children)
  BY <1>2, <1>3, IndexFacts
<1>51. Len(node.children) >= 1
  BY <1>5, OrderAssumption
<1> HIDE DEF node
<1>6. /\ b \in InternalNodes /\ b.parent = node.parent
      /\ Len(b.children) = Len(node.children) + 1
      /\ RealSeparators(Keys, b.children)
  BY <1>2, <1>5, <1>51, InsertKeyHere
<1>61. EntryAdded(node.children, Entries,
                  upper_bound(node.children, Len(node.children) - 1, call.key),
                  call.key, call.after, b.children)
  <2>1. /\ Keys \in SUBSET Nat
        /\ Entries = EntriesOver(Keys, Offsets)
        /\ node \in IndexNodesOver(Keys, Offsets, NullableOffsets)
    BY <1>5, KeysAssumption, NodeSets
  <2>2. EntryAdded(node.children, Entries, find_index(node, call.key),
                   call.key, call.after, b.children)
    BY <1>2, <1>51, <2>1, InsertKeyEntries
  <2> QED
    BY <2>2 DEF find_index
<1> HIDE DEF b
<1>7. Len(b.children) \in 1..ORDER
  BY <1>4, <1>5, <1>6, OrderAssumption
<1>8. IndexWritten(q, b)
  BY <1>3, <1>4, <1>6, <1>61, <1>7 DEF IndexWritten, node
<1> QED
  BY <1>8

(* insert_key_to_index into a parent that has room. *)
LEMMA InsertIntoIndexStep ==
    ASSUME NEW lev, Inv(lev), insert_into_index
    PROVE  Inv(lev)'
<1>1. /\ Inserting /\ call.offset # 0 /\ UNCHANGED <<meta, result>> /\ call' = Idle
  BY DEF insert_into_index, Inserting
<1>2. /\ call.after \in Offsets
      /\ lev[call.offset] = lev[call.after] + 1 /\ lev[call.offset] \in Nat \ {0}
  BY <1>1, InsertCall
<1>3. PICK q, b : IndexWritten(q, b)
  BY IndexWrittenEffect
<1>4. /\ q = call.offset /\ q \in Offsets /\ disk' = unmap(disk, q, b)
      /\ b \in InternalNodes /\ b.parent = disk[q].parent
      /\ Len(b.children) \in 1..ORDER /\ RealSeparators(Keys, b.children)
  BY <1>3 DEF IndexWritten
<1>5. /\ disk[q].children \in Seq(Entries)
      /\ DOMAIN disk[q].children = 1..Len(disk[q].children)
      /\ \A i \in 1..Len(disk[q].children) :
             lev[disk[q].children[i].child] = lev[q] - 1
  BY <1>2, <1>4, IndexFacts
<1>8. ASSUME NEW j \in DOMAIN b.children
      PROVE  lev[b.children[j].child] = lev[q] - 1
  <2>1. lev[call.after] = lev[q] - 1
    BY <1>2, <1>4, BlockFacts
  <2>2. \/ b.children[j].child = call.after
        \/ \E i \in DOMAIN disk[q].children :
               b.children[j].child = disk[q].children[i].child
    <3> DEFINE c == disk[q].children
               w == upper_bound(c, Len(c) - 1, call.key)
    <3>1. EntryAdded(c, Entries, w, call.key, call.after, b.children)
      BY <1>3 DEF IndexWritten
    <3>2. c \in Seq(Entries)
      BY <1>5
    <3> HIDE DEF c, w
    <3>3. \A o : Lists(b.children, o) => o = call.after \/ Lists(c, o)
      BY <3>1, <3>2, AddedLists
    <3> QED
      BY <3>3 DEF c, Lists
  <2> QED
    BY <1>5, <2>1, <2>2
<1>9. disk'[q] = b
  BY <1>4 DEF unmap
<1>10. InternalNodes' = InternalNodes
  BY <1>1 DEF InternalNodes, Offsets, NullableOffsets, Entries
<1>11. /\ b.parent # 0 => lev[b.parent] = lev[q] + 1
       /\ b.parent = 0 => q = meta'.root_offset
  BY <1>1, <1>4 DEF Inv, BlockOK
<1>12. BlockOK(lev, q)'
  BY <1>2, <1>4, <1>8, <1>9, <1>10, <1>11, NewIndexBlock
<1>13. CallOK(lev)' /\ result' \in Results /\ lev[q] # 0
  BY <1>1, <1>2, <1>4, IdleCallOK DEF Inv
<1> QED
  BY <1>1, <1>4, <1>12, <1>13, OneBlockStep

(* What insert_key_to_index above the old root writes: the new root lists  *)
(* both halves, which get it as their parent.                              *)
RootAdded(new, root) ==
    /\ new = meta.slot /\ new \notin NullableOffsets
    /\ Offsets' = Offsets \cup {new}
    /\ NullableOffsets' = NullableOffsets \cup {new}
    /\ disk' = [o \in Offsets' |-> disk'[o]]
    /\ disk'[new] = root /\ root \in InternalNodes' /\ root.parent = 0
    /\ root.children = <<Entry(call.key, call.old), Entry(EmptyKey, call.after)>>
    /\ \A o \in Offsets :
           /\ disk'[o] \in InternalNodes' \cup LeafNodes'
           /\ disk'[o].kind = disk[o].kind
           /\ disk'[o].children = disk[o].children
           /\ disk'[o].parent = IF o \in {call.old, call.after} THEN new
                                ELSE disk[o].parent
    /\ meta' = [alloc_internal(meta) EXCEPT !.root_offset = new, !.height = @ + 1]

LEMMA RootAddedEffect ==
    ASSUME NEW lev, Inv(lev), insert_new_root
    PROVE  \E new, root : RootAdded(new, root)
<1>1. Inserting /\ call.offset = 0
  BY DEF insert_new_root, Inserting
<1>2. call.key \in Keys /\ call.old \in Offsets /\ call.after \in Offsets
  BY <1>1, InsertCall
<1>3. PICK new \in Nat \ {0} : new = meta.slot
  BY SlotPositive
<1>6. meta' = [alloc_internal(meta) EXCEPT !.root_offset = new, !.height = @ + 1]
  BY <1>3 DEF insert_new_root
<1>7. meta'.slot = meta.slot + 1
  <2>1. /\ alloc_internal(meta) \in
               [internal_node_num : Nat, leaf_node_num : Nat,
                height : Nat \ {0}, slot : Nat,
                root_offset : Offsets, leaf_offset : Offsets]
        /\ alloc_internal(meta).slot = meta.slot + 1
    BY AllocMeta
  <2> QED
    BY <1>6, <2>1
<1>8. /\ Offsets' = Offsets \cup {new}
      /\ NullableOffsets' = NullableOffsets \cup {new}
      /\ new \notin Offsets /\ new \notin NullableOffsets
      /\ InternalNodes \subseteq InternalNodes' /\ LeafNodes \subseteq LeafNodes'
  BY <1>3, <1>7, SlotPositive, Growth
<1> DEFINE entries == <<Entry(call.key, call.old), Entry(EmptyKey, call.after)>>
           root == InternalNode(0, 0, 0, entries)
           d == unmap(disk, new, root)
<1>11. disk' = reset_index_children_parent(d, entries, new)
  BY <1>3 DEF insert_new_root
<1>12. /\ entries \in Seq(Entries') /\ Len(entries) = 2 /\ DOMAIN entries = 1..2
       /\ entries[1].child = call.old /\ entries[2].child = call.after
  BY <1>2, <1>8 DEF Entry, Entries
<1>121. entries = <<Entry(call.key, call.old), Entry(EmptyKey, call.after)>>
  OBVIOUS
<1> HIDE DEF entries
<1>13. /\ root \in InternalNodes' /\ root.children = entries /\ root.parent = 0
  <2>1. 0 \in NullableOffsets'
    BY <1>3, <1>7 DEF NullableOffsets
  <2> QED
    BY <1>12, <2>1 DEF InternalNode, InternalNodes
<1> HIDE DEF root
<1>14. DOMAIN d = Offsets' /\ d[new] = root /\ \A o \in Offsets : d[o] = disk[o]
  BY <1>8, SlotPositive DEF unmap
<1> HIDE DEF d
<1>15. disk' = [o \in Offsets' |-> disk'[o]]
  BY <1>11, <1>14 DEF reset_index_children_parent
<1>16. \A o \in Offsets : disk[o] \in InternalNodes' \cup LeafNodes'
  BY <1>8 DEF Inv, BlockOK
<1>17. new \in NullableOffsets'
  BY <1>8
<1>18. ASSUME NEW o \in Offsets
       PROVE  /\ disk'[o] \in InternalNodes' \cup LeafNodes'
              /\ disk'[o].kind = disk[o].kind
              /\ disk'[o].children = disk[o].children
              /\ disk'[o].parent = IF o \in {call.old, call.after} THEN new
                                   ELSE disk[o].parent
  <2>1. o \in DOMAIN d /\ d[o] = disk[o] /\ d[o] \in InternalNodes' \cup LeafNodes'
    BY <1>8, <1>14, <1>16
  <2>2. /\ disk'[o] \in InternalNodes' \cup LeafNodes'
        /\ disk'[o].kind = disk[o].kind
        /\ disk'[o].children = disk[o].children
        /\ (\E i \in DOMAIN entries : entries[i].child = o) => disk'[o].parent = new
        /\ ~(\E i \in DOMAIN entries : entries[i].child = o) => disk'[o] = disk[o]
    BY <1>11, <1>17, <2>1, ResetParent
  <2>3. CASE o \in {call.old, call.after}
    BY <1>12, <2>2, <2>3
  <2>4. CASE o \notin {call.old, call.after}
    <3>1. disk'[o] = disk[o]
      BY <1>12, <2>2, <2>4
    <3> QED
      BY <2>2, <2>4, <3>1
  <2> QED
    BY <2>3, <2>4
<1>19. disk'[new] = root
  <2>1. new \in DOMAIN d /\ d[new] \in InternalNodes' \cup LeafNodes'
    BY <1>8, <1>13, <1>14
  <2>2. ~ \E i \in DOMAIN entries : entries[i].child = new
    BY <1>2, <1>8, <1>12
  <2> QED
    BY <1>11, <1>14, <1>17, <2>1, <2>2, ResetParent
<1>20. RootAdded(new, root)
  BY <1>3, <1>6, <1>8, <1>121, <1>13, <1>15, <1>18, <1>19 DEF RootAdded
<1> QED
  BY <1>20

(* insert_key_to_index above the old root: the tree gains a level. *)
LEMMA InsertNewRootStep ==
    ASSUME NEW lev, Inv(lev), insert_new_root
    PROVE  IInv'
<1>1. Inserting /\ call.offset = 0 /\ UNCHANGED result /\ call' = Idle
  BY DEF insert_new_root, Inserting
<1>2. /\ call.key \in Keys /\ call.old \in Offsets /\ call.after \in Offsets
      /\ lev[call.old] = lev[call.after] /\ call.old = meta.root_offset
  BY <1>1, InsertCall
<1>3. PICK new, root : RootAdded(new, root)
  BY RootAddedEffect
<1>4. lev[meta.root_offset] = meta.height /\ meta.height \in Nat \ {0}
      /\ meta.root_offset \in Offsets
  BY DEF Inv, MetaOK
<1> DEFINE m == alloc_internal(meta)
<1>5. /\ m \in [internal_node_num : Nat, leaf_node_num : Nat,
                height : Nat \ {0}, slot : Nat,
                root_offset : Offsets, leaf_offset : Offsets]
      /\ m.slot = meta.slot + 1 /\ m.height = meta.height
      /\ m.leaf_offset = meta.leaf_offset
  BY AllocMeta
<1>6. meta' = [m EXCEPT !.root_offset = new, !.height = m.height + 1]
  BY <1>3 DEF RootAdded
<1> HIDE DEF m
<1>7. /\ meta'.slot = meta.slot + 1 /\ meta'.height = meta.height + 1
      /\ meta'.root_offset = new /\ meta'.leaf_offset = meta.leaf_offset
  BY <1>5, <1>6
<1>8. /\ new = meta.slot /\ Offsets' = Offsets \cup {new}
      /\ new \notin NullableOffsets /\ new # 0
      /\ disk' = [o \in Offsets' |-> disk'[o]]
  BY <1>3, SlotPositive DEF RootAdded
<1>9. meta' \in [internal_node_num : Nat, leaf_node_num : Nat,
                 height : Nat \ {0}, slot : Nat,
                 root_offset : Offsets', leaf_offset : Offsets']
  <2>1. m.height + 1 \in Nat \ {0}
    BY <1>4, <1>5
  <2> QED
    BY <1>5, <1>6, <1>8, <2>1
<1>10. PICK lev2 : Extends(lev, lev2) /\ lev2[new] = meta.height + 1
  <2>1. meta'.height \in Nat /\ meta.height <= meta'.height
        /\ meta.height + 1 \in 0..meta'.height
    BY <1>4, <1>7
  <2> QED
    BY <1>7, <1>8, <2>1, LevelOfNewBlock
<1>18. ASSUME NEW o \in Offsets
       PROVE  BlockOK(lev2, o)'
  <2>2. /\ disk'[o] \in InternalNodes' \cup LeafNodes'
        /\ disk'[o].kind = disk[o].kind
        /\ disk'[o].children = disk[o].children
        /\ disk'[o].parent = IF o \in {call.old, call.after} THEN new
                             ELSE disk[o].parent
    BY <1>3 DEF RootAdded
  <2>3. CASE o \in {call.old, call.after}
    <3>1. disk'[o].parent = new
      BY <2>2, <2>3
    <3>2. lev[o] = meta.height
      BY <1>2, <1>4, <2>3
    <3> QED
      BY <1>8, <1>10, <2>2, <3>1, <3>2, KeptBlock
  <2>4. CASE o \notin {call.old, call.after}
    <3>1. disk'[o].parent = disk[o].parent
      BY <2>2, <2>4
    <3>2. disk[o].parent # 0
      BY <1>2, <2>4 DEF Inv, BlockOK
    <3> QED
      BY <1>10, <2>2, <3>1, <3>2, KeptBlock
  <2> QED
    BY <2>3, <2>4
<1>19. BlockOK(lev2, new)'
  <2>3. disk'[new] = root /\ root \in InternalNodes' /\ root.parent = 0
    BY <1>3 DEF RootAdded
  <2>1. root.children = <<Entry(call.key, call.old), Entry(EmptyKey, call.after)>>
    BY <1>3 DEF RootAdded
  <2>2. /\ Len(root.children) = 2 /\ DOMAIN root.children = 1..2
        /\ root.children[1].key = call.key
        /\ root.children[1].child = call.old /\ root.children[2].child = call.after
    BY <2>1 DEF Entry
  <2>4. RealSeparators(Keys, root.children) /\ Len(root.children) \in 1..ORDER
    BY <1>2, <2>2, OrderAssumption DEF RealSeparators
  <2>5. \A i \in DOMAIN root.children : lev2[root.children[i].child] = lev2[new] - 1
    <3>1. lev2[call.old] = meta.height /\ lev2[call.after] = meta.height
      BY <1>2, <1>4, <1>10 DEF Extends
    <3> QED
      BY <1>4, <1>10, <2>2, <3>1
  <2>6. lev2[new] \in Nat \ {0}
    BY <1>4, <1>10
  <2> QED
    BY <1>7, <2>3, <2>4, <2>5, <2>6, NewIndexBlock
<1>20. \A o \in Offsets' : BlockOK(lev2, o)'
  BY <1>8, <1>18, <1>19
<1>21. CallOK(lev2)' /\ result' \in Results
  BY <1>1, IdleCallOK DEF Inv
<1>22. Inv(lev2)'
  BY <1>7, <1>8, <1>9, <1>10, <1>20, <1>21, AllocStep
<1> QED
  BY <1>10, <1>22 DEF IInv, Extends

(* The key that moves up is one the node is searched by. *)
LEMMA IndexSplitPoint ==
    ASSUME NEW node, NEW key, Len(node.children) = ORDER
    PROVE  index_split_point(node, key) \in 1..(ORDER - 1)
<1>1. (ORDER - 1) \div 2 + 1 \in 1..(ORDER - 2)
  BY OrderAssumption
<1> QED
  BY <1>1, OrderAssumption, SMTT(30) DEF index_split_point

(* One half of an index node. *)
LEMMA HalfIndex ==
    ASSUME NEW C, NEW P, NEW node \in IndexNodesOver(Keys, C, P),
           Len(node.children) = ORDER, NEW nx \in P, NEW pv \in P,
           NEW i \in 1..ORDER, NEW j \in 1..ORDER, i <= j, j - i + 1 < ORDER,
           RealSeparators(Keys, node.children)
    PROVE  /\ Part(node, nx, pv, i, j) \in IndexNodesOver(Keys, C, P)
           /\ Part(node, nx, pv, i, j).parent = node.parent
           /\ Len(Part(node, nx, pv, i, j).children) \in 1..(ORDER - 1)
           /\ RealSeparators(Keys, Part(node, nx, pv, i, j).children)
           /\ \A k \in DOMAIN Part(node, nx, pv, i, j).children :
                  \E n \in DOMAIN node.children :
                      Part(node, nx, pv, i, j).children[k] = node.children[n]
<1> DEFINE h == Part(node, nx, pv, i, j)
           c == SubSeq(node.children, i, j)
<1>1. /\ node.children \in Seq(EntriesOver(Keys, C))
      /\ DOMAIN node.children = 1..ORDER
  BY DEF IndexNodesOver
<1>2. /\ c \in Seq(EntriesOver(Keys, C)) /\ Len(c) = j - i + 1
      /\ \A k \in 1..(j - i + 1) : c[k] = node.children[i + k - 1]
  BY <1>1, SubSeqProperties, OrderAssumption
<1> HIDE DEF c
<1>3. h = [node EXCEPT !.next = nx, !.prev = pv, !.children = c]
  BY DEF c, Part
<1>4. h \in IndexNodesOver(Keys, C, P) /\ h.parent = node.parent /\ h.children = c
  BY <1>2, <1>3 DEF IndexNodesOver
<1>5. RealSeparators(Keys, c)
  <2>1. \A k \in 1..(ORDER - 1) : node.children[k].key \in Keys
    BY DEF RealSeparators
  <2>2. ASSUME NEW k \in 1..(Len(c) - 1)
        PROVE  c[k].key \in Keys
    <3>1. /\ k \in 1..(j - i + 1) /\ i + k - 1 \in 1..(ORDER - 1)
      BY <1>2, OrderAssumption
    <3> QED
      BY <1>2, <2>1, <3>1
  <2> QED
    BY <2>2 DEF RealSeparators
<1>6. DOMAIN c = 1..(j - i + 1)
  BY <1>2
<1>7. \A k \in DOMAIN c : \E n \in DOMAIN node.children : c[k] = node.children[n]
  <2> TAKE k \in DOMAIN c
  <2>1. i + k - 1 \in DOMAIN node.children /\ k \in 1..(j - i + 1)
    BY <1>1, <1>6, OrderAssumption
  <2> QED
    BY <1>2, <2>1
<1> HIDE DEF h
<1>8. Len(h.children) \in 1..(ORDER - 1)
  BY <1>2, <1>4, OrderAssumption
<1> QED
  BY <1>4, <1>5, <1>7, <1>8 DEF h

(* That half with the new entry. *)
LEMMA HalfIndexPlusKey ==
    ASSUME NEW C, NEW P, NEW h \in IndexNodesOver(Keys, C, P),
           Len(h.children) \in 1..(ORDER - 1), RealSeparators(Keys, h.children),
           NEW key \in Keys, NEW value \in C
    PROVE  LET h2 == insert_key_to_index_no_split(h, key, value) IN
           /\ h2 \in IndexNodesOver(Keys, C, P)
           /\ h2.parent = h.parent
           /\ Len(h2.children) \in 1..ORDER
           /\ RealSeparators(Keys, h2.children)
           /\ \A j \in DOMAIN h2.children :
                  \/ h2.children[j].child = value
                  \/ \E i \in DOMAIN h.children :
                         h2.children[j].child = h.children[i].child
<1> DEFINE h2 == insert_key_to_index_no_split(h, key, value)
<1>1. Keys \in SUBSET Nat /\ Len(h.children) >= 1
  BY KeysAssumption, OrderAssumption
<1>2. /\ h2 \in IndexNodesOver(Keys, C, P)
      /\ h2.parent = h.parent
      /\ Len(h2.children) = Len(h.children) + 1
      /\ \A j \in DOMAIN h2.children :
             \/ h2.children[j].child = value
             \/ \E i \in DOMAIN h.children :
                    h2.children[j].child = h.children[i].child
      /\ RealSeparators(Keys, h.children) => RealSeparators(Keys, h2.children)
  BY <1>1, InsertKey, Zenon
<1> HIDE DEF h2
<1>3. Len(h2.children) \in 1..ORDER
  BY <1>2, OrderAssumption
<1> QED
  BY <1>2, <1>3 DEF h2

(* The entries c of a full index node and those of its two halves, one of  *)
(* which takes the new entry; the key between them moves up.               *)
IndexHalves(c, lc, rc) ==
    LET mid   == (ORDER - 1) \div 2 + 1
        right == call.key > c[mid].key
        point == IF right /\ call.key >= c[mid + 1].key THEN mid + 1 ELSE mid
        lh    == SubSeq(c, 1, point)
        rh    == SubSeq(c, point + 1, ORDER)
        Added(h, h2) == EntryAdded(h, Entries', upper_bound(h, Len(h) - 1, call.key),
                                   call.key, call.after, h2)
    IN  /\ point \in 1..(ORDER - 1)
        /\ call'.key = c[point].key
        /\ \/ right /\ lc = lh /\ Added(rh, rc)
           \/ ~right /\ Added(lh, lc) /\ rc = rh

(* What insert_key_to_index of a full node writes: the node q becomes l    *)
(* and the new block r, whose children get the new parent; of the other    *)
(* blocks at most a prev changes.                                          *)
IndexSplit(q, new, l, r) ==
    /\ q = call.offset /\ new = meta.slot
    /\ q \in Offsets /\ new \notin NullableOffsets
    /\ Offsets' = Offsets \cup {new}
    /\ NullableOffsets' = NullableOffsets \cup {new}
    /\ Len(disk[q].children) = ORDER
    /\ disk' = [o \in Offsets' |-> disk'[o]]
    /\ disk'[q] = l /\ l \in InternalNodes' /\ l.parent = disk[q].parent
    /\ disk'[new] = r /\ r \in InternalNodes' /\ r.parent = disk[q].parent
    /\ Len(l.children) \in 1..ORDER /\ Len(r.children) \in 1..ORDER
    /\ RealSeparators(Keys, l.children) /\ RealSeparators(Keys, r.children)
    /\ \A o : Lists(l.children, o) \/ Lists(r.children, o) =>
                o = call.after \/ Lists(disk[q].children, o)
    /\ \A o \in Offsets \ {q} :
           /\ disk'[o] \in InternalNodes' \cup LeafNodes'
           /\ disk'[o].kind = disk[o].kind
           /\ disk'[o].children = disk[o].children
           /\ Lists(r.children, o) => disk'[o].parent = new
           /\ ~Lists(r.children, o) => disk'[o].parent = disk[o].parent
    /\ call'.proc = "insert_key_to_index" /\ call'.offset = disk[q].parent
    /\ call'.old = q /\ call'.after = new /\ call' \in InsertCalls'
    /\ IndexHalves(disk[q].children, l.children, r.children)

LEMMA IndexSplitEffect ==
    ASSUME NEW lev, Inv(lev), insert_split_index
    PROVE  \E q, new, l, r : IndexSplit(q, new, l, r)
<1>1. /\ Inserting /\ call.offset # 0 
      /\ meta' = alloc_internal(meta)
  BY DEF insert_split_index, Inserting
<1>2. /\ call \in InsertCalls
      /\ call.key \in Keys /\ call.after \in Offsets /\ call.offset \in Offsets
      /\ lev[call.offset] = lev[call.after] + 1 /\ lev[call.offset] \in Nat \ {0}
  BY <1>1, InsertCall
<1>3. PICK q \in Offsets : q = call.offset
  BY <1>2
<1>4. PICK new \in Nat \ {0} : new = meta.slot
  BY SlotPositive
<1>5. /\ meta'.slot = meta.slot + 1 /\ meta'.height = meta.height
      /\ meta'.root_offset = meta.root_offset
      /\ meta'.leaf_offset = meta.leaf_offset
      /\ meta' \in [internal_node_num : Nat, leaf_node_num : Nat,
                    height : Nat \ {0}, slot : Nat,
                    root_offset : Offsets, leaf_offset : Offsets]
  BY <1>1, AllocMeta
<1>6. /\ Offsets' = Offsets \cup {new}
      /\ NullableOffsets' = NullableOffsets \cup {new}
      /\ new \notin Offsets
      /\ Offsets \subseteq NullableOffsets
      /\ InternalNodes \subseteq InternalNodes'
  BY <1>4, <1>5, SlotPositive, Growth
<1> DEFINE node == disk[q]
<1>8. /\ node \in InternalNodes /\ DOMAIN node.children = 1..Len(node.children)
      /\ \A i \in 1..Len(node.children) :
             /\ node.children[i].child \in Offsets
             /\ lev[node.children[i].child] = lev[q] - 1
      /\ RealSeparators(Keys, node.children)
  BY <1>2, <1>3, IndexFacts
<1>9. /\ node.parent # 0 => node.parent \in Offsets /\ lev[node.parent] = lev[q] + 1
      /\ node.parent = 0 => q = meta.root_offset
      /\ node.parent \in NullableOffsets /\ node.next \in NullableOffsets
      /\ node.prev \in NullableOffsets
  <2>1. /\ node.parent \in NullableOffsets /\ node.next \in NullableOffsets
        /\ node.prev \in NullableOffsets
    BY BlockFacts
  <2>2. node.parent # 0 => node.parent \in Offsets
    BY <2>1, SlotPositive DEF Offsets, NullableOffsets
  <2> QED
    BY <1>1, <2>1, <2>2 DEF Inv, BlockOK
<1> DEFINE point == index_split_point(node, call.key)
           right == index_place_right(node, call.key)
           lhalf == Part(node, new, node.prev, 1, point)
           rhalf == Part(node, node.next, q, point + 1, ORDER)
           l == IF right THEN lhalf
                ELSE insert_key_to_index_no_split(lhalf, call.key, call.after)
           r == IF right
                THEN insert_key_to_index_no_split(rhalf, call.key, call.after)
                ELSE rhalf
           d0 == set_prev(disk, node.next, new)
           d == unmap(unmap(d0, q, l), new, r)
<1>10. Len(node.children) = ORDER
  BY <1>3 DEF insert_split_index
<1>11. /\ [node EXCEPT !.next = new, !.children = SubSeq(@, 1, point)] = lhalf
       /\ [node EXCEPT !.prev = q,
                       !.children = SubSeq(@, point + 1, Len(@))] = rhalf
  BY <1>8, <1>10 DEF Part, InternalNodes
<1>12. /\ disk' = reset_index_children_parent(d, r.children, new)
       /\ call' = [call EXCEPT !.offset = node.parent,
                               !.key = node.children[point].key,
                               !.old = q, !.after = new]
  BY <1>3, <1>4, <1>11 DEF insert_split_index
<1>13. /\ point \in 1..(ORDER - 1)
       /\ 1 \in 1..ORDER /\ point \in 1..ORDER /\ point - 1 + 1 < ORDER
       /\ point + 1 \in 1..ORDER /\ ORDER \in 1..ORDER
       /\ point + 1 <= ORDER /\ ORDER - (point + 1) + 1 < ORDER
       /\ 1 <= point
  <2>1. point \in 1..(ORDER - 1)
    BY <1>10, IndexSplitPoint
  <2> HIDE DEF point
  <2> QED
    BY <2>1, OrderAssumption
<1> DEFINE mid == (ORDER - 1) \div 2 + 1
           c == node.children
<1>131. /\ right = (call.key > c[mid].key)
        /\ point = IF right /\ call.key >= c[mid + 1].key THEN mid + 1 ELSE mid
  BY <1>10 DEF index_split_point, index_place_right
<1>132. /\ lhalf.children = SubSeq(c, 1, point)
        /\ rhalf.children = SubSeq(c, point + 1, ORDER)
  BY <1>8 DEF InternalNodes, Part
<1> HIDE DEF point, right, mid
<1>14. /\ InternalNodes' = IndexNodesOver(Keys, Offsets', NullableOffsets')
       /\ node \in IndexNodesOver(Keys, Offsets', NullableOffsets')
       /\ new \in NullableOffsets' /\ q \in NullableOffsets'
       /\ node.next \in NullableOffsets' /\ node.prev \in NullableOffsets'
       /\ call.after \in Offsets'
  <2>1. InternalNodes' = IndexNodesOver(Keys, Offsets', NullableOffsets')
    BY DEF InternalNodes, IndexNodesOver, Entries, EntriesOver
  <2> QED
    BY <1>2, <1>6, <1>8, <1>9, <2>1
<1>15. /\ lhalf \in InternalNodes' /\ lhalf.parent = node.parent
       /\ Len(lhalf.children) \in 1..(ORDER - 1)
       /\ RealSeparators(Keys, lhalf.children)
       /\ \A k \in DOMAIN lhalf.children : \E n \in DOMAIN node.children :
              lhalf.children[k] = node.children[n]
  <2> HIDE DEF node
  <2>1. /\ lhalf \in IndexNodesOver(Keys, Offsets', NullableOffsets')
        /\ lhalf.parent = node.parent
        /\ Len(lhalf.children) \in 1..(ORDER - 1)
        /\ RealSeparators(Keys, lhalf.children)
        /\ \A k \in DOMAIN lhalf.children : \E n \in DOMAIN node.children :
               lhalf.children[k] = node.children[n]
    <3>1. RealSeparators(Keys, node.children)
      BY <1>8
    <3> QED
      BY <1>10, <1>13, <1>14, <3>1, HalfIndex
  <2> HIDE DEF lhalf
  <2> QED
    BY <1>14, <2>1
<1>16. /\ rhalf \in InternalNodes' /\ rhalf.parent = node.parent
       /\ Len(rhalf.children) \in 1..(ORDER - 1)
       /\ RealSeparators(Keys, rhalf.children)
       /\ \A k \in DOMAIN rhalf.children : \E n \in DOMAIN node.children :
              rhalf.children[k] = node.children[n]
  <2> HIDE DEF node
  <2>1. /\ rhalf \in IndexNodesOver(Keys, Offsets', NullableOffsets')
        /\ rhalf.parent = node.parent
        /\ Len(rhalf.children) \in 1..(ORDER - 1)
        /\ RealSeparators(Keys, rhalf.children)
        /\ \A k \in DOMAIN rhalf.children : \E n \in DOMAIN node.children :
               rhalf.children[k] = node.children[n]
    <3>1. RealSeparators(Keys, node.children)
      BY <1>8
    <3> QED
      BY <1>10, <1>13, <1>14, <3>1, HalfIndex
  <2> HIDE DEF rhalf
  <2> QED
    BY <1>14, <2>1
<1> HIDE DEF node, lhalf, rhalf
<1>17. \A o : Lists(lhalf.children, o) \/ Lists(rhalf.children, o) =>
                   Lists(node.children, o)
  BY <1>15, <1>16 DEF Lists
<1>171. Keys \in SUBSET Nat /\ Entries' = EntriesOver(Keys, Offsets')
  BY KeysAssumption DEF Entries, EntriesOver
<1> DEFINE Added(h, h2) ==
               EntryAdded(h, Entries', upper_bound(h, Len(h) - 1, call.key),
                          call.key, call.after, h2)
<1>18. /\ l \in InternalNodes' /\ l.parent = node.parent
       /\ Len(l.children) \in 1..ORDER /\ RealSeparators(Keys, l.children)
       /\ \A o : Lists(l.children, o) => o = call.after \/ Lists(lhalf.children, o)
       /\ IF right THEN l = lhalf ELSE Added(lhalf.children, l.children)
  <2>2. CASE right
    BY <1>15, <2>2, OrderAssumption
  <2>3. CASE ~right
    <3> DEFINE h2 == insert_key_to_index_no_split(lhalf, call.key, call.after)
    <3>1. /\ h2 \in InternalNodes' /\ h2.parent = lhalf.parent
          /\ Len(h2.children) \in 1..ORDER /\ RealSeparators(Keys, h2.children)
          /\ \A j \in DOMAIN h2.children :
                 \/ h2.children[j].child = call.after
                 \/ \E i \in DOMAIN lhalf.children :
                        h2.children[j].child = lhalf.children[i].child
      BY <1>2, <1>14, <1>15, HalfIndexPlusKey
    <3>2. l = h2
      BY <2>3
    <3>3. Added(lhalf.children, h2.children)
      <4>1. Len(lhalf.children) >= 1
        BY <1>15, OrderAssumption
      <4>2. EntryAdded(lhalf.children, Entries', find_index(lhalf, call.key),
                       call.key, call.after, h2.children)
        BY <1>2, <1>14, <1>15, <1>171, <4>1, InsertKeyEntries
      <4> QED
        BY <4>2 DEF find_index
    <3> HIDE DEF h2, l, Added
    <3> QED
      BY <1>15, <2>3, <3>1, <3>2, <3>3 DEF Lists
  <2> QED
    BY <2>2, <2>3
<1>19. /\ r \in InternalNodes' /\ r.parent = node.parent
       /\ Len(r.children) \in 1..ORDER /\ RealSeparators(Keys, r.children)
       /\ \A o : Lists(r.children, o) => o = call.after \/ Lists(rhalf.children, o)
       /\ IF right THEN Added(rhalf.children, r.children) ELSE r = rhalf
  <2>2. CASE ~right
    BY <1>16, <2>2, OrderAssumption
  <2>3. CASE right
    <3> DEFINE h2 == insert_key_to_index_no_split(rhalf, call.key, call.after)
    <3>1. /\ h2 \in InternalNodes' /\ h2.parent = rhalf.parent
          /\ Len(h2.children) \in 1..ORDER /\ RealSeparators(Keys, h2.children)
          /\ \A j \in DOMAIN h2.children :
                 \/ h2.children[j].child = call.after
                 \/ \E i \in DOMAIN rhalf.children :
                        h2.children[j].child = rhalf.children[i].child
      BY <1>2, <1>14, <1>16, HalfIndexPlusKey
    <3>2. r = h2
      BY <2>3
    <3>3. Added(rhalf.children, h2.children)
      <4>1. Len(rhalf.children) >= 1
        BY <1>16, OrderAssumption
      <4>2. EntryAdded(rhalf.children, Entries', find_index(rhalf, call.key),
                       call.key, call.after, h2.children)
        BY <1>2, <1>14, <1>16, <1>171, <4>1, InsertKeyEntries
      <4> QED
        BY <4>2 DEF find_index
    <3> HIDE DEF h2, r, Added
    <3> QED
      BY <1>16, <2>3, <3>1, <3>2, <3>3 DEF Lists
  <2> QED
    BY <2>2, <2>3
<1> HIDE DEF l, r
<1>20. \A o \in Offsets : /\ DOMAIN d0 = Offsets
                          /\ d0[o] \in InternalNodes' \cup LeafNodes'
                          /\ d0[o].kind = disk[o].kind
                          /\ d0[o].parent = disk[o].parent
                          /\ d0[o].children = disk[o].children
  BY <1>4, <1>5, <1>9, SetPrev
<1> HIDE DEF d0
<1>21. /\ DOMAIN d = Offsets' /\ d[new] = r /\ d[q] = l
       /\ \A o \in Offsets \ {q} : d[o] = d0[o]
  BY <1>6, <1>20 DEF unmap
<1> HIDE DEF d
<1>22. disk' = [o \in Offsets' |-> disk'[o]]
  BY <1>12, <1>21 DEF reset_index_children_parent
<1>23. \A o \in Offsets' : d[o] \in InternalNodes' \cup LeafNodes'
  BY <1>6, <1>18, <1>19, <1>20, <1>21
<1>24. \A o \in Offsets' :
           /\ disk'[o] \in InternalNodes' \cup LeafNodes'
           /\ disk'[o].kind = d[o].kind
           /\ disk'[o].children = d[o].children
           /\ Lists(r.children, o) => disk'[o].parent = new
           /\ ~Lists(r.children, o) => disk'[o] = d[o]
  BY <1>12, <1>14, <1>21, <1>23, ResetParent DEF Lists
<1>25. \A o : Lists(r.children, o) => o # q /\ o # new
  <2>1. \A o : Lists(node.children, o) => o \in Offsets /\ lev[o] = lev[q] - 1
    BY <1>8 DEF Lists
  <2>2. call.after \in Offsets /\ lev[call.after] # lev[q]
    <3>1. lev[call.after] \in 0..meta.height /\ lev[q] \in 0..meta.height
      BY <1>2, BlockFacts
    <3> QED
      BY <1>2, <1>3, <3>1 DEF Inv, MetaOK
  <2>3. lev[q] \in Nat
    BY <1>2, <1>3
  <2> QED
    BY <1>6, <1>17, <1>19, <2>1, <2>2, <2>3
<1>27. disk'[q] = l /\ disk'[new] = r
  BY <1>6, <1>21, <1>24, <1>25
<1>29. /\ call'.proc = "insert_key_to_index" /\ call'.offset = node.parent
       /\ call'.old = q /\ call'.after = new
       /\ call'.key = node.children[point].key
       /\ call' \in InsertCalls'
  <2>1. node.children[point].key \in Keys
    BY <1>8, <1>10, <1>13 DEF RealSeparators
  <2> QED
    BY <1>2, <1>6, <1>9, <1>12, <2>1 DEF InsertCalls
<1>30. IndexHalves(node.children, l.children, r.children)
  <2>1. /\ point \in 1..(ORDER - 1)
        /\ call'.key = c[point].key
        /\ \/ right /\ l.children = lhalf.children /\ Added(rhalf.children, r.children)
           \/ ~right /\ Added(lhalf.children, l.children) /\ r.children = rhalf.children
    BY <1>13, <1>18, <1>19, <1>29
  <2> QED
    BY <1>131, <1>132, <2>1 DEF IndexHalves, mid
<1>31. \A o : Lists(l.children, o) \/ Lists(r.children, o) =>
                   o = call.after \/ Lists(node.children, o)
  BY <1>17, <1>18, <1>19
<1>32. \A o \in Offsets \ {q} :
           /\ disk'[o] \in InternalNodes' \cup LeafNodes'
           /\ disk'[o].kind = disk[o].kind
           /\ disk'[o].children = disk[o].children
           /\ Lists(r.children, o) => disk'[o].parent = new
           /\ ~Lists(r.children, o) => disk'[o].parent = disk[o].parent
  BY <1>6, <1>20, <1>21, <1>24
<1>33. IndexSplit(q, new, l, r)
  <2>1. new \notin NullableOffsets
    BY <1>4, <1>5, SlotPositive, Growth
  <2>2. l.parent = disk[q].parent /\ r.parent = disk[q].parent
        /\ Len(disk[q].children) = ORDER
    BY <1>10, <1>18, <1>19 DEF node
  <2> QED
    BY <1>3, <1>4, <1>6, <1>18, <1>19, <1>22, <1>27, <1>29, <1>30, <1>31, <1>32, <2>1, <2>2
    DEF IndexSplit, node
<1> QED
  BY <1>33

(* insert_key_to_index into a full parent: both halves are well formed. *)
LEMMA InsertSplitIndexStep ==
    ASSUME NEW lev, Inv(lev), insert_split_index
    PROVE  IInv'
<1>1. /\ Inserting /\ call.offset # 0 /\ UNCHANGED result
      /\ meta' = alloc_internal(meta)
  BY DEF insert_split_index, Inserting
<1>2. /\ call.after \in Offsets /\ call.offset \in Offsets
      /\ lev[call.offset] = lev[call.after] + 1 /\ lev[call.offset] \in Nat \ {0}
  BY <1>1, InsertCall
<1>3. PICK q, new, l, r : IndexSplit(q, new, l, r)
  BY IndexSplitEffect
<1> DEFINE node == disk[q]
<1>4. /\ q = call.offset /\ new = meta.slot /\ q \in Offsets
      /\ Offsets' = Offsets \cup {new}
      /\ NullableOffsets' = NullableOffsets \cup {new}
      /\ new \notin NullableOffsets
      /\ disk' = [o \in Offsets' |-> disk'[o]]
      /\ disk'[q] = l /\ disk'[new] = r
  BY <1>3 DEF IndexSplit
<1>5. /\ meta'.slot = meta.slot + 1 /\ meta'.height = meta.height
      /\ meta'.root_offset = meta.root_offset
      /\ meta'.leaf_offset = meta.leaf_offset
      /\ meta' \in [internal_node_num : Nat, leaf_node_num : Nat,
                    height : Nat \ {0}, slot : Nat,
                    root_offset : Offsets, leaf_offset : Offsets]
  BY <1>1, AllocMeta
<1>6. new \notin Offsets /\ new # 0
  BY <1>4, SlotPositive DEF Offsets, NullableOffsets
<1>7. PICK lev2 : Extends(lev, lev2) /\ lev2[new] = lev[q]
  <2>1. lev[q] \in 0..meta'.height /\ meta'.height \in Nat /\ meta.height <= meta'.height
    BY <1>4, <1>5, BlockFacts DEF Inv, MetaOK
  <2> QED
    BY <1>4, <1>5, <2>1, LevelOfNewBlock
<1>8. \A i \in DOMAIN node.children :
          /\ node.children[i].child \in Offsets
          /\ lev[node.children[i].child] = lev[q] - 1
  BY <1>2, <1>4, IndexFacts
<1>9. /\ node.parent # 0 => node.parent \in Offsets /\ lev[node.parent] = lev[q] + 1
      /\ node.parent = 0 => q = meta.root_offset
  <2>1. node.parent \in NullableOffsets
    BY <1>4, BlockFacts
  <2>2. node.parent # 0 => node.parent \in Offsets
    BY <2>1, SlotPositive DEF Offsets, NullableOffsets
  <2> QED
    BY <1>1, <1>4, <2>1, <2>2 DEF Inv, BlockOK
<1>10. /\ l \in InternalNodes' /\ l.parent = node.parent
       /\ Len(l.children) \in 1..ORDER /\ RealSeparators(Keys, l.children)
       /\ r \in InternalNodes' /\ r.parent = node.parent
       /\ Len(r.children) \in 1..ORDER /\ RealSeparators(Keys, r.children)
  BY <1>3 DEF IndexSplit
<1>25. lev2[q] = lev[q] /\ lev2[new] = lev2[q] /\ lev2[q] \in Nat \ {0}
  BY <1>2, <1>4, <1>7 DEF Extends
<1>26. \A o : Lists(l.children, o) \/ Lists(r.children, o) =>
                  o \in Offsets /\ lev2[o] = lev2[q] - 1
  <2>1. \A o \in Offsets : lev2[o] = lev[o]
    BY <1>7 DEF Extends
  <2>2. lev[call.after] = lev[q] - 1
    <3>1. lev[call.after] \in 0..meta.height
      BY <1>2, BlockFacts
    <3> QED
      BY <1>2, <1>4, <3>1 DEF Inv, MetaOK
  <2>3. \A o : Lists(l.children, o) \/ Lists(r.children, o) =>
                   o = call.after \/ Lists(node.children, o)
    BY <1>3 DEF IndexSplit
  <2>4. \A o : Lists(node.children, o) => o \in Offsets /\ lev[o] = lev[q] - 1
    BY <1>8 DEF Lists
  <2> QED
    BY <1>2, <1>25, <2>1, <2>2, <2>3, <2>4
<1>27. /\ \A i \in DOMAIN l.children : lev2[l.children[i].child] = lev2[q] - 1
       /\ \A i \in DOMAIN r.children : lev2[r.children[i].child] = lev2[q] - 1
  BY <1>26 DEF Lists
<1>29. /\ call'.proc = "insert_key_to_index" /\ call'.offset = node.parent
       /\ call'.old = q /\ call'.after = new
       /\ call' \in InsertCalls'
  BY <1>3 DEF IndexSplit
<1>30. node.parent # 0 => lev2[node.parent] = lev2[q] + 1
  BY <1>7, <1>9, <1>25 DEF Extends
<1> HIDE DEF node
<1>31. BlockOK(lev2, q)'
  <2>1. l.parent # 0 => lev2[l.parent] = lev2[q] + 1
    BY <1>10, <1>30
  <2>2. l.parent = 0 => q = meta'.root_offset
    BY <1>5, <1>9, <1>10
  <2>3. lev2[q] \in Nat \ {0}
    BY <1>25
  <2>4. \A i \in DOMAIN l.children : lev2[l.children[i].child] = lev2[q] - 1
    BY <1>27
  <2> QED
    BY <1>4, <1>10, <2>1, <2>2, <2>3, <2>4, NewIndexBlock
<1>32. BlockOK(lev2, new)'
  <2>1. node.parent = 0 => Inserting' /\ call'.offset = 0 /\ new = call'.after
    BY <1>29 DEF Inserting
  <2>2. lev2[new] \in Nat \ {0}
    BY <1>25
  <2>3. \A i \in DOMAIN r.children : lev2[r.children[i].child] = lev2[new] - 1
    BY <1>25, <1>27
  <2>4. r.parent # 0 => lev2[r.parent] = lev2[new] + 1
    BY <1>10, <1>25, <1>30
  <2>5. r.parent = 0 => Inserting' /\ call'.offset = 0 /\ new = call'.after
    BY <1>10, <2>1
  <2> QED
    BY <1>4, <1>10, <2>2, <2>3, <2>4, <2>5, NewIndexBlock
<1>33. ASSUME NEW o \in Offsets \ {q}
       PROVE  BlockOK(lev2, o)'
  <2>1. /\ disk'[o] \in InternalNodes' \cup LeafNodes'
        /\ disk'[o].kind = disk[o].kind
        /\ disk'[o].children = disk[o].children
        /\ Lists(r.children, o) => disk'[o].parent = new
        /\ ~Lists(r.children, o) => disk'[o].parent = disk[o].parent
    BY <1>3 DEF IndexSplit
  <2>2. CASE Lists(r.children, o)
    <3>1. disk'[o].parent = new /\ new # 0
      BY <1>6, <2>1, <2>2
    <3>2. lev2[new] = lev[o] + 1
      <4>1. lev2[o] = lev2[q] - 1 /\ lev2[o] = lev[o]
        BY <1>7, <1>26, <2>2 DEF Extends
      <4> QED
        BY <1>25, <4>1
    <3> QED
      BY <1>7, <2>1, <3>1, <3>2, KeptBlock
  <2>3. CASE ~Lists(r.children, o)
    <3>1. disk[o].parent = 0 => o = meta'.root_offset
      BY <1>1, <1>5 DEF Inv, BlockOK
    <3> QED
      BY <1>7, <2>1, <2>3, <3>1, KeptBlock
  <2> QED
    BY <2>2, <2>3
<1>34. \A o \in Offsets' : BlockOK(lev2, o)'
  BY <1>4, <1>31, <1>32, <1>33
<1>35. CallOK(lev2)'
  BY <1>4, <1>5, <1>9, <1>25, <1>29, <1>30 DEF CallOK, Searching, Inserting
<1>36. lev2[meta'.root_offset] = meta'.height /\ result' \in Results
  BY <1>1, <1>5, <1>7 DEF Extends, Inv, MetaOK
<1>37. Inv(lev2)'
  BY <1>4, <1>5, <1>7, <1>34, <1>35, <1>36, AllocStep
<1> QED
  BY <1>7, <1>37 DEF IInv, Extends

-----------------------------------------------------------------------------
(* Every step of the tree preserves the inductive invariant. *)
LEMMA NextIInv == IInv /\ [Next]_vars => IInv'
<1> SUFFICES ASSUME IInv, [Next]_vars
             PROVE  IInv'
  OBVIOUS
<1>0. PICK lev \in [Offsets -> 0..meta.height] : Inv(lev)
  BY DEF IInv
<1>1. ASSUME Inv(lev)'
      PROVE  IInv'
  BY <1>1 DEF IInv, Inv
<1>2. CASE BeginAny
  BY <1>0, <1>1, <1>2, BeginStep
<1>3. CASE search_index
  BY <1>0, <1>1, <1>3, SearchIndexStep
<1>4. CASE search
  BY <1>0, <1>1, <1>4, SearchStep
<1>5. CASE update
  BY <1>0, <1>1, <1>5, UpdateStep
<1>6. CASE insert_same_key
  BY <1>0, <1>1, <1>6, InsertSameKeyStep
<1>7. CASE insert_into_leaf
  BY <1>0, <1>1, <1>7, InsertIntoLeafStep
<1>8. CASE insert_split_leaf
  BY <1>0, <1>8, InsertSplitLeafStep
<1>9. CASE insert_new_root
  BY <1>0, <1>9, InsertNewRootStep
<1>10. CASE insert_into_index
  BY <1>0, <1>1, <1>10, InsertIntoIndexStep
<1>11. CASE insert_split_index
  BY <1>0, <1>11, InsertSplitIndexStep
<1>12. CASE UNCHANGED vars
  <2>1. Offsets' = Offsets /\ NullableOffsets' = NullableOffsets
    BY <1>12 DEF vars, Offsets, NullableOffsets
  <2>2. InternalNodes' = InternalNodes /\ LeafNodes' = LeafNodes
    BY <2>1 DEF InternalNodes, LeafNodes, Entries, Records
  <2>3. \A o \in Offsets : BlockOK(lev, o)'
    BY <1>0, <1>12, <2>2
    DEF vars, Inv, BlockOK, IsLeaf, IsInternal, Inserting
  <2>4. SearchCalls' = SearchCalls /\ InsertCalls' = InsertCalls
    BY <2>1 DEF SearchCalls, InsertCalls
  <2>5. CallOK(lev)'
    BY <1>0, <1>12, <2>4 DEF vars, Inv, CallOK, Inserting, Searching
  <2>6. MetaOK'
    BY <1>0, <1>12, <2>1 DEF vars, Inv, MetaOK, IsLeaf
  <2> QED
    BY <1>0, <1>1, <1>12, <2>1, <2>3, <2>5, <2>6 DEF vars, Inv, Results
<1> QED
  BY <1>2, <1>3, <1>4, <1>5, <1>6, <1>7, <1>8, <1>9, <1>10, <1>11, <1>12
  DEF Next, Step

(* For every order, every set of keys and every sequence of searches,      *)
(* inserts and updates: no node overflows or is left without an entry, and *)
(* the descent of search_index and the climb of insert_key_to_index map    *)
(* index nodes where they expect index nodes, at whatever depth splits     *)
(* have put them.                                                          *)
THEOREM TypeCorrect == Spec => []TypeOK
<1>1. Init => IInv
  BY InitIInv
<1>2. IInv /\ [Next]_vars => IInv'
  BY NextIInv
<1>3. IInv => TypeOK
  BY InvTypeOK DEF IInv
<1> QED
  BY <1>1, <1>2, <1>3, PTL DEF Spec

-----------------------------------------------------------------------------
(***************************************************************************)
(* The parent fields mirror the entries, and splits leave every block half *)
(* full.  Neither ParentPointers nor HalfFull is inductive: both speak of  *)
(* the rows of the index between calls.  The invariants below speak of     *)
(* every block at every step, and of the block that an insert has split    *)
(* off and not yet entered into the index (call.after).                    *)
(***************************************************************************)

(* The children of an index node know it as their parent, and it lists     *)
(* none of them twice.                                                     *)
ChildLinks(o) ==
    IsInternal(o) =>
        /\ NoneTwice(disk[o].children)
        /\ \A x : Lists(disk[o].children, x) => disk[x].parent = o

(* A block is listed by its parent, unless it has just been split off. *)
ParentLink(o) ==
    disk[o].parent # 0 =>
        \/ Inserting /\ o = call.after
        \/ Lists(disk[disk[o].parent].children, o)

(* The pending block belongs under the node that insert_key_to_index is    *)
(* called for, next to the block it was split from; nobody lists it yet.   *)
PendingLinks ==
    Inserting =>
        /\ disk[call.old].parent = call.offset
        /\ disk[call.after].parent = call.offset
        /\ call.old # call.after
        /\ \A o \in Offsets : IsInternal(o) => ~Lists(disk[o].children, call.after)

LinkInv ==
    /\ disk[meta.root_offset].parent = 0
    /\ \A o \in Offsets : ChildLinks(o)
    /\ \A o \in Offsets : ParentLink(o)
    /\ PendingLinks

-----------------------------------------------------------------------------
(* The children of an index node are blocks of the file, one level down. *)
LEMMA ListedBlocks ==
    ASSUME NEW lev, Inv(lev), NEW o \in Offsets, IsInternal(o),
           NEW x, Lists(disk[o].children, x)
    PROVE  x \in Offsets /\ lev[x] = lev[o] - 1 /\ lev[o] \in Nat \ {0}
<1>1. lev[o] \in Nat \ {0}
  <2>1. lev[o] \in 0..meta.height /\ ~IsLeaf(o)
    BY BlockFacts
  <2>2. lev[o] # 0
    BY <2>1 DEF Inv, BlockOK
  <2> QED
    BY <2>1, <2>2 DEF Inv, MetaOK
<1>2. \A i \in DOMAIN disk[o].children :
          /\ disk[o].children[i].child \in Offsets
          /\ lev[disk[o].children[i].child] = lev[o] - 1
  BY <1>1, IndexFacts
<1> QED
  BY <1>1, <1>2 DEF Lists

(* The parent of a block is an index node, one level up. *)
LEMMA ParentBlocks ==
    ASSUME NEW lev, Inv(lev), NEW o \in Offsets, disk[o].parent # 0
    PROVE  LET p == disk[o].parent IN
           p \in Offsets /\ IsInternal(p) /\ lev[p] = lev[o] + 1 /\ p # o
<1> DEFINE p == disk[o].parent
<1>1. p \in Offsets
  BY BlockFacts, SlotPositive DEF Offsets, NullableOffsets
<1>2. lev[p] = lev[o] + 1 /\ lev[o] \in Nat
  BY BlockFacts DEF Inv, BlockOK
<1>3. IsInternal(p)
  BY <1>1, <1>2, IndexFacts
<1> QED
  BY <1>1, <1>2, <1>3

(* A new file. *)
LEMMA InitLinks == Init => LinkInv
<1> SUFFICES ASSUME Init
             PROVE  LinkInv
  OBVIOUS
<1>1. /\ meta.root_offset = 1 /\ Offsets = 1..2 /\ ~Inserting
      /\ disk[1] = InternalNode(0, 0, 0, <<Entry(EmptyKey, 2)>>)
      /\ disk[2] = LeafNode(1, 0, 0, <<>>)
  BY DEF Init, init_from_empty, Offsets, Inserting, Idle
<1>2. /\ disk[1].parent = 0 /\ disk[1].children = <<Entry(EmptyKey, 2)>>
      /\ disk[2].parent = 1 /\ disk[2].kind = "leaf"
  BY <1>1 DEF InternalNode, LeafNode
<1>3. \A x : Lists(disk[1].children, x) <=> x = 2
  BY <1>2 DEF Lists, Entry
<1>4. NoneTwice(disk[1].children)
  BY <1>2 DEF NoneTwice
<1>5. ChildLinks(1) /\ ChildLinks(2)
  BY <1>2, <1>3, <1>4 DEF ChildLinks, IsInternal
<1>6. ParentLink(1) /\ ParentLink(2)
  BY <1>2, <1>3 DEF ParentLink
<1> QED
  BY <1>1, <1>2, <1>5, <1>6 DEF LinkInv, PendingLinks

(* A step that changes no link: at most the records of a leaf. *)
LEMMA SameLinks ==
    ASSUME NEW lev, Inv(lev), LinkInv, ~Inserting, ~Inserting', UNCHANGED meta,
           \A o \in Offsets : /\ disk'[o].kind = disk[o].kind
                              /\ disk'[o].parent = disk[o].parent
                              /\ IsInternal(o) =>
                                     disk'[o].children = disk[o].children
    PROVE  LinkInv'
<1>1. Offsets' = Offsets /\ meta.root_offset \in Offsets
  BY DEF Offsets, Inv, MetaOK
<1>2. ASSUME NEW o \in Offsets
      PROVE  ChildLinks(o)'
  <2> SUFFICES ASSUME IsInternal(o)
               PROVE  /\ NoneTwice(disk[o].children)
                      /\ \A x : Lists(disk[o].children, x) => disk'[x].parent = o
    BY DEF ChildLinks, IsInternal
  <2> QED
    BY ListedBlocks DEF LinkInv, ChildLinks
<1>3. ASSUME NEW o \in Offsets
      PROVE  ParentLink(o)'
  <2> SUFFICES ASSUME disk[o].parent # 0
               PROVE  Lists(disk'[disk[o].parent].children, o)
    BY DEF ParentLink
  <2>1. Lists(disk[disk[o].parent].children, o)
    BY DEF LinkInv, ParentLink
  <2> QED
    BY <2>1, ParentBlocks
<1> QED
  BY <1>1, <1>2, <1>3 DEF LinkInv, PendingLinks

(* The steps that write no link. *)
LEMMA QuietLinks ==
    ASSUME NEW lev, Inv(lev), LinkInv,
           \/ BeginAny \/ search_index \/ search \/ update
           \/ insert_same_key \/ insert_into_leaf
    PROVE  LinkInv'
<1>1. ~Inserting /\ UNCHANGED meta
  BY DEF BeginAny, Begin, search_index, search, update, insert_same_key,
         insert_into_leaf, AtLeaf, Inserting, Idle
<1>2. ~Inserting'
  <2>1. CASE BeginAny
    BY <2>1 DEF BeginAny, Begin, Inserting
  <2>2. CASE search_index
    <3>1. Searching
      BY <2>2 DEF search_index, Searching
    <3>2. call \in SearchCalls
      BY <3>1 DEF Inv, CallOK, Searching, Idle, InsertCalls, SearchCalls
    <3>3. call'.proc = "search_index"
      BY <2>2, <3>2 DEF search_index, SearchCalls
    <3> QED
      BY <3>3 DEF Inserting
  <2>3. CASE search \/ update \/ insert_same_key \/ insert_into_leaf
    BY <2>3 DEF search, update, insert_same_key, insert_into_leaf, Inserting, Idle
  <2> QED
    BY <2>1, <2>2, <2>3
<1>3. UNCHANGED disk \/ \E q, b : LeafWritten(q, b)
  <2>1. CASE update \/ insert_into_leaf
    BY <2>1, UpdateEffect, InsertIntoLeafEffect
  <2>2. CASE BeginAny \/ search_index \/ search \/ insert_same_key
    BY <2>2 DEF BeginAny, Begin, search_index, search, insert_same_key
  <2> QED
    BY <2>1, <2>2
<1>4. CASE UNCHANGED disk
  BY <1>1, <1>2, <1>4, SameLinks
<1>5. CASE \E q, b : LeafWritten(q, b)
  <2>1. PICK q, b : LeafWritten(q, b)
    BY <1>5
  <2>2. /\ q \in Offsets /\ disk[q].kind = "leaf" /\ b.kind = "leaf"
        /\ b.parent = disk[q].parent
        /\ disk' = unmap(disk, q, b)
    BY <2>1 DEF LeafWritten, IsLeaf, LeafNodes
  <2>3. disk'[q] = b /\ \A o \in Offsets \ {q} : disk'[o] = disk[o]
    BY <2>2, SlotPositive DEF unmap
  <2>4. \A o \in Offsets : /\ disk'[o].kind = disk[o].kind
                           /\ disk'[o].parent = disk[o].parent
                           /\ IsInternal(o) => disk'[o].children = disk[o].children
    BY <2>2, <2>3 DEF IsInternal
  <2> QED
    BY <1>1, <1>2, <2>4, SameLinks
<1> QED
  BY <1>3, <1>4, <1>5

(* insert() splits a leaf: the new leaf is pending under the node above. *)
LEMMA SplitLeafLinks ==
    ASSUME NEW lev, Inv(lev), LinkInv, insert_split_leaf
    PROVE  LinkInv'
<1>1. /\ Searching /\ ~(call.height > 1) /\ ~Inserting
      /\ meta' = alloc_leaf(meta)
  BY DEF insert_split_leaf, AtLeaf, Searching, Inserting
<1>2. /\ call.org \in Offsets /\ lev[call.org] = 1
      /\ search_leaf \in Offsets /\ IsLeaf(search_leaf)
  BY <1>1, LeafReached
<1>3. PICK q, new, l, r : LeafSplit(q, new, l, r)
  BY LeafSplitEffect
<1>4. /\ q = search_leaf /\ q \in Offsets /\ new \notin Offsets
      /\ Offsets' = Offsets \cup {new}
      /\ disk'[q].kind = "leaf" /\ disk'[q].parent = disk[q].parent
      /\ disk'[new].kind = "leaf" /\ disk'[new].parent = disk[q].parent
      /\ call'.proc = "insert_key_to_index" /\ call'.offset = call.org
      /\ call'.old = q /\ call'.after = new
  BY <1>3 DEF LeafSplit, leaf, LeafNodes, Offsets, NullableOffsets
<1>5. \A o \in Offsets \ {q} : /\ disk'[o].kind = disk[o].kind
                               /\ disk'[o].parent = disk[o].parent
                               /\ disk'[o].children = disk[o].children
  BY <1>3 DEF LeafSplit
<1>6. disk[q].parent = call.org
  <2>1. /\ find_index(disk[call.org], call.key) \in 1..Len(disk[call.org].children)
        /\ IsInternal(call.org)
        /\ DOMAIN disk[call.org].children = 1..Len(disk[call.org].children)
    <3>1. call.key \in Keys
      BY <1>1, LeafReached DEF SearchCalls
    <3> QED
      BY <1>2, <3>1, Descend, IndexFacts
  <2>2. Lists(disk[call.org].children, q)
    BY <1>4, <2>1 DEF Lists, search_leaf
  <2> QED
    BY <1>2, <2>1, <2>2 DEF LinkInv, ChildLinks
<1>7. \A o \in Offsets : IsInternal(o) => o # q /\ disk'[o].children = disk[o].children
  BY <1>2, <1>4, <1>5, BlockFacts
<1>8. ASSUME NEW o \in Offsets'
      PROVE  ChildLinks(o)'
  <2> SUFFICES ASSUME disk'[o].kind = "internal"
               PROVE  /\ NoneTwice(disk'[o].children)
                      /\ \A x : Lists(disk'[o].children, x) => disk'[x].parent = o
    BY DEF ChildLinks, IsInternal
  <2>1. o \in Offsets /\ IsInternal(o) /\ disk'[o].children = disk[o].children
    BY <1>4, <1>5 DEF IsInternal
  <2>2. ASSUME NEW x, Lists(disk[o].children, x)
        PROVE  disk'[x].parent = o
    <3>1. x \in Offsets /\ disk[x].parent = o
      BY <2>1, <2>2, ListedBlocks DEF LinkInv, ChildLinks
    <3> QED
      BY <1>4, <1>5, <3>1
  <2> QED
    BY <2>1, <2>2 DEF LinkInv, ChildLinks
<1>9. ASSUME NEW o \in Offsets'
      PROVE  ParentLink(o)'
  <2>1. CASE o = new
    BY <1>4, <2>1 DEF ParentLink, Inserting
  <2>2. CASE o \in Offsets
    <3>1. disk'[o].parent = disk[o].parent
      BY <1>4, <1>5, <2>2
    <3>2. ASSUME disk[o].parent # 0
          PROVE  Lists(disk'[disk[o].parent].children, o)
      <4>1. Lists(disk[disk[o].parent].children, o)
        BY <1>1, <2>2, <3>2 DEF LinkInv, ParentLink
      <4>2. disk[o].parent \in Offsets /\ IsInternal(disk[o].parent)
        BY <2>2, <3>2, ParentBlocks
      <4> QED
        BY <1>7, <4>1, <4>2
    <3> QED
      BY <3>1, <3>2 DEF ParentLink
  <2> QED
    BY <1>4, <2>1, <2>2
<1>10. PendingLinks'
  <2>1. ASSUME NEW o \in Offsets', disk'[o].kind = "internal"
        PROVE  ~Lists(disk'[o].children, new)
    <3>1. o \in Offsets /\ IsInternal(o) /\ disk'[o].children = disk[o].children
      BY <1>4, <1>5, <2>1 DEF IsInternal
    <3> QED
      BY <1>4, <3>1, ListedBlocks
  <2> QED
    BY <1>4, <1>6, <2>1 DEF PendingLinks, IsInternal
<1>11. disk'[meta'.root_offset].parent = 0
  <2>1. meta'.root_offset = meta.root_offset /\ meta.root_offset \in Offsets
    BY <1>1, AllocMeta DEF Inv, MetaOK
  <2> QED
    BY <1>4, <1>5, <2>1 DEF LinkInv
<1> QED
  BY <1>8, <1>9, <1>10, <1>11 DEF LinkInv

(* insert_key_to_index puts a new root above the two halves of the old. *)
LEMMA NewRootLinks ==
    ASSUME NEW lev, Inv(lev), LinkInv, insert_new_root
    PROVE  LinkInv'
<1>1. Inserting /\ call.offset = 0 /\ ~Inserting'
  BY DEF insert_new_root, Inserting, Idle
<1>2. /\ call.old \in Offsets /\ call.after \in Offsets
      /\ call.old = meta.root_offset /\ call.old # call.after
      /\ \A o \in Offsets : IsInternal(o) => ~Lists(disk[o].children, call.after)
  BY <1>1, InsertCall DEF LinkInv, PendingLinks
<1>3. PICK new, root : RootAdded(new, root)
  BY RootAddedEffect
<1>4. /\ Offsets' = Offsets \cup {new} /\ new \notin Offsets
      /\ disk'[new] = root /\ root.parent = 0
      /\ root.children = <<Entry(call.key, call.old), Entry(EmptyKey, call.after)>>
      /\ \A o \in Offsets :
             /\ disk'[o].kind = disk[o].kind
             /\ disk'[o].children = disk[o].children
             /\ disk'[o].parent = IF o \in {call.old, call.after} THEN new
                                  ELSE disk[o].parent
  BY <1>3 DEF RootAdded, Offsets, NullableOffsets
<1>5. meta'.root_offset = new
  <2>1. alloc_internal(meta) \in
            [internal_node_num : Nat, leaf_node_num : Nat,
             height : Nat \ {0}, slot : Nat,
             root_offset : Offsets, leaf_offset : Offsets]
    BY AllocMeta
  <2> QED
    BY <1>3, <2>1 DEF RootAdded
<1>6. /\ \A x : Lists(root.children, x) <=> x \in {call.old, call.after}
      /\ NoneTwice(root.children)
  <2>1. /\ DOMAIN root.children = 1..2
        /\ root.children[1].child = call.old /\ root.children[2].child = call.after
    BY <1>4 DEF Entry
  <2> QED
    BY <1>2, <2>1 DEF Lists, NoneTwice
<1>7. ASSUME NEW o \in Offsets'
      PROVE  ChildLinks(o)'
  <2>1. CASE o = new
    BY <1>2, <1>4, <1>6, <2>1 DEF ChildLinks
  <2>2. CASE o \in Offsets
    <3> SUFFICES ASSUME IsInternal(o)
                 PROVE  /\ NoneTwice(disk[o].children)
                        /\ \A x : Lists(disk[o].children, x) => disk'[x].parent = o
      BY <1>4, <2>2 DEF ChildLinks, IsInternal
    <3>1. ASSUME NEW x, Lists(disk[o].children, x)
          PROVE  disk'[x].parent = o
      <4>1. x \in Offsets /\ disk[x].parent = o /\ o # 0
        BY <2>2, <3>1, ListedBlocks DEF LinkInv, ChildLinks, Offsets
      <4>2. x # call.old /\ x # call.after
        BY <1>2, <2>2, <3>1, <4>1 DEF LinkInv
      <4> QED
        BY <1>4, <4>1, <4>2
    <3> QED
      BY <2>2, <3>1 DEF LinkInv, ChildLinks
  <2> QED
    BY <1>4, <2>1, <2>2
<1>8. ASSUME NEW o \in Offsets'
      PROVE  ParentLink(o)'
  <2>1. CASE o = new
    BY <1>4, <2>1 DEF ParentLink
  <2>2. CASE o \in {call.old, call.after}
    <3>1. disk'[o].parent = new /\ Lists(disk'[new].children, o)
      BY <1>2, <1>4, <1>6, <2>2
    <3> QED
      BY <3>1 DEF ParentLink
  <2>3. CASE o \in Offsets \ {call.old, call.after}
    <3>1. disk'[o].parent = disk[o].parent
      BY <1>4, <2>3
    <3>2. ASSUME disk[o].parent # 0
          PROVE  Lists(disk'[disk[o].parent].children, o)
      <4>1. Lists(disk[disk[o].parent].children, o)
        BY <2>3, <3>2 DEF LinkInv, ParentLink
      <4>2. disk[o].parent \in Offsets
        BY <2>3, <3>2, ParentBlocks
      <4> QED
        BY <1>4, <4>1, <4>2
    <3> QED
      BY <3>1, <3>2 DEF ParentLink
  <2> QED
    BY <1>4, <2>1, <2>2, <2>3
<1> QED
  BY <1>1, <1>4, <1>5, <1>7, <1>8 DEF LinkInv, PendingLinks

(* insert_key_to_index enters the pending block into a node with room. *)
LEMMA IntoIndexLinks ==
    ASSUME NEW lev, Inv(lev), LinkInv, insert_into_index
    PROVE  LinkInv'
<1>1. Inserting /\ call.offset # 0 /\ ~Inserting' /\ UNCHANGED meta
  BY DEF insert_into_index, Inserting, Idle
<1>2. /\ call.after \in Offsets /\ call.offset \in Offsets
      /\ lev[call.offset] \in Nat \ {0}
      /\ disk[call.after].parent = call.offset
      /\ \A o \in Offsets : IsInternal(o) => ~Lists(disk[o].children, call.after)
  BY <1>1, InsertCall DEF LinkInv, PendingLinks
<1>3. PICK q, b : IndexWritten(q, b)
  BY IndexWrittenEffect
<1>4. /\ q = call.offset /\ q \in Offsets /\ disk' = unmap(disk, q, b)
      /\ b.kind = "internal" /\ b.parent = disk[q].parent
  BY <1>3 DEF IndexWritten, InternalNodes
<1>5. IsInternal(q) /\ disk[q].children \in Seq(Entries)
  BY <1>2, <1>4, IndexFacts
<1>6. /\ \A x : Lists(b.children, x) <=> x = call.after \/ Lists(disk[q].children, x)
      /\ NoneTwice(b.children)
  <2> DEFINE c == disk[q].children
             w == upper_bound(c, Len(c) - 1, call.key)
  <2>1. EntryAdded(c, Entries, w, call.key, call.after, b.children)
    BY <1>3 DEF IndexWritten
  <2>2. c \in Seq(Entries) /\ NoneTwice(c) /\ ~Lists(c, call.after)
    BY <1>2, <1>4, <1>5 DEF LinkInv, ChildLinks
  <2> HIDE DEF c, w
  <2>3. /\ \A x : Lists(b.children, x) <=> x = call.after \/ Lists(c, x)
        /\ NoneTwice(b.children)
    BY <2>1, <2>2, AddedLists
  <2> QED
    BY <2>3 DEF c
<1>7. disk'[q] = b /\ \A o \in Offsets \ {q} : disk'[o] = disk[o]
  BY <1>4, SlotPositive DEF unmap
<1>8. \A o \in Offsets : disk'[o].kind = disk[o].kind /\ disk'[o].parent = disk[o].parent
  BY <1>4, <1>5, <1>7 DEF IsInternal
<1>9. Offsets' = Offsets /\ meta.root_offset \in Offsets
  BY <1>1 DEF Offsets, Inv, MetaOK
<1>10. ASSUME NEW o \in Offsets
       PROVE  ChildLinks(o)'
  <2> SUFFICES ASSUME IsInternal(o)
               PROVE  /\ NoneTwice(disk'[o].children)
                      /\ \A x : Lists(disk'[o].children, x) => disk'[x].parent = o
    BY <1>8 DEF ChildLinks, IsInternal
  <2>1. ASSUME NEW x, Lists(disk'[o].children, x)
        PROVE  disk'[x].parent = o
    <3>1. CASE o = q /\ x = call.after
      BY <1>2, <1>4, <1>8, <3>1
    <3>2. CASE Lists(disk[o].children, x)
      BY <1>8, <3>2, ListedBlocks DEF LinkInv, ChildLinks
    <3> QED
      BY <1>6, <1>7, <2>1, <3>1, <3>2
  <2>2. NoneTwice(disk'[o].children)
    BY <1>6, <1>7 DEF LinkInv, ChildLinks
  <2> QED
    BY <2>1, <2>2
<1>11. ASSUME NEW o \in Offsets
       PROVE  ParentLink(o)'
  <2> SUFFICES ASSUME disk[o].parent # 0
               PROVE  Lists(disk'[disk[o].parent].children, o)
    BY <1>8 DEF ParentLink
  <2>1. CASE o = call.after
    BY <1>2, <1>4, <1>6, <1>7, <2>1
  <2>2. CASE o # call.after
    <3>1. Lists(disk[disk[o].parent].children, o) /\ disk[o].parent \in Offsets
      BY <2>2, ParentBlocks DEF LinkInv, ParentLink
    <3> QED
      BY <1>6, <1>7, <3>1
  <2> QED
    BY <2>1, <2>2
<1> QED
  BY <1>1, <1>8, <1>9, <1>10, <1>11 DEF LinkInv, PendingLinks

(* What the two halves of a split index node list. *)
LEMMA SplitLists ==
    ASSUME NEW lev, Inv(lev), NEW q, NEW new, NEW l, NEW r,
           IndexSplit(q, new, l, r), IsInternal(q),
           NoneTwice(disk[q].children), ~Lists(disk[q].children, call.after)
    PROVE  /\ NoneTwice(l.children) /\ NoneTwice(r.children)
           /\ \A x : Lists(l.children, x) \/ Lists(r.children, x) <=>
                         x = call.after \/ Lists(disk[q].children, x)
           /\ \A x : ~(Lists(l.children, x) /\ Lists(r.children, x))
<1> DEFINE c == disk[q].children
           mid == (ORDER - 1) \div 2 + 1
           right == call.key > c[mid].key
           point == IF right /\ call.key >= c[mid + 1].key THEN mid + 1 ELSE mid
           lh == SubSeq(c, 1, point)
           rh == SubSeq(c, point + 1, ORDER)
           lw == upper_bound(lh, Len(lh) - 1, call.key)
           rw == upper_bound(rh, Len(rh) - 1, call.key)
<1>1. /\ q \in Offsets /\ Len(c) = ORDER
      /\ IndexHalves(c, l.children, r.children)
  BY DEF IndexSplit
<1>2. c \in Seq(Entries)
  <2>1. disk[q] \in InternalNodes
    BY <1>1, BlockFacts
  <2> QED
    BY <2>1 DEF InternalNodes
<1>3. /\ point \in 1..(ORDER - 1)
      /\ \/ /\ l.children = lh
            /\ EntryAdded(rh, Entries', rw, call.key, call.after, r.children)
         \/ /\ EntryAdded(lh, Entries', lw, call.key, call.after, l.children)
            /\ r.children = rh
  BY <1>1 DEF IndexHalves
<1>4. NoneTwice(c) /\ ~Lists(c, call.after)
  OBVIOUS
<1> HIDE DEF c, point, lw, rw
<1>5. /\ lh \in Seq(Entries) /\ rh \in Seq(Entries)
      /\ \A x : Lists(c, x) <=> Lists(lh, x) \/ Lists(rh, x)
      /\ NoneTwice(lh) /\ NoneTwice(rh)
      /\ \A x : ~(Lists(lh, x) /\ Lists(rh, x))
  BY <1>1, <1>2, <1>3, <1>4, HalvesLists
<1> HIDE DEF lh, rh
<1>6. CASE /\ l.children = lh
           /\ EntryAdded(rh, Entries', rw, call.key, call.after, r.children)
  <2>1. /\ \A x : Lists(r.children, x) <=> x = call.after \/ Lists(rh, x)
        /\ NoneTwice(r.children)
    BY <1>4, <1>5, <1>6, AddedLists
  <2> QED
    BY <1>4, <1>5, <1>6, <2>1 DEF c
<1>7. CASE /\ EntryAdded(lh, Entries', lw, call.key, call.after, l.children)
           /\ r.children = rh
  <2>1. /\ \A x : Lists(l.children, x) <=> x = call.after \/ Lists(lh, x)
        /\ NoneTwice(l.children)
    BY <1>4, <1>5, <1>7, AddedLists
  <2> QED
    BY <1>4, <1>5, <1>7, <2>1 DEF c
<1> QED
  BY <1>3, <1>6, <1>7

(* insert_key_to_index splits a full node: the children that moved know    *)
(* their new parent, the others keep theirs.                               *)
LEMMA SplitIndexLinks ==
    ASSUME NEW lev, Inv(lev), LinkInv, insert_split_index
    PROVE  LinkInv'
<1>1. Inserting /\ call.offset # 0 /\ meta' = alloc_internal(meta)
  BY DEF insert_split_index, Inserting
<1>2. /\ call.after \in Offsets /\ call.offset \in Offsets
      /\ lev[call.offset] \in Nat \ {0}
      /\ lev[call.offset] = lev[call.after] + 1
      /\ disk[call.after].parent = call.offset
      /\ \A o \in Offsets : IsInternal(o) => ~Lists(disk[o].children, call.after)
  BY <1>1, InsertCall DEF LinkInv, PendingLinks
<1>3. PICK q, new, l, r : IndexSplit(q, new, l, r)
  BY IndexSplitEffect
<1>4. /\ q = call.offset /\ q \in Offsets /\ new \notin Offsets
      /\ Offsets' = Offsets \cup {new}
      /\ disk'[q] = l /\ l.parent = disk[q].parent
      /\ disk'[new] = r /\ r.parent = disk[q].parent
      /\ call'.proc = "insert_key_to_index" /\ call'.offset = disk[q].parent
      /\ call'.old = q /\ call'.after = new
  BY <1>3 DEF IndexSplit, Offsets, NullableOffsets
<1>41. l.kind = "internal" /\ r.kind = "internal"
  BY <1>3 DEF IndexSplit, InternalNodes
<1>5. \A o \in Offsets \ {q} :
          /\ disk'[o].kind = disk[o].kind
          /\ disk'[o].children = disk[o].children
          /\ Lists(r.children, o) => disk'[o].parent = new
          /\ ~Lists(r.children, o) => disk'[o].parent = disk[o].parent
  BY <1>3 DEF IndexSplit
<1>6. IsInternal(q)
  BY <1>2, <1>4, IndexFacts
<1> DEFINE c == disk[q].children
<1>7. NoneTwice(c) /\ ~Lists(c, call.after)
      /\ \A x : Lists(c, x) => x \in Offsets /\ x # q /\ disk[x].parent = q
  <2>1. \A x : Lists(c, x) => x \in Offsets /\ x # q
    BY <1>4, <1>6, ListedBlocks
  <2> QED
    BY <1>2, <1>4, <1>6, <2>1 DEF LinkInv, ChildLinks
<1>8. /\ NoneTwice(l.children) /\ NoneTwice(r.children)
      /\ \A x : Lists(l.children, x) \/ Lists(r.children, x) <=>
                    x = call.after \/ Lists(c, x)
      /\ \A x : ~(Lists(l.children, x) /\ Lists(r.children, x))
  BY <1>3, <1>6, <1>7, SplitLists
<1> HIDE DEF c
<1>9. call.after # q
  BY <1>2, <1>4, BlockFacts
<1>10. \A x : Lists(l.children, x) \/ Lists(r.children, x) =>
                  x \in Offsets /\ x # q /\ disk[x].parent = q
  BY <1>2, <1>4, <1>7, <1>8, <1>9
<1>11. ASSUME NEW o \in Offsets'
       PROVE  ChildLinks(o)'
  <2>1. CASE o = q
    BY <1>4, <1>5, <1>8, <1>10, <2>1 DEF ChildLinks
  <2>2. CASE o = new
    BY <1>4, <1>5, <1>8, <1>10, <2>2 DEF ChildLinks
  <2>3. CASE o \in Offsets \ {q}
    <3> SUFFICES ASSUME IsInternal(o)
                 PROVE  /\ NoneTwice(disk[o].children)
                        /\ \A x : Lists(disk[o].children, x) => disk'[x].parent = o
      BY <1>5, <2>3 DEF ChildLinks, IsInternal
    <3>1. ASSUME NEW x, Lists(disk[o].children, x)
          PROVE  disk'[x].parent = o
      <4>1. x \in Offsets /\ disk[x].parent = o
        BY <2>3, <3>1, ListedBlocks DEF LinkInv, ChildLinks
      <4>2. ~Lists(r.children, x)
        BY <1>10, <2>3, <4>1
      <4> QED
        BY <1>4, <1>5, <4>1, <4>2
    <3> QED
      BY <2>3, <3>1 DEF LinkInv, ChildLinks
  <2> QED
    BY <1>4, <2>1, <2>2, <2>3
<1>12. ASSUME NEW o \in Offsets'
       PROVE  ParentLink(o)'
  <2>1. CASE o = new
    BY <1>4, <2>1 DEF ParentLink, Inserting
  <2>2. CASE Lists(r.children, o)
    <3>1. disk'[o].parent = new
      BY <1>5, <1>10, <2>2
    <3> QED
      BY <1>4, <2>2, <3>1 DEF ParentLink
  <2>3. CASE o = call.after /\ ~Lists(r.children, o)
    <3>1. Lists(l.children, o) /\ o \in Offsets \ {q}
      BY <1>8, <1>10, <2>3
    <3>2. disk'[o].parent = q
      BY <1>2, <1>4, <1>5, <2>3, <3>1
    <3> QED
      BY <1>4, <3>1, <3>2 DEF ParentLink
  <2>4. CASE o \in Offsets /\ o # call.after /\ ~Lists(r.children, o)
    <3>1. disk'[o].parent = disk[o].parent
      BY <1>4, <1>5, <2>4
    <3>2. ASSUME disk[o].parent # 0
          PROVE  Lists(disk'[disk[o].parent].children, o)
      <4>1. Lists(disk[disk[o].parent].children, o) /\ disk[o].parent \in Offsets
        BY <2>4, <3>2, ParentBlocks DEF LinkInv, ParentLink
      <4>2. CASE disk[o].parent = q
        BY <1>4, <1>8, <2>4, <4>1, <4>2 DEF c
      <4>3. CASE disk[o].parent # q
        BY <1>5, <4>1, <4>3
      <4> QED
        BY <4>2, <4>3
    <3> QED
      BY <3>1, <3>2 DEF ParentLink
  <2> QED
    BY <1>4, <2>1, <2>2, <2>3, <2>4
<1>13. PendingLinks'
  <2>1. ASSUME NEW o \in Offsets', disk'[o].kind = "internal"
        PROVE  ~Lists(disk'[o].children, new)
    <3>1. CASE o = q \/ o = new
      BY <1>4, <1>10, <3>1
    <3>2. CASE o \in Offsets \ {q}
      <4>1. IsInternal(o) /\ disk'[o].children = disk[o].children
        BY <1>5, <2>1, <3>2 DEF IsInternal
      <4> QED
        BY <1>4, <3>2, <4>1, ListedBlocks
    <3> QED
      BY <1>4, <3>1, <3>2
  <2> QED
    BY <1>4, <2>1 DEF PendingLinks, IsInternal
<1>14. disk'[meta'.root_offset].parent = 0
  <2>1. meta'.root_offset = meta.root_offset /\ meta.root_offset \in Offsets
    BY <1>1, AllocMeta DEF Inv, MetaOK
  <2>2. disk[meta.root_offset].parent = 0 /\ q # 0
    BY <1>4 DEF LinkInv, Offsets
  <2>3. ~Lists(r.children, meta.root_offset)
    BY <1>10, <2>2
  <2> QED
    BY <1>4, <1>5, <2>1, <2>2, <2>3
<1> QED
  BY <1>11, <1>12, <1>13, <1>14 DEF LinkInv

(* Every step preserves the links. *)
LEMMA NextLinks == IInv /\ LinkInv /\ [Next]_vars => LinkInv'
<1> SUFFICES ASSUME IInv, LinkInv, [Next]_vars
             PROVE  LinkInv'
  OBVIOUS
<1>0. PICK lev : Inv(lev)
  BY DEF IInv
<1>1. CASE \/ BeginAny \/ search_index \/ search \/ update
           \/ insert_same_key \/ insert_into_leaf
  BY <1>0, <1>1, QuietLinks
<1>2. CASE insert_split_leaf
  BY <1>0, <1>2, SplitLeafLinks
<1>3. CASE insert_new_root
  BY <1>0, <1>3, NewRootLinks
<1>4. CASE insert_into_index
  BY <1>0, <1>4, IntoIndexLinks
<1>5. CASE insert_split_index
  BY <1>0, <1>5, SplitIndexLinks
<1>6. CASE UNCHANGED vars
  BY <1>6 DEF vars, LinkInv, ChildLinks, ParentLink, PendingLinks, Offsets,
              Inserting, IsInternal
<1> QED
  BY <1>1, <1>2, <1>3, <1>4, <1>5, <1>6 DEF Next, Step

-----------------------------------------------------------------------------
(* The rows of the index, from the recursive definitions: the function     *)
(* that a recursive definition names exists, because the least argument up *)
(* to which it does not exist would be one more than one for which it does. *)

(* FlattenSeq appends one part after the other. *)
LEMMA FlattenParts ==
    ASSUME NEW S, NEW s \in Seq(Seq(S)), Len(s) # 0
    PROVE  \E f : /\ FlattenSeq(s) = f[Len(s)]
                  /\ \A i \in 1..Len(s) : f[i] = IF i = 1 THEN s[i] ELSE f[i - 1] \o s[i]
<1> DEFINE n == Len(s)
           Is(f, m) == f = [i \in 1..m |-> IF i = 1 THEN s[i] ELSE f[i - 1] \o s[i]]
           Bad == {m \in 1..n : ~\E f : Is(f, m)}
<1>0. n \in Nat /\ n # 0
  OBVIOUS
<1>1. \E f : Is(f, n)
  <2>0. n \in 1..n
    BY <1>0
  <2> HIDE DEF n, Is
  <2> SUFFICES ASSUME Bad # {}
               PROVE  FALSE
    BY <2>0
  <2>1. Bad \in SUBSET Nat
    BY <1>0
  <2> USE DEF n, Is
  <2> HIDE DEF Bad
  <2>2. PICK m \in Bad : \A k \in Bad : m <= k
    BY <2>1, LeastElement
  <2>3. m \in 1..n /\ ~\E f : Is(f, m)
    BY <2>2 DEF Bad
  <2>4. CASE m = 1
    <3> DEFINE g == [i \in 1..1 |-> s[i]]
    <3>1. g = [i \in 1..1 |-> IF i = 1 THEN s[i] ELSE g[i - 1] \o s[i]]
      OBVIOUS
    <3> QED
      BY <2>3, <2>4, <3>1
  <2>5. CASE m # 1
    <3>1. m - 1 \in 1..n /\ m - 1 \notin Bad
      BY <1>0, <2>1, <2>2, <2>3, <2>5
    <3>2. PICK f : Is(f, m - 1)
      BY <3>1 DEF Bad
    <3> DEFINE g == [i \in 1..m |-> IF i < m THEN f[i] ELSE f[m - 1] \o s[m]]
    <3>3. \A i \in 1..(m - 1) : f[i] = IF i = 1 THEN s[i] ELSE f[i - 1] \o s[i]
      BY <3>2
    <3>4. \A i \in 1..m : g[i] = IF i = 1 THEN s[i] ELSE g[i - 1] \o s[i]
      BY <1>0, <2>3, <2>5, <3>3
    <3>5. g = [i \in 1..m |-> IF i = 1 THEN s[i] ELSE g[i - 1] \o s[i]]
      <4>1. g = [i \in 1..m |-> g[i]]
        OBVIOUS
      <4> HIDE DEF g
      <4> QED
        BY <3>4, <4>1
    <3> QED
      BY <2>3, <3>5
  <2> QED
    BY <2>4, <2>5
<1> DEFINE f == CHOOSE f : Is(f, n)
<1>2. Is(f, n)
  BY <1>1
<1>3. FlattenSeq(s) = f[n]
  BY DEF FlattenSeq
<1>4. \A i \in 1..n : f[i] = IF i = 1 THEN s[i] ELSE f[i - 1] \o s[i]
  BY <1>2
<1> HIDE DEF f
<1> QED
  BY <1>3, <1>4

(* What FlattenSeq returns on a sequence of sequences over S. *)
LEMMA Flatten ==
    ASSUME NEW S, NEW s \in Seq(Seq(S))
    PROVE  FlattenSeq(s) \in Seq(S)
<1> DEFINE n == Len(s)
<1>0. n \in Nat /\ \A i \in 1..n : s[i] \in Seq(S)
  OBVIOUS
<1>1. CASE n = 0
  <2>1. s = << >>
    BY <1>1, EmptySeq
  <2> QED
    BY <1>1, <2>1 DEF FlattenSeq
<1>2. CASE n # 0
  <2>1. PICK f : /\ FlattenSeq(s) = f[n]
                 /\ \A i \in 1..n : f[i] = IF i = 1 THEN s[i] ELSE f[i - 1] \o s[i]
    BY <1>2, FlattenParts
  <2> DEFINE Odd == {i \in 1..n : f[i] \notin Seq(S)}
  <2>5. Odd = {}
    <3> SUFFICES ASSUME Odd # {}
                 PROVE  FALSE
      OBVIOUS
    <3>1. Odd \in SUBSET Nat
      OBVIOUS
    <3> HIDE DEF Odd
    <3>2. PICK m \in Odd : \A k \in Odd : m <= k
      BY <3>1, LeastElement
    <3>3. m \in 1..n /\ f[m] \notin Seq(S)
      BY <3>2 DEF Odd
    <3>4. m # 1
      BY <1>0, <2>1, <3>3
    <3>5. m - 1 \in 1..n /\ m - 1 \notin Odd
      BY <1>0, <3>1, <3>2, <3>3, <3>4
    <3>6. f[m - 1] \in Seq(S) /\ s[m] \in Seq(S)
      BY <1>0, <3>3, <3>5 DEF Odd
    <3>7. f[m - 1] \o s[m] \in Seq(S)
      BY <3>6, ConcatProperties
    <3> QED
      BY <2>1, <3>3, <3>4, <3>7
  <2> QED
    BY <1>0, <1>2, <2>1, <2>5
<1> QED
  BY <1>1, <1>2

(* The blocks at level k above the leaves. *)
Level(lev, k) == {o \in Offsets : lev[o] = k}

(* The row below a row. *)
RowUnder(above) == FlattenSeq([j \in DOMAIN above |-> Children(above[j])])

LEMMA RowsUnfold ==
    ASSUME NEW lev, Inv(lev)
    PROVE  \A k \in 0..meta.height :
               Rows[k] = IF k = 0 THEN <<meta.root_offset>> ELSE RowUnder(Rows[k - 1])
<1> DEFINE n == meta.height
           Is(f, m) == f = [k \in 0..m |-> IF k = 0 THEN <<meta.root_offset>>
                                           ELSE RowUnder(f[k - 1])]
           Bad == {m \in 0..n : ~\E f : Is(f, m)}
<1>0. n \in Nat
  BY DEF Inv, MetaOK
<1>1. \E f : Is(f, n)
  <2> SUFFICES ASSUME Bad # {}
               PROVE  FALSE
    BY <1>0
  <2>1. Bad \in SUBSET Nat
    OBVIOUS
  <2> HIDE DEF Bad
  <2>2. PICK m \in Bad : \A k \in Bad : m <= k
    BY <2>1, LeastElement
  <2>3. m \in 0..n /\ ~\E f : Is(f, m)
    BY <2>2 DEF Bad
  <2>4. CASE m = 0
    <3> DEFINE g == [k \in 0..0 |-> <<meta.root_offset>>]
    <3>1. g = [k \in 0..0 |-> IF k = 0 THEN <<meta.root_offset>> ELSE RowUnder(g[k - 1])]
      OBVIOUS
    <3> QED
      BY <2>3, <2>4, <3>1
  <2>5. CASE m # 0
    <3>1. m - 1 \in 0..n /\ m - 1 \notin Bad
      BY <1>0, <2>1, <2>2, <2>3, <2>5
    <3>2. PICK f : Is(f, m - 1)
      BY <3>1 DEF Bad
    <3> DEFINE g == [k \in 0..m |-> IF k < m THEN f[k] ELSE RowUnder(f[m - 1])]
    <3>3. \A k \in 0..(m - 1) : f[k] = IF k = 0 THEN <<meta.root_offset>>
                                       ELSE RowUnder(f[k - 1])
      BY <3>2
    <3>4. \A k \in 0..m : g[k] = IF k = 0 THEN <<meta.root_offset>>
                                 ELSE RowUnder(g[k - 1])
      BY <1>0, <2>3, <2>5, <3>3
    <3>5. g = [k \in 0..m |-> IF k = 0 THEN <<meta.root_offset>> ELSE RowUnder(g[k - 1])]
      <4>1. g = [k \in 0..m |-> g[k]]
        OBVIOUS
      <4> HIDE DEF g
      <4> QED
        BY <3>4, <4>1
    <3> QED
      BY <2>3, <3>5
  <2> QED
    BY <2>4, <2>5
<1> DEFINE rows == CHOOSE f : Is(f, n)
<1>2. Is(rows, n)
  BY <1>1
<1>3. Rows = rows
  BY DEF Rows, RowUnder
<1>4. \A k \in 0..n : rows[k] = IF k = 0 THEN <<meta.root_offset>>
                                ELSE RowUnder(rows[k - 1])
  BY <1>2
<1> HIDE DEF rows, Is, Bad
<1> QED
  BY <1>3, <1>4

(* Row i of the index consists of blocks that lie i levels below the root. *)
LEMMA RowBlocks ==
    ASSUME NEW lev, Inv(lev), NEW i \in 0..meta.height
    PROVE  Rows[i] \in Seq(Level(lev, meta.height - i))
<1> DEFINE n == meta.height
<1>0. n \in Nat
  BY DEF Inv, MetaOK
<1>1. PICK rows : rows = Rows
  OBVIOUS
<1>2. \A k \in 0..n : rows[k] = IF k = 0 THEN <<meta.root_offset>>
                                ELSE RowUnder(rows[k - 1])
  BY <1>1, RowsUnfold
<1>3. ASSUME NEW k \in 1..n, NEW row \in Seq(Level(lev, k))
      PROVE  RowUnder(row) \in Seq(Level(lev, k - 1))
  <2>1. \A j \in DOMAIN row : row[j] \in Level(lev, k)
    OBVIOUS
  <2>2. ASSUME NEW o \in Level(lev, k)
        PROVE  Children(o) \in Seq(Level(lev, k - 1))
    <3>1. o \in Offsets /\ lev[o] = k /\ lev[o] > 0
      BY <1>0, <2>2 DEF Level
    <3>2. /\ Len(disk[o].children) \in Nat
          /\ DOMAIN disk[o].children = 1..Len(disk[o].children)
          /\ \A x \in 1..Len(disk[o].children) :
                 /\ disk[o].children[x].child \in Offsets
                 /\ lev[disk[o].children[x].child] = lev[o] - 1
      BY <3>1, IndexFacts
    <3>3. \A x \in 1..Len(disk[o].children) :
              disk[o].children[x].child \in Level(lev, k - 1)
      BY <3>1, <3>2 DEF Level
    <3> QED
      BY <3>2, <3>3, IsASeq DEF Children
  <2> DEFINE kids == [j \in DOMAIN row |-> Children(row[j])]
  <2>3. kids \in Seq(Seq(Level(lev, k - 1)))
    <3>1. DOMAIN row = 1..Len(row) /\ Len(row) \in Nat
      OBVIOUS
    <3>2. \A j \in 1..Len(row) : Children(row[j]) \in Seq(Level(lev, k - 1))
      BY <2>1, <2>2, <3>1
    <3> QED
      BY <3>1, <3>2, IsASeq
  <2> QED
    BY <2>3, Flatten DEF RowUnder
<1> DEFINE Odd == {k \in 0..n : rows[k] \notin Seq(Level(lev, n - k))}
<1>4. Odd = {}
  <2> SUFFICES ASSUME Odd # {}
               PROVE  FALSE
    OBVIOUS
  <2>1. Odd \in SUBSET Nat
    OBVIOUS
  <2> HIDE DEF Odd
  <2>2. PICK m \in Odd : \A k \in Odd : m <= k
    BY <2>1, LeastElement
  <2>3. m \in 0..n /\ rows[m] \notin Seq(Level(lev, n - m))
    BY <2>2 DEF Odd
  <2>4. m # 0
    <3>1. meta.root_offset \in Level(lev, n) /\ n - 0 = n
      BY <1>0 DEF Level, Inv, MetaOK
    <3>2. rows[0] = <<meta.root_offset>>
      BY <1>0, <1>2
    <3>3. rows[0] \in Seq(Level(lev, n))
      <4> HIDE DEF n
      <4> QED
        BY <3>1, <3>2
    <3> QED
      BY <2>3, <3>1, <3>3
  <2>5. m - 1 \in 0..n /\ m - 1 \notin Odd
    BY <1>0, <2>1, <2>2, <2>3, <2>4
  <2>6. rows[m - 1] \in Seq(Level(lev, n - (m - 1)))
    BY <2>5 DEF Odd
  <2>7. n - (m - 1) \in 1..n /\ (n - (m - 1)) - 1 = n - m
    BY <1>0, <2>3, <2>4
  <2>8. RowUnder(rows[m - 1]) \in Seq(Level(lev, n - m))
    BY <1>3, <2>6, <2>7
  <2> QED
    BY <1>2, <2>3, <2>4, <2>8
<1> QED
  BY <1>1, <1>4

(* Between calls the parent field of every block in the index is the node  *)
(* that holds its entry, however often the node or its parent was split:   *)
(* insert_key_to_index climbs to the right block.                          *)
THEOREM ParentsCorrect == Spec => []ParentPointers
<1>1. Init => IInv /\ LinkInv
  BY InitIInv, InitLinks
<1>2. (IInv /\ LinkInv) /\ [Next]_vars => (IInv /\ LinkInv)'
  BY NextIInv, NextLinks
<1>3. IInv /\ LinkInv => ParentPointers
  <2> SUFFICES ASSUME IInv, LinkInv
               PROVE  ParentPointers
    OBVIOUS
  <2>1. PICK lev : Inv(lev)
    BY DEF IInv
  <2>2. ASSUME NEW i \in 0..(meta.height - 1), NEW o \in ToSet(Rows[i]),
               NEW c \in ToSet(Children(o))
        PROVE  disk[c].parent = o
    <3>0. meta.height \in Nat
      BY <2>1 DEF Inv, MetaOK
    <3>1. Rows[i] \in Seq(Level(lev, meta.height - i))
      BY <2>1, <3>0, RowBlocks
    <3>2. o \in Level(lev, meta.height - i)
      BY <3>1 DEF ToSet
    <3>3. o \in Offsets /\ lev[o] > 0
      BY <3>0, <3>2 DEF Level
    <3>4. IsInternal(o)
      BY <2>1, <3>3, IndexFacts
    <3>5. Lists(disk[o].children, c)
      BY DEF ToSet, Children, Lists
    <3> QED
      BY <3>3, <3>4, <3>5 DEF LinkInv, ChildLinks
  <2> QED
    BY <2>2 DEF ParentPointers, LinkInv
<1> QED
  BY <1>1, <1>2, <1>3, PTL DEF Spec

-----------------------------------------------------------------------------
(* How full the blocks are at every step: only the root, and the leaf of a *)
(* tree with one leaf, may hold less than half.  A root that is being      *)
(* split is full enough before the new root is written.                    *)
Half(o) == Len(disk[o].children) >= ORDER \div 2

FillInv ==
    /\ meta.leaf_node_num >= 1
    /\ \A o \in Offsets : \/ Half(o)
                          \/ o = meta.root_offset
                          \/ IsLeaf(o) /\ meta.leaf_node_num = 1
    /\ meta.leaf_node_num = 1 =>
           \A o \in Offsets : IsLeaf(o) => o = meta.leaf_offset
    /\ Inserting => Half(call.old) /\ Half(call.after)

(* A new file. *)
LEMMA InitFill == Init => FillInv
<1> SUFFICES ASSUME Init
             PROVE  FillInv
  OBVIOUS
<1>1. /\ meta.root_offset = 1 /\ meta.leaf_offset = 2 /\ meta.leaf_node_num = 1
      /\ Offsets = {1, 2} /\ ~Inserting
      /\ disk[1] = InternalNode(0, 0, 0, <<Entry(EmptyKey, 2)>>)
      /\ disk[2] = LeafNode(1, 0, 0, <<>>)
  BY DEF Init, init_from_empty, Offsets, Inserting, Idle
<1>2. disk[1].kind = "internal" /\ disk[2].kind = "leaf"
  BY <1>1 DEF InternalNode, LeafNode
<1> QED
  BY <1>1, <1>2 DEF FillInv, IsLeaf

(* A step that empties no block and leaves the header alone. *)
LEMMA GrowingFill ==
    ASSUME NEW lev, Inv(lev), FillInv, ~Inserting', UNCHANGED meta,
           \A o \in Offsets :
               /\ disk'[o].kind = disk[o].kind
               /\ Len(disk'[o].children) \in Nat
               /\ Len(disk'[o].children) >= Len(disk[o].children)
    PROVE  FillInv'
<1>1. Offsets' = Offsets
  BY DEF Offsets
<1>2. \A o \in Offsets : Len(disk[o].children) \in Nat /\ ORDER \div 2 \in Nat
  BY BlockFacts, OrderAssumption
<1>3. \A o \in Offsets : Half(o) => Half(o)'
  BY <1>2 DEF Half
<1> QED
  BY <1>1, <1>3 DEF FillInv, IsLeaf

(* The steps that split nothing. *)
LEMMA QuietFill ==
    ASSUME NEW lev, Inv(lev), FillInv,
           \/ BeginAny \/ search_index \/ search \/ update
           \/ insert_same_key \/ insert_into_leaf \/ insert_into_index
    PROVE  FillInv'
<1>1. ~Inserting' /\ UNCHANGED meta
  <2>1. CASE BeginAny
    BY <2>1 DEF BeginAny, Begin, Inserting
  <2>2. CASE search_index
    <3>1. call \in SearchCalls
      BY <2>2 DEF search_index, Inv, CallOK, Idle, InsertCalls, SearchCalls
    <3>2. call'.proc = "search_index"
      BY <2>2, <3>1 DEF search_index, SearchCalls
    <3> QED
      BY <2>2, <3>2 DEF Inserting, search_index
  <2>3. CASE \/ search \/ update \/ insert_same_key \/ insert_into_leaf
             \/ insert_into_index
    BY <2>3 DEF search, update, insert_same_key, insert_into_leaf,
                insert_into_index, Inserting, Idle
  <2> QED
    BY <2>1, <2>2, <2>3
<1>2. \/ UNCHANGED disk
      \/ \E q, b : LeafWritten(q, b)
      \/ insert_into_index
  <2>1. CASE update \/ insert_into_leaf
    BY <2>1, UpdateEffect, InsertIntoLeafEffect
  <2>2. CASE BeginAny \/ search_index \/ search \/ insert_same_key
    BY <2>2 DEF BeginAny, Begin, search_index, search, insert_same_key
  <2> QED
    BY <2>1, <2>2
<1>3. \A o \in Offsets : Len(disk[o].children) \in Nat
  BY BlockFacts
<1>4. ASSUME NEW q \in Offsets, NEW b, disk' = unmap(disk, q, b),
             b.kind = disk[q].kind, Len(b.children) \in Nat,
             Len(b.children) >= Len(disk[q].children)
      PROVE  FillInv'
  <2>1. disk'[q] = b /\ \A o \in Offsets \ {q} : disk'[o] = disk[o]
    BY <1>4, SlotPositive DEF unmap
  <2>2. \A o \in Offsets : /\ disk'[o].kind = disk[o].kind
                           /\ Len(disk'[o].children) \in Nat
                           /\ Len(disk'[o].children) >= Len(disk[o].children)
    BY <1>3, <1>4, <2>1
  <2> QED
    BY <1>1, <2>2, GrowingFill
<1>5. CASE UNCHANGED disk
  BY <1>1, <1>3, <1>5, GrowingFill
<1>6. CASE \E q, b : LeafWritten(q, b)
  <2>1. PICK q, b : LeafWritten(q, b)
    BY <1>6
  <2>2. /\ q \in Offsets /\ disk' = unmap(disk, q, b)
        /\ b.kind = "leaf" /\ disk[q].kind = "leaf"
        /\ b.children \in Seq(Records)
    BY <2>1 DEF LeafWritten, IsLeaf, LeafNodes
  <2>3. Len(b.children) \in Nat /\ Len(b.children) >= Len(disk[q].children)
    BY <1>3, <2>1, <2>2 DEF LeafWritten, RecordAdded
  <2> QED
    BY <1>4, <2>2, <2>3
<1>7. CASE insert_into_index
  <2>1. PICK q, b : IndexWritten(q, b)
    BY <1>7, IndexWrittenEffect
  <2>2. Inserting /\ call.offset # 0 /\ q = call.offset
    BY <1>7, <2>1 DEF insert_into_index, Inserting, IndexWritten
  <2>3. q \in Offsets /\ IsInternal(q)
    BY <2>2, InsertCall, IndexFacts
  <2>4. /\ disk' = unmap(disk, q, b) /\ b.kind = "internal"
        /\ Len(b.children) \in Nat /\ Len(b.children) = Len(disk[q].children) + 1
    <3>1. /\ disk' = unmap(disk, q, b) /\ b \in InternalNodes
          /\ Len(b.children) = Len(disk[q].children) + 1
      BY <2>1 DEF IndexWritten, EntryAdded
    <3>2. b.kind = "internal" /\ b.children \in Seq(Entries)
      BY <3>1 DEF InternalNodes
    <3>3. Len(b.children) \in Nat
      BY <3>2
    <3> QED
      BY <3>1, <3>2, <3>3
  <2> QED
    BY <1>3, <1>4, <2>3, <2>4 DEF IsInternal
<1> QED
  BY <1>2, <1>5, <1>6, <1>7

(* insert() splits a leaf into two leaves that are each half full; there   *)
(* are two leaves now, so no other may be less than half full, and none    *)
(* is: if the leaf was the only one, there is no other.                    *)
LEMMA SplitLeafFill ==
    ASSUME NEW lev, Inv(lev), FillInv, insert_split_leaf
    PROVE  FillInv'
<1>1. /\ Searching /\ ~(call.height > 1) /\ ~Inserting
      /\ meta' = alloc_leaf(meta)
  BY DEF insert_split_leaf, AtLeaf, Searching, Inserting
<1>2. /\ search_leaf \in Offsets /\ IsLeaf(search_leaf)
      /\ leaf.children \in Seq(Records) /\ Len(leaf.children) = ORDER
  BY <1>1, LeafReached DEF insert_split_leaf
<1>3. PICK q, new, l, r : LeafSplit(q, new, l, r)
  BY LeafSplitEffect
<1>4. /\ q = search_leaf /\ q \in Offsets /\ new \notin Offsets
      /\ Offsets' = Offsets \cup {new}
      /\ disk'[q] = l /\ disk'[new] = r
      /\ call'.old = q /\ call'.after = new
      /\ LeafHalves(disk[q].children, l.children, r.children)
      /\ \A o \in Offsets \ {q} : /\ disk'[o].kind = disk[o].kind
                                  /\ disk'[o].children = disk[o].children
  BY <1>3 DEF LeafSplit, Offsets, NullableOffsets
<1>5. Half(q)' /\ Half(new)'
  <2> DEFINE c == disk[q].children
  <2>1. c \in Seq(Records) /\ Len(c) = ORDER
    BY <1>2, <1>4 DEF leaf
  <2>2. PICK p \in 1..(ORDER - 1) :
            \/ /\ p = ORDER \div 2 + 1
               /\ l.children = SubSeq(c, 1, p)
               /\ Len(r.children) = Len(SubSeq(c, p + 1, ORDER)) + 1
            \/ /\ p = ORDER \div 2
               /\ Len(l.children) = Len(SubSeq(c, 1, p)) + 1
               /\ r.children = SubSeq(c, p + 1, ORDER)
    BY <1>4 DEF LeafHalves, RecordAdded
  <2>3. Len(SubSeq(c, 1, p)) = p /\ Len(SubSeq(c, p + 1, ORDER)) = ORDER - p
    BY <2>1, OrderAssumption
  <2> HIDE DEF c
  <2>4. /\ Len(l.children) >= ORDER \div 2
        /\ Len(r.children) >= ORDER \div 2
    BY <2>2, <2>3, OrderAssumption
  <2> QED
    BY <1>4, <2>4 DEF Half
<1>6. /\ meta'.leaf_node_num = meta.leaf_node_num + 1
      /\ meta'.leaf_node_num \in Nat /\ meta'.leaf_node_num > 1
      /\ meta'.root_offset = meta.root_offset
  BY <1>1, AllocMeta DEF alloc_leaf, Inv, MetaOK, FillInv
<1>7. ASSUME NEW o \in Offsets', o # q, o # new, o # meta.root_offset
      PROVE  Half(o)'
  <2>1. o \in Offsets /\ disk'[o].children = disk[o].children
    BY <1>4, <1>7
  <2>2. ~(IsLeaf(o) /\ meta.leaf_node_num = 1)
    BY <1>2, <1>4, <1>7, <2>1 DEF FillInv
  <2>3. Half(o)
    BY <1>7, <2>1, <2>2 DEF FillInv
  <2> QED
    BY <2>1, <2>3 DEF Half
<1> QED
  BY <1>4, <1>5, <1>6, <1>7 DEF FillInv, Half

(* insert_key_to_index puts a new root above the two halves of the old. *)
LEMMA NewRootFill ==
    ASSUME NEW lev, Inv(lev), FillInv, insert_new_root
    PROVE  FillInv'
<1>1. Inserting /\ call.offset = 0 /\ ~Inserting'
  BY DEF insert_new_root, Inserting, Idle
<1>2. call.old = meta.root_offset /\ call.old \in Offsets
  BY <1>1, InsertCall
<1>3. PICK new, root : RootAdded(new, root)
  BY RootAddedEffect
<1>4. /\ Offsets' = Offsets \cup {new} /\ new \notin Offsets
      /\ disk'[new].kind = "internal"
      /\ \A o \in Offsets : /\ disk'[o].kind = disk[o].kind
                            /\ disk'[o].children = disk[o].children
      /\ meta' = [alloc_internal(meta) EXCEPT !.root_offset = new, !.height = @ + 1]
  BY <1>3 DEF RootAdded, Offsets, NullableOffsets, InternalNodes
<1>5. /\ meta'.root_offset = new
      /\ meta'.leaf_node_num = meta.leaf_node_num
      /\ meta'.leaf_offset = meta.leaf_offset
  <2>1. meta \in [internal_node_num : Nat, leaf_node_num : Nat,
                  height : Nat \ {0}, slot : Nat,
                  root_offset : Offsets, leaf_offset : Offsets]
    BY DEF Inv, MetaOK
  <2> QED
    BY <1>4, <2>1 DEF alloc_internal
<1>6. \A o \in Offsets : /\ Half(o) => Half(o)'
                         /\ IsLeaf(o)' <=> IsLeaf(o)
  BY <1>4 DEF Half, IsLeaf
<1>7. ~IsLeaf(new)'
  BY <1>4 DEF IsLeaf
<1>8. ASSUME NEW o \in Offsets
      PROVE  Half(o)' \/ (IsLeaf(o)' /\ meta'.leaf_node_num = 1)
  <2>1. Half(o) \/ (IsLeaf(o) /\ meta.leaf_node_num = 1)
    BY <1>1, <1>2 DEF FillInv
  <2> QED
    BY <1>5, <1>6, <2>1
<1>9. meta'.leaf_node_num = 1 => \A o \in Offsets' : IsLeaf(o)' => o = meta'.leaf_offset
  BY <1>4, <1>5, <1>6, <1>7 DEF FillInv, IsLeaf
<1> QED
  BY <1>1, <1>4, <1>5, <1>8, <1>9 DEF FillInv

(* insert_key_to_index splits an index node into two that are each half    *)
(* full, whichever half takes the new entry.                               *)
LEMMA SplitIndexFill ==
    ASSUME NEW lev, Inv(lev), FillInv, insert_split_index
    PROVE  FillInv'
<1>1. /\ Inserting /\ call.offset # 0
      /\ meta' = alloc_internal(meta)
  BY DEF insert_split_index, Inserting
<1>2. PICK q, new, l, r : IndexSplit(q, new, l, r)
  BY IndexSplitEffect
<1>3. /\ q = call.offset /\ q \in Offsets /\ new \notin Offsets
      /\ Offsets' = Offsets \cup {new}
      /\ Len(disk[q].children) = ORDER
      /\ disk'[q] = l /\ disk'[new] = r
      /\ l.kind = "internal" /\ r.kind = "internal"
      /\ call'.old = q /\ call'.after = new
      /\ IndexHalves(disk[q].children, l.children, r.children)
      /\ \A o \in Offsets \ {q} : /\ disk'[o].kind = disk[o].kind
                                  /\ disk'[o].children = disk[o].children
  BY <1>2 DEF IndexSplit, Offsets, NullableOffsets, InternalNodes
<1>4. disk[q].children \in Seq(Entries)
  BY <1>1, <1>3, InsertCall, IndexFacts
<1>5. Half(q)' /\ Half(new)'
  <2> DEFINE c == disk[q].children
             mid == (ORDER - 1) \div 2 + 1
  <2>1. c \in Seq(Entries) /\ Len(c) = ORDER
    BY <1>3, <1>4
  <2>2. \E p \in 1..(ORDER - 1) :
            \/ /\ p \in {mid, mid + 1}
               /\ l.children = SubSeq(c, 1, p)
               /\ Len(r.children) = Len(SubSeq(c, p + 1, ORDER)) + 1
            \/ /\ p = mid
               /\ Len(l.children) = Len(SubSeq(c, 1, p)) + 1
               /\ r.children = SubSeq(c, p + 1, ORDER)
    <3> DEFINE right == call.key > c[mid].key
               point == IF right /\ call.key >= c[mid + 1].key THEN mid + 1 ELSE mid
    <3>1. /\ point \in 1..(ORDER - 1)
          /\ \/ /\ right
                /\ l.children = SubSeq(c, 1, point)
                /\ Len(r.children) = Len(SubSeq(c, point + 1, ORDER)) + 1
             \/ /\ ~right
                /\ Len(l.children) = Len(SubSeq(c, 1, point)) + 1
                /\ r.children = SubSeq(c, point + 1, ORDER)
      <4> HIDE DEF c
      <4> QED
        BY <1>3, Zenon DEF IndexHalves, EntryAdded, c
    <3>2. point \in {mid, mid + 1} /\ (~right => point = mid)
      BY Zenon
    <3> HIDE DEF point, right, c, mid
    <3> QED
      BY <3>1, <3>2
  <2>3. PICK p \in 1..(ORDER - 1) :
            \/ /\ p \in {mid, mid + 1}
               /\ l.children = SubSeq(c, 1, p)
               /\ Len(r.children) = Len(SubSeq(c, p + 1, ORDER)) + 1
            \/ /\ p = mid
               /\ Len(l.children) = Len(SubSeq(c, 1, p)) + 1
               /\ r.children = SubSeq(c, p + 1, ORDER)
    BY <2>2
  <2>4. Len(SubSeq(c, 1, p)) = p /\ Len(SubSeq(c, p + 1, ORDER)) = ORDER - p
    BY <2>1, OrderAssumption
  <2> HIDE DEF c
  <2>5. mid >= ORDER \div 2 /\ ORDER - mid >= ORDER \div 2 /\ mid \in Nat
    BY OrderAssumption
  <2> HIDE DEF mid
  <2>6. /\ Len(l.children) >= ORDER \div 2
        /\ Len(r.children) >= ORDER \div 2
    BY <2>3, <2>4, <2>5, OrderAssumption
  <2> QED
    BY <1>3, <2>6 DEF Half
<1>6. /\ meta'.leaf_node_num = meta.leaf_node_num
      /\ meta'.root_offset = meta.root_offset
      /\ meta'.leaf_offset = meta.leaf_offset
  BY <1>1, AllocMeta DEF alloc_internal, Inv, MetaOK
<1>7. ASSUME NEW o \in Offsets', o # q, o # new
      PROVE  /\ o \in Offsets
             /\ Half(o) => Half(o)'
             /\ IsLeaf(o)' <=> IsLeaf(o)
  BY <1>3, <1>7 DEF Half, IsLeaf
<1>8. ~IsLeaf(q)' /\ ~IsLeaf(new)'
  BY <1>3 DEF IsLeaf
<1>9. \A o \in Offsets' : \/ Half(o)'
                          \/ o = meta'.root_offset
                          \/ IsLeaf(o)' /\ meta'.leaf_node_num = 1
  <2> SUFFICES ASSUME NEW o \in Offsets', o # q, o # new
               PROVE  \/ Half(o)'
                      \/ o = meta.root_offset
                      \/ IsLeaf(o)' /\ meta.leaf_node_num = 1
    BY <1>5, <1>6
  <2>1. \/ Half(o)
        \/ o = meta.root_offset
        \/ IsLeaf(o) /\ meta.leaf_node_num = 1
    BY <1>7 DEF FillInv
  <2> QED
    BY <1>7, <2>1
<1>10. meta'.leaf_node_num = 1 =>
           \A o \in Offsets' : IsLeaf(o)' => o = meta'.leaf_offset
  BY <1>6, <1>7, <1>8 DEF FillInv
<1> QED
  BY <1>3, <1>5, <1>6, <1>9, <1>10 DEF FillInv

(* Every step leaves the blocks full enough. *)
LEMMA NextFill == IInv /\ FillInv /\ [Next]_vars => FillInv'
<1> SUFFICES ASSUME IInv, FillInv, [Next]_vars
             PROVE  FillInv'
  OBVIOUS
<1>0. PICK lev : Inv(lev)
  BY DEF IInv
<1>1. CASE \/ BeginAny \/ search_index \/ search \/ update
           \/ insert_same_key \/ insert_into_leaf \/ insert_into_index
  BY <1>0, <1>1, QuietFill
<1>2. CASE insert_split_leaf
  BY <1>0, <1>2, SplitLeafFill
<1>3. CASE insert_new_root
  BY <1>0, <1>3, NewRootFill
<1>4. CASE insert_split_index
  BY <1>0, <1>4, SplitIndexFill
<1>5. CASE UNCHANGED vars
  BY <1>5 DEF vars, FillInv, Half, Offsets, Inserting, IsLeaf
<1> QED
  BY <1>1, <1>2, <1>3, <1>4, <1>5 DEF Next, Step

(* Between calls every block of the index but the root, and but a sole     *)
(* leaf, is at least half full, whatever inserts split it and whatever the *)
(* parity of the order: the split points of insert() and                   *)
(* insert_key_to_index leave no half too small.                            *)
THEOREM SplitsHalfFull == Spec => []HalfFull
<1>1. Init => IInv /\ FillInv
  BY InitIInv, InitFill
<1>2. (IInv /\ FillInv) /\ [Next]_vars => (IInv /\ FillInv)'
  BY NextIInv, NextFill
<1>3. IInv /\ FillInv => HalfFull
  <2> SUFFICES ASSUME IInv, FillInv
               PROVE  HalfFull
    OBVIOUS
  <2>1. PICK lev : Inv(lev)
    BY DEF IInv
  <2>2. ASSUME NEW i \in 1..meta.height, NEW o \in ToSet(Rows[i])
        PROVE  \/ Len(disk[o].children) >= ORDER \div 2
               \/ i = meta.height /\ meta.leaf_node_num = 1
    <3>0. meta.height \in Nat
      BY <2>1 DEF Inv, MetaOK
    <3>1. Rows[i] \in Seq(Level(lev, meta.height - i))
      BY <2>1, <3>0, RowBlocks
    <3>2. o \in Level(lev, meta.height - i)
      BY <3>1 DEF ToSet
    <3>3. o \in Offsets /\ lev[o] = meta.height - i
      BY <3>2 DEF Level
    <3>4. o # meta.root_offset
      BY <2>1, <3>0, <3>3 DEF Inv
    <3>5. IsLeaf(o) => i = meta.height
      BY <2>1, <3>0, <3>3 DEF Inv, BlockOK
    <3> QED
      BY <3>3, <3>4, <3>5 DEF FillInv, Half
  <2> QED
    BY <2>2 DEF HalfFull
<1> QED
  BY <1>1, <1>2, <1>3, PTL DEF Spec

-----------------------------------------------------------------------------
(***************************************************************************)
(* The order of the keys: nodes stay sorted, and every descent ends in the *)
(* one leaf that can hold the key.                                         *)
(*                                                                         *)
(* Sortedness is not inductive: insert_key_to_index relies on the key that *)
(* comes up from a split to lie between the separators around the entry of *)
(* the node that was split.  The invariant therefore gives every block the *)
(* set of keys it owns (a ghost, `own'): an index node hands the keys it   *)
(* owns down to its children exactly as its separators divide them, and a  *)
(* leaf stores only keys it owns.  While a split is being entered into the *)
(* index, the two halves share what the entry of the old block stands for. *)
(***************************************************************************)

(* Entry i is the one under which find() looks for k. *)
Within(c, i, k) ==
    /\ \A j \in 1..(i - 1) : c[j].key <= k
    /\ \A j \in i..(Len(c) - 1) : k < c[j].key

SortedTo(c, n) == \A i, j \in 1..n : i < j => c[i].key < c[j].key

(* The entries c of an index node that owns the keys S, over children that *)
(* own U[child].                                                           *)
IndexOrder(c, S, U) ==
    /\ SortedTo(c, Len(c) - 1)
    /\ \A i \in 1..(Len(c) - 1) : c[i].key \in S
    /\ \A i \in 1..Len(c) : U[c[i].child] = {k \in S : Within(c, i, k)}

(* The keys of S on either side of k. *)
Below(S, k)  == {x \in S : x < k}
FromOn(S, k) == {x \in S : k <= x}

(* The records c of a leaf that owns the keys S. *)
LeafOrder(c, S) ==
    /\ SortedTo(c, Len(c))
    /\ \A i \in 1..Len(c) : c[i].key \in S

-----------------------------------------------------------------------------
(* At most one entry is the place of a key. *)
LEMMA WithinOnce ==
    ASSUME NEW c, Len(c) \in Nat, NEW k \in Nat,
           \A i \in 1..(Len(c) - 1) : c[i].key \in Nat,
           NEW i \in 1..Len(c), NEW j \in 1..Len(c),
           Within(c, i, k), Within(c, j, k)
    PROVE  i = j
<1>1. ASSUME NEW x \in 1..Len(c), NEW y \in 1..Len(c), x < y,
             Within(c, x, k), Within(c, y, k)
      PROVE  FALSE
  <2>1. x \in 1..(y - 1) /\ x \in x..(Len(c) - 1) /\ x \in 1..(Len(c) - 1)
    BY <1>1
  <2>2. c[x].key <= k /\ k < c[x].key /\ c[x].key \in Nat
    BY <1>1, <2>1 DEF Within
  <2> QED
    BY <2>2
<1> QED
  BY <1>1

(* find() on a sorted index node returns the place of the key. *)
LEMMA FoundWithin ==
    ASSUME NEW c, Len(c) \in Nat \ {0}, NEW key \in Nat,
           \A i \in 1..(Len(c) - 1) : c[i].key \in Nat,
           SortedTo(c, Len(c) - 1)
    PROVE  LET u == upper_bound(c, Len(c) - 1, key)
           IN  u \in 1..Len(c) /\ Within(c, u, key)
<1> DEFINE m == Len(c) - 1
           u == upper_bound(c, m, key)
<1>1. m \in Nat /\ m + 1 = Len(c)
  OBVIOUS
<1>2. /\ u \in 1..(m + 1)
      /\ \A j \in 1..(u - 1) : c[j].key <= key
      /\ u <= m => key < c[u].key
  BY <1>1, UpperBound
<1> HIDE DEF u
<1>3. ASSUME NEW j \in u..m
      PROVE  key < c[j].key
  <2>1. u \in 1..m /\ j \in 1..m /\ c[u].key \in Nat /\ c[j].key \in Nat
    BY <1>1, <1>2
  <2>2. u = j \/ c[u].key < c[j].key
    BY <2>1 DEF SortedTo
  <2> QED
    BY <1>2, <2>1, <2>2
<1> QED
  BY <1>1, <1>2, <1>3 DEF Within, u

(* A full node cut behind entry p: the left part owns the keys below the   *)
(* separator that moves up, the right part the others.                     *)
LEMMA CutOrder ==
    ASSUME NEW E, NEW c \in Seq(E), NEW p \in 1..(Len(c) - 1),
           NEW S \in SUBSET Nat, NEW U, IndexOrder(c, S, U)
    PROVE  /\ IndexOrder(SubSeq(c, 1, p), Below(S, c[p].key), U)
           /\ IndexOrder(SubSeq(c, p + 1, Len(c)), FromOn(S, c[p].key), U)
<1> DEFINE n == Len(c)
           l == SubSeq(c, 1, p)
           r == SubSeq(c, p + 1, n)
           Sl == {k \in S : k < c[p].key}
           Sr == {k \in S : c[p].key <= k}
<1>0. n \in Nat /\ p \in Nat /\ p < n
  OBVIOUS
<1>1. /\ Len(l) = p /\ \A i \in 1..p : l[i] = c[i]
      /\ Len(r) = n - p /\ \A i \in 1..(n - p) : r[i] = c[p + i]
  BY HalvesLists
<1>2. /\ \A i, j \in 1..(n - 1) : i < j => c[i].key < c[j].key
      /\ \A i \in 1..(n - 1) : c[i].key \in S /\ c[i].key \in Nat
      /\ \A i \in 1..n : U[c[i].child] = {k \in S : Within(c, i, k)}
  BY DEF IndexOrder, SortedTo
<1>3. c[p].key \in Nat /\ p \in 1..(n - 1)
  BY <1>0, <1>2
<1> HIDE DEF l, r, n
<1>4. IndexOrder(l, Sl, U)
  <2>1. SortedTo(l, p - 1)
    <3>1. ASSUME NEW i \in 1..(p - 1), NEW j \in 1..(p - 1), i < j
          PROVE  l[i].key < l[j].key
      <4>1. i \in 1..(n - 1) /\ j \in 1..(n - 1) /\ i \in 1..p /\ j \in 1..p
        BY <1>0
      <4> QED
        BY <1>1, <1>2, <3>1, <4>1
    <3> QED
      BY <3>1 DEF SortedTo
  <2>2. ASSUME NEW i \in 1..(p - 1)
        PROVE  l[i].key \in Sl
    <3>1. i \in 1..(n - 1) /\ i < p /\ i \in 1..p
      BY <1>0
    <3>2. l[i] = c[i] /\ c[i].key < c[p].key /\ c[i].key \in S
      BY <1>1, <1>2, <1>3, <3>1
    <3> QED
      BY <3>2
  <2>3. ASSUME NEW i \in 1..p, NEW k \in S
        PROVE  Within(c, i, k) <=> k < c[p].key /\ Within(l, i, k)
    <3>0. k \in Nat /\ i \in 1..n
      BY <1>0
    <3>1. ASSUME Within(c, i, k)
          PROVE  k < c[p].key /\ Within(l, i, k)
      BY <1>0, <1>1, <3>1 DEF Within, n
    <3>2. ASSUME k < c[p].key, Within(l, i, k)
          PROVE  Within(c, i, k)
      <4>1. \A j \in 1..(i - 1) : c[j].key <= k
        BY <1>0, <1>1, <3>2 DEF Within
      <4>2. ASSUME NEW j \in i..(n - 1)
            PROVE  k < c[j].key
        <5>0. j \in 1..(n - 1) /\ c[j].key \in Nat
          BY <1>0, <1>2
        <5>1. CASE j < p
          BY <1>0, <1>1, <3>2, <5>0, <5>1 DEF Within
        <5>2. CASE j = p
          BY <3>2, <5>2
        <5>3. CASE p < j
          BY <1>2, <1>3, <3>0, <3>2, <5>0, <5>3
        <5> QED
          BY <1>0, <5>0, <5>1, <5>2, <5>3
      <4> QED
        BY <4>1, <4>2 DEF Within, n
    <3> QED
      BY <3>1, <3>2
  <2>4. ASSUME NEW i \in 1..p
        PROVE  U[l[i].child] = {k \in Sl : Within(l, i, k)}
    <3>1. i \in 1..n /\ l[i] = c[i]
      BY <1>0, <1>1
    <3>2. U[c[i].child] = {k \in S : Within(c, i, k)}
      BY <1>2, <3>1
    <3> QED
      BY <2>3, <3>1, <3>2
  <2> QED
    BY <1>1, <2>1, <2>2, <2>4 DEF IndexOrder
<1>5. IndexOrder(r, Sr, U)
  <2>1. SortedTo(r, (n - p) - 1)
    <3>1. ASSUME NEW i \in 1..((n - p) - 1), NEW j \in 1..((n - p) - 1), i < j
          PROVE  r[i].key < r[j].key
      <4>1. /\ p + i \in 1..(n - 1) /\ p + j \in 1..(n - 1) /\ p + i < p + j
            /\ i \in 1..(n - p) /\ j \in 1..(n - p)
        BY <1>0, <3>1
      <4> QED
        BY <1>1, <1>2, <4>1
    <3> QED
      BY <3>1 DEF SortedTo
  <2>2. ASSUME NEW i \in 1..((n - p) - 1)
        PROVE  r[i].key \in Sr
    <3>1. p + i \in 1..(n - 1) /\ p < p + i /\ i \in 1..(n - p)
      BY <1>0
    <3>2. r[i] = c[p + i] /\ c[p].key < c[p + i].key
      BY <1>1, <1>2, <1>3, <3>1
    <3>3. c[p + i].key \in S /\ c[p + i].key \in Nat
      BY <1>2, <3>1
    <3> QED
      BY <1>3, <3>2, <3>3
  <2>3. ASSUME NEW i \in 1..(n - p), NEW k \in S
        PROVE  Within(c, p + i, k) <=> c[p].key <= k /\ Within(r, i, k)
    <3>0. k \in Nat
      OBVIOUS
    <3>1. ASSUME Within(c, p + i, k)
          PROVE  c[p].key <= k /\ Within(r, i, k)
      <4>1. c[p].key <= k
        BY <1>0, <3>1 DEF Within
      <4>2. ASSUME NEW j \in 1..(i - 1)
            PROVE  r[j].key <= k
        <5>1. p + j \in 1..((p + i) - 1) /\ j \in 1..(n - p)
          BY <1>0
        <5> QED
          BY <1>1, <3>1, <5>1 DEF Within
      <4>3. ASSUME NEW j \in i..((n - p) - 1)
            PROVE  k < r[j].key
        <5>1. p + j \in (p + i)..(n - 1) /\ j \in 1..(n - p)
          BY <1>0
        <5> QED
          BY <1>1, <3>1, <5>1 DEF Within, n
      <4> QED
        BY <1>1, <4>1, <4>2, <4>3 DEF Within
    <3>2. ASSUME c[p].key <= k, Within(r, i, k)
          PROVE  Within(c, p + i, k)
      <4>1. ASSUME NEW j \in 1..((p + i) - 1)
            PROVE  c[j].key <= k
        <5>0. j \in 1..(n - 1) /\ c[j].key \in Nat
          BY <1>0, <1>2
        <5>1. CASE j < p
          BY <1>2, <1>3, <3>0, <3>2, <5>0, <5>1
        <5>2. CASE j = p
          BY <3>2, <5>2
        <5>3. CASE p < j
          <6>1. j - p \in 1..(i - 1) /\ j - p \in 1..(n - p) /\ p + (j - p) = j
            BY <1>0, <5>0, <5>3
          <6> QED
            BY <1>1, <3>2, <6>1 DEF Within
        <5> QED
          BY <1>0, <5>0, <5>1, <5>2, <5>3
      <4>2. ASSUME NEW j \in (p + i)..(n - 1)
            PROVE  k < c[j].key
        <5>1. j - p \in i..((n - p) - 1) /\ j - p \in 1..(n - p) /\ p + (j - p) = j
          BY <1>0
        <5> QED
          BY <1>1, <3>2, <5>1 DEF Within
      <4> QED
        BY <4>1, <4>2 DEF Within, n
    <3> QED
      BY <3>1, <3>2
  <2>4. ASSUME NEW i \in 1..(n - p)
        PROVE  U[r[i].child] = {k \in Sr : Within(r, i, k)}
    <3>1. p + i \in 1..n /\ r[i] = c[p + i]
      BY <1>0, <1>1
    <3>2. U[c[p + i].child] = {k \in S : Within(c, p + i, k)}
      BY <1>2, <3>1
    <3> QED
      BY <2>3, <3>1, <3>2
  <2> QED
    BY <1>1, <2>1, <2>2, <2>4 DEF IndexOrder
<1> QED
  BY <1>4, <1>5 DEF l, r, n, Below, FromOn

(* key divides the keys of a block that was split: A stays, B moves. *)
Divides(key, A, B) ==
    /\ A # {} /\ key \in B
    /\ \A k \in A : k < key
    /\ \A k \in B : key <= k

(* What the children of entries c own, before (U) and after (U2) the child *)
(* of entry x hands B over to the new block `value'.                       *)
HandedOver(c, x, U, U2, value, A, B) ==
    /\ U[c[x].child] = A \cup B
    /\ U2[c[x].child] = A /\ U2[value] = B
    /\ \A i \in 1..Len(c) : i # x => U2[c[i].child] = U[c[i].child]

(* Any key of S that is not its least one divides S. *)
LEMMA DivideAt ==
    ASSUME NEW S \in SUBSET Nat, NEW key \in S, Below(S, key) # {}
    PROVE  /\ Divides(key, Below(S, key), FromOn(S, key))
           /\ Below(S, key) \cup FromOn(S, key) = S
           /\ Below(S, key) \cap FromOn(S, key) = {}
<1>1. key \in Nat /\ \A k \in S : k \in Nat /\ (k < key <=> ~(key <= k)) /\ key <= key
  OBVIOUS
<1> QED
  BY <1>1 DEF Divides, Below, FromOn

(* The entry of a block that was split is doubled: the old block keeps the *)
(* keys A below key, the new block gets the keys B from key on.  The new   *)
(* separator is new: A is not empty, so it is greater than its neighbour.  *)
LEMMA DoubledOrder ==
    ASSUME NEW c, Len(c) \in Nat, NEW S \in SUBSET Nat, NEW U, NEW U2,
           IndexOrder(c, S, U),
           NEW E, NEW w, NEW key \in Nat, NEW value, NEW c2,
           EntryAdded(c, E, w, key, value, c2),
           NEW A, NEW B, Divides(key, A, B), HandedOver(c, w, U, U2, value, A, B)
    PROVE  IndexOrder(c2, S, U2)
<1> USE DEF Divides, HandedOver
<1> DEFINE n == Len(c)
<1>0. n \in Nat
  OBVIOUS
<1>1. /\ w \in 1..n /\ Len(c2) = n + 1
      /\ \A j \in 1..(w - 1) : c2[j] = c[j]
      /\ c2[w].key = key /\ c2[w].child = c[w].child
      /\ c2[w + 1].key = c[w].key /\ c2[w + 1].child = value
      /\ \A j \in (w + 2)..(n + 1) : c2[j] = c[j - 1]
  BY DEF EntryAdded
<1>2. /\ \A i, j \in 1..(n - 1) : i < j => c[i].key < c[j].key
      /\ \A i \in 1..(n - 1) : c[i].key \in S /\ c[i].key \in Nat
      /\ \A i \in 1..n : U[c[i].child] = {k \in S : Within(c, i, k)}
  BY DEF IndexOrder, SortedTo
<1>3. A \cup B = {k \in S : Within(c, w, k)}
  BY <1>1, <1>2
<1>4. key \in S /\ Within(c, w, key)
  BY <1>3
<1>5. PICK a \in A : a \in S /\ a \in Nat /\ Within(c, w, a) /\ a < key
  BY <1>3
<1> HIDE DEF n
<1>6. /\ \A j \in 1..(w - 1) : c[j].key <= a /\ c[j].key < key
      /\ \A j \in w..(n - 1) : key < c[j].key
  <2>1. \A j \in 1..(w - 1) : j \in 1..(n - 1)
    BY <1>0, <1>1
  <2> QED
    BY <1>2, <1>4, <1>5, <2>1 DEF Within, n
<1>7. /\ \A j \in 1..(w - 1) : c2[j].key = c[j].key
      /\ c2[w].key = key
      /\ \A j \in (w + 1)..(n + 1) : c2[j].key = c[j - 1].key
  <2>1. ASSUME NEW j \in (w + 1)..(n + 1)
        PROVE  c2[j].key = c[j - 1].key
    <3>1. CASE j = w + 1
      <4>1. j - 1 = w
        BY <1>0, <1>1, <3>1
      <4> QED
        BY <1>1, <3>1, <4>1
    <3>2. CASE j # w + 1
      BY <1>0, <1>1, <3>2
    <3> QED
      BY <3>1, <3>2
  <2> QED
    BY <1>1, <2>1
<1>8. SortedTo(c2, n)
  <2>1. ASSUME NEW i \in 1..n, NEW j \in 1..n, i < j
        PROVE  c2[i].key < c2[j].key
    <3>1. CASE j < w
      <4>1. i \in 1..(w - 1) /\ j \in 1..(w - 1) /\ i \in 1..(n - 1) /\ j \in 1..(n - 1)
        BY <1>0, <1>1, <2>1, <3>1
      <4> QED
        BY <1>2, <1>7, <2>1, <4>1
    <3>2. CASE j = w
      <4>1. i \in 1..(w - 1)
        BY <1>0, <1>1, <2>1, <3>2
      <4> QED
        BY <1>6, <1>7, <3>2, <4>1
    <3>3. CASE w < j /\ i < w
      <4>1. /\ i \in 1..(w - 1) /\ i \in 1..(n - 1) /\ j \in (w + 1)..(n + 1)
            /\ j - 1 \in 1..(n - 1) /\ i < j - 1
        BY <1>0, <1>1, <2>1, <3>3
      <4> QED
        BY <1>2, <1>7, <4>1
    <3>4. CASE w < j /\ i = w
      <4>1. j \in (w + 1)..(n + 1) /\ j - 1 \in w..(n - 1)
        BY <1>0, <1>1, <2>1, <3>4
      <4> QED
        BY <1>6, <1>7, <3>4, <4>1
    <3>5. CASE w < i
      <4>1. /\ i \in (w + 1)..(n + 1) /\ j \in (w + 1)..(n + 1)
            /\ i - 1 \in 1..(n - 1) /\ j - 1 \in 1..(n - 1) /\ i - 1 < j - 1
        BY <1>0, <1>1, <2>1, <3>5
      <4> QED
        BY <1>2, <1>7, <4>1
    <3> QED
      BY <1>0, <1>1, <2>1, <3>1, <3>2, <3>3, <3>4, <3>5
  <2> QED
    BY <2>1 DEF SortedTo
<1>9. ASSUME NEW i \in 1..n
      PROVE  c2[i].key \in S
  <2>1. CASE i < w
    <3>1. i \in 1..(w - 1) /\ i \in 1..(n - 1)
      BY <1>0, <1>1, <2>1
    <3> QED
      BY <1>2, <1>7, <3>1
  <2>2. CASE i = w
    BY <1>4, <1>7, <2>2
  <2>3. CASE w < i
    <3>1. i \in (w + 1)..(n + 1) /\ i - 1 \in 1..(n - 1)
      BY <1>0, <1>1, <2>3
    <3> QED
      BY <1>2, <1>7, <3>1
  <2> QED
    BY <1>0, <1>1, <2>1, <2>2, <2>3
<1>10. ASSUME NEW k \in Nat, NEW i \in 1..(n + 1)
       PROVE  Within(c2, i, k) <=>
                 /\ Within(c, IF i <= w THEN i ELSE i - 1, k)
                 /\ i <= w => k < key
                 /\ w < i => key <= k
  <2>0. Len(c2) - 1 = n /\ w \in Nat /\ i \in Nat
    BY <1>0, <1>1
  <2>1. CASE i <= w
    <3>1. ASSUME Within(c2, i, k)
          PROVE  Within(c, i, k) /\ k < key
      <4>1. ASSUME NEW j \in 1..(i - 1)
            PROVE  c[j].key <= k
        <5>1. j \in 1..(w - 1)
          BY <1>0, <1>1, <2>1
        <5> QED
          BY <1>7, <3>1, <5>1 DEF Within
      <4>2. ASSUME NEW j \in i..(n - 1)
            PROVE  k < c[j].key
        <5>1. CASE j < w
          <6>1. j \in 1..(w - 1) /\ j \in i..n
            BY <1>0, <1>1, <5>1
          <6> QED
            BY <1>7, <2>0, <3>1, <6>1 DEF Within
        <5>2. CASE w <= j
          <6>1. j + 1 \in (w + 1)..(n + 1) /\ j + 1 \in i..n /\ (j + 1) - 1 = j
            BY <1>0, <1>1, <5>2
          <6> QED
            BY <1>7, <2>0, <3>1, <6>1 DEF Within
        <5> QED
          BY <1>0, <1>1, <5>1, <5>2
      <4>3. k < key
        <5>1. w \in i..n
          BY <1>0, <1>1, <2>1
        <5> QED
          BY <1>7, <2>0, <3>1, <5>1 DEF Within
      <4> QED
        BY <4>1, <4>2, <4>3 DEF Within, n
    <3>2. ASSUME Within(c, i, k), k < key
          PROVE  Within(c2, i, k)
      <4>1. ASSUME NEW j \in 1..(i - 1)
            PROVE  c2[j].key <= k
        <5>1. j \in 1..(w - 1)
          BY <1>0, <1>1, <2>1
        <5> QED
          BY <1>7, <3>2, <5>1 DEF Within
      <4>2. ASSUME NEW j \in i..n
            PROVE  k < c2[j].key
        <5>1. CASE j < w
          <6>1. j \in 1..(w - 1) /\ j \in i..(n - 1)
            BY <1>0, <1>1, <5>1
          <6> QED
            BY <1>7, <3>2, <6>1 DEF Within, n
        <5>2. CASE j = w
          BY <1>7, <3>2, <5>2
        <5>3. CASE w < j
          <6>1. j \in (w + 1)..(n + 1) /\ j - 1 \in i..(n - 1)
            BY <1>0, <1>1, <2>1, <5>3
          <6> QED
            BY <1>7, <3>2, <6>1 DEF Within, n
        <5> QED
          BY <1>0, <1>1, <5>1, <5>2, <5>3
      <4> QED
        BY <2>0, <4>1, <4>2 DEF Within
    <3> QED
      BY <2>0, <2>1, <3>1, <3>2
  <2>2. CASE w < i
    <3>1. ASSUME Within(c2, i, k)
          PROVE  Within(c, i - 1, k) /\ key <= k
      <4>1. ASSUME NEW j \in 1..((i - 1) - 1)
            PROVE  c[j].key <= k
        <5>1. CASE j < w
          <6>1. j \in 1..(w - 1) /\ j \in 1..(i - 1)
            BY <1>0, <1>1, <5>1
          <6> QED
            BY <1>7, <3>1, <6>1 DEF Within
        <5>2. CASE w <= j
          <6>1. j + 1 \in (w + 1)..(n + 1) /\ j + 1 \in 1..(i - 1) /\ (j + 1) - 1 = j
            BY <1>0, <1>1, <5>2
          <6> QED
            BY <1>7, <3>1, <6>1 DEF Within
        <5> QED
          BY <1>0, <1>1, <5>1, <5>2
      <4>2. ASSUME NEW j \in (i - 1)..(n - 1)
            PROVE  k < c[j].key
        <5>1. j + 1 \in (w + 1)..(n + 1) /\ j + 1 \in i..n /\ (j + 1) - 1 = j
          BY <1>0, <1>1, <2>2
        <5> QED
          BY <1>7, <2>0, <3>1, <5>1 DEF Within
      <4>3. key <= k
        <5>1. w \in 1..(i - 1)
          BY <1>0, <1>1, <2>2
        <5> QED
          BY <1>7, <3>1, <5>1 DEF Within
      <4> QED
        BY <4>1, <4>2, <4>3 DEF Within, n
    <3>2. ASSUME Within(c, i - 1, k), key <= k
          PROVE  Within(c2, i, k)
      <4>1. ASSUME NEW j \in 1..(i - 1)
            PROVE  c2[j].key <= k
        <5>1. CASE j < w
          <6>1. j \in 1..(w - 1) /\ j \in 1..((i - 1) - 1)
            BY <1>0, <1>1, <2>2, <5>1
          <6> QED
            BY <1>7, <3>2, <6>1 DEF Within
        <5>2. CASE j = w
          BY <1>7, <3>2, <5>2
        <5>3. CASE w < j
          <6>1. j \in (w + 1)..(n + 1) /\ j - 1 \in 1..((i - 1) - 1)
            BY <1>0, <1>1, <5>3
          <6> QED
            BY <1>7, <3>2, <6>1 DEF Within
        <5> QED
          BY <1>0, <1>1, <5>1, <5>2, <5>3
      <4>2. ASSUME NEW j \in i..n
            PROVE  k < c2[j].key
        <5>1. j \in (w + 1)..(n + 1) /\ j - 1 \in (i - 1)..(n - 1)
          BY <1>0, <1>1, <2>2
        <5> QED
          BY <1>7, <3>2, <5>1 DEF Within, n
      <4> QED
        BY <2>0, <4>1, <4>2 DEF Within
    <3> QED
      BY <2>0, <2>2, <3>1, <3>2
  <2> QED
    BY <2>0, <2>1, <2>2
<1>11. ASSUME NEW i \in 1..(n + 1)
       PROVE  U2[c2[i].child] = {k \in S : Within(c2, i, k)}
  <2>1. CASE i < w
    <3>1. i \in 1..(w - 1) /\ i \in 1..n /\ i # w /\ i <= w /\ ~(w < i)
      BY <1>0, <1>1, <2>1
    <3>2. U2[c2[i].child] = {k \in S : Within(c, i, k)}
      BY <1>1, <1>2, <3>1 DEF n
    <3>3. ASSUME NEW k \in S, Within(c, i, k)
          PROVE  k < key
      <4>1. w - 1 \in i..(n - 1) /\ w - 1 \in 1..(w - 1) /\ w - 1 \in 1..(n - 1)
        BY <1>0, <1>1, <2>1
      <4>2. k < c[w - 1].key /\ c[w - 1].key < key /\ c[w - 1].key \in Nat
        BY <1>2, <1>6, <3>3, <4>1 DEF Within, n
      <4> QED
        BY <4>2
    <3> QED
      BY <1>10, <3>1, <3>2, <3>3
  <2>2. CASE i = w
    <3>1. i \in 1..n /\ i <= w /\ ~(w < i) /\ U2[c2[i].child] = A
      BY <1>0, <1>1, <2>2
    <3>2. ASSUME NEW k \in S
          PROVE  k \in A <=> Within(c, w, k) /\ k < key
      BY <1>3, <3>2
    <3>3. \A k \in A : k \in S
      BY <1>3
    <3>4. \A k \in S : Within(c2, i, k) <=> Within(c, w, k) /\ k < key
      BY <1>10, <2>2, <3>1
    <3> QED
      BY <3>1, <3>2, <3>3, <3>4
  <2>3. CASE i = w + 1
    <3>1. ~(i <= w) /\ w < i /\ i - 1 = w /\ U2[c2[i].child] = B
      BY <1>0, <1>1, <2>3
    <3>2. ASSUME NEW k \in S
          PROVE  k \in B <=> Within(c, w, k) /\ key <= k
      <4>1. k \in Nat /\ (key <= k => k \notin A)
        OBVIOUS
      <4> QED
        BY <1>3, <4>1
    <3>3. \A k \in B : k \in S
      BY <1>3
    <3>4. \A k \in S : Within(c2, i, k) <=> Within(c, w, k) /\ key <= k
      BY <1>10, <3>1
    <3> QED
      BY <3>1, <3>2, <3>3, <3>4
  <2>4. CASE w + 1 < i
    <3>1. /\ i \in (w + 2)..(n + 1) /\ i - 1 \in 1..n /\ i - 1 # w
          /\ ~(i <= w) /\ w < i
      BY <1>0, <1>1, <2>4
    <3>2. U2[c2[i].child] = {k \in S : Within(c, i - 1, k)}
      BY <1>1, <1>2, <3>1 DEF n
    <3>3. ASSUME NEW k \in S, Within(c, i - 1, k)
          PROVE  key <= k
      <4>1. w \in 1..((i - 1) - 1) /\ w \in w..(n - 1) /\ w \in 1..(n - 1)
        BY <1>0, <1>1, <2>4
      <4>2. c[w].key <= k /\ key < c[w].key /\ c[w].key \in Nat
        BY <1>2, <1>6, <3>3, <4>1 DEF Within
      <4> QED
        BY <4>2
    <3> QED
      BY <1>10, <3>1, <3>2, <3>3
  <2> QED
    BY <1>0, <1>1, <2>1, <2>2, <2>3, <2>4
<1> QED
  BY <1>0, <1>1, <1>8, <1>9, <1>11 DEF IndexOrder

(* A leaf with one more record, whose key it owns and did not hold. *)
LEMMA RecordOrder ==
    ASSUME NEW c, Len(c) \in Nat, NEW S \in SUBSET Nat, LeafOrder(c, S),
           NEW R, NEW rec, NEW c2, RecordAdded(c, R, rec, c2),
           rec.key \in S, \A i \in 1..Len(c) : c[i].key # rec.key
    PROVE  LeafOrder(c2, S)
<1> DEFINE n == Len(c)
<1>0. n \in Nat /\ rec.key \in Nat
  OBVIOUS
<1>1. PICK w \in 1..(n + 1) :
          /\ \A j \in 1..(w - 1) : c[j].key <= rec.key
          /\ w <= n => rec.key < c[w].key
          /\ Len(c2) = n + 1
          /\ \A j \in 1..(w - 1) : c2[j] = c[j]
          /\ c2[w] = rec
          /\ \A j \in (w + 1)..(n + 1) : c2[j] = c[j - 1]
  BY DEF RecordAdded
<1>2. /\ \A i, j \in 1..n : i < j => c[i].key < c[j].key
      /\ \A i \in 1..n : c[i].key \in S /\ c[i].key \in Nat /\ c[i].key # rec.key
  BY DEF LeafOrder, SortedTo
<1> HIDE DEF n
<1>3. \A j \in 1..(w - 1) : c[j].key < rec.key
  <2>1. \A j \in 1..(w - 1) : j \in 1..n
    BY <1>0
  <2> QED
    BY <1>0, <1>1, <1>2, <2>1
<1>4. ASSUME NEW j \in w..n
      PROVE  rec.key < c[j].key
  <2>1. w \in 1..n /\ j \in 1..n /\ w <= n
    BY <1>0
  <2>2. w = j \/ c[w].key < c[j].key
    BY <1>2, <2>1
  <2> QED
    BY <1>0, <1>1, <1>2, <2>1, <2>2
<1>5. ASSUME NEW i \in 1..(n + 1)
      PROVE  c2[i].key \in S
  <2>1. CASE i < w
    BY <1>0, <1>1, <1>2, <2>1
  <2>2. CASE i = w
    BY <1>1, <2>2
  <2>3. CASE w < i
    <3>1. i \in (w + 1)..(n + 1) /\ i - 1 \in 1..n
      BY <1>0, <2>3
    <3> QED
      BY <1>1, <1>2, <3>1
  <2> QED
    BY <1>0, <2>1, <2>2, <2>3
<1>6. ASSUME NEW i \in 1..(n + 1), NEW j \in 1..(n + 1), i < j
      PROVE  c2[i].key < c2[j].key
  <2>1. CASE j < w
    <3>1. i \in 1..(w - 1) /\ j \in 1..(w - 1) /\ i \in 1..n /\ j \in 1..n
      BY <1>0, <1>6, <2>1
    <3> QED
      BY <1>1, <1>2, <1>6, <3>1
  <2>2. CASE j = w
    <3>1. i \in 1..(w - 1)
      BY <1>0, <1>6, <2>2
    <3> QED
      BY <1>1, <1>3, <2>2, <3>1
  <2>3. CASE w < j /\ i < w
    <3>1. /\ i \in 1..(w - 1) /\ i \in 1..n
          /\ j \in (w + 1)..(n + 1) /\ j - 1 \in 1..n /\ i < j - 1
      BY <1>0, <2>3
    <3> QED
      BY <1>1, <1>2, <3>1
  <2>4. CASE w < j /\ i = w
    <3>1. j \in (w + 1)..(n + 1) /\ j - 1 \in w..n
      BY <1>0, <2>4
    <3> QED
      BY <1>1, <1>4, <2>4, <3>1
  <2>5. CASE w < i
    <3>1. /\ i \in (w + 1)..(n + 1) /\ j \in (w + 1)..(n + 1)
          /\ i - 1 \in 1..n /\ j - 1 \in 1..n /\ i - 1 < j - 1
      BY <1>0, <1>6, <2>5
    <3> QED
      BY <1>1, <1>2, <3>1
  <2> QED
    BY <1>0, <1>6, <2>1, <2>2, <2>3, <2>4, <2>5
<1> QED
  BY <1>0, <1>1, <1>5, <1>6 DEF LeafOrder, SortedTo

(* A leaf that owns S may be said to own any part of S its keys lie in,    *)
(* and so may a part of the leaf.                                          *)
LEMMA PartOrder ==
    ASSUME NEW c, Len(c) \in Nat, NEW S, LeafOrder(c, S),
           NEW d, NEW a \in Nat, Len(d) \in Nat, a + Len(d) <= Len(c),
           \A i \in 1..Len(d) : d[i] = c[a + i],
           NEW T, \A i \in 1..Len(d) : c[a + i].key \in T
    PROVE  LeafOrder(d, T)
<1>1. ASSUME NEW i \in 1..Len(d), NEW j \in 1..Len(d), i < j
      PROVE  d[i].key < d[j].key
  <2>1. a + i \in 1..Len(c) /\ a + j \in 1..Len(c) /\ a + i < a + j
    BY <1>1
  <2>2. c[a + i].key < c[a + j].key
    BY <2>1 DEF LeafOrder, SortedTo
  <2> QED
    BY <2>2
<1> QED
  BY <1>1 DEF LeafOrder, SortedTo

(* The two leaves that a full leaf becomes: the first key of the right one *)
(* divides the keys that the leaf owned.                                   *)
LEMMA LeafHalvesOrder ==
    ASSUME NEW S \in SUBSET Nat, NEW c \in Seq(Records), Len(c) = ORDER,
           LeafOrder(c, S), call.key \in S,
           \A i \in 1..Len(c) : c[i].key # call.key,
           NEW lc, NEW rc, LeafHalves(c, lc, rc)
    PROVE  /\ Len(lc) \in Nat \ {0} /\ Len(rc) \in Nat \ {0}
           /\ rc[1].key \in S
           /\ LeafOrder(lc, Below(S, rc[1].key))
           /\ LeafOrder(rc, FromOn(S, rc[1].key))
<1> DEFINE rec == Record(call.key, call.value)
           mid == ORDER \div 2
           right == call.key > c[mid + 1].key
           Lo(x) == {k \in S : k < x}
           Hi(x) == {k \in S : x <= k}
<1>0. rec.key = call.key /\ call.key \in Nat
  BY DEF Record
<1>1. ORDER \in Nat /\ mid \in 1..(ORDER - 2) /\ mid + 1 \in 1..(ORDER - 1)
  BY OrderAssumption
<1>2. PICK p \in 1..(ORDER - 1) :
          \/ /\ right /\ p = mid + 1
             /\ lc = SubSeq(c, 1, p)
             /\ RecordAdded(SubSeq(c, p + 1, ORDER), Records, rec, rc)
          \/ /\ ~right /\ p = mid
             /\ RecordAdded(SubSeq(c, 1, p), Records, rec, lc)
             /\ rc = SubSeq(c, p + 1, ORDER)
  BY DEF LeafHalves
<1> DEFINE lh == SubSeq(c, 1, p)
           rh == SubSeq(c, p + 1, ORDER)
<1>3. /\ Len(lh) = p /\ \A i \in 1..p : lh[i] = c[i]
      /\ Len(rh) = ORDER - p /\ \A i \in 1..(ORDER - p) : rh[i] = c[p + i]
  BY HalvesLists
<1>4. /\ \A i, j \in 1..ORDER : i < j => c[i].key < c[j].key
      /\ \A i \in 1..ORDER : c[i].key \in S /\ c[i].key \in Nat /\ c[i].key # call.key
  BY DEF LeafOrder, SortedTo
<1> HIDE DEF mid, lh, rh, rec
<1>5. CASE right /\ p = mid + 1 /\ lc = lh /\ RecordAdded(rh, Records, rec, rc)
  <2> DEFINE T == {k \in S : c[p].key < k}
             first == rc[1].key
  <2>0. p \in 1..ORDER /\ c[p].key \in Nat /\ c[p].key < call.key
    BY <1>0, <1>1, <1>4, <1>5
  <2>1. \A i \in 1..Len(rh) : c[p + i].key \in T
    <3> SUFFICES ASSUME NEW i \in 1..Len(rh)
                 PROVE  c[p + i].key \in T
      OBVIOUS
    <3>1. p + i \in 1..ORDER /\ p < p + i
      BY <1>1, <1>3
    <3> QED
      BY <1>4, <2>0, <3>1
  <2>2. LeafOrder(rh, T)
    <3>1. /\ Len(rh) \in Nat /\ p + Len(rh) <= Len(c) /\ p \in Nat
          /\ \A i \in 1..Len(rh) : rh[i] = c[p + i]
      BY <1>1, <1>3
    <3> HIDE DEF T
    <3> QED
      BY <1>1, <2>1, <3>1, PartOrder
  <2>3. /\ rec.key \in T
        /\ \A i \in 1..Len(rh) : rh[i].key # rec.key
    <3>1. \A i \in 1..Len(rh) : p + i \in 1..ORDER
      BY <1>1, <1>3
    <3> QED
      BY <1>0, <1>3, <1>4, <2>0, <3>1
  <2>4. LeafOrder(rc, T)
    <3>1. Len(rh) \in Nat
      BY <1>1, <1>3
    <3>2. T \in SUBSET Nat
      OBVIOUS
    <3> HIDE DEF T
    <3> QED
      BY <1>5, <2>2, <2>3, <3>1, <3>2, RecordOrder
  <2>5. Len(rc) \in Nat \ {0}
    BY <1>1, <1>3, <1>5 DEF RecordAdded
  <2>6. /\ first \in S /\ first \in Nat /\ c[p].key < first
        /\ \A i \in 1..Len(rc) : /\ rc[i].key \in S /\ rc[i].key \in Nat
                                 /\ first <= rc[i].key
    <3> HIDE DEF T
    <3>1. \A i \in 1..Len(rc) : rc[i].key \in T
      BY <2>4 DEF LeafOrder
    <3>2. ASSUME NEW i \in 1..Len(rc)
          PROVE  i = 1 \/ first < rc[i].key
      <4>1. 1 \in 1..Len(rc) /\ (i = 1 \/ 1 < i)
        BY <2>5
      <4> QED
        BY <2>4, <4>1 DEF LeafOrder, SortedTo
    <3>3. 1 \in 1..Len(rc)
      BY <2>5
    <3>4. first \in T
      BY <3>1, <3>3
    <3> USE DEF T
    <3>5. \A k \in T : k \in S /\ k \in Nat /\ c[p].key < k
      OBVIOUS
    <3> HIDE DEF T, first
    <3>6. \A i \in 1..Len(rc) : first <= rc[i].key
      BY <3>1, <3>2, <3>4, <3>5 DEF first
    <3> QED
      BY <3>1, <3>4, <3>5, <3>6
  <2> HIDE DEF first
  <2>7. LeafOrder(rc, Hi(first))
    BY <2>4, <2>6 DEF LeafOrder
  <2>8. \A i \in 1..Len(lc) : /\ i \in 1..ORDER /\ lc[i] = c[0 + i]
                              /\ c[0 + i].key \in Lo(first)
    <3> SUFFICES ASSUME NEW i \in 1..Len(lc)
                 PROVE  /\ i \in 1..ORDER /\ lc[i] = c[0 + i]
                        /\ c[0 + i].key \in Lo(first)
      OBVIOUS
    <3>1. i \in 1..p /\ i \in 1..ORDER /\ lc[i] = c[i] /\ 0 + i = i
      BY <1>1, <1>3, <1>5
    <3>2. i = p \/ c[i].key < c[p].key
      BY <1>1, <1>4, <2>0, <3>1
    <3>3. c[i].key \in S /\ c[i].key < first
      BY <1>4, <2>0, <2>6, <3>1, <3>2
    <3> QED
      BY <3>1, <3>3
  <2>9. LeafOrder(lc, Lo(first))
    <3>1. Len(lc) = p /\ 0 + Len(lc) <= Len(c)
      BY <1>1, <1>3, <1>5
    <3> HIDE DEF Lo
    <3> QED
      BY <1>1, <2>8, <3>1, PartOrder
  <2>10. Len(lc) \in Nat \ {0}
    BY <1>1, <1>3, <1>5
  <2> QED
    BY <2>5, <2>6, <2>7, <2>9, <2>10 DEF first, Below, FromOn
<1>6. CASE ~right /\ p = mid /\ RecordAdded(lh, Records, rec, lc) /\ rc = rh
  <2> DEFINE first == rc[1].key
  <2>0. /\ p + 1 \in 1..ORDER /\ first = c[p + 1].key /\ first \in S /\ first \in Nat
        /\ call.key < first
    <3>1. p + 1 \in 1..ORDER /\ 1 \in 1..(ORDER - p)
      BY <1>1, <1>6
    <3>2. first = c[p + 1].key
      BY <1>3, <1>6, <3>1
    <3>3. c[p + 1].key \in S /\ c[p + 1].key \in Nat /\ c[p + 1].key # call.key
      BY <1>4, <3>1
    <3> QED
      BY <1>0, <1>6, <3>1, <3>2, <3>3
  <2> HIDE DEF first
  <2>1. \A i \in 1..Len(lh) : lh[i] = c[0 + i] /\ c[0 + i].key \in Lo(first)
    <3> SUFFICES ASSUME NEW i \in 1..Len(lh)
                 PROVE  lh[i] = c[0 + i] /\ c[0 + i].key \in Lo(first)
      OBVIOUS
    <3>1. i \in 1..p /\ i \in 1..ORDER /\ lh[i] = c[i] /\ 0 + i = i /\ i < p + 1
      BY <1>1, <1>3
    <3> QED
      BY <1>4, <2>0, <3>1
  <2>2. LeafOrder(lh, Lo(first))
    <3>1. /\ Len(lh) \in Nat /\ 0 + Len(lh) <= Len(c) /\ 0 \in Nat
          /\ Len(c) \in Nat
      BY <1>1, <1>3
    <3> HIDE DEF Lo
    <3> QED
      BY <2>1, <3>1, PartOrder
  <2>3. /\ rec.key \in Lo(first)
        /\ \A i \in 1..Len(lh) : lh[i].key # rec.key
    <3>1. \A i \in 1..Len(lh) : i \in 1..ORDER /\ lh[i] = c[i]
      BY <1>1, <1>3
    <3> QED
      BY <1>0, <1>4, <2>0, <3>1
  <2>4. LeafOrder(lc, Lo(first))
    <3>1. Len(lh) \in Nat
      BY <1>1, <1>3
    <3>2. Lo(first) \in SUBSET Nat
      OBVIOUS
    <3> HIDE DEF Lo
    <3> QED
      BY <1>6, <2>2, <2>3, <3>1, <3>2, RecordOrder
  <2>5. Len(lc) \in Nat \ {0}
    BY <1>1, <1>3, <1>6 DEF RecordAdded
  <2>6. \A i \in 1..Len(rc) : rc[i] = c[p + i] /\ c[p + i].key \in Hi(first)
    <3> SUFFICES ASSUME NEW i \in 1..Len(rc)
                 PROVE  rc[i] = c[p + i] /\ c[p + i].key \in Hi(first)
      OBVIOUS
    <3>1. /\ i \in 1..(ORDER - p) /\ p + i \in 1..ORDER
          /\ p + i = p + 1 \/ p + 1 < p + i
      BY <1>1, <1>3, <1>6
    <3>2. c[p + i].key \in S /\ c[p + i].key \in Nat /\ first <= c[p + i].key
      BY <1>4, <2>0, <3>1
    <3> QED
      BY <1>3, <1>6, <3>1, <3>2
  <2>7. LeafOrder(rc, Hi(first))
    <3>1. Len(rc) = ORDER - p /\ p + Len(rc) <= Len(c) /\ Len(rc) \in Nat
      BY <1>1, <1>3, <1>6
    <3> HIDE DEF Hi
    <3> QED
      BY <1>1, <2>6, <3>1, PartOrder
  <2>8. Len(rc) \in Nat \ {0}
    BY <1>1, <1>3, <1>6
  <2> QED
    BY <2>0, <2>4, <2>5, <2>7, <2>8 DEF first, Below, FromOn
<1> QED
  BY <1>2, <1>5, <1>6 DEF lh, rh

(* Nothing changes for a node whose children own what they owned. *)
LEMMA SameOrder ==
    ASSUME NEW c, NEW S, NEW U, NEW U2, IndexOrder(c, S, U),
           \A i \in 1..Len(c) : U2[c[i].child] = U[c[i].child]
    PROVE  IndexOrder(c, S, U2)
BY DEF IndexOrder

(* Entry x of a node that owns S is the one of a block that was split at   *)
(* key.                                                                    *)
SplitBelow(c, S, U, x, key, A, B) ==
    /\ Len(c) \in Nat /\ S \in SUBSET Nat /\ IndexOrder(c, S, U)
    /\ x \in 1..Len(c) /\ key \in Nat
    /\ Divides(key, A, B) /\ U[c[x].child] = A \cup B

(* The key of a split leads find() to the entry of the block that was      *)
(* split.                                                                  *)
LEMMA EntryPlace ==
    ASSUME NEW c, NEW S, NEW U, NEW x, NEW key, NEW A, NEW B,
           SplitBelow(c, S, U, x, key, A, B)
    PROVE  upper_bound(c, Len(c) - 1, key) = x
<1> USE DEF SplitBelow
<1>1. \A i \in 1..(Len(c) - 1) : c[i].key \in Nat
  BY DEF IndexOrder
<1>2. SortedTo(c, Len(c) - 1) /\ Len(c) \in Nat \ {0}
  BY DEF IndexOrder
<1> DEFINE w == upper_bound(c, Len(c) - 1, key)
<1>3. w \in 1..Len(c) /\ Within(c, w, key)
  BY <1>1, <1>2, FoundWithin
<1>4. Within(c, x, key)
  <2>1. U[c[x].child] = {k \in S : Within(c, x, k)}
    BY DEF IndexOrder
  <2> QED
    BY <2>1 DEF Divides
<1> HIDE DEF w
<1>5. w = x
  BY <1>1, <1>2, <1>3, <1>4, WithinOnce
<1> QED
  BY <1>5 DEF w

(* insert_key_to_index_no_split with the key of a split: it is the entry   *)
(* of the block that was split which is doubled.                           *)
LEMMA EntryOrder ==
    ASSUME NEW c, Len(c) \in Nat, NEW S \in SUBSET Nat, NEW U, NEW U2,
           IndexOrder(c, S, U), NEW x \in 1..Len(c),
           NEW E, NEW key \in Nat, NEW value, NEW c2,
           EntryAdded(c, E, upper_bound(c, Len(c) - 1, key), key, value, c2),
           NEW A, NEW B, Divides(key, A, B), HandedOver(c, x, U, U2, value, A, B)
    PROVE  IndexOrder(c2, S, U2)
<1>1. SplitBelow(c, S, U, x, key, A, B)
  BY DEF HandedOver, SplitBelow
<1>2. upper_bound(c, Len(c) - 1, key) = x
  BY <1>1, EntryPlace
<1>3. EntryAdded(c, E, x, key, value, c2)
  BY <1>2
<1> QED
  BY <1>3, DoubledOrder

(* The node with entries c, that owns S, is split into lc and rc; entry x is *)
(* the one of the block whose other half is in flight.                       *)
HalvesAt(c, S, U, x, A, B, lc, rc) ==
    /\ S \in SUBSET Nat /\ c \in Seq(Entries) /\ Len(c) = ORDER
    /\ NoneTwice(c) /\ IndexOrder(c, S, U)
    /\ x \in 1..ORDER /\ c[x].child = call.old /\ call.key \in Nat
    /\ U[call.old] = A \cup B /\ Divides(call.key, A, B)
    /\ IndexHalves(c, lc, rc)

(* Entry x is in the half that takes the new entry, and is the one that is *)
(* doubled there.                                                          *)
HalfGrown(c, x, p, lc, rc) ==
    LET lh == SubSeq(c, 1, p)
        rh == SubSeq(c, p + 1, ORDER)
    IN  \/ p < x /\ lc = lh
           /\ EntryAdded(rh, Entries', x - p, call.key, call.after, rc)
        \/ x <= p /\ rc = rh
           /\ EntryAdded(lh, Entries', x, call.key, call.after, lc)

LEMMA HalvesPlace ==
    ASSUME NEW c, NEW S, NEW U, NEW x, NEW A, NEW B, NEW lc, NEW rc,
           HalvesAt(c, S, U, x, A, B, lc, rc)
    PROVE  \E p \in 2..(ORDER - 1) :
               /\ call'.key = c[p].key /\ call'.key \in S
               /\ Below(S, call'.key) # {}
               /\ HalfGrown(c, x, p, lc, rc)
<1>0. /\ S \in SUBSET Nat /\ c \in Seq(Entries) /\ Len(c) = ORDER
      /\ NoneTwice(c) /\ IndexOrder(c, S, U)
      /\ x \in 1..ORDER /\ c[x].child = call.old /\ call.key \in Nat
      /\ U[call.old] = A \cup B /\ Divides(call.key, A, B)
      /\ IndexHalves(c, lc, rc)
  BY DEF HalvesAt
<1> USE <1>0
<1> DEFINE mid == (ORDER - 1) \div 2 + 1
           right == call.key > c[mid].key
           point == IF right /\ call.key >= c[mid + 1].key THEN mid + 1 ELSE mid
           key == call.key
<1>1. /\ ORDER \in Nat /\ mid \in 2..(ORDER - 2)
  BY OrderAssumption
<1>2. /\ \A i, j \in 1..(ORDER - 1) : i < j => c[i].key < c[j].key
      /\ \A i \in 1..(ORDER - 1) : c[i].key \in S /\ c[i].key \in Nat
      /\ U[call.old] = {k \in S : Within(c, x, k)}
  BY DEF IndexOrder, SortedTo
<1>3. key \in S /\ Within(c, x, key) /\ key \in Nat
  BY <1>2 DEF Divides
<1>4. PICK a \in A : a \in S /\ a \in Nat /\ Within(c, x, a) /\ a < key
  BY <1>2 DEF Divides
<1>5. /\ \A j \in 1..(ORDER - 1) : j < x => c[j].key < key
      /\ \A j \in 1..(ORDER - 1) : x <= j => key < c[j].key
  <2>1. ASSUME NEW j \in 1..(ORDER - 1), j < x
        PROVE  c[j].key < key
    <3>1. j \in 1..(x - 1)
      BY <1>1, <2>1
    <3>2. c[j].key <= a /\ c[j].key \in Nat
      BY <1>2, <1>4, <3>1 DEF Within
    <3> QED
      BY <1>3, <1>4, <3>2
  <2>2. ASSUME NEW j \in 1..(ORDER - 1), x <= j
        PROVE  key < c[j].key
    <3>1. j \in x..(Len(c) - 1)
      BY <1>1, <2>2
    <3> QED
      BY <1>3, <3>1 DEF Within
  <2> QED
    BY <2>1, <2>2
<1> HIDE DEF mid
<1>6. PICK p \in 2..(ORDER - 1) : p = point
  BY <1>1
<1>7. /\ call'.key = c[p].key
      /\ \/ /\ right /\ lc = SubSeq(c, 1, p)
            /\ EntryAdded(SubSeq(c, p + 1, ORDER), Entries',
                          upper_bound(SubSeq(c, p + 1, ORDER),
                                      Len(SubSeq(c, p + 1, ORDER)) - 1, key),
                          key, call.after, rc)
         \/ /\ ~right /\ rc = SubSeq(c, p + 1, ORDER)
            /\ EntryAdded(SubSeq(c, 1, p), Entries',
                          upper_bound(SubSeq(c, 1, p), Len(SubSeq(c, 1, p)) - 1, key),
                          key, call.after, lc)
  <2>1. /\ call'.key = c[point].key
        /\ \/ /\ right /\ lc = SubSeq(c, 1, point)
              /\ EntryAdded(SubSeq(c, point + 1, ORDER), Entries',
                            upper_bound(SubSeq(c, point + 1, ORDER),
                                        Len(SubSeq(c, point + 1, ORDER)) - 1, key),
                            key, call.after, rc)
           \/ /\ ~right /\ rc = SubSeq(c, point + 1, ORDER)
              /\ EntryAdded(SubSeq(c, 1, point), Entries',
                            upper_bound(SubSeq(c, 1, point),
                                        Len(SubSeq(c, 1, point)) - 1, key),
                            key, call.after, lc)
    BY Zenon DEF IndexHalves, mid
  <2> HIDE DEF point, right, key
  <2> QED
    BY <1>6, <2>1
<1> DEFINE lh == SubSeq(c, 1, p)
           rh == SubSeq(c, p + 1, ORDER)
           Lo == {k \in S : k < c[p].key}
           Hi == {k \in S : c[p].key <= k}
<1>8. p \in 1..(ORDER - 1) /\ p \in Nat /\ c[p].key \in S /\ c[p].key \in Nat
  BY <1>1, <1>2
<1>9. IndexOrder(lh, Lo, U) /\ IndexOrder(rh, Hi, U)
  <2>1. p \in 1..(Len(c) - 1)
    BY <1>8
  <2>2. /\ IndexOrder(SubSeq(c, 1, p), Below(S, c[p].key), U)
        /\ IndexOrder(SubSeq(c, p + 1, Len(c)), FromOn(S, c[p].key), U)
    BY <2>1, CutOrder
  <2> QED
    BY <2>2 DEF Below, FromOn
<1>10. /\ Len(lh) = p /\ \A i \in 1..p : lh[i] = c[i]
       /\ Len(rh) = ORDER - p /\ \A i \in 1..(ORDER - p) : rh[i] = c[p + i]
  BY <1>8, HalvesLists
<1>11. /\ right => c[p].key < key
       /\ ~right => key < c[p].key
  <2>1. mid \in 1..(ORDER - 1) /\ mid + 1 \in 1..(ORDER - 1)
    BY <1>1
  <2>2. \A j \in 1..(ORDER - 1) : c[j].key # key
    <3>1. \A j \in 1..(ORDER - 1) : j < x \/ x <= j
      BY <1>1
    <3> QED
      BY <1>2, <1>3, <1>5, <3>1
  <2>3. /\ c[mid].key \in Nat /\ c[mid + 1].key \in Nat
        /\ c[mid].key # key /\ c[mid + 1].key # key
    BY <1>2, <2>1, <2>2
  <2> QED
    BY <1>3, <1>6, <2>3
<1>12. /\ right => p < x
       /\ ~right => x <= p
  <2>1. ASSUME right, x <= p
        PROVE  FALSE
    BY <1>3, <1>5, <1>8, <1>11, <2>1
  <2>2. ASSUME ~right, p < x
        PROVE  FALSE
    BY <1>3, <1>5, <1>8, <1>11, <2>2
  <2>3. p < x \/ x <= p
    BY <1>1, <1>8
  <2> HIDE DEF right
  <2> QED
    BY <2>1, <2>2, <2>3
<1>13. /\ call'.key \in S
       /\ Below(S, call'.key) # {}
  <2>1. 1 \in 1..(ORDER - 1) /\ 1 < p
    BY <1>1
  <2>2. c[1].key \in S /\ c[1].key < c[p].key
    BY <1>2, <1>8, <2>1
  <2> QED
    BY <1>7, <1>8, <2>2 DEF Below
<1> HIDE DEF lh, rh, Lo, Hi, right, point
<1>14. Lo \in SUBSET Nat /\ Hi \in SUBSET Nat
  BY DEF Lo, Hi
<1>15. ASSUME right
       PROVE  EntryAdded(rh, Entries', x - p, key, call.after, rc)
  <2>1. /\ x - p \in 1..Len(rh) /\ Len(rh) \in Nat /\ p + (x - p) = x
        /\ x - p \in 1..(ORDER - p)
    BY <1>1, <1>8, <1>10, <1>12, <1>15
  <2>2. rh[x - p].child = call.old
    BY <1>10, <2>1
  <2>3. SplitBelow(rh, Hi, U, x - p, key, A, B)
    BY <1>3, <1>9, <1>14, <2>1, <2>2 DEF SplitBelow
  <2>4. upper_bound(rh, Len(rh) - 1, key) = x - p
    BY <2>3, EntryPlace
  <2> QED
    BY <1>7, <1>15, <2>4 DEF rh
<1>16. ASSUME ~right
       PROVE  EntryAdded(lh, Entries', x, key, call.after, lc)
  <2>1. x \in 1..Len(lh) /\ Len(lh) \in Nat /\ x \in 1..p
    BY <1>1, <1>8, <1>10, <1>12, <1>16
  <2>2. lh[x].child = call.old
    BY <1>10, <2>1
  <2>3. SplitBelow(lh, Lo, U, x, key, A, B)
    BY <1>3, <1>9, <1>14, <2>1, <2>2 DEF SplitBelow
  <2>4. upper_bound(lh, Len(lh) - 1, key) = x
    BY <2>3, EntryPlace
  <2> QED
    BY <1>7, <1>16, <2>4 DEF lh
<1>17. /\ right => p < x /\ lc = lh
       /\ ~right => x <= p /\ rc = rh
  BY <1>7, <1>12 DEF lh, rh
<1>18. HalfGrown(c, x, p, lc, rc)
  <2>1. right \/ ~right
    OBVIOUS
  <2> QED
    BY <1>15, <1>16, <1>17, <2>1 DEF HalfGrown, lh, rh
<1> QED
  BY <1>7, <1>13, <1>18

(* What the children own besides, before (U) and after (U2). *)
HalvesOf(c, S, U, U2, x, A, B, lc, rc) ==
    /\ HalvesAt(c, S, U, x, A, B, lc, rc)
    /\ U2[call.old] = A /\ U2[call.after] = B
    /\ \A y : Lists(c, y) /\ y # call.old => U2[y] = U[y]

(* The two index nodes that a full one becomes: the key that moves up      *)
(* divides the keys that the node owned, and the entry of the block that   *)
(* was split is in the half that takes the new entry.                      *)
LEMMA IndexHalvesOrder ==
    ASSUME NEW c, NEW S, NEW U, NEW U2, NEW x, NEW A, NEW B, NEW lc, NEW rc,
           HalvesOf(c, S, U, U2, x, A, B, lc, rc)
    PROVE  /\ call'.key \in S
           /\ Below(S, call'.key) # {}
           /\ IndexOrder(lc, Below(S, call'.key), U2)
           /\ IndexOrder(rc, FromOn(S, call'.key), U2)
<1>0. /\ S \in SUBSET Nat /\ c \in Seq(Entries) /\ Len(c) = ORDER
      /\ NoneTwice(c) /\ IndexOrder(c, S, U)
      /\ x \in 1..ORDER /\ c[x].child = call.old /\ call.key \in Nat
      /\ U[call.old] = A \cup B /\ Divides(call.key, A, B)
      /\ U2[call.old] = A /\ U2[call.after] = B
      /\ \A y : Lists(c, y) /\ y # call.old => U2[y] = U[y]
  BY DEF HalvesOf, HalvesAt
<1>1. ORDER \in Nat /\ ORDER >= 4
  BY OrderAssumption
<1>2. PICK p \in 2..(ORDER - 1) :
          /\ call'.key = c[p].key /\ call'.key \in S
          /\ Below(S, call'.key) # {}
          /\ HalfGrown(c, x, p, lc, rc)
  BY HalvesPlace DEF HalvesOf
<1> USE <1>0
<1> DEFINE lh == SubSeq(c, 1, p)
           rh == SubSeq(c, p + 1, ORDER)
           Lo == {k \in S : k < c[p].key}
           Hi == {k \in S : c[p].key <= k}
           key == call.key
<1>3. key \in Nat
  OBVIOUS
<1>8. p \in 1..(ORDER - 1) /\ p \in Nat
  BY <1>1
<1>9. IndexOrder(lh, Lo, U) /\ IndexOrder(rh, Hi, U)
  <2>1. p \in 1..(Len(c) - 1)
    BY <1>8
  <2>2. /\ IndexOrder(SubSeq(c, 1, p), Below(S, c[p].key), U)
        /\ IndexOrder(SubSeq(c, p + 1, Len(c)), FromOn(S, c[p].key), U)
    BY <2>1, CutOrder
  <2> QED
    BY <2>2 DEF Below, FromOn
<1>10. /\ Len(lh) = p /\ \A i \in 1..p : lh[i] = c[i]
       /\ Len(rh) = ORDER - p /\ \A i \in 1..(ORDER - p) : rh[i] = c[p + i]
  BY <1>8, HalvesLists
<1>13. \A i \in 1..ORDER : i # x => U2[c[i].child] = U[c[i].child]
  <2> SUFFICES ASSUME NEW i \in 1..ORDER, i # x
               PROVE  U2[c[i].child] = U[c[i].child]
    OBVIOUS
  <2>1. DOMAIN c = 1..ORDER
    OBVIOUS
  <2>2. c[i].child # call.old
    <3>1. i < x \/ x < i
      BY <1>1
    <3> QED
      BY <2>1, <3>1 DEF NoneTwice
  <2>3. Lists(c, c[i].child)
    BY <2>1 DEF Lists
  <2> QED
    BY <2>2, <2>3
<1>14. Lo \in SUBSET Nat /\ Hi \in SUBSET Nat
  OBVIOUS
<1> HIDE DEF lh, rh, Lo, Hi
<1>16. ASSUME p < x, lc = lh,
              EntryAdded(rh, Entries', x - p, key, call.after, rc)
       PROVE  IndexOrder(lc, Lo, U2) /\ IndexOrder(rc, Hi, U2)
  <2>2. IndexOrder(lh, Lo, U2)
    <3>1. ASSUME NEW i \in 1..Len(lh)
          PROVE  U2[lh[i].child] = U[lh[i].child]
      <4>1. i \in 1..ORDER /\ i # x /\ i \in 1..p
        BY <1>1, <1>8, <1>10, <1>16
      <4> QED
        BY <1>10, <1>13, <4>1
    <3> QED
      BY <1>9, <3>1, SameOrder
  <2>3. IndexOrder(rc, Hi, U2)
    <3>1. /\ x - p \in 1..Len(rh) /\ Len(rh) \in Nat /\ p + (x - p) = x
          /\ x - p \in 1..(ORDER - p)
      BY <1>1, <1>8, <1>10, <1>16
    <3>2. rh[x - p].child = call.old
      BY <1>10, <3>1
    <3>3. ASSUME NEW i \in 1..Len(rh), i # x - p
          PROVE  U2[rh[i].child] = U[rh[i].child]
      <4>1. p + i \in 1..ORDER /\ p + i # x /\ i \in 1..(ORDER - p)
        BY <1>1, <1>8, <1>10, <3>3
      <4> QED
        BY <1>10, <1>13, <4>1
    <3>4. HandedOver(rh, x - p, U, U2, call.after, A, B)
      BY <3>2, <3>3 DEF HandedOver
    <3> QED
      BY <1>3, <1>9, <1>14, <1>16, <3>1, <3>4, DoubledOrder
  <2> QED
    BY <1>16, <2>2, <2>3
<1>17. ASSUME x <= p, rc = rh,
              EntryAdded(lh, Entries', x, key, call.after, lc)
       PROVE  IndexOrder(lc, Lo, U2) /\ IndexOrder(rc, Hi, U2)
  <2>2. IndexOrder(rh, Hi, U2)
    <3>1. ASSUME NEW i \in 1..Len(rh)
          PROVE  U2[rh[i].child] = U[rh[i].child]
      <4>1. p + i \in 1..ORDER /\ p + i # x /\ i \in 1..(ORDER - p)
        BY <1>1, <1>8, <1>10, <1>17
      <4> QED
        BY <1>10, <1>13, <4>1
    <3> QED
      BY <1>9, <3>1, SameOrder
  <2>3. IndexOrder(lc, Lo, U2)
    <3>1. x \in 1..Len(lh) /\ Len(lh) \in Nat /\ x \in 1..p
      BY <1>1, <1>8, <1>10, <1>17
    <3>2. lh[x].child = call.old
      BY <1>10, <3>1
    <3>3. ASSUME NEW i \in 1..Len(lh), i # x
          PROVE  U2[lh[i].child] = U[lh[i].child]
      <4>1. i \in 1..ORDER /\ i \in 1..p
        BY <1>1, <1>8, <1>10
      <4> QED
        BY <1>10, <1>13, <3>3, <4>1
    <3>4. HandedOver(lh, x, U, U2, call.after, A, B)
      BY <3>2, <3>3 DEF HandedOver
    <3> QED
      BY <1>3, <1>9, <1>14, <1>17, <3>1, <3>4, DoubledOrder
  <2> QED
    BY <1>17, <2>2, <2>3
<1>18. IndexOrder(lc, Lo, U2) /\ IndexOrder(rc, Hi, U2)
  BY <1>2, <1>16, <1>17 DEF HalfGrown, lh, rh
<1> QED
  BY <1>2, <1>18 DEF Lo, Hi, Below, FromOn

-----------------------------------------------------------------------------
(* What the entry of o stands for: while a split is pending, the entry of  *)
(* the old block stands for both halves.                                   *)
Region(own) ==
    [o \in Offsets |->
        own[o] \cup (IF Inserting /\ o = call.old THEN own[call.after] ELSE {})]

Ord(own) ==
    /\ own \in [Offsets -> SUBSET Keys]
    /\ Region(own)[meta.root_offset] = Keys
    /\ \A o \in Offsets :
           IsInternal(o) => IndexOrder(disk[o].children, own[o], Region(own))
    /\ \A o \in Offsets : IsLeaf(o) => LeafOrder(disk[o].children, own[o])
    /\ \A o, p \in Offsets : IsLeaf(o) /\ IsLeaf(p) /\ o # p => own[o] \cap own[p] = {}
    /\ Searching => call.key \in own[call.org]
    /\ Inserting => Divides(call.key, own[call.old], own[call.after])

OrdInv == \E own : Ord(own)

(* A new file: the root and the only leaf own every key. *)
LEMMA InitOrd == Init => OrdInv
<1> SUFFICES ASSUME Init
             PROVE  OrdInv
  OBVIOUS
<1> DEFINE own == [o \in Offsets |-> Keys]
<1>1. /\ meta.root_offset = 1 /\ Offsets = 1..2 /\ ~Inserting /\ ~Searching
      /\ disk[1] = InternalNode(0, 0, 0, <<Entry(EmptyKey, 2)>>)
      /\ disk[2] = LeafNode(1, 0, 0, <<>>)
  BY DEF Init, init_from_empty, Offsets, Inserting, Searching, Idle
<1>2. /\ disk[1].kind = "internal" /\ disk[1].children = <<Entry(EmptyKey, 2)>>
      /\ disk[2].kind = "leaf" /\ disk[2].children = <<>>
  BY <1>1 DEF InternalNode, LeafNode
<1>3. Region(own) = own /\ own[1] = Keys /\ own[2] = Keys
  BY <1>1 DEF Region
<1>4. IndexOrder(disk[1].children, Keys, own)
  <2> DEFINE c == disk[1].children
  <2>1. Len(c) = 1 /\ c[1].child = 2
    BY <1>2 DEF Entry
  <2>2. \A k \in Keys : Within(c, 1, k)
    BY <2>1 DEF Within
  <2>3. own[c[1].child] = {k \in Keys : Within(c, 1, k)}
    BY <1>3, <2>1, <2>2
  <2> HIDE DEF c, own
  <2> QED
    BY <2>1, <2>3 DEF IndexOrder, SortedTo, c
<1>5. LeafOrder(disk[2].children, Keys)
  BY <1>2 DEF LeafOrder, SortedTo
<1>6. own \in [Offsets -> SUBSET Keys]
  OBVIOUS
<1>7. \A o \in Offsets : o = 1 \/ o = 2
  BY <1>1
<1> HIDE DEF own
<1>8. Ord(own)
  BY <1>1, <1>2, <1>3, <1>4, <1>5, <1>6, <1>7 DEF Ord, IsInternal, IsLeaf
<1> QED
  BY <1>8 DEF OrdInv

(* The descent goes where the key is owned. *)
LEMMA DescendOwn ==
    ASSUME NEW lev, Inv(lev), NEW own, Ord(own), Searching
    PROVE  /\ call.org \in Offsets
           /\ call.key \in Keys
           /\ LET c == disk[call.org].children
                  i == find_index(disk[call.org], call.key)
              IN  call.key \in own[c[i].child]
<1> DEFINE c == disk[call.org].children
           i == find_index(disk[call.org], call.key)
<1>1. call \in SearchCalls
  BY DEF Inv, CallOK, Searching, Idle, InsertCalls, SearchCalls
<1>2. call.org \in Offsets /\ call.key \in Keys /\ call.height \in Nat \ {0}
  BY <1>1 DEF SearchCalls
<1>3. lev[call.org] > 0
  BY <1>2 DEF Inv, CallOK
<1>4. /\ IsInternal(call.org) /\ Len(c) \in Nat \ {0}
      /\ \A j \in 1..(Len(c) - 1) : c[j].key \in Nat
      /\ \A j \in 1..Len(c) : c[j].child \in Offsets
  <2>1. /\ IsInternal(call.org) /\ Len(c) \in 1..ORDER /\ RealSeparators(Keys, c)
        /\ \A j \in 1..Len(c) : c[j].child \in Offsets
    BY <1>2, <1>3, IndexFacts
  <2>2. \A j \in 1..(Len(c) - 1) : c[j].key \in Nat
    BY <2>1, KeysAssumption DEF RealSeparators
  <2>3. Len(c) \in Nat \ {0}
    BY <2>1, OrderAssumption
  <2> HIDE DEF c
  <2> QED
    BY <2>1, <2>2, <2>3
<1>5. /\ IndexOrder(c, own[call.org], Region(own)) /\ call.key \in own[call.org]
      /\ ~Inserting
  BY <1>2, <1>4 DEF Ord, Inserting, Searching
<1>6. i \in 1..Len(c) /\ Within(c, i, call.key)
  <2>1. SortedTo(c, Len(c) - 1) /\ call.key \in Nat
    BY <1>2, <1>5, KeysAssumption DEF IndexOrder
  <2> HIDE DEF c
  <2>2. LET u == upper_bound(c, Len(c) - 1, call.key)
        IN  u \in 1..Len(c) /\ Within(c, u, call.key)
    BY <1>4, <2>1, FoundWithin
  <2> QED
    BY <2>2 DEF find_index, c
<1> HIDE DEF c, i
<1>7. call.key \in Region(own)[c[i].child]
  BY <1>5, <1>6 DEF IndexOrder
<1>8. Region(own)[c[i].child] = own[c[i].child]
  BY <1>4, <1>5, <1>6 DEF Region
<1> QED
  BY <1>2, <1>7, <1>8 DEF c, i

(* A step that changes no separator: at most the records of a leaf. *)
LEMMA SameOrd ==
    ASSUME NEW lev, Inv(lev), NEW own, Ord(own), ~Inserting, ~Inserting',
           UNCHANGED meta,
           \A o \in Offsets :
               /\ disk'[o].kind = disk[o].kind
               /\ IsInternal(o) => disk'[o].children = disk[o].children
               /\ IsLeaf(o) => LeafOrder(disk'[o].children, own[o]),
           Searching' => call'.key \in own[call'.org]
    PROVE  Ord(own)'
<1>1. Offsets' = Offsets
  BY DEF Offsets
<1>2. Region(own)' = Region(own)
  BY <1>1 DEF Region
<1>3. \A o \in Offsets : /\ IsInternal(o)' <=> IsInternal(o)
                         /\ IsLeaf(o)' <=> IsLeaf(o)
  BY DEF IsInternal, IsLeaf
<1>4. ASSUME NEW o \in Offsets, IsInternal(o)'
      PROVE  IndexOrder(disk'[o].children, own[o], Region(own))
  BY <1>3, <1>4 DEF Ord
<1>5. ASSUME NEW o \in Offsets, IsLeaf(o)'
      PROVE  LeafOrder(disk'[o].children, own[o])
  BY <1>3, <1>5 DEF Ord
<1>6. ASSUME NEW o \in Offsets, NEW p \in Offsets, IsLeaf(o)', IsLeaf(p)', o # p
      PROVE  own[o] \cap own[p] = {}
  <2>1. IsLeaf(o) /\ IsLeaf(p)
    BY <1>3, <1>6
  <2> QED
    BY <1>6, <2>1 DEF Ord
<1>7. own \in [Offsets -> SUBSET Keys] /\ Region(own)[meta'.root_offset] = Keys
  BY DEF Ord
<1> QED
  BY <1>1, <1>2, <1>4, <1>5, <1>6, <1>7 DEF Ord

(* The steps that write nothing, or only records. *)
LEMMA QuietOrd ==
    ASSUME NEW lev, Inv(lev), NEW own, Ord(own),
           \/ BeginAny \/ search_index \/ search \/ update
           \/ insert_same_key \/ insert_into_leaf
    PROVE  Ord(own)'
<1>1. ~Inserting /\ UNCHANGED meta
  BY DEF BeginAny, Begin, search_index, search, update, insert_same_key,
         insert_into_leaf, AtLeaf, Inserting, Idle
<1>2. ~Inserting' /\ (Searching' => call'.key \in own[call'.org])
  <2>1. CASE BeginAny
    <3>1. call'.key \in Keys /\ call'.org = meta.root_offset /\ ~Inserting'
      BY <2>1 DEF BeginAny, Begin, Inserting
    <3>2. own[meta.root_offset] = Keys
      <4>1. meta.root_offset \in Offsets
        BY DEF Inv, MetaOK
      <4> QED
        BY <1>1, <4>1 DEF Ord, Region
    <3> QED
      BY <3>1, <3>2
  <2>2. CASE search_index
    <3>1. Searching
      BY <2>2 DEF search_index, Searching
    <3>2. call \in SearchCalls
      BY <3>1 DEF Inv, CallOK, Searching, Idle, InsertCalls, SearchCalls
    <3>3. /\ call'.proc = "search_index" /\ call'.key = call.key
          /\ call'.org = disk[call.org].children[
                             find_index(disk[call.org], call.key)].child
      BY <2>2, <3>2 DEF search_index, SearchCalls
    <3> QED
      BY <3>1, <3>3, DescendOwn DEF Inserting
  <2>3. CASE search \/ update \/ insert_same_key \/ insert_into_leaf
    BY <2>3 DEF search, update, insert_same_key, insert_into_leaf, Inserting,
                Searching, Idle
  <2> QED
    BY <2>1, <2>2, <2>3
<1>3. \/ UNCHANGED disk
      \/ /\ update \/ insert_into_leaf
         /\ \E q, b : LeafWritten(q, b)
  <2>1. CASE update \/ insert_into_leaf
    BY <2>1, UpdateEffect, InsertIntoLeafEffect
  <2>2. CASE BeginAny \/ search_index \/ search \/ insert_same_key
    BY <2>2 DEF BeginAny, Begin, search_index, search, insert_same_key
  <2> QED
    BY <2>1, <2>2
<1>4. CASE UNCHANGED disk
  <2>1. \A o \in Offsets : IsLeaf(o) => LeafOrder(disk'[o].children, own[o])
    BY <1>4 DEF Ord
  <2> QED
    BY <1>1, <1>2, <1>4, <2>1, SameOrd
<1>5. CASE /\ update \/ insert_into_leaf
           /\ \E q, b : LeafWritten(q, b)
  <2>1. PICK q, b : LeafWritten(q, b)
    BY <1>5
  <2>2. /\ q = search_leaf /\ q \in Offsets /\ IsLeaf(q) /\ b.kind = "leaf"
        /\ disk' = unmap(disk, q, b) /\ b.children \in Seq(Records)
    BY <2>1 DEF LeafWritten, LeafNodes
  <2>3. disk'[q] = b /\ \A o \in Offsets \ {q} : disk'[o] = disk[o]
    BY <2>2, SlotPositive DEF unmap
  <2> DEFINE c == disk[q].children
  <2>4. /\ c \in Seq(Records) /\ LeafOrder(c, own[q]) /\ own[q] \in SUBSET Nat
        /\ Len(c) \in Nat
    <3>1. disk[q] \in LeafNodes
      BY <2>2, BlockFacts
    <3>2. c \in Seq(Records)
      BY <3>1 DEF LeafNodes
    <3>3. own[q] \in SUBSET Keys
      BY <2>2 DEF Ord
    <3>4. own[q] \in SUBSET Nat
      BY <3>3, KeysAssumption
    <3>5. LeafOrder(c, own[q])
      BY <2>2 DEF Ord
    <3> QED
      BY <3>2, <3>4, <3>5
  <2>5. call.key \in own[q]
    <3>1. Searching
      BY <1>5 DEF update, insert_into_leaf, AtLeaf, Searching
    <3> QED
      BY <2>2, <3>1, DescendOwn DEF search_leaf
  <2>6. LeafOrder(b.children, own[q])
    <3>1. CASE /\ Len(b.children) = Len(c)
               /\ \A i \in 1..Len(c) : b.children[i].key = c[i].key
      BY <2>4, <3>1 DEF LeafOrder, SortedTo
    <3>2. CASE /\ RecordAdded(c, Records, Record(call.key, call.value), b.children)
               /\ ~binary_search(disk[q], call.key)
      <4>1. Record(call.key, call.value).key = call.key
        BY DEF Record
      <4>2. \A i \in 1..Len(c) : c[i].key # call.key
        <5>1. DOMAIN c = 1..Len(c)
          BY <2>4
        <5> QED
          BY <3>2, <5>1 DEF binary_search
      <4> HIDE DEF c
      <4> QED
        BY <2>4, <2>5, <3>2, <4>1, <4>2, RecordOrder
    <3> QED
      BY <2>1, <3>1, <3>2 DEF LeafWritten
  <2>7. \A o \in Offsets :
            /\ disk'[o].kind = disk[o].kind
            /\ IsInternal(o) => disk'[o].children = disk[o].children
            /\ IsLeaf(o) => LeafOrder(disk'[o].children, own[o])
    <3>1. disk[q].kind = "leaf"
      BY <2>2 DEF IsLeaf
    <3> QED
      BY <2>2, <2>3, <2>6, <3>1 DEF Ord, IsInternal
  <2> QED
    BY <1>1, <1>2, <2>7, SameOrd
<1> QED
  BY <1>3, <1>4, <1>5

(* insert() splits a leaf: the keys of the leaf are divided at the first   *)
(* key of the new leaf.                                                    *)
LEMMA SplitLeafOrd ==
    ASSUME NEW lev, Inv(lev), LinkInv, NEW own, Ord(own), insert_split_leaf
    PROVE  OrdInv'
<1>1. /\ Searching /\ ~(call.height > 1) /\ ~Inserting
      /\ meta' = alloc_leaf(meta) /\ Len(leaf.children) = ORDER
      /\ ~binary_search(leaf, call.key)
  BY DEF insert_split_leaf, AtLeaf, Searching, Inserting
<1>2. /\ search_leaf \in Offsets /\ IsLeaf(search_leaf)
      /\ leaf.children \in Seq(Records)
  BY <1>1, LeafReached
<1>3. PICK q, new, l, r : LeafSplit(q, new, l, r)
  BY LeafSplitEffect
<1> DEFINE c == disk[q].children
           first == r.children[1].key
           S == own[q]
           Lo == Below(S, first)
           Hi == FromOn(S, first)
<1>own. PICK own2 : own2 = [o \in Offsets' |-> IF o = q THEN Lo
                                           ELSE IF o = new THEN Hi ELSE own[o]]
  OBVIOUS
<1>4. /\ q = search_leaf /\ q \in Offsets /\ new \notin Offsets
      /\ Offsets' = Offsets \cup {new}
      /\ disk'[q] = l /\ disk'[q].kind = "leaf"
      /\ disk'[new] = r /\ disk'[new].kind = "leaf"
      /\ call'.proc = "insert_key_to_index" /\ call'.key = first
      /\ call'.old = q /\ call'.after = new
      /\ LeafHalves(c, l.children, r.children)
  BY <1>3 DEF LeafSplit, LeafNodes, Offsets, NullableOffsets
<1>5. \A o \in Offsets \ {q} : /\ disk'[o].kind = disk[o].kind
                               /\ disk'[o].children = disk[o].children
  BY <1>3 DEF LeafSplit
<1>6. /\ c \in Seq(Records) /\ Len(c) = ORDER /\ LeafOrder(c, S)
      /\ S \in SUBSET Keys /\ S \in SUBSET Nat /\ call.key \in S
      /\ \A i \in 1..Len(c) : c[i].key # call.key
  <2>1. c \in Seq(Records) /\ Len(c) = ORDER
    BY <1>1, <1>2, <1>4 DEF leaf
  <2>2. S \in SUBSET Keys /\ LeafOrder(c, S)
    BY <1>2, <1>4 DEF Ord
  <2>3. call.key \in S
    BY <1>1, <1>4, DescendOwn DEF search_leaf
  <2>4. \A i \in 1..Len(c) : c[i].key # call.key
    <3>1. DOMAIN c = 1..Len(c)
      BY <2>1
    <3> QED
      BY <1>1, <1>4, <3>1 DEF binary_search, leaf
  <2>5. S \in SUBSET Nat
    BY <2>2, KeysAssumption
  <2> HIDE DEF c, S
  <2> QED
    BY <2>1, <2>2, <2>3, <2>4, <2>5
<1>7. /\ Len(l.children) \in Nat \ {0} /\ first \in S
      /\ LeafOrder(l.children, Lo) /\ LeafOrder(r.children, Hi)
  <2> HIDE DEF c, S
  <2> QED
    BY <1>4, <1>6, LeafHalvesOrder
<1>8. Divides(first, Lo, Hi) /\ Lo \cup Hi = S /\ Lo \cap Hi = {}
  <2>1. Lo # {}
    BY <1>7 DEF LeafOrder
  <2> HIDE DEF S, first
  <2> QED
    BY <1>6, <1>7, <2>1, DivideAt
<1>9. /\ own2[q] = Lo /\ own2[new] = Hi /\ q # new
      /\ \A o \in Offsets \ {q} : own2[o] = own[o]
      /\ own2 \in [Offsets' -> SUBSET Keys]
  <2>1. Lo \in SUBSET Keys /\ Hi \in SUBSET Keys
    BY <1>6, <1>8
  <2>2. \A o \in Offsets : own[o] \in SUBSET Keys
    BY DEF Ord
  <2> HIDE DEF Lo, Hi, S
  <2> QED
    BY <1>own, <1>4, <2>1, <2>2
<1>10. Inserting' /\ ~Searching'
  BY <1>4 DEF Inserting, Searching
<1>11. \A o \in Offsets : Region(own2)'[o] = Region(own)[o]
  <2> SUFFICES ASSUME NEW o \in Offsets
               PROVE  Region(own2)'[o] = Region(own)[o]
    OBVIOUS
  <2>1. o \in Offsets' /\ o # new /\ Region(own)[o] = own[o]
    BY <1>1, <1>4 DEF Region
  <2>2. Region(own2)'[o] = own2[o] \cup (IF o = q THEN own2[new] ELSE {})
    BY <1>4, <1>10, <2>1 DEF Region
  <2> HIDE DEF Lo, Hi
  <2> QED
    BY <1>8, <1>9, <2>1, <2>2
<1>12. ASSUME NEW o \in Offsets', IsInternal(o)'
       PROVE  IndexOrder(disk'[o].children, own2[o], Region(own2)')
  <2>1. o \in Offsets \ {q} /\ IsInternal(o) /\ disk'[o].children = disk[o].children
    BY <1>4, <1>5, <1>12 DEF IsInternal
  <2>2. IndexOrder(disk[o].children, own[o], Region(own)) /\ own2[o] = own[o]
    BY <1>9, <2>1 DEF Ord
  <2>3. \A i \in 1..Len(disk[o].children) : disk[o].children[i].child \in Offsets
    <3>1. lev[o] > 0
      BY <2>1, BlockFacts DEF Inv, BlockOK
    <3> QED
      BY <2>1, <3>1, IndexFacts
  <2>4. \A i \in 1..Len(disk[o].children) :
            Region(own2)'[disk[o].children[i].child]
                = Region(own)[disk[o].children[i].child]
    BY <1>11, <2>3
  <2>5. IndexOrder(disk[o].children, own[o], Region(own2)')
    BY <2>2, <2>4, SameOrder
  <2> QED
    BY <2>1, <2>2, <2>5
<1>13. ASSUME NEW o \in Offsets', IsLeaf(o)'
       PROVE  /\ LeafOrder(disk'[o].children, own2[o])
              /\ IF o = new THEN own2[o] \in SUBSET S
                 ELSE o \in Offsets /\ IsLeaf(o) /\ own2[o] \in SUBSET own[o]
  <2>1. CASE o = q
    BY <1>2, <1>4, <1>7, <1>8, <1>9, <2>1
  <2>2. CASE o = new
    BY <1>4, <1>7, <1>8, <1>9, <2>2
  <2>3. CASE o # q /\ o # new
    <3>1. o \in Offsets \ {q} /\ IsLeaf(o) /\ disk'[o].children = disk[o].children
      BY <1>4, <1>5, <1>13, <2>3 DEF IsLeaf
    <3>2. LeafOrder(disk[o].children, own[o]) /\ own2[o] = own[o]
      BY <1>9, <3>1 DEF Ord
    <3> QED
      BY <2>3, <3>1, <3>2
  <2> QED
    BY <2>1, <2>2, <2>3
<1>14. ASSUME NEW o \in Offsets', NEW p \in Offsets', IsLeaf(o)', IsLeaf(p)', o # p
       PROVE  own2[o] \cap own2[p] = {}
  <2>1. Lo \cap Hi = {}
    BY <1>8
  <2>2. ASSUME NEW x \in Offsets, x # q, IsLeaf(x)
        PROVE  own2[x] \cap S = {}
    <3>1. own[x] \cap own[q] = {}
      BY <1>2, <1>4, <2>2 DEF Ord
    <3> QED
      BY <1>9, <2>2, <3>1
  <2>3. own2[q] \in SUBSET S /\ own2[new] \in SUBSET S
    BY <1>8, <1>9
  <2> HIDE DEF Lo, Hi, S
  <2>4. CASE o \in {q, new} /\ p \in {q, new}
    BY <1>9, <1>14, <2>1, <2>4
  <2>5. CASE o \in {q, new} /\ p \notin {q, new}
    <3>1. p \in Offsets /\ IsLeaf(p)
      BY <1>13, <1>14, <2>5
    <3> QED
      BY <2>2, <2>3, <2>5, <3>1
  <2>6. CASE o \notin {q, new} /\ p \in {q, new}
    <3>1. o \in Offsets /\ IsLeaf(o)
      BY <1>13, <1>14, <2>6
    <3> QED
      BY <2>2, <2>3, <2>6, <3>1
  <2>7. CASE o \notin {q, new} /\ p \notin {q, new}
    <3>1. o \in Offsets /\ IsLeaf(o) /\ p \in Offsets /\ IsLeaf(p)
      BY <1>13, <1>14, <2>7
    <3>2. own[o] \cap own[p] = {}
      BY <1>14, <3>1 DEF Ord
    <3> QED
      BY <1>9, <2>7, <3>1, <3>2
  <2> QED
    BY <2>4, <2>5, <2>6, <2>7
<1>15. Region(own2)'[meta'.root_offset] = Keys
  <2>1. meta'.root_offset = meta.root_offset /\ meta.root_offset \in Offsets
    BY <1>1, AllocMeta DEF Inv, MetaOK
  <2> QED
    BY <1>11, <2>1 DEF Ord
<1>16. Divides(call'.key, own2[call'.old], own2[call'.after])
  BY <1>4, <1>8, <1>9
<1>17. Ord(own2)'
  BY <1>9, <1>10, <1>12, <1>13, <1>14, <1>15, <1>16 DEF Ord
<1> QED
  BY <1>17 DEF OrdInv

(* No index node but the one at its parent lists a block, and nobody lists *)
(* the pending one.                                                        *)
LEMMA OnlyParentLists ==
    ASSUME NEW lev, Inv(lev), LinkInv, NEW o \in Offsets, IsInternal(o),
           NEW i \in 1..Len(disk[o].children)
    PROVE  LET x == disk[o].children[i].child IN
           /\ x \in Offsets /\ disk[x].parent = o /\ lev[x] < lev[o]
           /\ Inserting => x # call.after /\ (x = call.old => o = call.offset)
<1> DEFINE x == disk[o].children[i].child
<1>1. DOMAIN disk[o].children = 1..Len(disk[o].children)
  <2>1. disk[o] \in InternalNodes
    BY BlockFacts
  <2> QED
    BY <2>1 DEF InternalNodes
<1>2. Lists(disk[o].children, x)
  BY <1>1 DEF Lists
<1> HIDE DEF x
<1>3. x \in Offsets /\ lev[x] = lev[o] - 1 /\ lev[o] \in Nat \ {0}
  BY <1>2, ListedBlocks
<1>4. disk[x].parent = o
  BY <1>2 DEF LinkInv, ChildLinks
<1>5. Inserting => x # call.after /\ (x = call.old => o = call.offset)
  BY <1>2, <1>4 DEF LinkInv, PendingLinks
<1>6. lev[x] < lev[o]
  BY <1>3
<1> QED
  BY <1>3, <1>4, <1>5, <1>6 DEF x

(* The node that insert_key_to_index is called for lists the block that    *)
(* was split.                                                              *)
LEMMA OldListed ==
    ASSUME NEW lev, Inv(lev), LinkInv, Inserting, call.offset # 0
    PROVE  Lists(disk[call.offset].children, call.old)
<1>1. call.old \in Offsets
  BY InsertCall
<1>2. disk[call.old].parent = call.offset /\ call.old # call.after
  BY DEF LinkInv, PendingLinks
<1> QED
  BY <1>1, <1>2 DEF LinkInv, ParentLink

(* insert_key_to_index puts a new root above the two halves of the old:    *)
(* the key between them divides all keys.                                  *)
LEMMA NewRootOrd ==
    ASSUME NEW lev, Inv(lev), LinkInv, NEW own, Ord(own), insert_new_root
    PROVE  OrdInv'
<1>1. /\ Inserting /\ call.offset = 0 /\ ~Inserting' /\ ~Searching'
  BY DEF insert_new_root, Inserting, Searching, Idle
<1>2. /\ call.old \in Offsets /\ call.after \in Offsets /\ call.key \in Keys
      /\ call.old = meta.root_offset
  BY <1>1, InsertCall
<1>3. PICK new, root : RootAdded(new, root)
  BY RootAddedEffect
<1>4. /\ Offsets' = Offsets \cup {new} /\ new \notin Offsets
      /\ disk'[new] = root /\ disk'[new].kind = "internal"
      /\ root.children = <<Entry(call.key, call.old), Entry(EmptyKey, call.after)>>
      /\ \A o \in Offsets : /\ disk'[o].kind = disk[o].kind
                            /\ disk'[o].children = disk[o].children
  BY <1>3 DEF RootAdded, Offsets, NullableOffsets, InternalNodes
<1>5. meta'.root_offset = new
  <2>1. alloc_internal(meta) \in
            [internal_node_num : Nat, leaf_node_num : Nat,
             height : Nat \ {0}, slot : Nat,
             root_offset : Offsets, leaf_offset : Offsets]
    BY AllocMeta
  <2> QED
    BY <1>3, <2>1 DEF RootAdded
<1>6. PICK own2 : own2 = [o \in Offsets' |-> IF o = new THEN Keys ELSE own[o]]
  OBVIOUS
<1>7. /\ own2 \in [Offsets' -> SUBSET Keys] /\ own2[new] = Keys
      /\ \A o \in Offsets : own2[o] = own[o]
  <2>1. \A o \in Offsets : own[o] \in SUBSET Keys
    BY DEF Ord
  <2> QED
    BY <1>4, <1>6, <2>1
<1>8. \A o \in Offsets' : Region(own2)'[o] = own2[o]
  BY <1>1 DEF Region
<1>9. /\ own[call.old] \cup own[call.after] = Keys
      /\ Divides(call.key, own[call.old], own[call.after])
  <2>1. Region(own)[call.old] = own[call.old] \cup own[call.after]
    BY <1>1, <1>2 DEF Region
  <2> QED
    BY <1>1, <1>2, <2>1 DEF Ord
<1>10. IndexOrder(root.children, Keys, Region(own2)')
  <2> DEFINE c == root.children
  <2>1. /\ Len(c) = 2 /\ c[1].key = call.key /\ c[1].child = call.old
        /\ c[2].child = call.after
    BY <1>4 DEF Entry
  <2> HIDE DEF c
  <2>2. ASSUME NEW k \in Keys
        PROVE  /\ Within(c, 1, k) <=> k < call.key
               /\ Within(c, 2, k) <=> call.key <= k
    <3>1. /\ \A j \in 1..(1 - 1) : FALSE
          /\ \A j \in 1..(Len(c) - 1) : j = 1
          /\ \A j \in 1..(2 - 1) : j = 1
          /\ \A j \in 2..(Len(c) - 1) : FALSE
          /\ 1 \in 1..(Len(c) - 1) /\ 1 \in 1..(2 - 1)
      BY <2>1
    <3>2. Within(c, 1, k) <=> k < c[1].key
      <4>1. Within(c, 1, k) => k < c[1].key
        BY <3>1 DEF Within
      <4>2. ASSUME k < c[1].key
            PROVE  Within(c, 1, k)
        BY <3>1, <4>2 DEF Within
      <4> QED
        BY <4>1, <4>2
    <3>3. Within(c, 2, k) <=> c[1].key <= k
      <4>1. Within(c, 2, k) => c[1].key <= k
        BY <3>1 DEF Within
      <4>2. ASSUME c[1].key <= k
            PROVE  Within(c, 2, k)
        BY <3>1, <4>2 DEF Within
      <4> QED
        BY <4>1, <4>2
    <3>4. c[1].key = call.key
      BY <2>1
    <3> QED
      BY <3>2, <3>3, <3>4, Zenon
  <2>3. ASSUME NEW k \in Keys
        PROVE  k < call.key <=> ~(call.key <= k)
    <3>1. k \in Nat /\ call.key \in Nat
      BY <1>2, KeysAssumption
    <3> QED
      BY <3>1
  <2>4. /\ Region(own2)'[c[1].child] = own[call.old]
        /\ Region(own2)'[c[2].child] = own[call.after]
    BY <1>2, <1>4, <1>7, <1>8, <2>1
  <2>5. /\ own[call.old] = {k \in Keys : Within(c, 1, k)}
        /\ own[call.after] = {k \in Keys : Within(c, 2, k)}
    BY <1>9, <2>2, <2>3 DEF Divides
  <2>6. \A i \in 1..Len(c) : i = 1 \/ i = 2
    BY <2>1
  <2>7. \A i \in 1..(Len(c) - 1) : i = 1
    BY <2>1
  <2>8. \A i \in 1..Len(c) :
            Region(own2)'[c[i].child] = {k \in Keys : Within(c, i, k)}
    BY <2>4, <2>5, <2>6
  <2>9. SortedTo(c, Len(c) - 1)
    BY <2>7 DEF SortedTo
  <2>10. \A i \in 1..(Len(c) - 1) : c[i].key \in Keys
    BY <1>2, <2>1, <2>7
  <2> QED
    BY <2>8, <2>9, <2>10 DEF IndexOrder, c
<1>11. ASSUME NEW o \in Offsets', IsInternal(o)'
       PROVE  IndexOrder(disk'[o].children, own2[o], Region(own2)')
  <2>1. CASE o = new
    BY <1>4, <1>7, <1>10, <2>1
  <2>2. CASE o # new
    <3>1. o \in Offsets /\ IsInternal(o) /\ disk'[o].children = disk[o].children
      BY <1>4, <1>11, <2>2 DEF IsInternal
    <3>2. IndexOrder(disk[o].children, own[o], Region(own)) /\ own2[o] = own[o]
      BY <1>7, <3>1 DEF Ord
    <3>3. ASSUME NEW i \in 1..Len(disk[o].children)
          PROVE  Region(own2)'[disk[o].children[i].child]
                     = Region(own)[disk[o].children[i].child]
      <4> DEFINE x == disk[o].children[i].child
      <4>1. x \in Offsets /\ x # call.old
        <5>1. x \in Offsets /\ (x = call.old => o = call.offset)
          BY <1>1, <3>1, OnlyParentLists
        <5>2. o # 0
          BY <3>1 DEF Offsets
        <5> QED
          BY <1>1, <5>1, <5>2
      <4> HIDE DEF x
      <4>2. Region(own)[x] = own[x]
        BY <4>1 DEF Region
      <4>3. Region(own2)'[x] = own[x]
        BY <1>4, <1>7, <1>8, <4>1
      <4> QED
        BY <4>2, <4>3 DEF x
    <3> QED
      BY <3>1, <3>2, <3>3, SameOrder
  <2> QED
    BY <2>1, <2>2
<1>12. \A o \in Offsets' : IsLeaf(o)' =>
           /\ o \in Offsets /\ IsLeaf(o) /\ own2[o] = own[o]
           /\ disk'[o].children = disk[o].children
  BY <1>4, <1>7 DEF IsLeaf
<1>13. \A o \in Offsets' : IsLeaf(o)' => LeafOrder(disk'[o].children, own2[o])
  BY <1>12 DEF Ord
<1>14. \A o, p \in Offsets' : IsLeaf(o)' /\ IsLeaf(p)' /\ o # p =>
           own2[o] \cap own2[p] = {}
  BY <1>12 DEF Ord
<1>15. Region(own2)'[meta'.root_offset] = Keys
  BY <1>4, <1>5, <1>7, <1>8
<1>16. Ord(own2)'
  BY <1>1, <1>7, <1>11, <1>13, <1>14, <1>15 DEF Ord
<1> QED
  BY <1>16 DEF OrdInv

(* insert_key_to_index enters the pending block into a node with room. *)
LEMMA IntoIndexOrd ==
    ASSUME NEW lev, Inv(lev), LinkInv, NEW own, Ord(own), insert_into_index
    PROVE  OrdInv'
<1>1. /\ Inserting /\ call.offset # 0 /\ ~Inserting' /\ ~Searching'
      /\ UNCHANGED meta
  BY DEF insert_into_index, Inserting, Searching, Idle
<1>2. /\ call.old \in Offsets /\ call.after \in Offsets /\ call.key \in Keys
      /\ call.offset \in Offsets /\ lev[call.offset] > 0 /\ call.key \in Nat
      /\ lev[call.old] < lev[call.offset] /\ lev[call.after] < lev[call.offset]
  <2>1. /\ call.old \in Offsets /\ call.after \in Offsets /\ call.key \in Keys
        /\ call.offset \in Offsets /\ lev[call.offset] \in Nat \ {0}
        /\ lev[call.offset] = lev[call.old] + 1 /\ lev[call.old] = lev[call.after]
    BY <1>1, InsertCall
  <2>2. lev[call.old] \in Nat
    BY <2>1, BlockFacts
  <2>3. call.key \in Nat
    BY <2>1, KeysAssumption
  <2>4. /\ lev[call.old] < lev[call.offset] /\ lev[call.after] < lev[call.offset]
        /\ lev[call.offset] > 0
    BY <2>1, <2>2
  <2> QED
    BY <2>1, <2>3, <2>4
<1>3. PICK q, b : IndexWritten(q, b)
  BY IndexWrittenEffect
<1> DEFINE c == disk[q].children
           S == own[q]
           U == Region(own)
<1>4. /\ q = call.offset /\ q \in Offsets /\ disk' = unmap(disk, q, b)
      /\ b.kind = "internal"
      /\ EntryAdded(c, Entries, upper_bound(c, Len(c) - 1, call.key),
                    call.key, call.after, b.children)
  BY <1>3 DEF IndexWritten, InternalNodes
<1>5. /\ IsInternal(q) /\ c \in Seq(Entries) /\ Len(c) \in Nat
      /\ DOMAIN c = 1..Len(c)
  <2>1. IsInternal(q) /\ c \in Seq(Entries)
    BY <1>2, <1>4, IndexFacts
  <2> QED
    BY <2>1
<1>6. disk'[q] = b /\ \A o \in Offsets \ {q} : disk'[o] = disk[o]
  BY <1>4, SlotPositive DEF unmap
<1>7. Offsets' = Offsets
  BY <1>1 DEF Offsets
<1>8. \A o \in Offsets : /\ Region(own)'[o] = own[o]
                         /\ U[o] = IF o = call.old THEN own[o] \cup own[call.after]
                                   ELSE own[o]
  BY <1>1, <1>2, <1>7 DEF Region
<1>9. PICK x \in 1..Len(c) : c[x].child = call.old
  BY <1>1, <1>2, <1>4, <1>5, OldListed DEF Lists
<1>10. NoneTwice(c)
  BY <1>4, <1>5 DEF LinkInv, ChildLinks
<1>11. IndexOrder(b.children, S, Region(own)')
  <2>1. IndexOrder(c, S, U) /\ S \in SUBSET Nat
    <3>1. S \in SUBSET Keys
      BY <1>4 DEF Ord
    <3> QED
      BY <1>4, <1>5, <3>1, KeysAssumption DEF Ord
  <2>2. ASSUME NEW i \in 1..Len(c), i # x
        PROVE  Region(own)'[c[i].child] = U[c[i].child]
    <3>1. c[i].child \in Offsets
      BY <1>4, <1>5, OnlyParentLists
    <3>2. c[i].child # call.old
      <4>1. i < x \/ x < i
        BY <1>5, <2>2
      <4> QED
        BY <1>5, <1>9, <1>10, <4>1 DEF NoneTwice
    <3> QED
      BY <1>8, <3>1, <3>2
  <2>3. /\ U[c[x].child] = own[call.old] \cup own[call.after]
        /\ Region(own)'[c[x].child] = own[call.old]
        /\ Region(own)'[call.after] = own[call.after]
    BY <1>2, <1>8, <1>9
  <2>4. HandedOver(c, x, U, Region(own)', call.after, own[call.old], own[call.after])
    BY <2>2, <2>3 DEF HandedOver
  <2>5. Divides(call.key, own[call.old], own[call.after])
    BY <1>1 DEF Ord
  <2> HIDE DEF c, S, U
  <2> QED
    BY <1>2, <1>4, <1>5, <2>1, <2>4, <2>5, EntryOrder
<1>12. ASSUME NEW o \in Offsets, IsInternal(o)'
       PROVE  IndexOrder(disk'[o].children, own[o], Region(own)')
  <2>1. CASE o = q
    BY <1>6, <1>11, <2>1
  <2>2. CASE o # q
    <3>1. IsInternal(o) /\ disk'[o] = disk[o]
      BY <1>6, <1>12, <2>2 DEF IsInternal
    <3>2. IndexOrder(disk[o].children, own[o], U)
      BY <3>1 DEF Ord
    <3>3. ASSUME NEW i \in 1..Len(disk[o].children)
          PROVE  Region(own)'[disk[o].children[i].child] = U[disk[o].children[i].child]
      <4>1. /\ disk[o].children[i].child \in Offsets
            /\ disk[o].children[i].child # call.old
        BY <1>1, <1>4, <2>2, <3>1, OnlyParentLists
      <4> QED
        BY <1>8, <4>1
    <3> QED
      BY <3>1, <3>2, <3>3, SameOrder
  <2> QED
    BY <2>1, <2>2
<1>13. \A o \in Offsets : IsLeaf(o)' => IsLeaf(o) /\ disk'[o] = disk[o]
  BY <1>4, <1>6 DEF IsLeaf
<1>14. \A o \in Offsets : IsLeaf(o)' => LeafOrder(disk'[o].children, own[o])
  BY <1>13 DEF Ord
<1>15. \A o, p \in Offsets : IsLeaf(o)' /\ IsLeaf(p)' /\ o # p =>
           own[o] \cap own[p] = {}
  BY <1>13 DEF Ord
<1>16. Region(own)'[meta'.root_offset] = Keys
  <2>1. meta.root_offset \in Offsets /\ meta'.root_offset = meta.root_offset
    BY <1>1 DEF Inv, MetaOK
  <2>2. meta.root_offset # call.old
    BY <1>1 DEF LinkInv, PendingLinks
  <2> QED
    BY <1>8, <2>1, <2>2 DEF Ord
<1>17. own \in [Offsets -> SUBSET Keys]
  BY DEF Ord
<1>18. Ord(own)'
  BY <1>1, <1>7, <1>12, <1>14, <1>15, <1>16, <1>17 DEF Ord
<1> QED
  BY <1>18 DEF OrdInv

(* insert_key_to_index splits a full node: the key that moves up divides   *)
(* the keys of the node, and the new entry goes into the half that owns    *)
(* its key.                                                                *)
LEMMA SplitIndexOrd ==
    ASSUME NEW lev, Inv(lev), LinkInv, NEW own, Ord(own), insert_split_index
    PROVE  OrdInv'
<1>1. /\ Inserting /\ call.offset # 0 /\ meta' = alloc_internal(meta)
  BY DEF insert_split_index, Inserting
<1>2. /\ call.old \in Offsets /\ call.after \in Offsets /\ call.key \in Keys
      /\ call.offset \in Offsets /\ lev[call.offset] > 0 /\ call.key \in Nat
      /\ call.old # call.offset /\ call.after # call.offset
      /\ call.old # call.after
  <2>1. /\ call.old \in Offsets /\ call.after \in Offsets /\ call.key \in Keys
        /\ call.offset \in Offsets /\ lev[call.offset] \in Nat \ {0}
        /\ lev[call.offset] = lev[call.old] + 1 /\ lev[call.old] = lev[call.after]
    BY <1>1, InsertCall
  <2>2. lev[call.old] \in Nat
    BY <2>1, BlockFacts
  <2>3. call.key \in Nat
    BY <2>1, KeysAssumption
  <2>4. /\ call.old # call.offset /\ call.after # call.offset
        /\ lev[call.offset] > 0
    BY <2>1, <2>2
  <2>5. call.old # call.after
    BY <1>1 DEF LinkInv, PendingLinks
  <2> QED
    BY <2>1, <2>3, <2>4, <2>5
<1>3. PICK q, new, l, r : IndexSplit(q, new, l, r)
  BY IndexSplitEffect
<1> DEFINE c == disk[q].children
           S == own[q]
           U == Region(own)
           up == call'.key
           Lo == Below(S, up)
           Hi == FromOn(S, up)
<1>4. /\ q = call.offset /\ q \in Offsets /\ new \notin Offsets
      /\ Offsets' = Offsets \cup {new}
      /\ Len(c) = ORDER
      /\ disk'[q] = l /\ disk'[q].kind = "internal"
      /\ disk'[new] = r /\ disk'[new].kind = "internal"
      /\ call'.proc = "insert_key_to_index"
      /\ call'.old = q /\ call'.after = new
      /\ IndexHalves(c, l.children, r.children)
  BY <1>3 DEF IndexSplit, Offsets, NullableOffsets, InternalNodes
<1>5. \A o \in Offsets \ {q} : /\ disk'[o].kind = disk[o].kind
                               /\ disk'[o].children = disk[o].children
  BY <1>3 DEF IndexSplit
<1>6. /\ IsInternal(q) /\ c \in Seq(Entries) /\ DOMAIN c = 1..ORDER
  <2>1. IsInternal(q) /\ c \in Seq(Entries)
    BY <1>2, <1>4, IndexFacts
  <2> QED
    BY <1>4, <2>1
<1>7. PICK own2 : own2 = [o \in Offsets' |-> IF o = q THEN Lo
                                             ELSE IF o = new THEN Hi ELSE own[o]]
  OBVIOUS
<1>8. /\ own2[q] = Lo /\ own2[new] = Hi /\ q # new
      /\ \A o \in Offsets \ {q} : own2[o] = own[o]
  <2> HIDE DEF Lo, Hi
  <2> QED
    BY <1>4, <1>7
<1>9. Inserting' /\ ~Searching'
  BY <1>4 DEF Inserting, Searching
<1>10. /\ \A o \in Offsets \ {q} : Region(own2)'[o] = own[o]
       /\ Region(own2)'[q] = Lo \cup Hi
       /\ \A o \in Offsets : U[o] = IF o = call.old THEN own[o] \cup own[call.after]
                                    ELSE own[o]
  <2>1. \A o \in Offsets' : Region(own2)'[o] =
            own2[o] \cup (IF o = q THEN own2[new] ELSE {})
    BY <1>4, <1>9 DEF Region
  <2>2. \A o \in Offsets : U[o] = IF o = call.old THEN own[o] \cup own[call.after]
                                  ELSE own[o]
    BY <1>1, <1>2 DEF Region
  <2>3. ASSUME NEW o \in Offsets, o # q
        PROVE  Region(own2)'[o] = own[o]
    <3> HIDE DEF Lo, Hi, U
    <3>1. o \in Offsets' /\ own2[o] = own[o]
      BY <1>4, <1>8, <2>3
    <3>2. Region(own2)'[o] = own2[o] \cup {}
      BY <2>1, <2>3, <3>1
    <3> QED
      BY <3>1, <3>2
  <2>4. q \in Offsets' /\ Region(own2)'[q] = own2[q] \cup own2[new]
    BY <1>4, <2>1
  <2> HIDE DEF Lo, Hi, U
  <2>5. Region(own2)'[q] = Lo \cup Hi
    BY <1>8, <2>4
  <2> QED
    BY <2>2, <2>3, <2>5
<1>11. IndexOrder(c, S, U) /\ S \in SUBSET Nat /\ S \in SUBSET Keys
  <2>1. S \in SUBSET Keys
    BY <1>4 DEF Ord
  <2> QED
    BY <1>4, <1>6, <2>1, KeysAssumption DEF Ord
<1>12. NoneTwice(c)
  BY <1>4, <1>6 DEF LinkInv, ChildLinks
<1>13. PICK x \in 1..ORDER : c[x].child = call.old
  BY <1>1, <1>4, <1>6, OldListed DEF Lists
<1>14. /\ up \in S /\ Lo # {}
       /\ IndexOrder(l.children, Lo, Region(own2)')
       /\ IndexOrder(r.children, Hi, Region(own2)')
  <2>1. Divides(call.key, own[call.old], own[call.after])
    BY <1>1 DEF Ord
  <2>2. /\ U[call.old] = own[call.old] \cup own[call.after]
        /\ Region(own2)'[call.old] = own[call.old]
        /\ Region(own2)'[call.after] = own[call.after]
    BY <1>2, <1>4, <1>10
  <2>3. ASSUME NEW y, Lists(c, y), y # call.old
        PROVE  Region(own2)'[y] = U[y]
    <3>1. y \in Offsets /\ y # q
      BY <1>4, <1>6, <2>3, ListedBlocks
    <3> QED
      BY <1>10, <2>3, <3>1
  <2> HIDE DEF c, S, U
  <2>4. PICK U2 : U2 = Region(own2)'
    OBVIOUS
  <2>5. PICK A, B : A = own[call.old] /\ B = own[call.after]
    OBVIOUS
  <2>6. /\ Divides(call.key, A, B) /\ U[call.old] = A \cup B
        /\ U2[call.old] = A /\ U2[call.after] = B
        /\ \A y : Lists(c, y) /\ y # call.old => U2[y] = U[y]
    BY <2>1, <2>2, <2>3, <2>4, <2>5
  <2> HIDE DEF up, Lo, Hi
  <2>7. PICK lc, rc, V, d, T : /\ lc = l.children /\ rc = r.children
                               /\ V = U /\ d = c /\ T = S
    OBVIOUS
  <2>8. HalvesOf(d, T, V, U2, x, A, B, lc, rc)
    BY <1>2, <1>4, <1>6, <1>11, <1>12, <1>13, <2>6, <2>7 DEF HalvesOf, HalvesAt
  <2>9. /\ call'.key \in T /\ Below(T, call'.key) # {}
        /\ IndexOrder(lc, Below(T, call'.key), U2)
        /\ IndexOrder(rc, FromOn(T, call'.key), U2)
    BY <2>8, IndexHalvesOrder
  <2> QED
    BY <2>4, <2>7, <2>9 DEF up, Lo, Hi
<1>15. Divides(up, Lo, Hi) /\ Lo \cup Hi = S
  <2> HIDE DEF S, up
  <2> QED
    BY <1>11, <1>14, DivideAt
<1> HIDE DEF Lo, Hi
<1>16. own2 \in [Offsets' -> SUBSET Keys]
  <2>1. Lo \in SUBSET Keys /\ Hi \in SUBSET Keys
    BY <1>11, <1>15
  <2>2. \A o \in Offsets : own[o] \in SUBSET Keys
    BY DEF Ord
  <2> QED
    BY <1>4, <1>7, <2>1, <2>2
<1>17. ASSUME NEW o \in Offsets', IsInternal(o)'
       PROVE  IndexOrder(disk'[o].children, own2[o], Region(own2)')
  <2>1. CASE o = q
    BY <1>4, <1>8, <1>14, <2>1
  <2>2. CASE o = new
    BY <1>4, <1>8, <1>14, <2>2
  <2>3. CASE o # q /\ o # new
    <3>1. /\ o \in Offsets /\ IsInternal(o) /\ disk'[o].children = disk[o].children
          /\ own2[o] = own[o]
      BY <1>4, <1>5, <1>8, <1>17, <2>3 DEF IsInternal
    <3>2. IndexOrder(disk[o].children, own[o], U)
      BY <3>1 DEF Ord
    <3>3. ASSUME NEW i \in 1..Len(disk[o].children)
          PROVE  Region(own2)'[disk[o].children[i].child] = U[disk[o].children[i].child]
      <4> DEFINE y == disk[o].children[i].child
      <4>1. y \in Offsets /\ y # call.old
        BY <1>1, <1>4, <2>3, <3>1, OnlyParentLists
      <4> HIDE DEF y
      <4>2. U[y] = own[y] /\ (y # q => Region(own2)'[y] = own[y])
        BY <1>10, <4>1
      <4>3. y = q => Region(own2)'[y] = own[y]
        BY <1>10, <1>15
      <4> QED
        BY <4>2, <4>3 DEF y
    <3> QED
      BY <3>1, <3>2, <3>3, SameOrder
  <2> QED
    BY <2>1, <2>2, <2>3
<1>18. \A o \in Offsets' : IsLeaf(o)' =>
           /\ o \in Offsets /\ IsLeaf(o) /\ own2[o] = own[o]
           /\ disk'[o].children = disk[o].children
  BY <1>4, <1>5, <1>8 DEF IsLeaf
<1>19. \A o \in Offsets' : IsLeaf(o)' => LeafOrder(disk'[o].children, own2[o])
  BY <1>18 DEF Ord
<1>20. \A o, p \in Offsets' : IsLeaf(o)' /\ IsLeaf(p)' /\ o # p =>
           own2[o] \cap own2[p] = {}
  BY <1>18 DEF Ord
<1>21. Region(own2)'[meta'.root_offset] = Keys
  <2>1. meta'.root_offset = meta.root_offset /\ meta.root_offset \in Offsets
    BY <1>1, AllocMeta DEF Inv, MetaOK
  <2>2. meta.root_offset # call.old
    BY <1>1 DEF LinkInv, PendingLinks
  <2>3. own[meta.root_offset] = Keys
    BY <1>10, <2>1, <2>2 DEF Ord
  <2> QED
    BY <1>10, <1>15, <2>1, <2>3
<1>22. Divides(call'.key, own2[call'.old], own2[call'.after])
  BY <1>4, <1>8, <1>15
<1>23. Ord(own2)'
  BY <1>9, <1>16, <1>17, <1>19, <1>20, <1>21, <1>22 DEF Ord
<1> QED
  BY <1>23 DEF OrdInv

(* Every step preserves the order. *)
LEMMA NextOrd == IInv /\ LinkInv /\ OrdInv /\ [Next]_vars => OrdInv'
<1> SUFFICES ASSUME IInv, LinkInv, OrdInv, [Next]_vars
             PROVE  OrdInv'
  OBVIOUS
<1>0. PICK lev : Inv(lev)
  BY DEF IInv
<1>1. PICK own : Ord(own)
  BY DEF OrdInv
<1>2. CASE \/ BeginAny \/ search_index \/ search \/ update
           \/ insert_same_key \/ insert_into_leaf
  <2>1. Ord(own)'
    BY <1>0, <1>1, <1>2, QuietOrd
  <2> QED
    BY <2>1 DEF OrdInv
<1>3. CASE insert_split_leaf
  BY <1>0, <1>1, <1>3, SplitLeafOrd
<1>4. CASE insert_new_root
  BY <1>0, <1>1, <1>4, NewRootOrd
<1>5. CASE insert_into_index
  BY <1>0, <1>1, <1>5, IntoIndexOrd
<1>6. CASE insert_split_index
  BY <1>0, <1>1, <1>6, SplitIndexOrd
<1>7. CASE UNCHANGED vars
  <2>1. /\ Offsets' = Offsets /\ Region(own)' = Region(own)
        /\ UNCHANGED <<meta, disk, call>>
    BY <1>7 DEF vars, Offsets, Region, Inserting
  <2>2. Ord(own)'
    BY <1>1, <2>1 DEF Ord, Inserting, Searching, IsInternal, IsLeaf
  <2> QED
    BY <2>2 DEF OrdInv
<1> QED
  BY <1>2, <1>3, <1>4, <1>5, <1>6, <1>7 DEF Next, Step

(* The invariant as a whole. *)
LEMMA OrderInvariant == Spec => [](IInv /\ LinkInv /\ OrdInv)
<1>1. Init => IInv /\ LinkInv /\ OrdInv
  BY InitIInv, InitLinks, InitOrd
<1>2. (IInv /\ LinkInv /\ OrdInv) /\ [Next]_vars => (IInv /\ LinkInv /\ OrdInv)'
  BY NextIInv, NextLinks, NextOrd
<1> QED
  BY <1>1, <1>2, PTL DEF Spec

(* Every node is sorted over the range on which find() and the searches in *)
(* leaves run, at every step of every call: the precondition of            *)
(* std::upper_bound and std::lower_bound always holds, and no separator or *)
(* key is entered twice.                                                   *)
THEOREM AlwaysSorted == Spec => []NodesSorted
<1>1. IInv /\ OrdInv => NodesSorted
  <2> SUFFICES ASSUME IInv, OrdInv
               PROVE  NodesSorted
    OBVIOUS
  <2>1. PICK lev : Inv(lev)
    BY DEF IInv
  <2>2. PICK own : Ord(own)
    BY DEF OrdInv
  <2>3. ASSUME NEW o \in DOMAIN disk
        PROVE  LET c == disk[o].children
                   n == IF disk[o].kind = "leaf" THEN Len(c) ELSE Len(c) - 1
               IN  \A i \in 1..(n - 1) : c[i].key < c[i + 1].key
    <3> DEFINE c == disk[o].children
               n == IF disk[o].kind = "leaf" THEN Len(c) ELSE Len(c) - 1
    <3>1. o \in Offsets /\ Len(c) \in Nat
      BY <2>1, BlockFacts DEF Inv
    <3>2. SortedTo(c, n)
      <4>1. CASE IsLeaf(o)
        BY <2>2, <3>1, <4>1 DEF Ord, LeafOrder, IsLeaf
      <4>2. CASE ~IsLeaf(o)
        <5>1. IsInternal(o)
          BY <2>1, <3>1, <4>2, BlockFacts
        <5>2. IndexOrder(c, own[o], Region(own))
          BY <2>2, <3>1, <5>1 DEF Ord
        <5> QED
          BY <4>2, <5>2 DEF IndexOrder, IsLeaf
      <4> QED
        BY <4>1, <4>2
    <3>3. n \in Int
      BY <3>1
    <3> HIDE DEF c, n
    <3>4. ASSUME NEW i \in 1..(n - 1)
          PROVE  c[i].key < c[i + 1].key
      BY <3>2, <3>3 DEF SortedTo
    <3> QED
      BY <3>4 DEF c, n
  <2> QED
    BY <2>3 DEF NodesSorted
<1> QED
  BY <1>1, OrderInvariant, PTL

(* The keys a leaf owns are in no other leaf. *)
LEMMA OwnerFound ==
    ASSUME IInv, OrdInv
    PROVE  LeafOwnsKey
<1> SUFFICES ASSUME Searching, call.height = 1,
                    NEW o \in Offsets, IsLeaf(o),
                    binary_search(disk[o], call.key)
             PROVE  o = search_leaf
  BY DEF LeafOwnsKey, Searching
<1>1. PICK lev : Inv(lev)
  BY DEF IInv
<1>2. PICK own : Ord(own)
  BY DEF OrdInv
<1>3. search_leaf \in Offsets /\ IsLeaf(search_leaf)
  BY <1>1, LeafReached
<1>4. call.key \in own[search_leaf]
  BY <1>1, <1>2, DescendOwn DEF search_leaf
<1>5. call.key \in own[o]
  <2>1. disk[o].children \in Seq(Records)
    BY <1>1, BlockFacts DEF LeafNodes
  <2>2. DOMAIN disk[o].children = 1..Len(disk[o].children)
    BY <2>1
  <2>3. LeafOrder(disk[o].children, own[o])
    BY <1>2 DEF Ord
  <2> QED
    BY <2>2, <2>3 DEF LeafOrder, binary_search
<1> HIDE DEF search_leaf
<1> QED
  BY <1>2, <1>3, <1>4, <1>5 DEF Ord

(* Whenever a search, an insert or an update has descended to the node     *)
(* above the leaves, the leaf it goes to is the only one in the file that  *)
(* can hold the key: a search misses no record, and an insert never stores *)
(* a key a second time.                                                    *)
THEOREM SearchFindsOwner == Spec => []LeafOwnsKey
<1>1. IInv /\ OrdInv => LeafOwnsKey
  BY OwnerFound
<1> QED
  BY <1>1, OrderInvariant, PTL
=============================================================================
