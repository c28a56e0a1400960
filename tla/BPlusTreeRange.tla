---------------------------- MODULE BPlusTreeRange ----------------------------
(***************************************************************************)
(* bplus_tree::search_range of common/bpt.cc: the records from *left to    *)
(* right, at most max of them, copied leaf by leaf; *next and *left tell   *)
(* the caller how to go on.  The caller may change the tree between calls. *)
(***************************************************************************)
EXTENDS BPlusTreeInvariants

CONSTANT MaxSizes   \* the sizes of the caller's array

ASSUME RangeAssumption == MaxSizes \subseteq Nat \ {0}

VARIABLE scan       \* the search_range being executed, or executed last

NoScan   == [at |-> "none"]
Scanning == scan.at \in {"leaves", "mark"}

(* search_leaf(key): the descent through the index. *)
LeafFor(key) ==
    LET down(org) == disk[org].children[find_index(disk[org], key)].child
        org[level \in 0..meta.height] ==
            IF level = 0 THEN meta.root_offset ELSE down(org[level - 1])
    IN  org[meta.height]

(* left > right returns -1 at once. *)
search_range(left, right, max) ==
    /\ call = Idle
    /\ \/ scan = NoScan
       \/ scan.at = "done" /\ scan.next       \* the caller's next iteration
          /\ left = scan.left /\ right = scan.right /\ max = scan.max
    /\ left <= right
    /\ scan' = [at |-> "leaves", left |-> left, right |-> right, max |-> max,
                off |-> LeafFor(left), values |-> <<>>, b |-> 0, e |-> 0,
                block |-> 0, next |-> FALSE, from |-> left]
    /\ UNCHANGED vars

(* The records first to past - 1 of a leaf, as many as fit. *)
Copy(off, first, past) ==
    LET room == scan.max - Len(scan.values)
        n    == IF past - first < room THEN past - first ELSE room
    IN  [scan EXCEPT !.values = @ \o SubSeq(disk[off].children, first, first + n - 1),
                     !.b = first + n, !.e = past, !.block = off]

(* One turn of the loop over the leaves before the last one. *)
CopyLeaf ==
    LET node  == disk[scan.off]
        first == IF scan.off = LeafFor(scan.left) THEN find_record(node, scan.left) ELSE 1
    IN
    /\ scan.at = "leaves"
    /\ scan.off # LeafFor(scan.right) /\ scan.off # 0
    /\ Len(scan.values) < scan.max
    /\ scan' = [Copy(scan.off, first, Len(node.children) + 1) EXCEPT !.off = node.next]
    /\ UNCHANGED vars

\* Mutant: a record equal to right is left out.
LastLeafLower ==
    LET off  == LeafFor(scan.right)
        node == disk[off]
    IN
    /\ scan.at = "leaves"
    /\ scan.off = off \/ scan.off = 0 \/ Len(scan.values) = scan.max
    /\ scan' = [(IF Len(scan.values) = scan.max THEN scan
                 ELSE Copy(off, find_record(node, scan.left), find_record(node, scan.right)))
               EXCEPT !.at = "mark"]
    /\ UNCHANGED vars

LastLeaf ==
    LET off  == LeafFor(scan.right)
        node == disk[off]
    IN
    /\ scan.at = "leaves"
    /\ scan.off = off \/ scan.off = 0 \/ Len(scan.values) = scan.max
    /\ scan' = [(IF Len(scan.values) = scan.max THEN scan
                 ELSE Copy(off, find_record(node, scan.left),
                           upper_bound(node.children, Len(node.children), scan.right)))
               EXCEPT !.at = "mark"]
    /\ UNCHANGED vars

\* Mutant: goes on at the record copied last.
MarkLast ==
    /\ scan.at = "mark"
    /\ LET more == Len(scan.values) = scan.max /\ scan.b # scan.e
       IN  scan' = [scan EXCEPT !.at = "done", !.next = more,
                       !.left = IF more THEN disk[scan.block].children[scan.b - 1].key
                                ELSE scan.left]
    /\ UNCHANGED vars

(* "mark for next iteration" *)
Mark ==
    /\ scan.at = "mark"
    /\ LET more == Len(scan.values) = scan.max /\ scan.b # scan.e
       IN  scan' = [scan EXCEPT !.at = "done", !.next = more,
                       !.left = IF more THEN disk[scan.block].children[scan.b].key
                                ELSE scan.left]
    /\ UNCHANGED vars

RangeStep == CopyLeaf \/ LastLeaf \/ Mark

(* A caller searches ranges and, once a call has returned, turns to the     *)
(* other calls; then it starts anew.                                        *)
RangeInit == Init /\ scan = NoScan

RangeNext ==
    \/ Next /\ ~Scanning /\ scan' = NoScan
    \/ \E left, right \in Keys, max \in MaxSizes : search_range(left, right, max)
    \/ RangeStep

RangeSpec == RangeInit /\ [][RangeNext]_<<vars, scan>>

-----------------------------------------------------------------------------
InRange == {k \in DOMAIN Contents : scan.from <= k /\ k <= scan.right}
Copied  == {scan.values[i].key : i \in DOMAIN scan.values}

(* A call returns the smallest keys of the range, in order and with their  *)
(* values, none left out and none twice, and as many as fit or exist.      *)
RangeExact ==
    scan.at = "done" =>
        LET range == InRange
            size  == Cardinality(range)
        IN  /\ Len(scan.values) = IF size < scan.max THEN size ELSE scan.max
            /\ \A i \in DOMAIN scan.values :
                  /\ scan.values[i].key \in range
                  /\ scan.values[i].value = Contents[scan.values[i].key]
                  /\ Cardinality({k \in range : k < scan.values[i].key}) = i - 1

(* When *next is set, *left is where the caller goes on: the smallest key  *)
(* of the range that was not returned.                                     *)
NextLeft ==
    scan.at = "done" /\ scan.next =>
        LET rest == InRange \ Copied
        IN  scan.left \in rest /\ \A k \in rest : scan.left <= k

(* bpt.cc: "mark for next iteration": *next is false only when nothing of  *)
(* the range is left for a next iteration.                                 *)
NextMarked == scan.at = "done" /\ ~scan.next => InRange \subseteq Copied
=============================================================================
