----------------------------- MODULE MCBPlusTree -----------------------------
(***************************************************************************)
(* Instances of the whole B+ tree.  A history makes the calls of a script, *)
(* which bring the tree into a shape worth exploring, then some calls of   *)
(* its choice: a scene names the script, the number of these calls, the    *)
(* operations, the keys and the values.                                    *)
(***************************************************************************)
EXTENDS BPlusTreeRemove, BPlusTreeRange

CONSTANTS v1, v2,      \* the values
          Scenes     \* what is explored: records of the fields below

VARIABLES script,    \* the calls <<operation, key>> still to be made at first
          scene      \* then calls of choice: how many, which, on which keys

mcvars == <<vars, scan, script, scene>>

MCInit == /\ Init
          /\ scan = NoScan
          /\ scene \in Scenes
          /\ script = scene.script

Replay == /\ script # <<>>
          /\ Begin(Head(script)[1], Head(script)[2], v1)
          /\ script' = Tail(script)
          /\ UNCHANGED <<scan, scene>>

Operate == /\ script = <<>>
           /\ scene.calls > 0
           /\ ~Scanning
           /\ BeginAny \/ BeginRemove
           /\ call'.op \in scene.ops /\ call'.key \in scene.keys
           /\ call'.value \in scene.values \cup {NoValue}
           /\ scan' = NoScan
           /\ scene' = [scene EXCEPT !.calls = @ - 1]
           /\ UNCHANGED script

Scan  == /\ script = <<>>
         /\ \E left, right \in scene.keys, max \in MaxSizes :
                search_range(left, right, max)
         /\ "search_range" \in scene.ops
         /\ UNCHANGED <<script, scene>>

Work == \/ (Step \/ RemoveStep) /\ UNCHANGED <<scan, script, scene>>
        \/ RangeStep /\ UNCHANGED <<script, scene>>

MCNext == Replay \/ Operate \/ Scan \/ Work

MCSpec == MCInit /\ [][MCNext]_mcvars /\ WF_mcvars(Work)

-----------------------------------------------------------------------------
Scene(scripts, calls, ops, keys, values) ==
    {[script |-> s, calls |-> calls, ops |-> ops, keys |-> keys,
      values |-> values] : s \in scripts}

Each(op, keys) == [i \in DOMAIN keys |-> <<op, keys[i]>>]

Ascending(n)  == [i \in 1..n |-> i]
Descending(n) == [i \in 1..n |-> n + 1 - i]
InsideOut(n)  == [i \in 1..n |-> IF i % 2 = 0 THEN (n + i) \div 2
                                ELSE n \div 2 + 1 - (i \div 2)]
Scattered(n)  == [i \in 1..n |-> (11 * i) % (n + 1)]    \* n + 1 is prime
Twice(keys)   == [i \in DOMAIN keys |-> 2 * keys[i]]   \* leaves odd keys free

(* The empty tree. *)
FromEmpty == {<<>>}

(* Trees about to split their root, for the first and the second time. *)
Growing == {Each("insert", Twice(Ascending(12))),
            Each("insert", Twice(Descending(10))),
            Each("insert", Twice(InsideOut(11)))}

Grown   == {Each("insert", Twice(Ascending(25))),
            Each("insert", Twice(Descending(22))),
            Each("insert", Twice(InsideOut(24))),
            Each("insert", Twice(Scattered(28)))}

(* One index node over two and over four leaves. *)
OneLevel  == {Each("insert", Ascending(6)), Each("insert", Descending(9))}

(* Two index nodes under the root, over three and two leaves, and over two *)
(* and three.                                                              *)
TwoLevels == {Each("insert", Descending(11)),
              Each("insert", <<12, 11, 10, 6, 5, 4, 3, 2, 1, 7, 8, 9>>)}

(* The removes merge the two index nodes, so that one becomes the root; it *)
(* is split again by the inserts.                                          *)
Regrown == {Each("insert", Descending(11)) \o Each("remove", <<6, 10, 1>>)
               \o Each("insert", <<12, 13, 14, 15, 16>>)}

(* Three index nodes under the root. *)
ThreeIndexNodes == {Each("insert", Descending(17))}

(* Four index nodes under the root, which is full. *)
FullRoot == {Each("insert", Descending(20))}

(* Insert, update, search and search_range: from the empty tree, at the    *)
(* first split of the root, at the second one, and over two levels.        *)
Growth == Scene(FromEmpty, 6, {"insert", "update", "search"}, 0..4, {v1, v2})
          \cup Scene(Growing, 2, {"insert", "update", "search"}, 0..24, {v1})
          \cup Scene(Grown, 1, {"insert", "search"}, 0..57, {v1})
          \cup Scene(TwoLevels, 1, {"insert", "search_range"}, 0..13, {v1})

(* Insert and remove. *)
Shrinking == Scene(OneLevel, 4, {"insert", "remove"}, 1..9, {v1})
             \cup Scene(TwoLevels, 4, {"remove"}, 1..12, {v1})

Lending == Scene(ThreeIndexNodes, 3, {"remove"}, 1..17, {v1})

Overfull == Scene(FullRoot, 1, {"remove"}, 1..20, {v1})

Regrowing == Scene(Regrown, 1, {"insert"}, 1..16, {v1})

Ranges  == Scene(TwoLevels, 0, {"search_range"}, 0..13, {v1})

-----------------------------------------------------------------------------
(* Every call returns: the descent reaches a leaf, and the climbs of       *)
(* insert_key_to_index, remove_from_index and change_parent_child end.     *)
CallsReturn == call # Idle ~> call = Idle

(* insert, "check if we have the same key" (bpt.cc:210), in a tree whose   *)
(* nodes' parent is the "parent node offset" (bpt.h:43): a key that is on  *)
(* the leaf chain is not accepted again.                                   *)
SameKeyRejected ==
    [][(result' # result /\ result'.op = "insert" /\ result'.code = 0)
           => result'.key \notin DOMAIN Contents]_mcvars

(* remove, "find current node" and "verify" (bpt.cc:135, 140), after       *)
(* borrow_key's "swap keys" (bpt.cc:367): a key that is on the leaf chain  *)
(* is never reported missing.                                              *)
StoredKeyFound ==
    [][(result' # result /\ result'.op = "remove" /\ result'.code = -1)
           => result'.key \notin DOMAIN Contents]_mcvars
=============================================================================
