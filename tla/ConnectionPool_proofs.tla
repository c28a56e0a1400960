------------------------ MODULE ConnectionPool_proofs ------------------------
(***************************************************************************)
(* The lists, the counters, the limit and the descriptors of the           *)
(* connection pool, for any number of threads, servers, managers, blocks   *)
(* and descriptors, and any limit.                                         *)
(*                                                                         *)
(* The properties need each other: that a counter stays a natural number   *)
(* needs the exact count, that the count is of the right manager needs the *)
(* lists, and that a list stays one needs what follows a block that is     *)
(* taken off.                                                              *)
(***************************************************************************)
EXTENDS ConnectionPool, FiniteSetTheorems, WellFoundedInduction, TLAPS

InUse == {"connecting", "used", "idle"}

(* Whatever is in use belongs to a manager, and a thread inside a call has *)
(* one.                                                                    *)
Owners ==
    /\ \A c \in Conns : state[c] # "free" => manager[c] \in Managers
    /\ \A t \in Threads : pc[t] \in {"enter", "connect"} => cm[t] \in Managers

Idle(c) == state[c] = "idle"

(* The pointers of the lists: they lead to idle blocks of their manager,   *)
(* no two to the same one, and one to every idle block.                    *)
HeadLeads == \A s \in Managers : \A c \in Conns :
    head[s] = c => Idle(c) /\ manager[c] = s

NextLeads == \A d, c \in Conns :
    Idle(d) /\ next[d] = c => Idle(c) /\ manager[d] = manager[c]

NextOnce == \A d, e, c \in Conns :
    Idle(d) /\ Idle(e) /\ next[d] = c /\ next[e] = c => d = e

HeadOrNext == \A s \in Managers : \A d, c \in Conns :
    head[s] = c /\ Idle(d) => next[d] # c

Reached == \A c \in Conns : Idle(c) =>
    (\E s \in Managers : head[s] = c) \/ (\E d \in Conns : Idle(d) /\ next[d] = c)

Lists == HeadLeads /\ NextLeads /\ NextOnce /\ HeadOrNext /\ Reached

IInv == TypeOK /\ Owners /\ Lists /\ CountersExact /\ LimitHolds /\ SocketsOwned

-----------------------------------------------------------------------------
(* Lemmas on the definitions. *)

(* The pointers as Lists says are those that ListedOnce counts. *)
LEMMA ListsCount == ASSUME Lists PROVE ListedOnce
<1>1. ASSUME NEW c \in Conns, Idle(c)
      PROVE  /\ \E x \in Links(c) : Links(c) = {x}
             /\ \A s \in Managers : head[s] = c => manager[c] = s
             /\ \A d \in Conns : state[d] = "idle" /\ next[d] = c
                                    => manager[d] = manager[c]
  <2>1. \A s \in Managers : head[s] = c => manager[c] = s
    BY DEF Lists, HeadLeads
  <2>2. \A d \in Conns : state[d] = "idle" /\ next[d] = c => manager[d] = manager[c]
    BY DEF Lists, NextLeads, Idle
  <2>3. CASE \E s \in Managers : head[s] = c
    <3>1. PICK s \in Managers : head[s] = c
      BY <2>3
    <3>2. Links(c) = {s}
      BY <2>1, <3>1 DEF Links, Lists, HeadOrNext, Idle
    <3> QED
      BY <2>1, <2>2, <3>2
  <2>4. CASE \E d \in Conns : Idle(d) /\ next[d] = c
    <3>1. PICK d \in Conns : Idle(d) /\ next[d] = c
      BY <2>4
    <3>2. \A s \in Managers : head[s] # c
      BY <3>1 DEF Lists, HeadOrNext
    <3>3. Links(c) = {d}
      BY <3>1, <3>2 DEF Links, Lists, NextOnce, Idle
    <3> QED
      BY <2>1, <2>2, <3>3
  <2> QED
    BY <1>1, <2>3, <2>4 DEF Lists, Reached
<1>2. ASSUME NEW c \in Conns, ~Idle(c)
      PROVE  Links(c) = {}
  BY <1>2 DEF Links, Lists, HeadLeads, NextLeads, Idle
<1> QED
  BY <1>1, <1>2 DEF ListedOnce, Idle

(* A set of natural numbers that is not empty has a least element. *)
LEMMA LeastFd ==
    ASSUME NEW T \in SUBSET Nat, T # {}
    PROVE  \E f \in T : \A g \in T : f <= g
<1> DEFINE R == {p \in Nat \X Nat : p[1] < p[2]}
<1>1. IsWellFoundedOn(R, Nat)
  BY NatLessThanWellFounded, Zenon DEF OpToRel
<1>2. PICK f \in T : \A g \in T : ~(<<g, f>> \in R)
  BY <1>1, WFMin, Zenon
<1>3. \A g \in T : ~(g < f)
  BY <1>2
<1> QED
  BY <1>3

(* socket() gives a descriptor that is not open. *)
LEMMA FreshFd ==
    ASSUME NEW old, SocketLeft(old)
    PROVE  /\ Reconnected(old).sock \in Fds \ (openfds \ {old})
           /\ Reconnected(old).open = (openfds \ {old}) \cup {Reconnected(old).sock}
<1> DEFINE T == Fds \ (openfds \ {old})
           fd == CHOOSE f \in T : \A g \in T : f <= g
<1>1. T \in SUBSET Nat /\ T # {}
  BY PoolAssumption DEF SocketLeft
<1>2. \E f \in T : \A g \in T : f <= g
  BY <1>1, LeastFd
<1>3. fd \in T
  BY <1>2
<1>4. /\ Reconnected(old).sock = fd
      /\ Reconnected(old).open = (openfds \ {old}) \cup {fd}
  BY DEF Reconnected
<1> QED
  BY <1>3, <1>4

(* The blocks of a manager are finitely many. *)
LEMMA OfFinite ==
    ASSUME NEW s, NEW W
    PROVE  IsFiniteSet(Of(s, W)) /\ Cardinality(Of(s, W)) \in Nat
<1>1. Of(s, W) \in SUBSET Conns /\ IsFiniteSet(Conns)
  BY PoolAssumption DEF Of
<1> QED
  BY <1>1, FS_Subset, FS_CardinalityType

(* A block c that goes to state x, of manager m, as the counts see it. *)
Moves(c, x, m) ==
    /\ state' = [state EXCEPT ![c] = x]
    /\ \A d \in Conns \ {c} : manager'[d] = manager[d]
    /\ manager'[c] = m
    /\ state[c] # "free" => manager[c] = m

LEMMA CountMove ==
    ASSUME TypeOK, NEW c \in Conns, NEW x, NEW m, Moves(c, x, m),
           NEW s, NEW W, "free" \notin W
    PROVE  /\ m # s \/ (state[c] \in W <=> x \in W) =>
                  Cardinality(Of(s, W)') = Cardinality(Of(s, W))
           /\ (m = s /\ state[c] \notin W /\ x \in W) =>
                  Cardinality(Of(s, W)') = Cardinality(Of(s, W)) + 1
           /\ (m = s /\ state[c] \in W /\ x \notin W) =>
                  /\ Cardinality(Of(s, W)') = Cardinality(Of(s, W)) - 1
                  /\ Cardinality(Of(s, W)) >= 1
<1>1. /\ state'[c] = x /\ \A d \in Conns \ {c} : state'[d] = state[d]
      /\ \A d \in Conns \ {c} : manager'[d] = manager[d]
      /\ manager'[c] = m /\ (state[c] # "free" => manager[c] = m)
  BY DEF TypeOK, Moves
<1>2. \A d \in Conns \ {c} : d \in Of(s, W)' <=> d \in Of(s, W)
  BY <1>1 DEF Of
<1>3. /\ c \in Of(s, W)' <=> x \in W /\ m = s
      /\ c \in Of(s, W) <=> state[c] \in W /\ m = s
  BY <1>1 DEF Of
<1>4. Of(s, W) \subseteq Conns /\ Of(s, W)' \subseteq Conns
  BY DEF Of
<1>5. IsFiniteSet(Of(s, W)) /\ Cardinality(Of(s, W)) \in Nat
  BY OfFinite
<1>6. CASE c \in Of(s, W)' <=> c \in Of(s, W)
  <2>1. Of(s, W)' = Of(s, W)
    BY <1>2, <1>4, <1>6
  <2> QED
    BY <1>3, <1>6, <2>1
<1>7. CASE c \in Of(s, W)' /\ c \notin Of(s, W)
  <2>1. Of(s, W)' = Of(s, W) \cup {c}
    BY <1>2, <1>4, <1>7
  <2>2. Cardinality(Of(s, W)') = Cardinality(Of(s, W)) + 1
    BY <1>5, <1>7, <2>1, FS_AddElement
  <2> QED
    BY <1>3, <1>7, <2>2
<1>8. CASE c \notin Of(s, W)' /\ c \in Of(s, W)
  <2>1. Of(s, W)' = Of(s, W) \ {c}
    BY <1>2, <1>4, <1>8
  <2>2. Cardinality(Of(s, W)') = Cardinality(Of(s, W)) - 1
    BY <1>5, <1>8, <2>1, FS_RemoveElement
  <2>3. Cardinality(Of(s, W)) # 0
    BY <1>5, <1>8, FS_EmptySet
  <2> QED
    BY <1>3, <1>5, <1>8, <2>2, <2>3
<1> QED
  BY <1>6, <1>7, <1>8

-----------------------------------------------------------------------------
(* What a step does to each part of the invariant. *)
One(p) == IF p THEN 1 ELSE 0

(* The counters of manager m become fc and tc, which differ from the old   *)
(* ones by what the old and the new state of block c and a failure count.  *)
Counted(c, x, m, fc, tc) ==
    /\ fc \in Int /\ tc \in Int
    /\ free_count' = [free_count EXCEPT ![m] = fc]
    /\ total_count' = [total_count EXCEPT ![m] = tc]
    /\ failures' \in [Managers -> Nat]
    /\ \A s \in Managers \ {m} : failures'[s] = failures[s]
    /\ fc + One(state[c] = "idle") = free_count[m] + One(x = "idle")
    /\ tc + One(state[c] # "free") + failures[m] =
           total_count[m] + One(x # "free") + failures'[m]

(* The counters follow a block that moves. *)
LEMMA CountersStep ==
    ASSUME TypeOK, CountersExact, NEW c \in Conns, NEW x, NEW m \in Managers,
           Moves(c, x, m), x \in InUse \cup {"free"}, NEW fc, NEW tc,
           Counted(c, x, m, fc, tc)
    PROVE  /\ CountersExact'
           /\ free_count' \in [Managers -> Nat] /\ total_count' \in [Managers -> Nat]
<1> USE DEF Counted
<1>1. /\ free_count \in [Managers -> Nat] /\ total_count \in [Managers -> Nat]
      /\ state[c] \in InUse \cup {"free"} /\ failures \in [Managers -> Nat]
  BY PoolAssumption DEF TypeOK, InUse
<1>2. ASSUME NEW s \in Managers
      PROVE  /\ free_count'[s] = Cardinality(Of(s, {"idle"})')
             /\ total_count'[s] = Cardinality(Of(s, InUse)') + failures'[s]
             /\ Cardinality(Of(s, {"idle"})') \in Nat
             /\ Cardinality(Of(s, InUse)') \in Nat
  <2> DEFINE i == Cardinality(Of(s, {"idle"}))
             i2 == Cardinality(Of(s, {"idle"})')
             u == Cardinality(Of(s, InUse))
             u2 == Cardinality(Of(s, InUse)')
  <2>1. /\ i \in Nat /\ u \in Nat
        /\ free_count[s] = i /\ total_count[s] = u + failures[s]
        /\ failures[s] \in Nat /\ failures'[s] \in Nat
    BY <1>1, OfFinite DEF CountersExact, InUse
  <2>2. "free" \notin {"idle"} /\ "free" \notin InUse
    BY DEF InUse
  <2>3. /\ m # s \/ (state[c] = "idle" <=> x = "idle") => i2 = i
        /\ (m = s /\ state[c] # "idle" /\ x = "idle") => i2 = i + 1
        /\ (m = s /\ state[c] = "idle" /\ x # "idle") => i2 = i - 1 /\ i >= 1
    BY <2>2, CountMove
  <2>4. /\ state[c] \in InUse <=> state[c] # "free"
        /\ x \in InUse <=> x # "free"
    BY <1>1 DEF InUse
  <2>5. /\ m # s \/ (state[c] # "free" <=> x # "free") => u2 = u
        /\ (m = s /\ state[c] = "free" /\ x # "free") => u2 = u + 1
        /\ (m = s /\ state[c] # "free" /\ x = "free") => u2 = u - 1 /\ u >= 1
    BY <2>2, <2>4, CountMove
  <2> HIDE DEF i, i2, u, u2
  <2>6. CASE m # s
    BY <1>1, <2>1, <2>3, <2>5, <2>6 DEF i, i2, u, u2
  <2>7. CASE m = s
    <3>1. /\ free_count'[s] = fc /\ total_count'[s] = tc
      BY <1>1, <2>7
    <3>2. i2 = fc /\ i2 \in Nat
      BY <2>1, <2>3, <2>7 DEF One
    <3>3. tc = u2 + failures'[s] /\ u2 \in Nat
      BY <2>1, <2>5, <2>7 DEF One
    <3> QED
      BY <3>1, <3>2, <3>3 DEF i2, u2
  <2> QED
    BY <2>6, <2>7
<1>3. CountersExact'
  BY <1>2 DEF CountersExact, InUse
<1>4. /\ \A s \in Managers : free_count'[s] \in Nat /\ total_count'[s] \in Nat
  <2>1. \A s \in Managers : failures'[s] \in Nat
    OBVIOUS
  <2> QED
    BY <1>2, <2>1
<1> QED
  BY <1>1, <1>3, <1>4

(* Only a block that comes into use can break the limit. *)
LEMMA LimitStep ==
    ASSUME TypeOK, CountersExact, LimitHolds, NEW c \in Conns, NEW x, NEW m \in Managers,
           Moves(c, x, m), x \in InUse \cup {"free"},
           (state[c] = "free" /\ x # "free") => ~AtLimit(m)
    PROVE  LimitHolds'
<1> SUFFICES ASSUME max_count_per_entry > 0, NEW s \in Managers
             PROVE  Cardinality(Of(s, InUse)') <= max_count_per_entry
  BY DEF LimitHolds, InUse
<1> DEFINE u == Cardinality(Of(s, InUse))
           u2 == Cardinality(Of(s, InUse)')
<1>1. /\ u \in Nat /\ u <= max_count_per_entry /\ max_count_per_entry \in Nat
      /\ total_count[s] = u + failures[s] /\ failures[s] \in Nat
  BY OfFinite, PoolAssumption DEF LimitHolds, InUse, CountersExact, TypeOK
<1>2. /\ state[c] \in InUse \cup {"free"} /\ "free" \notin InUse
  BY DEF TypeOK, InUse
<1>3. /\ m # s \/ (state[c] \in InUse <=> x \in InUse) => u2 = u
      /\ (m = s /\ state[c] \notin InUse /\ x \in InUse) => u2 = u + 1
      /\ (m = s /\ state[c] \in InUse /\ x \notin InUse) => u2 = u - 1 /\ u >= 1
  BY <1>2, CountMove
<1> HIDE DEF u, u2
<1>4. (m = s /\ state[c] \notin InUse /\ x \in InUse) => u + 1 <= max_count_per_entry
  BY <1>1, <1>2 DEF AtLimit
<1>5. u2 <= max_count_per_entry
  BY <1>1, <1>3, <1>4
<1> QED
  BY <1>5 DEF u2

(* The lists stay as they are when neither the heads nor the idle blocks   *)
(* change.                                                                 *)
LEMMA SameLists ==
    ASSUME Lists, head' = head,
           \A c \in Conns : Idle(c)' <=> Idle(c),
           \A c \in Conns : Idle(c) => next'[c] = next[c] /\ manager'[c] = manager[c]
    PROVE  Lists'
<1>1. HeadLeads' /\ NextLeads'
  BY DEF Lists, HeadLeads, NextLeads
<1>2. NextOnce' /\ HeadOrNext'
  BY DEF Lists, NextOnce, HeadOrNext
<1>3. Reached'
  BY DEF Lists, Reached
<1> QED
  BY <1>1, <1>2, <1>3 DEF Lists

(* The first block is taken off a list. *)
LEMMA PopLists ==
    ASSUME TypeOK, Lists, NEW s \in Managers, NEW c \in Conns, NEW x, x # "idle",
           head[s] = c, head' = [head EXCEPT ![s] = next[c]],
           state' = [state EXCEPT ![c] = x], UNCHANGED <<next, manager>>
    PROVE  Lists'
<1>1. /\ Idle(c) /\ manager[c] = s /\ ~Idle(c)'
      /\ \A d \in Conns \ {c} : Idle(d)' <=> Idle(d)
      /\ \A d \in Conns : Idle(d)' <=> Idle(d) /\ d # c
      /\ head'[s] = next[c] /\ \A p \in Managers \ {s} : head'[p] = head[p]
  BY DEF TypeOK, Lists, HeadLeads, Idle
<1>2. /\ \A d \in Conns : Idle(d) => next[d] # c
      /\ \A p \in Managers \ {s} : head[p] # c
  BY <1>1 DEF Lists, HeadOrNext, HeadLeads
<1>3. next[c] \in Conns =>
         /\ Idle(next[c]) /\ manager[next[c]] = s /\ next[c] # c
         /\ \A p \in Managers : head[p] # next[c]
         /\ \A d \in Conns : Idle(d) /\ next[d] = next[c] => d = c
  BY <1>1, <1>2 DEF Lists, NextLeads, HeadOrNext, NextOnce
<1>4. HeadLeads'
  BY <1>1, <1>2, <1>3 DEF Lists, HeadLeads
<1>5. NextLeads'
  BY <1>1, <1>2 DEF Lists, NextLeads
<1>6. NextOnce'
  BY <1>1 DEF Lists, NextOnce
<1>7. HeadOrNext'
  BY <1>1, <1>3 DEF Lists, HeadOrNext
<1>8. ASSUME NEW d \in Conns, Idle(d)'
      PROVE  \/ \E p \in Managers : head'[p] = d
             \/ \E e \in Conns : Idle(e)' /\ next'[e] = d
  <2>1. Idle(d) /\ d # c
    BY <1>1, <1>8
  <2>2. CASE \E p \in Managers : head[p] = d
    BY <1>1, <2>1, <2>2
  <2>3. CASE \E e \in Conns : Idle(e) /\ next[e] = d
    <3>1. PICK e \in Conns : Idle(e) /\ next[e] = d
      BY <2>3
    <3>2. CASE e = c
      BY <1>1, <3>1, <3>2
    <3>3. CASE e # c
      BY <1>1, <3>1, <3>3
    <3> QED
      BY <3>2, <3>3
  <2> QED
    BY <2>1, <2>2, <2>3 DEF Lists, Reached
<1>9. Reached'
  BY <1>8 DEF Reached
<1> QED
  BY <1>4, <1>5, <1>6, <1>7, <1>9 DEF Lists

(* A block is put in front of a list. *)
LEMMA PushLists ==
    ASSUME TypeOK, Lists, NEW s \in Managers, NEW c \in Conns, ~Idle(c),
           manager[c] = s, head' = [head EXCEPT ![s] = c],
           next' = [next EXCEPT ![c] = head[s]],
           state' = [state EXCEPT ![c] = "idle"], UNCHANGED manager
    PROVE  Lists'
<1>1. /\ \A d \in Conns : Idle(d)' <=> Idle(d) \/ d = c
      /\ head'[s] = c /\ \A p \in Managers \ {s} : head'[p] = head[p]
      /\ next'[c] = head[s] /\ \A d \in Conns \ {c} : next'[d] = next[d]
  BY DEF TypeOK, Idle
<1>2. /\ \A d \in Conns : Idle(d) => next[d] # c
      /\ \A p \in Managers : head[p] # c
  BY DEF Lists, NextLeads, HeadLeads
<1>3. HeadLeads'
  BY <1>1, <1>2 DEF Lists, HeadLeads
<1>4. head[s] \in Conns =>
         /\ Idle(head[s]) /\ manager[head[s]] = s
         /\ \A p \in Managers : head[p] = head[s] => p = s
         /\ \A d \in Conns : Idle(d) => next[d] # head[s]
  BY DEF Lists, HeadLeads, HeadOrNext
<1>5. NextLeads'
  BY <1>1, <1>2, <1>4 DEF Lists, NextLeads
<1>6. NextOnce'
  BY <1>1, <1>4 DEF Lists, NextOnce
<1>7. HeadOrNext'
  BY <1>1, <1>2, <1>4 DEF Lists, HeadOrNext
<1>8. ASSUME NEW d \in Conns, Idle(d)'
      PROVE  \/ \E p \in Managers : head'[p] = d
             \/ \E e \in Conns : Idle(e)' /\ next'[e] = d
  <2>1. CASE d = c
    BY <1>1, <2>1
  <2>2. CASE Idle(d) /\ \E p \in Managers : head[p] = d
    BY <1>1, <2>2
  <2>3. CASE Idle(d) /\ \E e \in Conns : Idle(e) /\ next[e] = d
    <3>1. PICK e \in Conns : Idle(e) /\ next[e] = d
      BY <2>3
    <3>2. e # c
      BY <3>1
    <3> QED
      BY <1>1, <3>1, <3>2
  <2> QED
    BY <1>1, <1>8, <2>1, <2>2, <2>3 DEF Lists, Reached
<1>9. Reached'
  BY <1>8 DEF Reached
<1> QED
  BY <1>3, <1>5, <1>6, <1>7, <1>9 DEF Lists

-----------------------------------------------------------------------------
(* The descriptors. *)
Live(c) == state[c] # "free" /\ sock[c] >= 0

OpenOwned == \A f : f \in openfds <=>
    \/ \E c \in Conns : Live(c) /\ sock[c] = f
    \/ f = direct /\ f # -1

DirectApart == \A c \in Conns : Live(c) => sock[c] # direct

SocksApart == \A c, d \in Conns : Live(c) /\ Live(d) /\ sock[c] = sock[d] => c = d

(* SocketsOwned in these parts, which speak of single descriptors. *)
LEMMA SocketParts == SocketsOwned <=> OpenOwned /\ DirectApart /\ SocksApart
<1> DEFINE live == {c \in Conns : state[c] # "free" /\ sock[c] >= 0}
           owned == {sock[c] : c \in live} \cup ({direct} \ {-1})
<1>1. \A c : c \in live <=> c \in Conns /\ Live(c)
  BY DEF Live
<1>2. \A f : f \in owned <=> \/ \E c \in Conns : Live(c) /\ sock[c] = f
                             \/ f = direct /\ f # -1
  BY <1>1
<1>3. openfds = owned <=> \A f : f \in openfds <=> f \in owned
  OBVIOUS
<1>4. SocketsOwned <=> /\ openfds = owned
                       /\ \A c \in live : sock[c] # direct
                       /\ \A c, d \in live : sock[c] = sock[d] => c = d
  BY DEF SocketsOwned
<1> HIDE DEF live, owned
<1>5. openfds = owned <=> OpenOwned
  BY <1>2, <1>3 DEF OpenOwned
<1>6. (\A c \in live : sock[c] # direct) <=> DirectApart
  BY <1>1 DEF DirectApart
<1>7. (\A c, d \in live : sock[c] = sock[d] => c = d) <=> SocksApart
  BY <1>1 DEF SocksApart
<1> QED
  BY <1>4, <1>5, <1>6, <1>7

(* The same for the next state. *)
LEMMA SocketPartsNext == OpenOwned' /\ DirectApart' /\ SocksApart' => SocketsOwned'
  BY SocketParts, PTL

(* Nothing is opened or closed. *)
LEMMA SameSockets ==
    ASSUME SocketsOwned, UNCHANGED <<openfds, direct>>,
           \A c \in Conns : Live(c)' <=> Live(c),
           \A c \in Conns : Live(c) => sock'[c] = sock[c]
    PROVE  SocketsOwned'
<1>1. OpenOwned /\ DirectApart /\ SocksApart
  BY SocketParts
<1>2. OpenOwned'
  BY <1>1 DEF OpenOwned
<1>3. DirectApart' /\ SocksApart'
  BY <1>1 DEF DirectApart, SocksApart
<1> QED
  BY <1>2, <1>3, SocketPartsNext

(* A connection is closed, and its field says so. *)
LEMMA CloseSocket ==
    ASSUME TypeOK, SocketsOwned, NEW c \in Conns, state[c] # "free",
           openfds' = openfds \ {sock[c]}, sock' = [sock EXCEPT ![c] = -1],
           \A d \in Conns \ {c} : state'[d] = state[d],
           UNCHANGED direct
    PROVE  SocketsOwned'
<1>1. OpenOwned /\ DirectApart /\ SocksApart
  BY SocketParts
<1>2. /\ \A d \in Conns : Live(d)' <=> Live(d) /\ d # c
      /\ \A d \in Conns \ {c} : sock'[d] = sock[d]
      /\ sock[c] # -1 => Live(c)
  <2>1. /\ sock'[c] = -1 /\ \A d \in Conns \ {c} : sock'[d] = sock[d]
        /\ sock[c] \in Nat \cup {-1}
    BY PoolAssumption DEF TypeOK
  <2>2. ~Live(c)' /\ (sock[c] # -1 => Live(c))
    BY <2>1 DEF Live
  <2>3. \A d \in Conns \ {c} : Live(d)' <=> Live(d)
    BY <2>1 DEF Live
  <2> QED
    BY <2>1, <2>2, <2>3
<1>3. \A d \in Conns : Live(d) /\ d # c => sock[d] # sock[c]
  <2>1. CASE Live(c)
    BY <1>1, <2>1 DEF SocksApart
  <2>2. CASE ~Live(c)
    BY <1>2, <2>2 DEF Live
  <2> QED
    BY <2>1, <2>2
<1>4. direct # -1 => direct # sock[c]
  BY <1>1, <1>2 DEF DirectApart
<1>5. OpenOwned'
  <2>1. ASSUME NEW f
        PROVE  f \in openfds' <=> \/ \E d \in Conns : Live(d)' /\ sock'[d] = f
                                  \/ f = direct' /\ f # -1
    <3>1. f \in openfds' <=> f \in openfds /\ f # sock[c]
      OBVIOUS
    <3>2. f \in openfds <=> \/ \E d \in Conns : Live(d) /\ sock[d] = f
                            \/ f = direct /\ f # -1
      BY <1>1 DEF OpenOwned
    <3>3. (\E d \in Conns : Live(d)' /\ sock'[d] = f) <=>
              (\E d \in Conns : Live(d) /\ d # c /\ sock[d] = f)
      BY <1>2
    <3> QED
      BY <1>3, <1>4, <3>1, <3>2, <3>3
  <2> QED
    BY <2>1 DEF OpenOwned
<1>6. DirectApart' /\ SocksApart'
  BY <1>1, <1>2 DEF DirectApart, SocksApart
<1> QED
  BY <1>5, <1>6, SocketPartsNext

(* A connection gets a new descriptor in place of its old one. *)
LEMMA OpenSocket ==
    ASSUME TypeOK, SocketsOwned, NEW c \in Conns, state[c] # "free",
           NEW fd \in Fds \ (openfds \ {sock[c]}),
           openfds' = (openfds \ {sock[c]}) \cup {fd},
           sock' = [sock EXCEPT ![c] = fd], state'[c] # "free",
           \A d \in Conns \ {c} : state'[d] = state[d],
           UNCHANGED direct
    PROVE  SocketsOwned'
<1>1. OpenOwned /\ DirectApart /\ SocksApart
  BY SocketParts
<1>2. /\ \A d \in Conns : Live(d)' <=> Live(d) \/ d = c
      /\ sock'[c] = fd /\ \A d \in Conns \ {c} : sock'[d] = sock[d]
      /\ sock[c] # -1 => Live(c)
      /\ fd \in Nat /\ fd # -1
  <2>1. /\ sock'[c] = fd /\ \A d \in Conns \ {c} : sock'[d] = sock[d]
        /\ sock[c] \in Nat \cup {-1} /\ fd \in Nat
    BY PoolAssumption DEF TypeOK
  <2>2. Live(c)' /\ (sock[c] # -1 => Live(c)) /\ fd # -1
    BY <2>1 DEF Live
  <2>3. \A d \in Conns \ {c} : Live(d)' <=> Live(d)
    BY <2>1 DEF Live
  <2> QED
    BY <2>1, <2>2, <2>3
<1>3. \A d \in Conns : Live(d) /\ d # c => sock[d] # sock[c]
  <2>1. CASE Live(c)
    BY <1>1, <2>1 DEF SocksApart
  <2>2. CASE ~Live(c)
    BY <1>2, <2>2 DEF Live
  <2> QED
    BY <2>1, <2>2
<1>4. direct # -1 => direct # sock[c]
  BY <1>1, <1>2 DEF DirectApart
<1>5. \A d \in Conns : Live(d) /\ d # c => sock[d] # fd
  BY <1>1, <1>3 DEF OpenOwned
<1>6. direct # fd
  BY <1>1, <1>2, <1>4 DEF OpenOwned
<1>7. OpenOwned'
  <2>1. ASSUME NEW f
        PROVE  f \in openfds' <=> \/ \E d \in Conns : Live(d)' /\ sock'[d] = f
                                  \/ f = direct' /\ f # -1
    <3>1. f \in openfds' <=> (f \in openfds /\ f # sock[c]) \/ f = fd
      OBVIOUS
    <3>2. f \in openfds <=> \/ \E d \in Conns : Live(d) /\ sock[d] = f
                            \/ f = direct /\ f # -1
      BY <1>1 DEF OpenOwned
    <3>3. (\E d \in Conns : Live(d)' /\ sock'[d] = f) <=>
              f = fd \/ (\E d \in Conns : Live(d) /\ d # c /\ sock[d] = f)
      BY <1>2
    <3> QED
      BY <1>3, <1>4, <3>1, <3>2, <3>3
  <2> QED
    BY <2>1 DEF OpenOwned
<1>8. DirectApart'
  BY <1>1, <1>2, <1>6 DEF DirectApart
<1>9. SocksApart'
  BY <1>1, <1>2, <1>5 DEF SocksApart
<1> QED
  BY <1>7, <1>8, <1>9, SocketPartsNext

(* The connection outside the pool gets the descriptor fd, or none. *)
LEMMA DirectSocket ==
    ASSUME TypeOK, SocketsOwned, NEW fd, UNCHANGED <<state, sock>>,
           direct' = fd,
           \/ fd = -1 /\ openfds' = openfds \ {direct}
           \/ /\ fd \in Fds \ (openfds \ {direct})
              /\ openfds' = (openfds \ {direct}) \cup {fd}
    PROVE  SocketsOwned'
<1>1. OpenOwned /\ DirectApart /\ SocksApart
  BY SocketParts
<1>2. /\ \A d \in Conns : (Live(d)' <=> Live(d)) /\ sock'[d] = sock[d]
      /\ \A d \in Conns : Live(d) => sock[d] # -1
      /\ -1 \notin Fds
  BY PoolAssumption DEF TypeOK, Live
<1>3. \A d \in Conns : Live(d) => sock[d] \in openfds /\ sock[d] # direct
  BY <1>1 DEF OpenOwned, DirectApart
<1>4. \A d \in Conns : Live(d) => sock[d] # fd
  BY <1>2, <1>3
<1>5. OpenOwned'
  <2>1. ASSUME NEW f
        PROVE  f \in openfds' <=> \/ \E d \in Conns : Live(d)' /\ sock'[d] = f
                                  \/ f = direct' /\ f # -1
    <3>1. f \in openfds' <=> (f \in openfds /\ f # direct) \/ (f = fd /\ fd # -1)
      BY <1>2
    <3>2. f \in openfds <=> \/ \E d \in Conns : Live(d) /\ sock[d] = f
                            \/ f = direct /\ f # -1
      BY <1>1 DEF OpenOwned
    <3>3. (\E d \in Conns : Live(d)' /\ sock'[d] = f) <=>
              (\E d \in Conns : Live(d) /\ sock[d] = f)
      BY <1>2
    <3> QED
      BY <1>3, <3>1, <3>2, <3>3
  <2> QED
    BY <2>1 DEF OpenOwned
<1>6. DirectApart' /\ SocksApart'
  BY <1>1, <1>2, <1>4 DEF DirectApart, SocksApart
<1> QED
  BY <1>5, <1>6, SocketPartsNext

-----------------------------------------------------------------------------
(* The steps. *)

(* conn_pool_init. *)
LEMMA InitPool == Init => IInv
<1> SUFFICES ASSUME Init PROVE IInv
  OBVIOUS
<1>1. /\ \A c \in Conns : state[c] = "free"
      /\ \A s \in Managers : /\ head[s] = NULL /\ total_count[s] = 0
                            /\ free_count[s] = 0 /\ failures[s] = 0
      /\ \A t \in Threads : pc[t] = "outside"
      /\ openfds = {} /\ direct = -1
  BY DEF Init
<1>2. TypeOK
  BY PoolAssumption DEF Init, TypeOK, Stages
<1>3. Owners
  BY <1>1 DEF Owners
<1>4. Lists
  BY <1>1, PoolAssumption DEF Lists, HeadLeads, NextLeads, NextOnce, HeadOrNext,
                              Reached, Idle
<1>5. \A s, W : "free" \notin W => Cardinality(Of(s, W)) = 0
  <2>1. ASSUME NEW s, NEW W, "free" \notin W PROVE Of(s, W) = {}
    BY <1>1, <2>1 DEF Of
  <2> QED
    BY <2>1, FS_EmptySet
<1>6. CountersExact
  BY <1>1, <1>5 DEF CountersExact
<1>7. LimitHolds
  BY <1>5, PoolAssumption DEF LimitHolds
<1>8. SocketsOwned
  <2>1. OpenOwned /\ DirectApart /\ SocksApart
    BY <1>1 DEF OpenOwned, DirectApart, SocksApart, Live
  <2> QED
    BY <2>1, SocketParts
<1> QED
  BY <1>2, <1>3, <1>4, <1>6, <1>7, <1>8 DEF IInv

(* A step that leaves the managers' lists and counters and the blocks. *)
LEMMA QuietPool ==
    ASSUME IInv, UNCHANGED <<head, total_count, free_count, state, manager, next,
                             failures>>
    PROVE  Lists' /\ CountersExact' /\ LimitHolds'
<1>1. \A s, W : Of(s, W)' = Of(s, W)
  BY DEF Of
<1>2. Lists'
  BY SameLists DEF IInv, Idle
<1>3. CountersExact' /\ LimitHolds'
  BY <1>1 DEF IInv, CountersExact, LimitHolds
<1> QED
  BY <1>2, <1>3

LEMMA GetStep ==
    ASSUME IInv, NEW t \in Threads, NEW s \in Servers, conn_pool_get_connection(t, s)
    PROVE  IInv'
<1>1. PICK m \in Managers : Manager(s, m) /\ cm' = [cm EXCEPT ![t] = m]
  BY DEF conn_pool_get_connection
<1>2. /\ pc' = [pc EXCEPT ![t] = "enter"] /\ now' = [now EXCEPT ![t] = clock]
      /\ UNCHANGED <<head, total_count, free_count, lock, state, manager, next, atime,
                     sock, holder, direct, openfds, clock, failures>>
  BY DEF conn_pool_get_connection, blocks
<1>3. TypeOK /\ Owners /\ SocketsOwned
  BY DEF IInv
<1>4. hash_array' \in [Servers -> Managers \cup {NULL}] /\ made' \subseteq Managers
  BY <1>1, <1>3 DEF Manager, TypeOK
<1>5. TypeOK'
  BY <1>1, <1>2, <1>3, <1>4 DEF TypeOK, Stages
<1>6. Owners'
  BY <1>1, <1>2, <1>3 DEF TypeOK, Owners
<1>7. Lists' /\ CountersExact' /\ LimitHolds'
  BY <1>2, QuietPool
<1>8. SocketsOwned'
  BY <1>2, <1>3, SameSockets DEF Live
<1> QED
  BY <1>5, <1>6, <1>7, <1>8 DEF IInv

(* Return leaves a thread outside. *)
LEMMA ReturnOwners ==
    ASSUME TypeOK, Owners, NEW t \in Threads, Return(t),
           \A c \in Conns : state'[c] # "free" => state[c] # "free" /\ manager'[c] = manager[c]
    PROVE  /\ Owners'
           /\ pc' \in [Threads -> Stages] /\ cm' \in [Threads -> Managers \cup {NULL}]
           /\ now' \in [Threads -> 0..MaxTime]
<1>1. /\ pc' = [pc EXCEPT ![t] = "outside"] /\ cm' = [cm EXCEPT ![t] = NULL]
      /\ now' = [now EXCEPT ![t] = 0]
  BY DEF Return
<1>2. 0 \in 0..MaxTime
  BY PoolAssumption
<1>3. /\ pc' \in [Threads -> Stages] /\ cm' \in [Threads -> Managers \cup {NULL}]
      /\ now' \in [Threads -> 0..MaxTime]
  BY <1>1, <1>2 DEF TypeOK, Stages
<1>4. Owners'
  BY <1>1 DEF TypeOK, Owners
<1> QED
  BY <1>3, <1>4

LEMMA NewNodeStep ==
    ASSUME IInv, NEW t \in Threads, NewNode(t)
    PROVE  IInv'
<1>1. PICK s : s = cm[t]
  OBVIOUS
<1>2. TypeOK /\ Owners /\ Lists /\ CountersExact /\ LimitHolds /\ SocketsOwned
  BY DEF IInv
<1>3. /\ pc[t] = "enter" /\ head[s] = NULL /\ s \in Managers
      /\ lock' = [lock EXCEPT ![s] = NULL]
      /\ UNCHANGED <<hash_array, made, head, free_count, direct, openfds, clock, failures>>
  BY <1>1, <1>2 DEF NewNode, Unlocks, Owners
<1>4. lock' \in [Managers -> Threads \cup {NULL}]
  BY <1>2, <1>3 DEF TypeOK
<1>5. CASE /\ Return(t)
           /\ UNCHANGED <<total_count, blocks>>
  <2>1. UNCHANGED <<total_count, state, manager, next, atime, sock, holder>>
    BY <1>5 DEF blocks
  <2>2. /\ Owners' /\ pc' \in [Threads -> Stages]
        /\ cm' \in [Threads -> Managers \cup {NULL}]
        /\ now' \in [Threads -> 0..MaxTime]
    BY <1>2, <1>5, <2>1, ReturnOwners
  <2>3. TypeOK'
    BY <1>2, <1>3, <1>4, <2>1, <2>2 DEF TypeOK
  <2>4. Lists' /\ CountersExact' /\ LimitHolds'
    BY <1>3, <2>1, QuietPool
  <2>5. SocketsOwned'
    BY <1>2, <1>3, <2>1, SameSockets DEF Live
  <2> QED
    BY <2>2, <2>3, <2>4, <2>5 DEF IInv
<1>6. ASSUME ~AtLimit(s), NEW c \in Conns, state[c] = "free",
             state' = [state EXCEPT ![c] = "connecting"],
             manager' = [manager EXCEPT ![c] = s],
             next' = [next EXCEPT ![c] = NULL],
             atime' = [atime EXCEPT ![c] = 0],
             sock' = [sock EXCEPT ![c] = -1],
             holder' = [holder EXCEPT ![c] = t],
             total_count' = [total_count EXCEPT ![s] = @ + 1],
             pc' = [pc EXCEPT ![t] = "connect"],
             UNCHANGED <<cm, now>>
      PROVE  IInv'
  <2>1. Moves(c, "connecting", s)
    BY <1>2, <1>6 DEF Moves, TypeOK
  <2>2. /\ free_count[s] \in Nat /\ total_count[s] \in Nat /\ failures[s] \in Nat
        /\ failures' \in [Managers -> Nat] /\ failures' = failures
        /\ free_count' = [free_count EXCEPT ![s] = free_count[s]]
        /\ "connecting" \in InUse \cup {"free"}
    BY <1>2, <1>3, PoolAssumption DEF TypeOK, InUse
  <2>3. Counted(c, "connecting", s, free_count[s], total_count[s] + 1)
    <3>1. /\ One(state[c] = "idle") = 0 /\ One("connecting" = "idle") = 0
          /\ One(state[c] # "free") = 0 /\ One("connecting" # "free") = 1
      BY <1>6 DEF One
    <3>2. total_count' = [total_count EXCEPT ![s] = total_count[s] + 1]
      BY <1>6
    <3> QED
      BY <2>2, <3>1, <3>2 DEF Counted
  <2>4. /\ CountersExact' /\ free_count' \in [Managers -> Nat]
        /\ total_count' \in [Managers -> Nat]
    BY <1>2, <1>3, <2>1, <2>2, <2>3, CountersStep
  <2>5. LimitHolds'
    BY <1>2, <1>3, <1>6, <2>1, <2>2, LimitStep
  <2>6. TypeOK'
    BY <1>2, <1>3, <1>4, <1>6, <2>4, PoolAssumption DEF TypeOK, Stages
  <2>7. Owners'
    BY <1>1, <1>2, <1>3, <1>6 DEF TypeOK, Owners
  <2>8. Lists'
    BY <1>2, <1>3, <1>6, SameLists DEF TypeOK, Idle
  <2>9. SocketsOwned'
    BY <1>2, <1>3, <1>6, SameSockets DEF TypeOK, Live
  <2> QED
    BY <2>4, <2>5, <2>6, <2>7, <2>8, <2>9 DEF IInv
<1> QED
  BY <1>1, <1>5, <1>6 DEF NewNode

(* A block that is connected is the caller's; one that is not is freed,    *)
(* and stays counted as a failure.                                         *)
LEMMA ConnectStep ==
    ASSUME IInv, NEW t \in Threads, Connect(t)
    PROVE  IInv'
<1>1. TypeOK /\ Owners /\ Lists /\ CountersExact /\ LimitHolds /\ SocketsOwned
  BY DEF IInv
<1>2. PICK c \in Conns :
        /\ state[c] = "connecting" /\ holder[c] = t
        /\ \/ /\ SocketLeft(sock[c])
              /\ sock' = [sock EXCEPT ![c] = Reconnected(@).sock]
              /\ openfds' = Reconnected(sock[c]).open
              /\ state' = [state EXCEPT ![c] = "used"]
              /\ Return(t)
              /\ UNCHANGED <<holder, failures>>
           \/ /\ failures[manager[c]] < MaxFailures
              /\ sock' = [sock EXCEPT ![c] = NotConnected(@).sock]
              /\ openfds' = NotConnected(sock[c]).open
              /\ state' = [state EXCEPT ![c] = "free"]
              /\ holder' = [holder EXCEPT ![c] = NULL]
              /\ failures' = [failures EXCEPT ![manager[c]] = @ + 1]
              /\ Return(t)
  BY DEF Connect
<1>3. UNCHANGED <<hash_array, made, head, total_count, free_count, lock, manager, next,
                  atime, direct, clock>>
  BY DEF Connect, managers
<1>4. PICK m \in Managers : m = manager[c]
  BY <1>1, <1>2 DEF Owners
<1>5. /\ free_count[m] \in Nat /\ total_count[m] \in Nat /\ failures[m] \in 0..MaxFailures
      /\ failures \in [Managers -> 0..MaxFailures] /\ failures \in [Managers -> Nat]
      /\ free_count' = [free_count EXCEPT ![m] = free_count[m]]
      /\ total_count' = [total_count EXCEPT ![m] = total_count[m]]
      /\ state \in [Conns -> InUse \cup {"free"}] /\ sock \in [Conns -> Fds \cup {-1}]
      /\ "used" \in InUse \cup {"free"} /\ MaxFailures \in Nat
  BY <1>1, <1>3, PoolAssumption DEF TypeOK, InUse
<1>6. /\ Return(t) /\ state'[c] \in {"used", "free"}
      /\ \A d \in Conns \ {c} : state'[d] = state[d]
  BY <1>2, <1>5
<1>7. /\ Owners' /\ pc' \in [Threads -> Stages]
      /\ cm' \in [Threads -> Managers \cup {NULL}]
      /\ now' \in [Threads -> 0..MaxTime]
  BY <1>1, <1>2, <1>3, <1>6, ReturnOwners
<1>8. Lists'
  <2>1. \A d \in Conns : Idle(d)' <=> Idle(d)
    BY <1>2, <1>6 DEF Idle
  <2> QED
    BY <1>1, <1>3, <2>1, SameLists
<1>9. CASE /\ SocketLeft(sock[c])
           /\ sock' = [sock EXCEPT ![c] = Reconnected(@).sock]
           /\ openfds' = Reconnected(sock[c]).open
           /\ state' = [state EXCEPT ![c] = "used"]
           /\ UNCHANGED <<holder, failures>>
  <2>1. PICK fd : fd = Reconnected(sock[c]).sock
    OBVIOUS
  <2>2. /\ fd \in Fds \ (openfds \ {sock[c]})
        /\ openfds' = (openfds \ {sock[c]}) \cup {fd}
        /\ sock' = [sock EXCEPT ![c] = fd]
    BY <1>9, <2>1, FreshFd
  <2>3. state'[c] # "free" /\ state[c] # "free"
    BY <1>2, <1>5, <1>9
  <2>4. SocketsOwned'
    BY <1>1, <1>3, <1>6, <2>2, <2>3, OpenSocket
  <2>5. Moves(c, "used", m)
    BY <1>3, <1>4, <1>9 DEF Moves
  <2>6. Counted(c, "used", m, free_count[m], total_count[m])
    <3>1. /\ One(state[c] = "idle") = 0 /\ One("used" = "idle") = 0
          /\ One(state[c] # "free") = 1 /\ One("used" # "free") = 1
      BY <1>2 DEF One
    <3> QED
      BY <1>5, <1>9, <3>1 DEF Counted
  <2>7. /\ CountersExact' /\ free_count' \in [Managers -> Nat]
        /\ total_count' \in [Managers -> Nat]
    BY <1>1, <1>5, <2>5, <2>6, CountersStep
  <2>8. LimitHolds'
    BY <1>1, <1>5, <2>3, <2>5, LimitStep
  <2>9. TypeOK'
    BY <1>1, <1>3, <1>5, <1>7, <1>9, <2>2, <2>7 DEF TypeOK, InUse
  <2> QED
    BY <1>7, <1>8, <2>4, <2>7, <2>8, <2>9 DEF IInv
<1>10. CASE /\ failures[manager[c]] < MaxFailures
            /\ sock' = [sock EXCEPT ![c] = NotConnected(@).sock]
            /\ openfds' = NotConnected(sock[c]).open
            /\ state' = [state EXCEPT ![c] = "free"]
            /\ holder' = [holder EXCEPT ![c] = NULL]
            /\ failures' = [failures EXCEPT ![manager[c]] = @ + 1]
  <2>1. /\ openfds' = openfds \ {sock[c]} /\ sock' = [sock EXCEPT ![c] = -1]
        /\ state[c] # "free"
    BY <1>2, <1>10 DEF NotConnected
  <2>2. SocketsOwned'
    BY <1>1, <1>3, <1>6, <2>1, CloseSocket
  <2>3. Moves(c, "free", m)
    BY <1>3, <1>4, <1>10 DEF Moves
  <2>4. /\ failures' = [failures EXCEPT ![m] = failures[m] + 1]
        /\ failures[m] + 1 \in 0..MaxFailures /\ failures[m] + 1 \in Nat
    BY <1>4, <1>5, <1>10
  <2>5. /\ failures' \in [Managers -> 0..MaxFailures] /\ failures' \in [Managers -> Nat]
        /\ failures'[m] = failures[m] + 1
        /\ \A s \in Managers \ {m} : failures'[s] = failures[s]
    BY <1>5, <2>4
  <2>6. Counted(c, "free", m, free_count[m], total_count[m])
    <3>1. /\ One(state[c] = "idle") = 0 /\ One("free" = "idle") = 0
          /\ One(state[c] # "free") = 1 /\ One("free" # "free") = 0
      BY <1>2 DEF One
    <3> QED
      BY <1>5, <2>5, <3>1 DEF Counted
  <2>7. /\ CountersExact' /\ free_count' \in [Managers -> Nat]
        /\ total_count' \in [Managers -> Nat]
    BY <1>1, <2>3, <2>6, CountersStep
  <2>8. LimitHolds'
    BY <1>1, <2>3, LimitStep
  <2>9. TypeOK'
    BY <1>1, <1>3, <1>5, <1>7, <1>10, <2>1, <2>5, <2>7 DEF TypeOK, InUse
  <2> QED
    BY <1>7, <1>8, <2>2, <2>7, <2>8, <2>9 DEF IInv
<1> QED
  BY <1>2, <1>9, <1>10

(* The first block of a list: idle, of this manager, and counted. *)
LEMMA HeadFacts ==
    ASSUME IInv, NEW s \in Managers, NEW c \in Conns, head[s] = c
    PROVE  /\ state[c] = "idle" /\ manager[c] = s /\ next[c] \in Conns \cup {NULL}
           /\ free_count[s] \in Nat /\ total_count[s] \in Nat /\ failures[s] \in Nat
           /\ failures \in [Managers -> Nat]
           /\ [total_count EXCEPT ![s] = total_count[s]] = total_count
           /\ One("idle" = "idle") = 1 /\ One("idle" # "free") = 1
           /\ One("used" = "idle") = 0 /\ One("used" # "free") = 1
           /\ One("free" = "idle") = 0 /\ One("free" # "free") = 0
<1>1. Idle(c) /\ manager[c] = s
  BY DEF IInv, Lists, HeadLeads
<1> QED
  BY <1>1, PoolAssumption DEF IInv, TypeOK, Idle, One

(* A connection that idled too long is closed and freed. *)
LEMMA DropStep ==
    ASSUME IInv, NEW t \in Threads, DropIdle(t)
    PROVE  IInv'
<1>1. TypeOK /\ Owners /\ Lists /\ CountersExact /\ LimitHolds /\ SocketsOwned
  BY DEF IInv
<1>2. pc[t] = "enter"
  BY DEF DropIdle
<1>3. PICK s \in Managers : s = cm[t]
  BY <1>1, <1>2 DEF Owners
<1>4. PICK c \in Conns :
        /\ head[s] = c /\ head' = [head EXCEPT ![s] = next[c]]
        /\ free_count' = [free_count EXCEPT ![s] = @ - 1]
        /\ openfds' = openfds \ {sock[c]} /\ sock' = [sock EXCEPT ![c] = -1]
        /\ state' = [state EXCEPT ![c] = "free"]
  BY <1>3 DEF DropIdle, Pop, conn_pool_disconnect_server
<1>5. /\ lock' = [lock EXCEPT ![s] = t]
      /\ total_count' = [total_count EXCEPT ![s] = @ - 1]
      /\ UNCHANGED <<hash_array, made, manager, next, atime, holder, pc, cm, now, direct,
                     clock, failures>>
  BY <1>3 DEF DropIdle, Locked, locals
<1>6. /\ state[c] = "idle" /\ manager[c] = s /\ next[c] \in Conns \cup {NULL}
      /\ free_count[s] \in Nat /\ total_count[s] \in Nat /\ failures[s] \in Nat
      /\ failures \in [Managers -> Nat]
      /\ One("idle" = "idle") = 1 /\ One("idle" # "free") = 1
      /\ One("free" = "idle") = 0 /\ One("free" # "free") = 0
  BY <1>4, HeadFacts
<1>7. Moves(c, "free", s)
  BY <1>4, <1>5, <1>6 DEF Moves
<1>8. Counted(c, "free", s, free_count[s] - 1, total_count[s] - 1)
  BY <1>4, <1>5, <1>6 DEF Counted
<1>9. /\ CountersExact' /\ free_count' \in [Managers -> Nat]
      /\ total_count' \in [Managers -> Nat]
  BY <1>1, <1>7, <1>8, CountersStep
<1>10. LimitHolds'
  BY <1>1, <1>7, LimitStep
<1>11. Lists'
  BY <1>1, <1>4, <1>5, PopLists
<1>12. \A d \in Conns \ {c} : state'[d] = state[d]
  BY <1>1, <1>4 DEF TypeOK
<1>13. SocketsOwned'
  BY <1>1, <1>4, <1>5, <1>6, <1>12, CloseSocket
<1>14. TypeOK'
  BY <1>1, <1>4, <1>5, <1>6, <1>9 DEF TypeOK
<1>15. Owners'
  BY <1>1, <1>4, <1>5 DEF TypeOK, Owners
<1> QED
  BY <1>9, <1>10, <1>11, <1>13, <1>14, <1>15 DEF IInv

(* One that did not is the caller's. *)
LEMMA ReuseStep ==
    ASSUME IInv, NEW t \in Threads, Reuse(t)
    PROVE  IInv'
<1>1. TypeOK /\ Owners /\ Lists /\ CountersExact /\ LimitHolds /\ SocketsOwned
  BY DEF IInv
<1>2. pc[t] = "enter" /\ Return(t)
  BY DEF Reuse
<1>3. PICK s \in Managers : s = cm[t]
  BY <1>1, <1>2 DEF Owners
<1>4. PICK c \in Conns :
        /\ head[s] = c /\ head' = [head EXCEPT ![s] = next[c]]
        /\ free_count' = [free_count EXCEPT ![s] = @ - 1]
        /\ state' = [state EXCEPT ![c] = "used"]
        /\ holder' = [holder EXCEPT ![c] = t]
  BY <1>3 DEF Reuse, Pop
<1>5. /\ lock' = [lock EXCEPT ![s] = NULL]
      /\ UNCHANGED <<hash_array, made, total_count, manager, next, atime, sock, direct,
                     openfds, clock, failures>>
  BY <1>3 DEF Reuse, Unlocks
<1>6. /\ state[c] = "idle" /\ manager[c] = s /\ next[c] \in Conns \cup {NULL}
      /\ free_count[s] \in Nat /\ total_count[s] \in Nat /\ failures[s] \in Nat
      /\ failures \in [Managers -> Nat]
      /\ [total_count EXCEPT ![s] = total_count[s]] = total_count
      /\ One("idle" = "idle") = 1 /\ One("idle" # "free") = 1
      /\ One("used" = "idle") = 0 /\ One("used" # "free") = 1
  BY <1>4, HeadFacts
<1>7. Moves(c, "used", s) /\ "used" \in InUse \cup {"free"} /\ state[c] # "free"
  BY <1>4, <1>5, <1>6 DEF Moves, InUse
<1>8. Counted(c, "used", s, free_count[s] - 1, total_count[s])
  BY <1>4, <1>5, <1>6 DEF Counted
<1>9. /\ CountersExact' /\ free_count' \in [Managers -> Nat]
      /\ total_count' \in [Managers -> Nat]
  BY <1>1, <1>7, <1>8, CountersStep
<1>10. LimitHolds'
  BY <1>1, <1>7, LimitStep
<1>11. Lists'
  BY <1>1, <1>4, <1>5, PopLists
<1>12. \A d \in Conns : state'[d] # "free" <=> state[d] # "free"
  BY <1>1, <1>4, <1>6 DEF TypeOK
<1>13. SocketsOwned'
  BY <1>1, <1>5, <1>12, SameSockets DEF Live
<1>14. /\ Owners' /\ pc' \in [Threads -> Stages]
       /\ cm' \in [Threads -> Managers \cup {NULL}]
       /\ now' \in [Threads -> 0..MaxTime]
  BY <1>1, <1>2, <1>5, <1>12, ReturnOwners
<1>15. TypeOK'
  BY <1>1, <1>4, <1>5, <1>6, <1>9, <1>14 DEF TypeOK
<1> QED
  BY <1>9, <1>10, <1>11, <1>13, <1>14, <1>15 DEF IInv

(* conn_pool_close_connection_ex with bForce. *)
LEMMA CloseStep ==
    ASSUME IInv, NEW t \in Threads, NEW c \in Conns, CloseForced(t, c)
    PROVE  IInv'
<1>1. TypeOK /\ Owners /\ Lists /\ CountersExact /\ LimitHolds /\ SocketsOwned
  BY DEF IInv
<1>2. state[c] = "used" /\ Return(t)
  BY DEF CloseForced, CanClose
<1>3. PICK s \in Managers : s = manager[c]
  BY <1>1, <1>2 DEF Owners
<1>4. /\ lock' = [lock EXCEPT ![s] = NULL]
      /\ total_count' = [total_count EXCEPT ![s] = @ - 1]
      /\ openfds' = openfds \ {sock[c]} /\ sock' = [sock EXCEPT ![c] = -1]
      /\ state' = [state EXCEPT ![c] = "free"]
      /\ holder' = [holder EXCEPT ![c] = NULL]
      /\ UNCHANGED <<hash_array, made, head, free_count, manager, next, atime, direct,
                     clock, failures>>
  BY <1>3 DEF CloseForced, CanClose, Unlocks, conn_pool_disconnect_server
<1>5. /\ free_count[s] \in Nat /\ total_count[s] \in Nat /\ failures[s] \in Nat
      /\ failures \in [Managers -> Nat]
      /\ [free_count EXCEPT ![s] = free_count[s]] = free_count
  BY <1>1, PoolAssumption DEF TypeOK
<1>6. /\ One(state[c] = "idle") = 0 /\ One(state[c] # "free") = 1
      /\ One("free" = "idle") = 0 /\ One("free" # "free") = 0
  BY <1>2 DEF One
<1>7. Moves(c, "free", s)
  BY <1>3, <1>4 DEF Moves
<1>8. Counted(c, "free", s, free_count[s], total_count[s] - 1)
  BY <1>4, <1>5, <1>6 DEF Counted
<1>9. /\ CountersExact' /\ free_count' \in [Managers -> Nat]
      /\ total_count' \in [Managers -> Nat]
  BY <1>1, <1>7, <1>8, CountersStep
<1>10. LimitHolds'
  BY <1>1, <1>7, LimitStep
<1>11. /\ \A d \in Conns \ {c} : state'[d] = state[d]
       /\ state'[c] = "free"
  BY <1>1, <1>4 DEF TypeOK
<1>12. \A d \in Conns : Idle(d)' <=> Idle(d)
  BY <1>2, <1>11 DEF Idle
<1>13. Lists'
  BY <1>1, <1>4, <1>12, SameLists
<1>14. SocketsOwned'
  BY <1>1, <1>2, <1>4, <1>11, CloseSocket
<1>15. /\ Owners' /\ pc' \in [Threads -> Stages]
       /\ cm' \in [Threads -> Managers \cup {NULL}]
       /\ now' \in [Threads -> 0..MaxTime]
  BY <1>1, <1>2, <1>4, <1>11, ReturnOwners
<1>16. TypeOK'
  BY <1>1, <1>4, <1>9, <1>15 DEF TypeOK
<1> QED
  BY <1>9, <1>10, <1>13, <1>14, <1>15, <1>16 DEF IInv

(* conn_pool_close_connection_ex without bForce. *)
LEMMA GiveBackStep ==
    ASSUME IInv, NEW t \in Threads, NEW c \in Conns, GiveBack(t, c)
    PROVE  IInv'
<1>1. TypeOK /\ Owners /\ Lists /\ CountersExact /\ LimitHolds /\ SocketsOwned
  BY DEF IInv
<1>2. state[c] = "used" /\ Return(t)
  BY DEF GiveBack, CanClose
<1>3. PICK s \in Managers : s = manager[c]
  BY <1>1, <1>2 DEF Owners
<1>4. /\ lock' = [lock EXCEPT ![s] = NULL]
      /\ atime' = [atime EXCEPT ![c] = clock]
      /\ next' = [next EXCEPT ![c] = head[s]]
      /\ head' = [head EXCEPT ![s] = c]
      /\ free_count' = [free_count EXCEPT ![s] = @ + 1]
      /\ state' = [state EXCEPT ![c] = "idle"]
      /\ holder' = [holder EXCEPT ![c] = NULL]
      /\ UNCHANGED <<hash_array, made, total_count, manager, sock, direct, openfds,
                     clock, failures>>
  BY <1>3 DEF GiveBack, CanClose, Unlocks
<1>5. /\ free_count[s] \in Nat /\ total_count[s] \in Nat /\ failures[s] \in Nat
      /\ failures \in [Managers -> Nat]
      /\ [total_count EXCEPT ![s] = total_count[s]] = total_count
  BY <1>1, PoolAssumption DEF TypeOK
<1>6. /\ One(state[c] = "idle") = 0 /\ One(state[c] # "free") = 1
      /\ One("idle" = "idle") = 1 /\ One("idle" # "free") = 1
  BY <1>2 DEF One
<1>7. Moves(c, "idle", s) /\ "idle" \in InUse \cup {"free"} /\ state[c] # "free"
  BY <1>2, <1>3, <1>4 DEF Moves, InUse
<1>8. Counted(c, "idle", s, free_count[s] + 1, total_count[s])
  BY <1>4, <1>5, <1>6 DEF Counted
<1>9. /\ CountersExact' /\ free_count' \in [Managers -> Nat]
      /\ total_count' \in [Managers -> Nat]
  BY <1>1, <1>7, <1>8, CountersStep
<1>10. LimitHolds'
  BY <1>1, <1>7, LimitStep
<1>11. Lists'
  <2>1. ~Idle(c)
    BY <1>2 DEF Idle
  <2> QED
    BY <1>1, <1>3, <1>4, <2>1, PushLists
<1>12. \A d \in Conns : state'[d] # "free" <=> state[d] # "free"
  BY <1>1, <1>2, <1>4 DEF TypeOK
<1>13. SocketsOwned'
  BY <1>1, <1>4, <1>12, SameSockets DEF Live
<1>14. /\ Owners' /\ pc' \in [Threads -> Stages]
       /\ cm' \in [Threads -> Managers \cup {NULL}]
       /\ now' \in [Threads -> 0..MaxTime]
  BY <1>1, <1>2, <1>4, <1>12, ReturnOwners
<1>15. TypeOK'
  BY <1>1, <1>4, <1>9, <1>14 DEF TypeOK
<1> QED
  BY <1>9, <1>10, <1>11, <1>13, <1>14, <1>15 DEF IInv

(* The connection that the program keeps for itself. *)
LEMMA DirectStep ==
    ASSUME IInv, conn_pool_connect_unixdomain \/ DisconnectDirect
    PROVE  IInv'
<1>1. TypeOK /\ Owners /\ SocketsOwned
  BY DEF IInv
<1>2. UNCHANGED <<hash_array, made, head, total_count, free_count, lock, state, manager,
                  next, atime, sock, holder, pc, cm, now, clock, failures>>
  BY DEF conn_pool_connect_unixdomain, DisconnectDirect, managers, blocks, locals
<1>3. \/ direct' = -1 /\ openfds' = openfds \ {direct}
      \/ /\ direct' \in Fds \ (openfds \ {direct})
         /\ openfds' = (openfds \ {direct}) \cup {direct'}
  <2>1. CASE SocketLeft(direct) /\ direct' = Reconnected(direct).sock
             /\ openfds' = Reconnected(direct).open
    BY <2>1, FreshFd
  <2>2. CASE direct' = NotConnected(direct).sock /\ openfds' = NotConnected(direct).open
    BY <2>2 DEF NotConnected
  <2>3. CASE DisconnectDirect
    BY <2>3 DEF DisconnectDirect
  <2> QED
    BY <2>1, <2>2, <2>3 DEF conn_pool_connect_unixdomain
<1>4. SocketsOwned'
  <2>1. PICK fd : fd = direct'
    OBVIOUS
  <2> QED
    BY <1>1, <1>2, <1>3, <2>1, DirectSocket
<1>5. TypeOK'
  BY <1>1, <1>2, <1>3 DEF TypeOK
<1>6. Owners'
  BY <1>1, <1>2 DEF Owners
<1> QED
  BY <1>2, <1>4, <1>5, <1>6, QuietPool DEF IInv

(* conn_pool_destroy, time, and steps of nothing. *)
LEMMA OtherStep ==
    ASSUME IInv, conn_pool_destroy \/ Tick \/ UNCHANGED vars
    PROVE  IInv'
<1>1. TypeOK /\ Owners /\ SocketsOwned
  BY DEF IInv
<1>2. UNCHANGED <<made, head, total_count, free_count, lock, state, manager,
                  next, atime, sock, holder, cm, now, failures, direct, openfds>>
  BY DEF conn_pool_destroy, Tick, vars, managers, blocks, locals
<1>3. /\ hash_array' = [s \in Servers |-> NULL] \/ hash_array' = hash_array
      /\ pc' = [t \in Threads |-> "destroyed"] \/ pc' = pc
      /\ clock' = clock \/ (clock < MaxTime /\ clock' = clock + 1)
  BY DEF conn_pool_destroy, Tick, vars, managers, locals
<1>4. clock' \in 0..MaxTime
  BY <1>1, <1>3, PoolAssumption DEF TypeOK
<1>5. TypeOK'
  BY <1>1, <1>2, <1>3, <1>4 DEF TypeOK, Stages
<1>6. Owners'
  BY <1>1, <1>2, <1>3 DEF Owners
<1>7. SocketsOwned'
  BY <1>1, <1>2, SameSockets DEF Live
<1> QED
  BY <1>2, <1>5, <1>6, <1>7, QuietPool DEF IInv

(* Every step preserves the inductive invariant. *)
LEMMA NextPool == IInv /\ [Next]_vars => IInv'
<1> SUFFICES ASSUME IInv, [Next]_vars PROVE IInv'
  OBVIOUS
<1>1. ASSUME NEW t \in Threads, ThreadStep(t) PROVE IInv'
  BY <1>1, GetStep, NewNodeStep, ConnectStep, DropStep, ReuseStep, CloseStep,
     GiveBackStep DEF ThreadStep
<1> QED
  BY <1>1, DirectStep, OtherStep DEF Next

(* The inductive invariant, which has the types of the pool's fields. *)
LEMMA PoolInvariant == Spec => []IInv
  BY InitPool, NextPool, PTL DEF Spec

(* The array names managers that were allocated, no two servers the same.  *)
Entered == ManagersApart /\ \A s \in Servers : hash_array[s] # NULL => hash_array[s] \in made

LEMMA NextEntered == ASSUME TypeOK, Entered, [Next]_vars PROVE Entered'
<1>1. ASSUME NEW t \in Threads, NEW s \in Servers, conn_pool_get_connection(t, s)
      PROVE  Entered'
  <2>1. PICK m \in Managers : Manager(s, m)
    BY <1>1 DEF conn_pool_get_connection
  <2> QED
    BY <2>1, PoolAssumption DEF Manager, TypeOK, Entered, ManagersApart
<1>2. CASE conn_pool_destroy
  BY <1>2 DEF conn_pool_destroy, Entered, ManagersApart
<1>3. CASE UNCHANGED <<hash_array, made>>
  BY <1>3 DEF Entered, ManagersApart
<1>4. ASSUME NEW t \in Threads, ThreadStep(t)
      PROVE  \/ \E s \in Servers : conn_pool_get_connection(t, s)
             \/ UNCHANGED <<hash_array, made>>
  BY <1>4 DEF ThreadStep, NewNode, Connect, DropIdle, Reuse, CloseForced, GiveBack,
              managers
<1> QED
  BY <1>1, <1>2, <1>3, <1>4 DEF Next, conn_pool_connect_unixdomain, DisconnectDirect,
                                Tick, vars, managers

(* A block keeps its state and its holder. *)
Untouched(c) == state'[c] = state[c] /\ holder'[c] = holder[c]

(* A thread that does not start or end a connect. *)
Steady(t) == pc'[t] = "connect" <=> pc[t] = "connect"

(* A block that goes to where it is nobody's, or is used by t. *)
Settles(t, c) ==
    \/ state'[c] \in {"idle", "free"} /\ holder'[c] \notin Threads
    \/ state'[c] = "used" /\ holder'[c] = t

(* BlocksHeld for the next state, when t has done something with c alone.  *)
LEMMA HeldStep ==
    ASSUME TypeOK, BlocksHeld, NEW t \in Threads, NEW c \in Conns,
           \A d \in Conns \ {c} : Untouched(d),
           \A u \in Threads \ {t} : Steady(u),
           \A u \in Threads \ {t} : ~Connects(u, c),
           \/ /\ Settles(t, c) /\ pc'[t] # "connect"
              /\ pc[t] = "connect" => Connects(t, c)
           \/ /\ state'[c] = "connecting" /\ holder'[c] = t
              /\ pc[t] # "connect" /\ pc'[t] = "connect"
    PROVE  BlocksHeld'
<1>1. /\ \A d \in Conns : state[d] \in {"connecting", "used"} <=> holder[d] \in Threads
      /\ \A u \in Threads : pc[u] = "connect" <=> \E d \in Conns : Connects(u, d)
      /\ \A u \in Threads : \A d, e \in Conns : Connects(u, d) /\ Connects(u, e) => d = e
  BY DEF BlocksHeld
<1>2. \A d \in Conns : state'[d] \in {"connecting", "used"} <=> holder'[d] \in Threads
  BY <1>1 DEF Untouched, Settles
<1>3. \A u \in Threads \ {t}, d \in Conns : Connects(u, d)' <=> Connects(u, d)
  BY DEF Untouched, Settles, Connects
<1>4. \A d \in Conns \ {c} : ~Connects(t, d)'
  BY <1>1 DEF Untouched, Connects
<1>5. pc'[t] = "connect" <=> Connects(t, c)'
  BY DEF Settles, Connects
<1>6. \A u \in Threads : pc'[u] = "connect" <=> \E d \in Conns : Connects(u, d)'
  BY <1>1, <1>3, <1>4, <1>5 DEF Steady
<1>7. \A u \in Threads : \A d, e \in Conns : Connects(u, d)' /\ Connects(u, e)' => d = e
  BY <1>1, <1>3, <1>4
<1> QED
  BY <1>2, <1>6, <1>7 DEF BlocksHeld

(* BlocksHeld speaks of nothing else. *)
LEMMA HeldStays ==
    ASSUME BlocksHeld, \A c \in Conns : Untouched(c), \A t \in Threads : Steady(t)
    PROVE  BlocksHeld'
BY DEF BlocksHeld, Connects, Untouched, Steady

LEMMA NextHeld == ASSUME IInv, BlocksHeld, [Next]_vars PROVE BlocksHeld'
<1>1. /\ TypeOK /\ HeadLeads
      /\ \A c \in Conns : state[c] \in {"connecting", "used"} <=> holder[c] \in Threads
  BY DEF IInv, Lists, BlocksHeld
<1>2. /\ state \in [Conns -> {"free", "connecting", "used", "idle"}]
      /\ holder \in [Conns -> Threads \cup {NULL}] /\ pc \in [Threads -> Stages]
      /\ NULL \notin Threads
  BY <1>1, PoolAssumption DEF TypeOK
<1>3. ASSUME NEW t \in Threads, ThreadStep(t) PROVE BlocksHeld'
  <2>1. CASE \E s \in Servers : conn_pool_get_connection(t, s)
    BY <1>2, <2>1, HeldStays DEF conn_pool_get_connection, blocks, Untouched, Steady
  <2>2. CASE NewNode(t)
    <3>1. CASE Return(t) /\ UNCHANGED blocks
      <4>1. pc[t] = "enter"
        BY <2>2 DEF NewNode
      <4> QED
        BY <1>2, <3>1, <4>1, HeldStays DEF Return, blocks, Untouched, Steady
    <3>2. ASSUME NEW c \in Conns, state[c] = "free",
                 state' = [state EXCEPT ![c] = "connecting"],
                 holder' = [holder EXCEPT ![c] = t],
                 pc[t] = "enter", pc' = [pc EXCEPT ![t] = "connect"]
          PROVE  BlocksHeld'
      <4>1. /\ \A d \in Conns \ {c} : Untouched(d)
            /\ \A u \in Threads \ {t} : Steady(u)
            /\ state'[c] = "connecting" /\ holder'[c] = t
            /\ pc[t] # "connect" /\ pc'[t] = "connect" /\ state[c] # "connecting"
        BY <1>2, <3>2 DEF Untouched, Steady
      <4> QED
        BY <1>1, <4>1, HeldStep DEF Connects
    <3> QED
      BY <2>2, <3>1, <3>2 DEF NewNode
  <2>3. CASE Connect(t)
    <3>1. PICK c \in Conns :
            /\ state[c] = "connecting" /\ holder[c] = t /\ Return(t)
            /\ \/ state' = [state EXCEPT ![c] = "used"] /\ UNCHANGED holder
               \/ /\ state' = [state EXCEPT ![c] = "free"]
                  /\ holder' = [holder EXCEPT ![c] = NULL]
      BY <2>3 DEF Connect
    <3>2. /\ \A d \in Conns \ {c} : Untouched(d)
          /\ \A u \in Threads \ {t} : Steady(u)
          /\ Settles(t, c) /\ pc'[t] # "connect"
      BY <1>2, <3>1 DEF Return, Untouched, Steady, Settles
    <3> QED
      BY <1>1, <3>1, <3>2, HeldStep DEF Connects
  <2>4. CASE DropIdle(t)
    <3>1. PICK c \in Conns : head[cm[t]] = c /\ state' = [state EXCEPT ![c] = "free"]
      BY <2>4 DEF DropIdle, Pop
    <3>2. pc[t] = "enter" /\ UNCHANGED <<pc, holder>>
      BY <2>4 DEF DropIdle, locals
    <3>3. state[c] = "idle"
      BY <1>1, <3>1, <3>2 DEF IInv, Owners, HeadLeads, Idle
    <3>4. /\ \A d \in Conns \ {c} : Untouched(d)
          /\ \A u \in Threads \ {t} : Steady(u)
          /\ Settles(t, c) /\ pc'[t] # "connect" /\ pc[t] # "connect"
      BY <1>1, <1>2, <3>1, <3>2, <3>3 DEF Untouched, Steady, Settles
    <3> QED
      BY <1>1, <3>3, <3>4, HeldStep DEF Connects
  <2>5. CASE Reuse(t)
    <3>1. PICK c \in Conns : /\ head[cm[t]] = c
                             /\ state' = [state EXCEPT ![c] = "used"]
                             /\ holder' = [holder EXCEPT ![c] = t]
      BY <2>5 DEF Reuse, Pop
    <3>2. pc[t] = "enter" /\ Return(t)
      BY <2>5 DEF Reuse
    <3>3. state[c] = "idle"
      BY <1>1, <3>1, <3>2 DEF IInv, Owners, HeadLeads, Idle
    <3>4. /\ \A d \in Conns \ {c} : Untouched(d)
          /\ \A u \in Threads \ {t} : Steady(u)
          /\ Settles(t, c) /\ pc'[t] # "connect" /\ pc[t] # "connect"
      BY <1>2, <3>1, <3>2 DEF Return, Untouched, Steady, Settles
    <3> QED
      BY <1>1, <3>3, <3>4, HeldStep DEF Connects
  <2>6. ASSUME NEW c \in Conns, CloseForced(t, c) \/ GiveBack(t, c) PROVE BlocksHeld'
    <3>1. /\ state[c] = "used" /\ holder[c] = t /\ pc[t] = "outside" /\ Return(t)
          /\ holder' = [holder EXCEPT ![c] = NULL]
          /\ \/ state' = [state EXCEPT ![c] = "free"]
             \/ state' = [state EXCEPT ![c] = "idle"]
      BY <2>6 DEF CloseForced, GiveBack, CanClose
    <3>2. /\ \A d \in Conns \ {c} : Untouched(d)
          /\ \A u \in Threads \ {t} : Steady(u)
          /\ Settles(t, c) /\ pc'[t] # "connect" /\ pc[t] # "connect"
      BY <1>2, <3>1 DEF Return, Untouched, Steady, Settles
    <3> QED
      BY <1>1, <3>1, <3>2, HeldStep DEF Connects
  <2> QED
    BY <1>3, <2>1, <2>2, <2>3, <2>4, <2>5, <2>6 DEF ThreadStep
<1>4. CASE conn_pool_destroy
  BY <1>2, <1>4, HeldStays DEF conn_pool_destroy, blocks, Untouched, Steady
<1>5. CASE UNCHANGED <<state, holder, pc>>
  BY <1>5, HeldStays DEF Untouched, Steady
<1> QED
  BY <1>3, <1>4, <1>5 DEF Next, conn_pool_connect_unixdomain, DisconnectDirect, Tick,
                          vars, blocks, locals

(* The rest of what PoolConsistent says. *)
LEMMA HandsInvariant == Spec => [](Entered /\ BlocksHeld)
<1>1. Init => Entered /\ BlocksHeld
  BY PoolAssumption DEF Init, Entered, ManagersApart, BlocksHeld, Connects
<1>2. IInv /\ Entered /\ BlocksHeld /\ [Next]_vars => (Entered /\ BlocksHeld)'
  BY NextEntered, NextHeld DEF IInv
<1> QED
  BY <1>1, <1>2, PoolInvariant, PTL DEF Spec

(* conn_pool_get_connection and conn_pool_close_connection_ex keep the     *)
(* lists, the counters and the limit of every manager in agreement, also   *)
(* of one that hash_insert could not enter: no caller is handed a          *)
(* connection that another has; free_count is exact; total_count is the    *)
(* connections plus the failed connects, which the code does not subtract; *)
(* max_count_per_entry holds for each manager although threads connect     *)
(* outside the lock; no manager is of two servers.                         *)
THEOREM PoolStaysConsistent == Spec => []PoolConsistent
<1>1. IInv /\ Entered /\ BlocksHeld => PoolConsistent
  BY ListsCount DEF IInv, PoolConsistent, Entered
<1> QED
  BY <1>1, PoolInvariant, HandsInvariant, PTL

(* Every open descriptor is in the sock field of one connection in use, or *)
(* of the program's own: connects that fail, connections dropped from the  *)
(* list and forced closes neither leak nor share one.                      *)
THEOREM NoSocketLost == Spec => []SocketsOwned
<1>1. IInv => SocketsOwned
  BY DEF IInv
<1> QED
  BY <1>1, PoolInvariant, PTL

(* The fields of the pool keep their types; the counters, which the code   *)
(* decrements without a test, never go below zero.                         *)
THEOREM PoolTypeCorrect == Spec => []TypeOK
<1>1. IInv => TypeOK
  BY DEF IInv
<1> QED
  BY <1>1, PoolInvariant, PTL
=============================================================================
