----------------------------- MODULE Parts_proofs -----------------------------
(***************************************************************************)
(* Proofs about the parts of MCParts, for every value of their constants.  *)
(*                                                                         *)
(* The way of an id to the store (Delivery): an id is in one of six kinds  *)
(* of places, to_push, the queue, the hands of a sender, the stream of a   *)
(* connection, a worker, the store, and at most once in each.  Every step  *)
(* takes it from one to the next or loses it; closing, opening and ending  *)
(* connections moves no fragment of a message.  Nothing has to be known    *)
(* about locks, sockets or the places in the code.                         *)
(***************************************************************************)
EXTENDS MCParts, FiniteSetTheorems, TLAPS

Fragment   == (Ids \cup {None}) \X {1, 2}
Connection == [up : BOOLEAN, closed : BOOLEAN, stream : Seq(Fragment),
               busy : Ids \cup D!Misread \cup {None}, echoed : BOOLEAN]
Upload     == Ids \cup D!Misread

(* The ids in each kind of place.  cn is conn. *)
Queued(q) == {q[i] : i \in DOMAIN q}
Held(it)  == {it[t] : t \in Senders} \cap Ids
Sent(cn)  == {id \in Ids : \E c \in DOMAIN cn :
                              \E i \in DOMAIN cn[c].stream : cn[c].stream[i] = <<id, 1>>}
Working(cn) == {id \in Ids : \E c \in DOMAIN cn : cn[c].busy = id}
Stored(st)  == {id \in Ids : \E i \in DOMAIN st : st[i] = id}

QueuedOnce(q) == \A i, j \in DOMAIN q : q[i] = q[j] => i = j
HeldOnce(it)  == \A t, u \in Senders : it[t] \in Ids /\ it[t] = it[u] => t = u
SentOnce(cn)  ==
    \A id \in Ids : \A c, d \in DOMAIN cn :
        \A i \in DOMAIN cn[c].stream, j \in DOMAIN cn[d].stream :
            cn[c].stream[i] = <<id, 1>> /\ cn[d].stream[j] = <<id, 1>> => c = d /\ i = j
WorkingOnce(cn) ==
    \A c, d \in DOMAIN cn : cn[c].busy \in Ids /\ cn[c].busy = cn[d].busy => c = d
StoredOnce(st) ==
    \A i, j \in DOMAIN st : st[i] \in Ids /\ st[i] = st[j] => i = j

(* Six sets without a common element. *)
Apart(P, Q, R, U, V, W) ==
    /\ P \cap Q = {} /\ P \cap R = {} /\ P \cap U = {} /\ P \cap V = {} /\ P \cap W = {}
    /\ Q \cap R = {} /\ Q \cap U = {} /\ Q \cap V = {} /\ Q \cap W = {}
    /\ R \cap U = {} /\ R \cap V = {} /\ R \cap W = {}
    /\ U \cap V = {} /\ U \cap W = {} /\ V \cap W = {}

Typed ==
    /\ to_push \subseteq Ids /\ G_ItemProduce_Mq \in Seq(Ids)
    /\ item \in [Senders -> Ids \cup {None}]
    /\ conn \in Seq(Connection) /\ store \in Seq(Upload)

Once ==
    /\ QueuedOnce(G_ItemProduce_Mq) /\ HeldOnce(item)
    /\ SentOnce(conn) /\ WorkingOnce(conn) /\ StoredOnce(store)
    /\ Apart(to_push, Queued(G_ItemProduce_Mq), Held(item), Sent(conn),
             Working(conn), Stored(store))

DeliveryInv == Typed /\ Once

-----------------------------------------------------------------------------
(* The places on their own. *)

(* An id at the end of the queue. *)
LEMMA QueueAppend ==
    ASSUME NEW q \in Seq(Ids), NEW id \in Ids, id \notin Queued(q), QueuedOnce(q)
    PROVE  /\ Append(q, id) \in Seq(Ids) /\ QueuedOnce(Append(q, id))
           /\ Queued(Append(q, id)) = Queued(q) \cup {id}
<1> DEFINE r == Append(q, id)
<1>1. /\ r \in Seq(Ids) /\ Len(r) = Len(q) + 1 /\ r[Len(q) + 1] = id
      /\ \A i \in 1..Len(q) : r[i] = q[i]
  OBVIOUS
<1>2. DOMAIN r = 1..Len(q) + 1 /\ DOMAIN q = 1..Len(q) /\ Len(q) \in Nat
  BY <1>1
<1>3. \A i \in 1..Len(q) : q[i] # id
  BY <1>2 DEF Queued
<1> HIDE DEF r
<1>4. QueuedOnce(r)
  BY <1>1, <1>2, <1>3 DEF QueuedOnce
<1>5. Queued(r) = Queued(q) \cup {id}
  BY <1>1, <1>2 DEF Queued
<1> QED
  BY <1>1, <1>4, <1>5 DEF r

(* The first id leaves the queue. *)
LEMMA QueueTail ==
    ASSUME NEW q \in Seq(Ids), q # <<>>, QueuedOnce(q)
    PROVE  /\ Tail(q) \in Seq(Ids) /\ QueuedOnce(Tail(q)) /\ Head(q) \in Ids
           /\ Queued(Tail(q)) = Queued(q) \ {Head(q)} /\ Head(q) \in Queued(q)
<1> DEFINE r == Tail(q)
<1>1. /\ r \in Seq(Ids) /\ Len(r) = Len(q) - 1 /\ Len(q) \in Nat \ {0}
      /\ \A i \in 1..Len(r) : r[i] = q[i + 1]
      /\ Head(q) = q[1] /\ q[1] \in Ids
  OBVIOUS
<1>2. DOMAIN r = 1..Len(q) - 1 /\ DOMAIN q = 1..Len(q)
  BY <1>1
<1> HIDE DEF r
<1>3. \A i \in DOMAIN r : i + 1 \in DOMAIN q /\ r[i] = q[i + 1] /\ i \in Int
  BY <1>1, <1>2
<1>4. QueuedOnce(r)
  <2>1. \A i, j \in DOMAIN r : r[i] = r[j] => i + 1 = j + 1
    BY <1>3 DEF QueuedOnce
  <2> QED
    BY <1>3, <2>1 DEF QueuedOnce
<1>5. ASSUME NEW x
      PROVE  x \in Queued(r) <=> x \in Queued(q) /\ x # q[1]
  <2>1. ASSUME x \in Queued(r)
        PROVE  x \in Queued(q) /\ x # q[1]
    <3>1. PICK i \in 1..Len(q) - 1 : x = r[i]
      BY <2>1, <1>2 DEF Queued
    <3>2. i + 1 \in DOMAIN q /\ x = q[i + 1] /\ i + 1 # 1 /\ 1 \in DOMAIN q
      BY <3>1, <1>1, <1>2
    <3> QED
      BY <3>2 DEF Queued, QueuedOnce
  <2>2. ASSUME x \in Queued(q), x # q[1]
        PROVE  x \in Queued(r)
    <3>1. PICK i \in 1..Len(q) : x = q[i]
      BY <2>2, <1>2 DEF Queued
    <3>2. i - 1 \in DOMAIN r /\ x = r[i - 1]
      BY <3>1, <2>2, <1>1, <1>2
    <3> QED
      BY <3>2 DEF Queued
  <2> QED
    BY <2>1, <2>2
<1>6. q[1] \in Queued(q)
  BY <1>1, <1>2 DEF Queued
<1> QED
  BY <1>1, <1>4, <1>5, <1>6 DEF r

(* A thread takes id, or what it held is gone. *)
LEMMA ItemTaken ==
    ASSUME NEW it \in [Senders -> Ids \cup {None}], NEW t \in Senders, NEW id \in Ids,
           id \notin Held(it), HeldOnce(it)
    PROVE  LET new == [it EXCEPT ![t] = id]
           IN  /\ new \in [Senders -> Ids \cup {None}] /\ HeldOnce(new)
               /\ Held(new) \subseteq Held(it) \cup {id}
BY DEF Held, HeldOnce

(* What a thread held is gone. *)
LEMMA ItemGone ==
    ASSUME NEW it \in [Senders -> Ids \cup {None}], NEW t \in Senders,
           HeldOnce(it), D!DeliveryAssumption
    PROVE  LET new == [it EXCEPT ![t] = None]
           IN  /\ new \in [Senders -> Ids \cup {None}] /\ HeldOnce(new)
               /\ Held(new) = Held(it) \ {it[t]}
BY DEF Held, HeldOnce, D!DeliveryAssumption

-----------------------------------------------------------------------------
(* The connections.                                                        *)

(* The fragment <<k, 1>> at two positions is one. *)
LEMMA FirstOnce ==
    ASSUME NEW cn, SentOnce(cn), NEW k \in Ids, NEW c \in DOMAIN cn, NEW d \in DOMAIN cn,
           NEW i \in DOMAIN cn[c].stream, NEW j \in DOMAIN cn[d].stream,
           cn[c].stream[i] = <<k, 1>>, cn[d].stream[j] = <<k, 1>>
    PROVE  c = d /\ i = j
<1>1. \A a \in DOMAIN cn[c].stream, b \in DOMAIN cn[d].stream :
          cn[c].stream[a] = <<k, 1>> /\ cn[d].stream[b] = <<k, 1>> => c = d /\ a = b
  BY DEF SentOnce
<1> QED
  BY <1>1

(* Where it is, its id is on the way. *)
LEMMA FirstSent ==
    ASSUME NEW cn, NEW k \in Ids, NEW c \in DOMAIN cn, NEW i \in DOMAIN cn[c].stream,
           cn[c].stream[i] = <<k, 1>>
    PROVE  k \in Sent(cn)
BY DEF Sent

(* cw is cn with the connections as they were, or with new ones, except for *)
(* what has no part in where an id is.                                      *)
Quiet(cn, cw) ==
    /\ cw \in Seq(Connection) /\ Len(cn) <= Len(cw)
    /\ \A c \in 1..Len(cn) : cw[c].stream = cn[c].stream /\ cw[c].busy = cn[c].busy
    /\ \A c \in Len(cn) + 1..Len(cw) : cw[c].stream = <<>> /\ cw[c].busy = None

(* Connections that change in other respects hold the same ids. *)
LEMMA QuietKeeps ==
    ASSUME NEW cn \in Seq(Connection), NEW cw, Quiet(cn, cw), D!DeliveryAssumption
    PROVE  /\ Sent(cw) = Sent(cn) /\ Working(cw) = Working(cn)
           /\ SentOnce(cn) => SentOnce(cw)
           /\ WorkingOnce(cn) => WorkingOnce(cw)
<1>1. /\ DOMAIN cn = 1..Len(cn) /\ Len(cn) \in Nat
      /\ DOMAIN cw = 1..Len(cw) /\ Len(cw) \in Nat
      /\ Len(cn) <= Len(cw) /\ cw \in Seq(Connection)
  BY DEF Quiet
<1>2. \A c \in DOMAIN cn : /\ c \in DOMAIN cw
                           /\ cw[c].stream = cn[c].stream /\ cw[c].busy = cn[c].busy
  BY <1>1 DEF Quiet
<1>3. \A c \in DOMAIN cw : c \in DOMAIN cn \/ (DOMAIN cw[c].stream = {} /\ cw[c].busy = None)
  BY <1>1 DEF Quiet
<1>4. None \notin Ids
  BY DEF D!DeliveryAssumption
<1>5. Sent(cw) = Sent(cn)
  <2>1. ASSUME NEW id \in Ids, NEW c \in DOMAIN cw, NEW i \in DOMAIN cw[c].stream,
               cw[c].stream[i] = <<id, 1>>
        PROVE  c \in DOMAIN cn /\ i \in DOMAIN cn[c].stream /\ cn[c].stream[i] = <<id, 1>>
    BY <2>1, <1>2, <1>3
  <2>2. Sent(cw) \subseteq Sent(cn)
    BY <2>1 DEF Sent
  <2>3. Sent(cn) \subseteq Sent(cw)
    BY <1>2 DEF Sent
  <2> QED
    BY <2>2, <2>3
<1>6. Working(cw) = Working(cn)
  BY <1>2, <1>3, <1>4 DEF Working
<1>7. ASSUME SentOnce(cn)
      PROVE  SentOnce(cw)
  <2>1. \A c \in DOMAIN cw : \A i \in DOMAIN cw[c].stream :
            c \in DOMAIN cn /\ i \in DOMAIN cn[c].stream /\ cw[c].stream[i] = cn[c].stream[i]
    BY <1>2, <1>3
  <2> QED
    BY <2>1, <1>7 DEF SentOnce
<1>8. WorkingOnce(cn) => WorkingOnce(cw)
  BY <1>2, <1>3, <1>4 DEF WorkingOnce
<1> QED
  BY <1>5, <1>6, <1>7, <1>8

(* A connection with one field changed, as a record. *)
LEMMA Fields ==
    ASSUME NEW r \in Connection
    PROVE  /\ \A v : [r EXCEPT !.up = v] =
                [up |-> v, closed |-> r.closed, stream |-> r.stream, busy |-> r.busy,
                 echoed |-> r.echoed]
           /\ \A v : [r EXCEPT !.closed = v] =
                [up |-> r.up, closed |-> v, stream |-> r.stream, busy |-> r.busy,
                 echoed |-> r.echoed]
           /\ \A v : [r EXCEPT !.stream = v] =
                [up |-> r.up, closed |-> r.closed, stream |-> v, busy |-> r.busy,
                 echoed |-> r.echoed]
           /\ \A v, w : [r EXCEPT !.stream = v, !.busy = w] =
                [up |-> r.up, closed |-> r.closed, stream |-> v, busy |-> w,
                 echoed |-> r.echoed]
           /\ \A v, w : [r EXCEPT !.busy = v, !.echoed = w] =
                [up |-> r.up, closed |-> r.closed, stream |-> r.stream, busy |-> v,
                 echoed |-> w]
<1>1. \A v : [r EXCEPT !.up = v] =
          [up |-> v, closed |-> r.closed, stream |-> r.stream, busy |-> r.busy,
           echoed |-> r.echoed]
  BY DEF Connection
<1>2. \A v : [r EXCEPT !.closed = v] =
          [up |-> r.up, closed |-> v, stream |-> r.stream, busy |-> r.busy,
           echoed |-> r.echoed]
  BY DEF Connection
<1>3. \A v : [r EXCEPT !.stream = v] =
          [up |-> r.up, closed |-> r.closed, stream |-> v, busy |-> r.busy,
           echoed |-> r.echoed]
  BY DEF Connection
<1>4. \A v, w : [r EXCEPT !.stream = v, !.busy = w] =
          [up |-> r.up, closed |-> r.closed, stream |-> v, busy |-> w,
           echoed |-> r.echoed]
  <2> TAKE v, w
  <2>1. [r EXCEPT !.stream = v, !.busy = w] = [[r EXCEPT !.stream = v] EXCEPT !.busy = w]
    BY Zenon
  <2>2. [[up |-> r.up, closed |-> r.closed, stream |-> v, busy |-> r.busy,
          echoed |-> r.echoed] EXCEPT !.busy = w] =
           [up |-> r.up, closed |-> r.closed, stream |-> v, busy |-> w,
            echoed |-> r.echoed]
    OBVIOUS
  <2> QED
    BY <2>1, <2>2, <1>3, Zenon
<1>5. \A v, w : [r EXCEPT !.busy = v, !.echoed = w] =
          [up |-> r.up, closed |-> r.closed, stream |-> r.stream, busy |-> v,
           echoed |-> w]
  <2> TAKE v, w
  <2>1. [r EXCEPT !.busy = v, !.echoed = w] = [[r EXCEPT !.busy = v] EXCEPT !.echoed = w]
    BY Zenon
  <2>2. [r EXCEPT !.busy = v] =
           [up |-> r.up, closed |-> r.closed, stream |-> r.stream, busy |-> v,
            echoed |-> r.echoed]
    BY DEF Connection
  <2>3. [[up |-> r.up, closed |-> r.closed, stream |-> r.stream, busy |-> v,
          echoed |-> r.echoed] EXCEPT !.echoed = w] =
           [up |-> r.up, closed |-> r.closed, stream |-> r.stream, busy |-> v,
            echoed |-> w]
    OBVIOUS
  <2> QED
    BY <2>1, <2>2, <2>3, Zenon
<1> QED
  BY <1>1, <1>2, <1>3, <1>4, <1>5

(* close, and connect that succeeds. *)
LEMMA FlagsQuiet ==
    ASSUME NEW cn \in Seq(Connection), NEW x
    PROVE  /\ Quiet(cn, cn)
           /\ Quiet(cn, [cn EXCEPT ![x].closed = TRUE])
           /\ Quiet(cn, [cn EXCEPT ![x].up = TRUE])
<1>1. Quiet(cn, cn)
  BY DEF Quiet
<1>2. ASSUME NEW r \in Connection, x \in DOMAIN cn,
             r.stream = cn[x].stream, r.busy = cn[x].busy
      PROVE  Quiet(cn, [cn EXCEPT ![x] = r])
  <2> DEFINE cw == [cn EXCEPT ![x] = r]
  <2>1. cw \in Seq(Connection) /\ Len(cw) = Len(cn)
    BY <1>2
  <2>2. \A c \in DOMAIN cn : cw[c].stream = cn[c].stream /\ cw[c].busy = cn[c].busy
    BY <1>2
  <2> HIDE DEF cw
  <2>3. Quiet(cn, cw)
    BY <2>1, <2>2, DOMAIN cn = 1..Len(cn) DEF Quiet
  <2> QED
    BY <2>3 DEF cw
<1>3. CASE x \in DOMAIN cn
  <2>1. cn[x] \in Connection
    BY <1>3
  <2>2. /\ [cn EXCEPT ![x].closed = TRUE] = [cn EXCEPT ![x] = [cn[x] EXCEPT !.closed = TRUE]]
        /\ [cn EXCEPT ![x].up = TRUE] = [cn EXCEPT ![x] = [cn[x] EXCEPT !.up = TRUE]]
    BY Zenon
  <2>3. PICK a, b : a = [cn[x] EXCEPT !.closed = TRUE] /\ b = [cn[x] EXCEPT !.up = TRUE]
    OBVIOUS
  <2>4. /\ a = [up |-> cn[x].up, closed |-> TRUE, stream |-> cn[x].stream,
                busy |-> cn[x].busy, echoed |-> cn[x].echoed]
        /\ b = [up |-> TRUE, closed |-> cn[x].closed, stream |-> cn[x].stream,
                busy |-> cn[x].busy, echoed |-> cn[x].echoed]
    BY <2>1, <2>3, Fields
  <2>5. /\ a \in Connection /\ a.stream = cn[x].stream /\ a.busy = cn[x].busy
        /\ b \in Connection /\ b.stream = cn[x].stream /\ b.busy = cn[x].busy
    BY <2>1, <2>4 DEF Connection
  <2>6. Quiet(cn, [cn EXCEPT ![x] = a]) /\ Quiet(cn, [cn EXCEPT ![x] = b])
    BY <2>5, <1>2, <1>3
  <2> QED
    BY <1>1, <2>2, <2>3, <2>6
<1>4. CASE x \notin DOMAIN cn
  <2>1. /\ [cn EXCEPT ![x].closed = TRUE] = [cn EXCEPT ![x] = [cn[x] EXCEPT !.closed = TRUE]]
        /\ [cn EXCEPT ![x].up = TRUE] = [cn EXCEPT ![x] = [cn[x] EXCEPT !.up = TRUE]]
    BY Zenon
  <2>2. \A r : [cn EXCEPT ![x] = r] = cn
    BY <1>4
  <2> QED
    BY <2>1, <2>2, <1>1, Zenon
<1> QED
  BY <1>3, <1>4

(* socket(), and the end of the process. *)
LEMMA OpenedQuiet ==
    ASSUME NEW cn \in Seq(Connection)
    PROVE  /\ Quiet(cn, Append(cn, D!NewConn))
           /\ Quiet(cn, [c \in DOMAIN cn |-> [cn[c] EXCEPT !.closed = TRUE]])
<1>1. D!NewConn \in Connection /\ D!NewConn.stream = <<>> /\ D!NewConn.busy = None
  BY DEF D!NewConn, Connection
<1>2. Quiet(cn, Append(cn, D!NewConn))
  <2> DEFINE cw == Append(cn, D!NewConn)
  <2>1. /\ cw \in Seq(Connection) /\ Len(cw) = Len(cn) + 1 /\ Len(cn) \in Nat
        /\ \A c \in 1..Len(cn) : cw[c] = cn[c]
        /\ cw[Len(cn) + 1] = D!NewConn
    BY <1>1
  <2> HIDE DEF cw
  <2>2. \A c \in Len(cn) + 1..Len(cw) : cw[c] = D!NewConn
    BY <2>1
  <2>3. Quiet(cn, cw)
    BY <2>1, <2>2, <1>1 DEF Quiet
  <2> QED
    BY <2>3 DEF cw
<1>3. Quiet(cn, [c \in DOMAIN cn |-> [cn[c] EXCEPT !.closed = TRUE]])
  <2>1. PICK g : g = [c \in DOMAIN cn |->
                         [up |-> cn[c].up, closed |-> TRUE, stream |-> cn[c].stream,
                          busy |-> cn[c].busy, echoed |-> cn[c].echoed]]
    OBVIOUS
  <2>2. \A c \in DOMAIN cn : [cn[c] EXCEPT !.closed = TRUE] = g[c]
    <3> TAKE c \in DOMAIN cn
    <3>1. cn[c] \in Connection
      OBVIOUS
    <3>2. PICK r : r = [cn[c] EXCEPT !.closed = TRUE]
      OBVIOUS
    <3>3. r = [up |-> cn[c].up, closed |-> TRUE, stream |-> cn[c].stream,
               busy |-> cn[c].busy, echoed |-> cn[c].echoed]
      BY <3>1, <3>2, Fields
    <3> QED
      BY <2>1, <3>2, <3>3
  <2>3. [c \in DOMAIN cn |-> [cn[c] EXCEPT !.closed = TRUE]] = g
    <3>1. g = [c \in DOMAIN cn |-> g[c]]
      BY <2>1
    <3> QED
      BY <2>2, <3>1, Zenon
  <2>4. DOMAIN cn = 1..Len(cn) /\ Len(cn) \in Nat /\ \A c \in DOMAIN cn : cn[c] \in Connection
    OBVIOUS
  <2>5. \A c \in DOMAIN cn : /\ g[c] \in Connection
                             /\ g[c].stream = cn[c].stream /\ g[c].busy = cn[c].busy
    BY <2>1, <2>4 DEF Connection
  <2>6. g \in [1..Len(cn) -> Connection]
    BY <2>1, <2>4, <2>5
  <2>7. g \in Seq(Connection) /\ Len(g) = Len(cn)
    BY <2>4, <2>6
  <2>8. Quiet(cn, g)
    BY <2>4, <2>5, <2>7 DEF Quiet
  <2> QED
    BY <2>3, <2>8
<1> QED
  BY <1>2, <1>3

(* One connection is replaced. *)
Replaced(cn, cw, x, r) ==
    /\ cw \in Seq(Connection) /\ DOMAIN cw = DOMAIN cn /\ x \in DOMAIN cn
    /\ cw[x] = r /\ \A c \in DOMAIN cn : c # x => cw[c] = cn[c]

(* A connection becomes r. *)
LEMMA OneReplaced ==
    ASSUME NEW cn \in Seq(Connection), NEW x \in DOMAIN cn, NEW r \in Connection
    PROVE  Replaced(cn, [cn EXCEPT ![x] = r], x, r)
BY DEF Replaced

(* What a send of n fragments of id adds to a stream. *)
Fragments(id, n) == [i \in 1..n |-> <<id, i>>]

(* A message is sent in part or as a whole: its id is on the way. *)
LEMMA StreamGrows ==
    ASSUME NEW cn \in Seq(Connection), NEW x, NEW r, NEW cw, Replaced(cn, cw, x, r),
           NEW id, NEW n \in 1..2,
           r.stream = cn[x].stream \o Fragments(id, n), r.busy = cn[x].busy,
           id \notin Sent(cn), SentOnce(cn), WorkingOnce(cn)
    PROVE  /\ Sent(cw) \subseteq Sent(cn) \cup {id} /\ SentOnce(cw)
           /\ Working(cw) = Working(cn) /\ WorkingOnce(cw)
<1>1. /\ x \in DOMAIN cn /\ DOMAIN cw = DOMAIN cn /\ cw[x] = r
      /\ \A c \in DOMAIN cn : c # x => cw[c] = cn[c]
  BY DEF Replaced
<1>2. cn[x].stream \in Seq(Fragment)
  <2>1. cn[x] \in Connection
    BY <1>1
  <2> QED
    BY <2>1 DEF Connection
<1>3. PICK s : s = cn[x].stream
  OBVIOUS
<1>4. PICK t : t = Fragments(id, n)
  OBVIOUS
<1>5. /\ s \in Seq(Fragment) /\ DOMAIN s = 1..Len(s) /\ Len(s) \in Nat
      /\ t[1] = <<id, 1>> /\ (n = 2 => t[2] = <<id, 2>>)
      /\ DOMAIN (s \o t) = 1..Len(s) + n
      /\ \A i \in 1..Len(s) : (s \o t)[i] = s[i]
      /\ \A i \in 1..n : (s \o t)[Len(s) + i] = t[i]
  <2>1. t \in Seq({<<id, 1>>, <<id, 2>>}) /\ Len(t) = n
    BY <1>4 DEF Fragments
  <2>2. s \in Seq(Fragment)
    BY <1>2, <1>3
  <2>3. t[1] = <<id, 1>> /\ (n = 2 => t[2] = <<id, 2>>)
    BY <1>4 DEF Fragments
  <2> QED
    BY <2>1, <2>2, <2>3
<1>6. PICK u : u = s \o t
  OBVIOUS
<1>7. \A i \in DOMAIN u : \A k :
         u[i] = <<k, 1>> => (i \in DOMAIN s /\ s[i] = <<k, 1>>) \/ (i = Len(s) + 1 /\ k = id)
  BY <1>5, <1>6
<1>8. r.stream = u
  BY <1>3, <1>4, <1>6
<1>9. \A c \in DOMAIN cw : \A i \in DOMAIN cw[c].stream : \A k :
         cw[c].stream[i] = <<k, 1>> =>
            \/ i \in DOMAIN cn[c].stream /\ cn[c].stream[i] = <<k, 1>>
            \/ c = x /\ i = Len(s) + 1 /\ k = id
  <2> SUFFICES ASSUME NEW c \in DOMAIN cw, NEW i \in DOMAIN cw[c].stream, NEW k,
                      cw[c].stream[i] = <<k, 1>>
               PROVE  \/ i \in DOMAIN cn[c].stream /\ cn[c].stream[i] = <<k, 1>>
                      \/ c = x /\ i = Len(s) + 1 /\ k = id
    OBVIOUS
  <2>1. CASE c = x
    <3>1. cw[c].stream = u /\ cn[c].stream = s
      BY <2>1, <1>1, <1>3, <1>8
    <3> QED
      BY <2>1, <3>1, <1>7
  <2>2. CASE c # x
    BY <2>2, <1>1
  <2> QED
    BY <2>1, <2>2
<1>10. Sent(cw) \subseteq Sent(cn) \cup {id}
  BY <1>1, <1>9 DEF Sent
<1>11. SentOnce(cw)
  <2> SUFFICES ASSUME NEW k \in Ids, NEW c \in DOMAIN cw, NEW d \in DOMAIN cw,
                      NEW i \in DOMAIN cw[c].stream, NEW j \in DOMAIN cw[d].stream,
                      cw[c].stream[i] = <<k, 1>>, cw[d].stream[j] = <<k, 1>>
               PROVE  c = d /\ i = j
    BY DEF SentOnce
  <2>1. CASE k = id
    <3>1. \A e \in DOMAIN cn : \A l \in DOMAIN cn[e].stream : cn[e].stream[l] # <<k, 1>>
      BY <2>1 DEF Sent
    <3> QED
      BY <1>1, <1>9, <3>1
  <2>2. CASE k # id
    <3>1. /\ i \in DOMAIN cn[c].stream /\ cn[c].stream[i] = <<k, 1>> /\ c \in DOMAIN cn
          /\ j \in DOMAIN cn[d].stream /\ cn[d].stream[j] = <<k, 1>> /\ d \in DOMAIN cn
      BY <1>1, <1>9, <2>2
    <3>2. \A a \in DOMAIN cn[c].stream, b \in DOMAIN cn[d].stream :
              cn[c].stream[a] = <<k, 1>> /\ cn[d].stream[b] = <<k, 1>> => c = d /\ a = b
      BY <3>1 DEF SentOnce
    <3> QED
      BY <3>1, <3>2
  <2> QED
    BY <2>1, <2>2
<1>12. \A c \in DOMAIN cn : cw[c].busy = cn[c].busy
  BY <1>1
<1>13. Working(cw) = Working(cn) /\ WorkingOnce(cw)
  BY <1>1, <1>12 DEF Working, WorkingOnce
<1> QED
  BY <1>10, <1>11, <1>13

(* What is read as an id is one, and its first fragment came first. *)
LEMMA MessageIsId ==
    ASSUME NEW text \in Seq(Fragment), D!DeliveryAssumption,
           NEW msg \in Ids, msg \in D!Message(text)
    PROVE  Len(text) = 2 /\ text[1] = <<msg, 1>>
<1>1. msg \notin D!Misread /\ msg # D!Garbled
  BY DEF D!DeliveryAssumption, D!Misread
<1>2. D!IsWhole(text) /\ msg = Head(text)[1]
  BY <1>1, Zenon DEF D!Message
<1>3. PICK id \in Ids : text = << <<id, 1>>, <<id, 2>> >>
  BY <1>2 DEF D!IsWhole
<1> QED
  BY <1>2, <1>3

(* A read: its id was on the way, and is nowhere on the way any more. *)
LEMMA StreamRead ==
    ASSUME NEW cn \in Seq(Connection), NEW x, NEW r, NEW cw, Replaced(cn, cw, x, r),
           NEW n, n \in 1..Len(cn[x].stream), NEW msg,
           msg \in D!Message(SubSeq(cn[x].stream, 1, n)),
           r.stream = SubSeq(cn[x].stream, n + 1, Len(cn[x].stream)), r.busy = msg,
           SentOnce(cn), WorkingOnce(cn), Sent(cn) \cap Working(cn) = {},
           D!DeliveryAssumption
    PROVE  /\ Sent(cw) \subseteq Sent(cn) /\ SentOnce(cw)
           /\ Working(cw) \subseteq Working(cn) \cup {msg} /\ WorkingOnce(cw)
           /\ msg \in Ids => msg \in Sent(cn) /\ msg \notin Sent(cw)
<1>1. /\ x \in DOMAIN cn /\ DOMAIN cw = DOMAIN cn /\ cw[x] = r
      /\ \A c \in DOMAIN cn : c # x => cw[c] = cn[c]
  BY DEF Replaced
<1>2. cn[x].stream \in Seq(Fragment)
  <2>1. cn[x] \in Connection
    BY <1>1
  <2> QED
    BY <2>1 DEF Connection
<1>3. PICK s : s = cn[x].stream
  OBVIOUS
<1>4. PICK u : u = SubSeq(s, n + 1, Len(s))
  OBVIOUS
<1>5. PICK text : text = SubSeq(s, 1, n)
  OBVIOUS
<1>6. /\ s \in Seq(Fragment) /\ DOMAIN s = 1..Len(s) /\ Len(s) \in Nat /\ n \in 1..Len(s)
      /\ cw[x].stream = u /\ cn[x].stream = s /\ cw[x].busy = msg
  BY <1>1, <1>2, <1>3, <1>4
<1>7. /\ DOMAIN u = 1..Len(s) - n /\ \A i \in 1..Len(s) - n : u[i] = s[i + n]
      /\ text \in Seq(Fragment) /\ Len(text) = n /\ text[1] = s[1]
  BY <1>4, <1>5, <1>6
<1>8. \A i \in DOMAIN u : i + n \in DOMAIN s /\ u[i] = s[i + n] /\ i + n # 1
  BY <1>6, <1>7
<1>9. msg \in Ids => 1 \in DOMAIN s /\ s[1] = <<msg, 1>>
  <2> SUFFICES ASSUME msg \in Ids
               PROVE  1 \in DOMAIN s /\ s[1] = <<msg, 1>>
    OBVIOUS
  <2>1. msg \in D!Message(text)
    BY <1>3, <1>5
  <2>2. text[1] = <<msg, 1>>
    BY <1>7, <2>1, MessageIsId
  <2> QED
    BY <1>6, <1>7, <2>2
<1>10. \A c \in DOMAIN cw : \A i \in DOMAIN cw[c].stream :
          \E j \in DOMAIN cn[c].stream :
             /\ cw[c].stream[i] = cn[c].stream[j]
             /\ j = IF c = x THEN i + n ELSE i
  <2> TAKE c \in DOMAIN cw
  <2> TAKE i \in DOMAIN cw[c].stream
  <2>1. CASE c = x
    BY <2>1, <1>6, <1>8
  <2>2. CASE c # x
    BY <2>2, <1>1
  <2> QED
    BY <2>1, <2>2
<1>11. Sent(cw) \subseteq Sent(cn)
  <2>1. ASSUME NEW k \in Ids, NEW c \in DOMAIN cw, NEW i \in DOMAIN cw[c].stream,
               cw[c].stream[i] = <<k, 1>>
        PROVE  k \in Sent(cn)
    <3>1. PICK j \in DOMAIN cn[c].stream : cw[c].stream[i] = cn[c].stream[j]
      BY <1>10
    <3>2. c \in DOMAIN cn /\ cn[c].stream[j] = <<k, 1>>
      BY <2>1, <3>1, <1>1
    <3> QED
      BY <3>2, FirstSent
  <2>2. \A k \in Sent(cw) : k \in Ids /\ \E c \in DOMAIN cw :
           \E i \in DOMAIN cw[c].stream : cw[c].stream[i] = <<k, 1>>
    BY Zenon DEF Sent
  <2> QED
    BY <2>1, <2>2
<1>12. \A c \in DOMAIN cw : \A i, j \in DOMAIN cw[c].stream :
          i \in Int /\ j \in Int /\ (i + n = j + n => i = j)
  <2>1. \A c \in DOMAIN cw : \A i \in DOMAIN cw[c].stream : i \in Int
    <3> TAKE c \in DOMAIN cw
    <3>1. CASE c = x
      BY <3>1, <1>6, <1>7
    <3>2. CASE c # x
      <4>1. cn[c] \in Connection /\ cw[c] = cn[c]
        BY <3>2, <1>1
      <4>2. cw[c].stream \in Seq(Fragment)
        BY <4>1 DEF Connection
      <4> QED
        BY <4>2
    <3> QED
      BY <3>1, <3>2
  <2> QED
    BY <2>1, <1>6
<1>13. SentOnce(cw)
  <2> SUFFICES ASSUME NEW k \in Ids, NEW c \in DOMAIN cw, NEW d \in DOMAIN cw,
                      NEW i \in DOMAIN cw[c].stream, NEW j \in DOMAIN cw[d].stream,
                      cw[c].stream[i] = <<k, 1>>, cw[d].stream[j] = <<k, 1>>
               PROVE  c = d /\ i = j
    BY DEF SentOnce
  <2>1. PICK a \in DOMAIN cn[c].stream :
           cn[c].stream[a] = <<k, 1>> /\ a = IF c = x THEN i + n ELSE i
    BY <1>10
  <2>2. PICK b \in DOMAIN cn[d].stream :
           cn[d].stream[b] = <<k, 1>> /\ b = IF d = x THEN j + n ELSE j
    BY <1>10
  <2>3. c = d /\ a = b
    <3>1. c \in DOMAIN cn /\ d \in DOMAIN cn
      BY <1>1
    <3>2. cn[c].stream[a] = <<k, 1>> /\ cn[d].stream[b] = <<k, 1>>
      BY <2>1, <2>2
    <3>3. \A e \in DOMAIN cn[c].stream, f \in DOMAIN cn[d].stream :
              cn[c].stream[e] = <<k, 1>> /\ cn[d].stream[f] = <<k, 1>> => c = d /\ e = f
      BY <3>1 DEF SentOnce
    <3> QED
      BY <3>2, <3>3
  <2> QED
    BY <2>1, <2>2, <2>3, <1>12
<1>14. ASSUME msg \in Ids
       PROVE  msg \in Sent(cn) /\ msg \notin Sent(cw)
  <2>1. msg \in Sent(cn)
    BY <1>1, <1>6, <1>9, <1>14, FirstSent
  <2>2. ASSUME NEW c \in DOMAIN cw, NEW i \in DOMAIN cw[c].stream,
               cw[c].stream[i] = <<msg, 1>>
        PROVE  FALSE
    <3>1. PICK j \in DOMAIN cn[c].stream :
             cn[c].stream[j] = <<msg, 1>> /\ j = IF c = x THEN i + n ELSE i
      BY <1>10, <2>2
    <3>2. c = x /\ j = 1
      <4>1. 1 \in DOMAIN cn[x].stream /\ cn[x].stream[1] = <<msg, 1>>
        BY <1>6, <1>9, <1>14
      <4>2. c \in DOMAIN cn
        BY <1>1
      <4>3. cn[c].stream[j] = <<msg, 1>>
        BY <3>1
      <4>4. \A e \in DOMAIN cn[c].stream, f \in DOMAIN cn[x].stream :
                cn[c].stream[e] = <<msg, 1>> /\ cn[x].stream[f] = <<msg, 1>> => c = x /\ e = f
        BY <4>2, <1>1, <1>14 DEF SentOnce
      <4> QED
        BY <4>1, <4>3, <4>4
    <3>3. i \in DOMAIN u /\ j = i + n
      BY <3>1, <3>2, <1>6
    <3> QED
      BY <3>2, <3>3, <1>8
  <2> QED
    BY <2>1, <2>2 DEF Sent
<1>15. Working(cw) \subseteq Working(cn) \cup {msg}
  BY <1>1, <1>6 DEF Working
<1>16. WorkingOnce(cw)
  <2>1. ASSUME msg \in Ids, NEW c \in DOMAIN cn
        PROVE  cn[c].busy # msg
    BY <2>1, <1>14 DEF Working
  <2> QED
    BY <2>1, <1>1, <1>6 DEF WorkingOnce
<1> QED
  BY <1>11, <1>13, <1>14, <1>15, <1>16

(* The worker is done: what it worked on is not in it any more. *)
LEMMA WorkerDone ==
    ASSUME NEW cn \in Seq(Connection), NEW x, NEW r, NEW cw, Replaced(cn, cw, x, r),
           r.stream = cn[x].stream, r.busy = None,
           SentOnce(cn), WorkingOnce(cn), D!DeliveryAssumption
    PROVE  /\ Sent(cw) = Sent(cn) /\ SentOnce(cw)
           /\ Working(cw) = Working(cn) \ {cn[x].busy} /\ WorkingOnce(cw)
<1>1. /\ x \in DOMAIN cn /\ DOMAIN cw = DOMAIN cn /\ cw[x] = r
      /\ \A c \in DOMAIN cn : c # x => cw[c] = cn[c]
  BY DEF Replaced
<1>2. \A c \in DOMAIN cn : cw[c].stream = cn[c].stream
  BY <1>1
<1>3. Sent(cw) = Sent(cn)
  BY <1>1, <1>2 DEF Sent
<1>4. SentOnce(cw)
  BY <1>1, <1>2 DEF SentOnce
<1>5. /\ None \notin Ids /\ cw[x].busy = None
      /\ \A c \in DOMAIN cn : c # x => cw[c].busy = cn[c].busy
  BY <1>1 DEF D!DeliveryAssumption
<1>6. WorkingOnce(cw)
  BY <1>1, <1>5 DEF WorkingOnce
<1>7. Working(cw) = Working(cn) \ {cn[x].busy}
  <2>1. ASSUME NEW id \in Working(cw)
        PROVE  id \in Working(cn) /\ id # cn[x].busy
    <3>1. PICK c \in DOMAIN cn : cw[c].busy = id /\ id \in Ids
      BY <1>1 DEF Working
    <3>2. c # x /\ cn[c].busy = id
      BY <3>1, <1>5
    <3> QED
      BY <3>1, <3>2, <1>1 DEF Working, WorkingOnce
  <2>2. ASSUME NEW id \in Working(cn), id # cn[x].busy
        PROVE  id \in Working(cw)
    <3>1. PICK c \in DOMAIN cn : cn[c].busy = id /\ id \in Ids
      BY DEF Working
    <3>2. cw[c].busy = id
      BY <3>1, <2>2, <1>5
    <3> QED
      BY <3>1, <3>2, <1>1 DEF Working
  <2> QED
    BY <2>1, <2>2
<1> QED
  BY <1>3, <1>4, <1>6, <1>7

(* What was not read is gone. *)
LEMMA StreamReset ==
    ASSUME NEW cn \in Seq(Connection), NEW x, NEW r, NEW cw, Replaced(cn, cw, x, r),
           r.stream = <<>>, r.busy = cn[x].busy, SentOnce(cn), WorkingOnce(cn)
    PROVE  /\ Sent(cw) \subseteq Sent(cn) /\ SentOnce(cw)
           /\ Working(cw) = Working(cn) /\ WorkingOnce(cw)
<1>1. /\ x \in DOMAIN cn /\ DOMAIN cw = DOMAIN cn /\ cw[x] = r
      /\ \A c \in DOMAIN cn : c # x => cw[c] = cn[c]
  BY DEF Replaced
<1>2. \A c \in DOMAIN cw : DOMAIN cw[c].stream = {} \/ cw[c].stream = cn[c].stream
  BY <1>1
<1>3. Sent(cw) \subseteq Sent(cn)
  BY <1>1, <1>2 DEF Sent
<1>4. SentOnce(cw)
  BY <1>1, <1>2 DEF SentOnce
<1>5. \A c \in DOMAIN cn : cw[c].busy = cn[c].busy
  BY <1>1
<1>6. Working(cw) = Working(cn) /\ WorkingOnce(cw)
  BY <1>1, <1>5 DEF Working, WorkingOnce
<1> QED
  BY <1>3, <1>4, <1>6

(* The store is sent one more file. *)
LEMMA StoreAppend ==
    ASSUME NEW st \in Seq(Upload), NEW u \in Upload, u \notin Stored(st),
           StoredOnce(st)
    PROVE  /\ Append(st, u) \in Seq(Upload) /\ StoredOnce(Append(st, u))
           /\ Stored(Append(st, u)) \subseteq Stored(st) \cup {u}
<1> DEFINE s == Append(st, u)
<1>1. /\ s \in Seq(Upload) /\ Len(st) \in Nat
      /\ DOMAIN st = 1..Len(st) /\ DOMAIN s = 1..Len(st) + 1
      /\ s[Len(st) + 1] = u /\ \A i \in 1..Len(st) : s[i] = st[i]
  OBVIOUS
<1> HIDE DEF s
<1>2. \A i \in DOMAIN s : \/ i \in DOMAIN st /\ s[i] = st[i]
                          \/ i = Len(st) + 1 /\ s[i] = u
  BY <1>1
<1>3. u \in Ids => \A i \in DOMAIN st : st[i] # u
  BY DEF Stored
<1>4. StoredOnce(s)
  BY <1>2, <1>3 DEF StoredOnce
<1>5. Stored(s) \subseteq Stored(st) \cup {u}
  BY <1>2 DEF Stored
<1> QED
  BY <1>1, <1>4, <1>5 DEF s

-----------------------------------------------------------------------------
(* The steps.                                                              *)

(* At first every id is still to be pushed. *)
LEMMA InitDelivery == D!DeliveryAssumption /\ D!Init => DeliveryInv
<1> SUFFICES ASSUME D!DeliveryAssumption, D!Init
             PROVE  DeliveryInv
  OBVIOUS
<1>1. Typed
  BY DEF D!Init, Typed
<1>2. /\ Queued(G_ItemProduce_Mq) = {} /\ Held(item) = {} /\ Sent(conn) = {}
      /\ Working(conn) = {} /\ Stored(store) = {}
  BY DEF D!Init, Queued, Held, Sent, Working, Stored, D!DeliveryAssumption
<1>3. /\ QueuedOnce(G_ItemProduce_Mq) /\ HeldOnce(item)
      /\ SentOnce(conn) /\ WorkingOnce(conn) /\ StoredOnce(store)
  BY DEF D!Init, QueuedOnce, HeldOnce, SentOnce, WorkingOnce, StoredOnce, D!DeliveryAssumption
<1> QED
  BY <1>1, <1>2, <1>3 DEF DeliveryInv, Once, Apart

(* A step that only changes connections quietly. *)
LEMMA QuietStep ==
    ASSUME DeliveryInv, D!DeliveryAssumption, Quiet(conn, conn'),
           UNCHANGED <<to_push, G_ItemProduce_Mq, item, store>>
    PROVE  DeliveryInv'
<1>1. conn \in Seq(Connection) /\ conn' \in Seq(Connection)
  BY DEF DeliveryInv, Typed, Quiet
<1>2. PICK cn, cw : cn = conn /\ cw = conn'
  OBVIOUS
<1>3. /\ Sent(cw) = Sent(cn) /\ Working(cw) = Working(cn)
      /\ SentOnce(cn) => SentOnce(cw)
      /\ WorkingOnce(cn) => WorkingOnce(cw)
  BY <1>1, <1>2, QuietKeeps
<1>4. Typed'
  BY <1>1 DEF DeliveryInv, Typed
<1>5. Once'
  BY <1>2, <1>3 DEF DeliveryInv, Once
<1> QED
  BY <1>4, <1>5 DEF DeliveryInv

(* What close() does to the connections. *)
LEMMA ClosedConn ==
    ASSUME NEW t, D!ConnectClose(t) \/ D!Disconnect(t)
    PROVE  conn' = conn \/ \E x : conn' = [conn EXCEPT ![x].closed = TRUE]
<1>1. CASE D!ConnectClose(t)
  BY <1>1, Zenon DEF D!Closed, D!ConnectClose
<1>2. CASE D!Disconnect(t)
  BY <1>2, Zenon DEF D!Closed, D!Disconnect
<1> QED
  BY <1>1, <1>2

(* What connect() does to them. *)
LEMMA ConnectedConn ==
    ASSUME NEW t, D!ConnectServer(t)
    PROVE  conn' = conn \/ \E x : \/ conn' = [conn EXCEPT ![x].closed = TRUE]
                                  \/ conn' = [conn EXCEPT ![x].up = TRUE]
BY Zenon DEF D!Closed, D!ConnectServer

(* What the end of the process does to them. *)
LEMMA EndedConn ==
    ASSUME NEW t, D!Crash(t) \/ D!Exit
    PROVE  conn' = [c \in DOMAIN conn |-> [conn[c] EXCEPT !.closed = TRUE]]
BY Zenon DEF D!Crash, D!Exit, D!End

(* What the other steps of a thread do to them. *)
LEMMA OpenedConn ==
    ASSUME NEW t, D!NewServer(t) \/ D!FillServer(t) \/ D!TestEmpty(t) \/ D!ConnectSocket(t)
    PROVE  conn' = conn \/ conn' = Append(conn, D!NewConn)
BY DEF D!NewServer, D!FillServer, D!TestEmpty, D!ConnectSocket

(* The threads at work on the connection. *)
LEMMA ConnectionSteps ==
    ASSUME DeliveryInv, D!DeliveryAssumption, NEW t \in Senders,
           \/ D!NewServer(t) \/ D!FillServer(t) \/ D!TestEmpty(t) \/ D!ConnectClose(t)
           \/ D!ConnectSocket(t) \/ D!ConnectServer(t) \/ D!Disconnect(t) \/ D!Crash(t)
    PROVE  DeliveryInv'
<1>1. conn \in Seq(Connection)
  BY DEF DeliveryInv, Typed
<1>2. UNCHANGED <<to_push, G_ItemProduce_Mq, item, store>>
  BY DEF D!NewServer, D!FillServer, D!TestEmpty, D!ConnectClose, D!ConnectSocket, D!ConnectServer,
         D!Disconnect, D!Crash, D!End
<1>3. PICK cn, cw : cn = conn /\ cw = conn'
  OBVIOUS
<1>4. \/ cw = cn \/ cw = Append(cn, D!NewConn)
      \/ cw = [c \in DOMAIN cn |-> [cn[c] EXCEPT !.closed = TRUE]]
      \/ \E x : \/ cw = [cn EXCEPT ![x].closed = TRUE]
                \/ cw = [cn EXCEPT ![x].up = TRUE]
  BY <1>3, ClosedConn, ConnectedConn, EndedConn, OpenedConn, Zenon
<1>5. cn \in Seq(Connection)
  BY <1>1, <1>3
<1>6. Quiet(cn, cw)
  BY <1>4, <1>5, FlagsQuiet, OpenedQuiet, Zenon
<1>7. Quiet(conn, conn')
  BY <1>3, <1>6
<1> QED
  BY <1>2, <1>7, QuietStep

(* An id is pushed. *)
LEMMA PushStep ==
    ASSUME DeliveryInv, D!DeliveryAssumption, NEW id \in Ids, D!Push(id)
    PROVE  DeliveryInv'
<1>1. /\ id \in to_push /\ to_push' = to_push \ {id}
      /\ G_ItemProduce_Mq' = Append(G_ItemProduce_Mq, id)
      /\ UNCHANGED <<item, conn, store>>
  BY DEF D!Push
<1>2. /\ G_ItemProduce_Mq \in Seq(Ids) /\ QueuedOnce(G_ItemProduce_Mq)
      /\ id \notin Queued(G_ItemProduce_Mq)
  BY <1>1 DEF DeliveryInv, Typed, Once, Apart
<1>3. PICK q, r : q = G_ItemProduce_Mq /\ r = G_ItemProduce_Mq'
  OBVIOUS
<1>4. r \in Seq(Ids) /\ QueuedOnce(r) /\ Queued(r) = Queued(q) \cup {id}
  BY <1>1, <1>2, <1>3, QueueAppend
<1>5. Typed'
  BY <1>1, <1>3, <1>4 DEF DeliveryInv, Typed
<1>6. Apart(to_push', Queued(r), Held(item), Sent(conn), Working(conn), Stored(store))
  BY <1>1, <1>3, <1>4 DEF DeliveryInv, Once, Apart
<1>7. Once'
  BY <1>1, <1>3, <1>4, <1>6 DEF DeliveryInv, Once
<1> QED
  BY <1>5, <1>7 DEF DeliveryInv

(* A thread pops an id: nobody else gets it. *)
LEMMA PopStep ==
    ASSUME DeliveryInv, D!DeliveryAssumption, NEW t \in Senders, D!try_pop(t)
    PROVE  DeliveryInv'
<1>1. CASE UNCHANGED <<to_push, G_ItemProduce_Mq, item, conn, store>>
  <2>1. conn \in Seq(Connection)
    BY DEF DeliveryInv, Typed
  <2>2. Quiet(conn, conn')
    BY <1>1, <2>1, FlagsQuiet
  <2> QED
    BY <1>1, <2>2, QuietStep
<1>2. CASE /\ G_ItemProduce_Mq # <<>>
           /\ item' = [item EXCEPT ![t] = Head(G_ItemProduce_Mq)]
           /\ G_ItemProduce_Mq' = Tail(G_ItemProduce_Mq)
           /\ UNCHANGED <<to_push, conn, store>>
  <2>1. PICK q, r, it, new, id :
           /\ q = G_ItemProduce_Mq /\ r = G_ItemProduce_Mq'
           /\ it = item /\ new = item' /\ id = Head(G_ItemProduce_Mq)
    OBVIOUS
  <2>2. /\ q \in Seq(Ids) /\ q # <<>> /\ QueuedOnce(q)
        /\ it \in [Senders -> Ids \cup {None}] /\ HeldOnce(it)
        /\ r = Tail(q) /\ id = Head(q) /\ new = [it EXCEPT ![t] = id]
    BY <1>2, <2>1 DEF DeliveryInv, Typed, Once
  <2>3. /\ r \in Seq(Ids) /\ QueuedOnce(r) /\ id \in Ids
        /\ Queued(r) = Queued(q) \ {id} /\ id \in Queued(q)
    BY <2>2, QueueTail
  <2>4. id \notin Held(it)
    BY <2>1, <2>3 DEF DeliveryInv, Once, Apart
  <2>5. /\ new \in [Senders -> Ids \cup {None}] /\ HeldOnce(new)
        /\ Held(new) \subseteq Held(it) \cup {id}
    BY <2>2, <2>3, <2>4, ItemTaken
  <2>6. Typed'
    BY <1>2, <2>1, <2>3, <2>5 DEF DeliveryInv, Typed
  <2>7. Apart(to_push, Queued(r), Held(new), Sent(conn), Working(conn), Stored(store))
    BY <2>1, <2>3, <2>5 DEF DeliveryInv, Once, Apart
  <2>8. Once'
    BY <1>2, <2>1, <2>3, <2>5, <2>7 DEF DeliveryInv, Once
  <2> QED
    BY <2>6, <2>8 DEF DeliveryInv
<1> QED
  BY <1>1, <1>2 DEF D!try_pop

(* A thread gives its id up. *)
LEMMA DropStep ==
    ASSUME DeliveryInv, D!DeliveryAssumption, NEW t \in Senders, D!DeleteServer(t)
    PROVE  DeliveryInv'
<1>1. /\ item' = [item EXCEPT ![t] = None]
      /\ UNCHANGED <<to_push, G_ItemProduce_Mq, conn, store>>
  BY DEF D!DeleteServer
<1>2. PICK it, new : it = item /\ new = item'
  OBVIOUS
<1>3. /\ it \in [Senders -> Ids \cup {None}] /\ HeldOnce(it)
      /\ new = [it EXCEPT ![t] = None]
  BY <1>1, <1>2 DEF DeliveryInv, Typed, Once
<1>4. /\ new \in [Senders -> Ids \cup {None}] /\ HeldOnce(new)
      /\ Held(new) = Held(it) \ {it[t]}
  BY <1>3, ItemGone
<1>5. Typed'
  BY <1>1, <1>2, <1>4 DEF DeliveryInv, Typed
<1>6. Apart(to_push, Queued(G_ItemProduce_Mq), Held(new), Sent(conn), Working(conn),
            Stored(store))
  BY <1>2, <1>4 DEF DeliveryInv, Once, Apart
<1>7. Once'
  BY <1>1, <1>2, <1>4, <1>6 DEF DeliveryInv, Once
<1> QED
  BY <1>5, <1>7 DEF DeliveryInv

(* What Send does to the connections cn: nothing, or one gets fragments. *)
SentFrom(cn, cw, id) ==
    cw = cn \/ \E n \in 1..2 : \E x :
       cw = [cn EXCEPT ![x] =
                [cn[x] EXCEPT !.stream = cn[x].stream \o Fragments(id, n)]]

(* What a send does to the connections. *)
LEMMA SentConn ==
    ASSUME NEW t, D!Send(t)
    PROVE  SentFrom(conn, conn', item[t])
<1>1. \A n \in 0..2 : n # 0 => n \in 1..2
  OBVIOUS
<1>2. \A n \in {0} : n = 0
  OBVIOUS
<1>3. \E n \in 0..2 : conn' = IF n = 0 THEN conn
                  ELSE [conn EXCEPT ![fd[conn_sock[pConsumerServer]]].stream =
                                        @ \o [i \in 1..n |-> <<item[t], i>>]]
  <2>1. 0 \in 0..2
    OBVIOUS
  <2> QED
    BY <2>1, <1>2, Zenon DEF D!Send
<1> QED
  BY <1>1, <1>3, Zenon DEF SentFrom, Fragments

(* A thread sends its id, if the connection takes it. *)
LEMMA SendStep ==
    ASSUME DeliveryInv, D!DeliveryAssumption, NEW t \in Senders, D!Send(t)
    PROVE  DeliveryInv'
<1>1. /\ item' = [item EXCEPT ![t] = None]
      /\ UNCHANGED <<to_push, G_ItemProduce_Mq, store>>
  BY Zenon DEF D!Send
<1>2. PICK it, new, id, cn, cw :
         it = item /\ new = item' /\ id = item[t] /\ cn = conn /\ cw = conn'
  OBVIOUS
<1>3. /\ it \in [Senders -> Ids \cup {None}] /\ HeldOnce(it)
      /\ new = [it EXCEPT ![t] = None] /\ id = it[t]
      /\ cn \in Seq(Connection) /\ SentOnce(cn) /\ WorkingOnce(cn)
  BY <1>1, <1>2 DEF DeliveryInv, Typed, Once
<1>4. /\ new \in [Senders -> Ids \cup {None}] /\ HeldOnce(new)
      /\ Held(new) = Held(it) \ {id}
  BY <1>3, ItemGone
<1>5. id \in Ids => id \in Held(it)
  BY <1>3 DEF Held
<1>6. id \notin Sent(cn)
  BY <1>2, <1>5 DEF DeliveryInv, Once, Apart, Sent
<1>7. /\ cw \in Seq(Connection) /\ Sent(cw) \subseteq Sent(cn) \cup {id} /\ SentOnce(cw)
      /\ Working(cw) = Working(cn) /\ WorkingOnce(cw)
  <2>1. CASE cw = cn
    BY <2>1, <1>3
  <2>2. ASSUME NEW n \in 1..2, NEW x,
               cw = [cn EXCEPT ![x] = [cn[x] EXCEPT !.stream =
                                          cn[x].stream \o Fragments(id, n)]]
        PROVE  /\ cw \in Seq(Connection)
               /\ Sent(cw) \subseteq Sent(cn) \cup {id} /\ SentOnce(cw)
               /\ Working(cw) = Working(cn) /\ WorkingOnce(cw)
    <3>1. PICK v : v = cn[x].stream \o Fragments(id, n)
      OBVIOUS
    <3>2. PICK r : r = [cn[x] EXCEPT !.stream = v]
      OBVIOUS
    <3>3. cw = [cn EXCEPT ![x] = r]
      BY <2>2, <3>1, <3>2, Zenon
    <3>4. CASE x \in DOMAIN cn
      <4>1. cn[x] \in Connection
        BY <3>4, <1>3
      <4>2. r = [up |-> cn[x].up, closed |-> cn[x].closed, stream |-> v,
                 busy |-> cn[x].busy, echoed |-> cn[x].echoed]
        BY <4>1, <3>2, Fields, Zenon
      <4>3. v \in Seq(Fragment)
        <5>1. cn[x].stream \in Seq(Fragment)
          BY <4>1 DEF Connection
        <5>2. id \in Ids \cup {None}
          BY <1>3
        <5>3. Fragments(id, n) \in Seq(Fragment)
          BY <5>2 DEF Fragment, Fragments
        <5> QED
          BY <3>1, <5>1, <5>3
      <4>4. r \in Connection /\ r.stream = v /\ r.busy = cn[x].busy
        BY <4>1, <4>2, <4>3 DEF Connection
      <4>5. Replaced(cn, cw, x, r)
        BY <1>3, <3>3, <3>4, <4>4, OneReplaced
      <4>6. cw \in Seq(Connection)
        BY <4>5 DEF Replaced
      <4>7. r.stream = cn[x].stream \o Fragments(id, n)
        BY <3>1, <4>4
      <4> QED
        BY <1>3, <1>6, <4>4, <4>5, <4>6, <4>7, StreamGrows
    <3>5. CASE x \notin DOMAIN cn
      <4>1. cw = cn
        BY <3>3, <3>5, <1>3
      <4> QED
        BY <4>1, <1>3
    <3> QED
      BY <3>4, <3>5
  <2>3. SentFrom(cn, cw, id)
    BY <1>2, SentConn
  <2> QED
    BY <2>1, <2>2, <2>3, Zenon DEF SentFrom
<1>8. Typed'
  BY <1>1, <1>2, <1>4, <1>7 DEF DeliveryInv, Typed
<1>9. Sent(cw) \subseteq Ids
  BY DEF Sent
<1>10. Apart(to_push, Queued(G_ItemProduce_Mq), Held(new), Sent(cw), Working(cw),
             Stored(store))
  BY <1>2, <1>4, <1>5, <1>7, <1>9 DEF DeliveryInv, Once, Apart
<1>11. Once'
  BY <1>1, <1>2, <1>4, <1>7, <1>10 DEF DeliveryInv, Once
<1> QED
  BY <1>8, <1>11 DEF DeliveryInv

(* What OnRead does to the connections cn. *)
ReadFrom(cn, cw, x) ==
    \E n \in 1..Len(cn[x].stream) :
    \E msg \in D!Message(SubSeq(cn[x].stream, 1, n)) :
       cw = [cn EXCEPT ![x] =
               [cn[x] EXCEPT !.stream = SubSeq(cn[x].stream, n + 1, Len(cn[x].stream)),
                             !.busy = msg]]

(* What a read does to the connections. *)
LEMMA ReadConn ==
    ASSUME NEW x, D!OnRead(x)
    PROVE  ReadFrom(conn, conn', x)
BY Zenon DEF D!OnRead, ReadFrom

(* What a read is taken for. *)
LEMMA MessageType == \A text : D!Message(text) \subseteq Ids \cup D!Misread
<1> TAKE text
<1>1. CASE D!IsWhole(text)
  <2>1. PICK id \in Ids : text = << <<id, 1>>, <<id, 2>> >>
    BY <1>1 DEF D!IsWhole
  <2>2. Head(text)[1] \in Ids
    BY <2>1
  <2>3. D!Message(text) = {Head(text)[1], D!Garbled}
    BY <1>1, Zenon DEF D!Message
  <2> QED
    BY <2>2, <2>3, Zenon DEF D!Misread
<1>2. CASE ~D!IsWhole(text)
  BY <1>2, Zenon DEF D!Message
<1> QED
  BY <1>1, <1>2

(* The consumer reads a message. *)
LEMMA ReadStep ==
    ASSUME DeliveryInv, D!DeliveryAssumption, NEW x \in DOMAIN conn, D!OnRead(x)
    PROVE  DeliveryInv'
<1>1. UNCHANGED <<to_push, G_ItemProduce_Mq, item, store>>
  BY Zenon DEF D!OnRead, D!sendvars
<1>2. PICK cn, cw : cn = conn /\ cw = conn'
  OBVIOUS
<1>3. /\ cn \in Seq(Connection) /\ SentOnce(cn) /\ WorkingOnce(cn)
      /\ Sent(cn) \cap Working(cn) = {} /\ x \in DOMAIN cn
  BY <1>2 DEF DeliveryInv, Typed, Once, Apart
<1>4. PICK n, msg :
         /\ n \in 1..Len(cn[x].stream)
         /\ msg \in D!Message(SubSeq(cn[x].stream, 1, n))
         /\ cw = [cn EXCEPT ![x] =
                    [cn[x] EXCEPT !.stream = SubSeq(cn[x].stream, n + 1, Len(cn[x].stream)),
                                  !.busy = msg]]
  <2>1. ReadFrom(cn, cw, x)
    BY <1>2, ReadConn
  <2> QED
    BY <2>1, Zenon DEF ReadFrom
<1>i. n \in 1..Len(cn[x].stream)
  BY <1>4
<1>m. msg \in D!Message(SubSeq(cn[x].stream, 1, n))
  BY <1>4
<1>5. PICK v, r : /\ v = SubSeq(cn[x].stream, n + 1, Len(cn[x].stream))
                  /\ r = [cn[x] EXCEPT !.stream = v, !.busy = msg]
  OBVIOUS
<1>6. cw = [cn EXCEPT ![x] = r]
  BY <1>4, <1>5, Zenon
<1>7. cn[x] \in Connection
  BY <1>3
<1>8. r = [up |-> cn[x].up, closed |-> cn[x].closed, stream |-> v, busy |-> msg,
           echoed |-> cn[x].echoed]
  <2>1. PICK old : old = cn[x]
    OBVIOUS
  <2>2. old \in Connection /\ r = [old EXCEPT !.stream = v, !.busy = msg]
    BY <1>5, <1>7, <2>1, Zenon
  <2>3. r = [up |-> old.up, closed |-> old.closed, stream |-> v, busy |-> msg,
             echoed |-> old.echoed]
    BY <2>2, Fields, Zenon
  <2> QED
    BY <2>1, <2>3
<1>9. v \in Seq(Fragment) /\ msg \in Ids \cup D!Misread \cup {None}
  <2>1. cn[x].stream \in Seq(Fragment)
    BY <1>7 DEF Connection
  <2>2. v \in Seq(Fragment) /\ SubSeq(cn[x].stream, 1, n) \in Seq(Fragment)
    BY <2>1, <1>5, <1>i
  <2> QED
    BY <2>2, <1>m, MessageType
<1>10. r \in Connection /\ r.stream = v /\ r.busy = msg
  BY <1>7, <1>8, <1>9 DEF Connection
<1>11. Replaced(cn, cw, x, r)
  BY <1>3, <1>6, <1>10, OneReplaced
<1>12. /\ Sent(cw) \subseteq Sent(cn) /\ SentOnce(cw)
       /\ Working(cw) \subseteq Working(cn) \cup {msg} /\ WorkingOnce(cw)
       /\ msg \in Ids => msg \in Sent(cn) /\ msg \notin Sent(cw)
  <2>1. r.stream = SubSeq(cn[x].stream, n + 1, Len(cn[x].stream))
    BY <1>5, <1>10
  <2> QED
    BY <1>3, <1>i, <1>m, <1>10, <1>11, <2>1, StreamRead, SMTT(30)
<1>13. cw \in Seq(Connection)
  BY <1>11 DEF Replaced
<1>14. Typed'
  BY <1>1, <1>2, <1>13 DEF DeliveryInv, Typed
<1>15. Working(cw) \subseteq Ids
  BY DEF Working
<1>16. Apart(to_push, Queued(G_ItemProduce_Mq), Held(item), Sent(cw), Working(cw),
             Stored(store))
  BY <1>2, <1>12, <1>15 DEF DeliveryInv, Once, Apart
<1>17. Once'
  BY <1>1, <1>2, <1>12, <1>16 DEF DeliveryInv, Once
<1> QED
  BY <1>14, <1>17 DEF DeliveryInv

(* The consumer is done with a message: the store is sent its file, or not. *)
LEMMA WorkStep ==
    ASSUME DeliveryInv, D!DeliveryAssumption, NEW x \in DOMAIN conn, D!ConsumerMsg(x)
    PROVE  DeliveryInv'
<1>1. UNCHANGED <<to_push, G_ItemProduce_Mq, item>>
  BY Zenon DEF D!ConsumerMsg, D!sendvars
<1>2. PICK cn, cw, id : cn = conn /\ cw = conn' /\ id = conn[x].busy
  OBVIOUS
<1>3. /\ cn \in Seq(Connection) /\ SentOnce(cn) /\ WorkingOnce(cn) /\ x \in DOMAIN cn
      /\ store \in Seq(Upload) /\ StoredOnce(store)
  BY <1>2 DEF DeliveryInv, Typed, Once
<1>4. cn[x] \in Connection
  BY <1>3
<1>5. id \in Ids \cup D!Misread /\ id = cn[x].busy
  BY <1>2, <1>4 DEF D!ConsumerMsg, Connection
<1>6. PICK r : r = [cn[x] EXCEPT !.busy = None, !.echoed = TRUE]
  OBVIOUS
<1>7. cw = [cn EXCEPT ![x] = r]
  <2>1. conn' = [conn EXCEPT ![x] = [conn[x] EXCEPT !.busy = None, !.echoed = TRUE]]
    BY Zenon DEF D!ConsumerMsg
  <2>2. r = [conn[x] EXCEPT !.busy = None, !.echoed = TRUE]
    BY <1>2, <1>6, Zenon
  <2>3. conn' = [conn EXCEPT ![x] = r]
    BY <2>1, <2>2, Zenon
  <2> QED
    BY <1>2, <2>3
<1>8. r = [up |-> cn[x].up, closed |-> cn[x].closed, stream |-> cn[x].stream,
           busy |-> None, echoed |-> TRUE]
  <2>1. PICK old : old = cn[x]
    OBVIOUS
  <2>2. old \in Connection /\ r = [old EXCEPT !.busy = None, !.echoed = TRUE]
    BY <1>4, <1>6, <2>1, Zenon
  <2>3. r = [up |-> old.up, closed |-> old.closed, stream |-> old.stream, busy |-> None,
             echoed |-> TRUE]
    BY <2>2, Fields, Zenon
  <2> QED
    BY <2>1, <2>3
<1>9. r \in Connection /\ r.stream = cn[x].stream /\ r.busy = None
  BY <1>4, <1>8 DEF Connection
<1>10. Replaced(cn, cw, x, r)
  BY <1>3, <1>7, <1>9, OneReplaced
<1>11. /\ Sent(cw) = Sent(cn) /\ SentOnce(cw)
       /\ Working(cw) = Working(cn) \ {id} /\ WorkingOnce(cw)
  BY <1>3, <1>5, <1>9, <1>10, WorkerDone
<1>12. cw \in Seq(Connection)
  BY <1>10 DEF Replaced
<1>13. id \in Ids => id \in Working(cn)
  BY <1>3, <1>5 DEF Working
<1>14. PICK st, sv : st = store /\ sv = store'
  OBVIOUS
<1>15. sv = st \/ sv = Append(st, id)
  BY <1>2, <1>14, Zenon DEF D!ConsumerMsg
<1>16. id \in Upload
  BY <1>5 DEF Upload
<1>17. id \notin Stored(st)
  BY <1>2, <1>13, <1>14 DEF DeliveryInv, Once, Apart, Stored
<1>18. sv \in Seq(Upload) /\ StoredOnce(sv) /\ Stored(sv) \subseteq Stored(st) \cup {id}
  <2>1. CASE sv = Append(st, id)
    BY <1>3, <1>14, <1>16, <1>17, <2>1, StoreAppend
  <2>2. CASE sv = st
    BY <1>3, <1>14, <2>2
  <2> QED
    BY <1>15, <2>1, <2>2
<1>19. Typed'
  BY <1>1, <1>2, <1>12, <1>14, <1>18 DEF DeliveryInv, Typed
<1>20. Stored(sv) \subseteq Ids
  BY DEF Stored
<1>21. Apart(to_push, Queued(G_ItemProduce_Mq), Held(item), Sent(cw), Working(cw), Stored(sv))
  BY <1>2, <1>11, <1>13, <1>14, <1>18, <1>20 DEF DeliveryInv, Once, Apart
<1>22. Once'
  BY <1>1, <1>2, <1>11, <1>14, <1>18, <1>21 DEF DeliveryInv, Once
<1> QED
  BY <1>19, <1>22 DEF DeliveryInv

(* What was not read when the socket was reset is gone. *)
LEMMA ResetStep ==
    ASSUME DeliveryInv, D!DeliveryAssumption, NEW x \in DOMAIN conn, D!Reset(x)
    PROVE  DeliveryInv'
<1>1. UNCHANGED <<to_push, G_ItemProduce_Mq, item, store>>
  BY Zenon DEF D!Reset, D!sendvars
<1>2. PICK cn, cw : cn = conn /\ cw = conn'
  OBVIOUS
<1>3. cn \in Seq(Connection) /\ SentOnce(cn) /\ WorkingOnce(cn) /\ x \in DOMAIN cn
  BY <1>2 DEF DeliveryInv, Typed, Once
<1>4. cn[x] \in Connection
  BY <1>3
<1>5. PICK none, old, r :
         none = <<>> /\ old = cn[x] /\ r = [old EXCEPT !.stream = none]
  OBVIOUS
<1>6. cw = [cn EXCEPT ![x] = r]
  <2>1. conn' = [conn EXCEPT ![x] = [conn[x] EXCEPT !.stream = <<>>]]
    BY Zenon DEF D!Reset
  <2>2. r = [conn[x] EXCEPT !.stream = none] /\ none = <<>>
    BY <1>2, <1>5, Zenon
  <2>3. conn' = [conn EXCEPT ![x] = r]
    BY <2>1, <2>2, Zenon
  <2> QED
    BY <1>2, <2>3
<1>7. r = [up |-> old.up, closed |-> old.closed, stream |-> none, busy |-> old.busy,
           echoed |-> old.echoed]
  <2>1. old \in Connection
    BY <1>4, <1>5
  <2>2. r = [old EXCEPT !.stream = none]
    BY <1>5
  <2> QED
    BY <2>1, <2>2, Fields, Zenon
<1>8. r \in Connection /\ r.stream = <<>> /\ r.busy = cn[x].busy
  <2>1. old \in Connection /\ old = cn[x] /\ none = <<>>
    BY <1>4, <1>5
  <2> QED
    BY <2>1, <1>7 DEF Connection
<1>9. Replaced(cn, cw, x, r)
  BY <1>3, <1>6, <1>8, OneReplaced
<1>10. /\ Sent(cw) \subseteq Sent(cn) /\ SentOnce(cw)
       /\ Working(cw) = Working(cn) /\ WorkingOnce(cw)
  BY <1>3, <1>8, <1>9, StreamReset
<1>11. cw \in Seq(Connection)
  BY <1>9 DEF Replaced
<1>12. Typed'
  BY <1>1, <1>2, <1>11 DEF DeliveryInv, Typed
<1>13. Apart(to_push, Queued(G_ItemProduce_Mq), Held(item), Sent(cw), Working(cw),
             Stored(store))
  BY <1>2, <1>10 DEF DeliveryInv, Once, Apart
<1>14. Once'
  BY <1>1, <1>2, <1>10, <1>13 DEF DeliveryInv, Once
<1> QED
  BY <1>12, <1>14 DEF DeliveryInv

(* The invariant holds at first and every step preserves it. *)
LEMMA NextDelivery ==
    ASSUME DeliveryInv, D!DeliveryAssumption, [D!Next]_(D!vars)
    PROVE  DeliveryInv'
<1>1. ASSUME NEW id \in Ids, D!Push(id)
      PROVE  DeliveryInv'
  BY <1>1, PushStep
<1>2. ASSUME NEW t \in Senders, D!Sender(t)
      PROVE  DeliveryInv'
  BY <1>2, ConnectionSteps, PopStep, DropStep, SendStep DEF D!Sender
<1>3. CASE D!Exit
  <2>1. UNCHANGED <<to_push, G_ItemProduce_Mq, item, store>>
    BY <1>3 DEF D!Exit, D!End
  <2>2. PICK cn, cw : cn = conn /\ cw = conn'
    OBVIOUS
  <2>3. cn \in Seq(Connection)
    BY <2>2 DEF DeliveryInv, Typed
  <2>4. cw = [c \in DOMAIN cn |-> [cn[c] EXCEPT !.closed = TRUE]]
    BY <1>3, <2>2, EndedConn, Zenon
  <2>5. Quiet(cn, cw)
    BY <2>3, <2>4, OpenedQuiet, Zenon
  <2>6. Quiet(conn, conn')
    BY <2>2, <2>5
  <2> QED
    BY <2>1, <2>6, QuietStep
<1>4. ASSUME NEW x \in DOMAIN conn, D!OnRead(x) \/ D!ConsumerMsg(x) \/ D!Reset(x)
      PROVE  DeliveryInv'
  BY <1>4, ReadStep, WorkStep, ResetStep
<1>5. CASE UNCHANGED D!vars
  <2>1. UNCHANGED <<to_push, G_ItemProduce_Mq, item, conn, store>>
    BY <1>5 DEF D!vars, D!sendvars
  <2>2. Typed'
    BY <2>1 DEF DeliveryInv, Typed
  <2>3. Once'
    BY <2>1 DEF DeliveryInv, Once
  <2> QED
    BY <2>2, <2>3 DEF DeliveryInv
<1> QED
  BY <1>1, <1>2, <1>3, <1>4, <1>5 DEF D!Next

-----------------------------------------------------------------------------
(* A set whose elements are all the same has at most one. *)
LEMMA AtMostOne ==
    ASSUME NEW P, \A p, q \in P : p = q
    PROVE  Cardinality(P) <= 1
<1>1. CASE P = {}
  BY <1>1, FS_EmptySet
<1>2. CASE P # {}
  <2>1. PICK p : p \in P
    BY <1>2
  <2>2. P = {p}
    BY <2>1
  <2>3. Cardinality(P) = 1
    BY <2>2, FS_Singleton
  <2> QED
    BY <2>3
<1> QED
  BY <1>1, <1>2

(* OnePlace follows from the invariant. *)
LEMMA OnePlaceFollows == DeliveryInv => D!OnePlace
<1> SUFFICES ASSUME DeliveryInv, NEW id \in Ids
             PROVE  Cardinality(D!Places(id)) <= 1
  <2>1. \A P : D!Cardinality(P) = Cardinality(P)
    BY DEF D!Cardinality, Cardinality
  <2> QED
    BY <2>1, Zenon DEF D!OnePlace
<1>1. PICK Q, R, U, W, V :
         /\ Q = {i \in DOMAIN G_ItemProduce_Mq : G_ItemProduce_Mq[i] = id}
         /\ R = {t \in Senders : item[t] = id}
         /\ U = {c \in DOMAIN conn :
                   \E i \in DOMAIN conn[c].stream : conn[c].stream[i] = <<id, 1>>}
         /\ W = {c \in DOMAIN conn : conn[c].busy = id}
         /\ V = {i \in DOMAIN store : store[i] = id}
  OBVIOUS
<1>2. /\ \A i, j \in Q : i = j
      /\ \A i, j \in R : i = j
      /\ \A i, j \in W : i = j
      /\ \A i, j \in V : i = j
  BY <1>1 DEF DeliveryInv, Once, QueuedOnce, HeldOnce, WorkingOnce, StoredOnce
<1>3. \A c, d \in U : c = d
  BY <1>1, FirstOnce DEF DeliveryInv, Once
<1>4. /\ Q # {} => id \in Queued(G_ItemProduce_Mq)
      /\ R # {} => id \in Held(item)
      /\ U # {} => id \in Sent(conn)
      /\ W # {} => id \in Working(conn)
      /\ V # {} => id \in Stored(store)
  BY <1>1 DEF Queued, Held, Sent, Working, Stored
<1>5. /\ Q = {} \/ (R = {} /\ U = {} /\ W = {} /\ V = {})
      /\ R = {} \/ (U = {} /\ W = {} /\ V = {})
      /\ U = {} \/ (W = {} /\ V = {})
      /\ W = {} \/ V = {}
  BY <1>4 DEF DeliveryInv, Once, Apart
<1>6. D!Places(id) = {<<"queue", i>> : i \in Q} \cup {<<"thread", i>> : i \in R}
                   \cup {<<"stream", i>> : i \in U} \cup {<<"worker", i>> : i \in W}
                   \cup {<<"store", i>> : i \in V}
  BY <1>1, Zenon DEF D!Places
<1>7. \A p, q \in D!Places(id) : p = q
  BY <1>2, <1>3, <1>5, <1>6
<1> QED
  BY <1>7, AtMostOne

(* An id that was read as it was sent is never in two places: two threads   *)
(* of ListenItemConsumerMq that take turns on the queue and on the shared   *)
(* pConsumerServer neither take the same id nor send one again, whatever    *)
(* fails and whoever closes.  So a file is uploaded twice only when         *)
(* _Buffered_on_read takes other bytes than those of one id for it.         *)
THEOREM ReadIdsOnce == PartsSpec => []OnePlace
<1> DEFINE Ok == part = "delivery" => DeliveryInv
<1>1. PartsInit => Ok
  BY InitDelivery, PartsAssumption DEF PartsInit
<1>2. Ok /\ [PartsNext]_partsvars => Ok'
  <2> SUFFICES ASSUME Ok, [PartsNext]_partsvars, part' = "delivery"
               PROVE  DeliveryInv'
    OBVIOUS
  <2>1. part = "delivery" /\ (Deliver \/ UNCHANGED partsvars)
    BY DEF PartsNext, partsvars, Deliver, Pool, Hash, Schedule, Socket, WriteLog, Read, Encode
  <2>2. [D!Next]_(D!vars)
    BY <2>1 DEF Deliver, partsvars, dvars, D!vars, D!sendvars
  <2> QED
    BY <2>1, <2>2, NextDelivery, PartsAssumption
<1>3. Ok => OnePlace
  BY OnePlaceFollows DEF OnePlace
<1> QED
  BY <1>1, <1>2, <1>3, PTL DEF PartsSpec

-----------------------------------------------------------------------------
(* The log of the threads.  FastLog_proofs proves its invariant for the     *)
(* module FastLog on its own; P is that module with the names of MCParts.   *)
P == INSTANCE FastLog_proofs WITH
       Threads <- Loggers, Slots <- LogSlots, max_size <- LogSize,
       Files <- LogFiles, Split <- LogSplit,
       pc <- step, now <- time

(* The definitions of both instances are the same. *)
LEMMA SameLog ==
    /\ L!LogAssumption <=> P!LogAssumption
    /\ L!Init <=> P!Init
    /\ [L!Next]_(L!vars) <=> [P!Next]_(P!vars)
    /\ L!FilesShared <=> P!FilesShared
    /\ L!LinesKept <=> P!LinesKept
<1>1. L!LogAssumption <=> P!LogAssumption
  BY DEF L!LogAssumption, P!LogAssumption, L!Range, P!Range
<1>2. L!Init <=> P!Init
  BY DEF L!Init, P!Init, L!FreeSlot, P!FreeSlot
<1>3. [L!Next]_(L!vars) <=> [P!Next]_(P!vars)
  BY Zenon DEF
     L!vars, L!Next, L!Tick, L!OpenLog, L!OpenFileUnit, L!CloseLog, L!CloseFileUnit,
     L!FreeLogUnit, L!WriteLog, L!RemoveTmp, L!Write, L!Goto, L!SameName, L!FreeSlots,
     L!Created, L!Put, L!Drop, L!Log, L!Tmp, L!FreeName, L!Rolled, L!Exists, L!MustRoll,
     L!LastDate, L!UnitClosed, L!FreeSlot, L!Min, L!Last, L!Front, L!Cardinality,
     P!vars, P!Next, P!Tick, P!OpenLog, P!OpenFileUnit, P!CloseLog, P!CloseFileUnit,
     P!FreeLogUnit, P!WriteLog, P!RemoveTmp, P!Write, P!Goto, P!SameName, P!FreeSlots,
     P!Created, P!Put, P!Drop, P!Log, P!Tmp, P!FreeName, P!Rolled, P!Exists, P!MustRoll,
     P!LastDate, P!UnitClosed, P!FreeSlot, P!Min, P!Last, P!Front, P!Cardinality
<1>4. L!FilesShared <=> P!FilesShared
  BY Zenon DEF L!FilesShared, P!FilesShared, L!Users, P!Users, L!Cardinality, P!Cardinality
<1>5. L!LinesKept <=> P!LinesKept
  BY Zenon DEF L!LinesKept, P!LinesKept, L!LinesIn, P!LinesIn, L!Range, P!Range
<1> QED
  BY <1>1, <1>2, <1>3, <1>4, <1>5

(* Its invariant, while the behaviour is one of the log. *)
LogOk == part = "log" => P!LogInv

(* The invariant of the log, in the behaviours of the parts. *)
LEMMA LogPart ==
    /\ PartsInit => LogOk
    /\ LogOk /\ [PartsNext]_partsvars => LogOk'
<1>1. P!LogAssumption
  BY PartsAssumption, SameLog
<1>2. ASSUME PartsInit
      PROVE  LogOk
  <2>1. P!Init
    BY <1>2, SameLog DEF PartsInit
  <2> QED
    BY <1>1, <2>1, P!InitLog DEF LogOk
<1>3. ASSUME LogOk, [PartsNext]_partsvars, part' = "log"
      PROVE  P!LogInv'
  <2>1. part = "log" /\ (WriteLog \/ UNCHANGED partsvars)
    BY <1>3
    DEF PartsNext, partsvars, Deliver, Pool, Hash, Schedule, Socket, WriteLog, Read, Encode
  <2>2. [L!Next]_(L!vars)
    BY <2>1 DEF WriteLog, partsvars, lvars, L!vars
  <2>3. [P!Next]_(P!vars) /\ P!LogInv
    BY <1>3, <2>1, <2>2, SameLog DEF LogOk
  <2> QED
    BY <1>1, <2>3, P!NextLog
<1> QED
  BY <1>2, <1>3 DEF LogOk

(* A file of the table is open exactly while some handle counts on it, and  *)
(* is the one that handle opened: threads that open, close and roll files   *)
(* in any order never write to a file that another one has closed or        *)
(* replaced, as long as every renamed file can be created anew.             *)
THEOREM FilesStayShared == PartsSpec => []FilesShared
<1>1. PartsInit => LogOk
  BY LogPart
<1>2. LogOk /\ [PartsNext]_partsvars => LogOk'
  BY LogPart
<1>3. LogOk => FilesShared
  BY P!SharedFollows, SameLog DEF FilesShared, LogOk
<1> QED
  BY <1>1, <1>2, <1>3, PTL DEF PartsSpec

(* Every line that was written is on the disk, or went with a file that a   *)
(* thread without kLogSizeSplit renamed to be removed: threads that roll    *)
(* one file in the same second pick different names.                        *)
THEOREM NoLineLost == PartsSpec => []LinesKept
<1>1. PartsInit => LogOk
  BY LogPart
<1>2. LogOk /\ [PartsNext]_partsvars => LogOk'
  BY LogPart
<1>3. LogOk => LinesKept
  BY P!KeptFollows, SameLog DEF LinesKept, LogOk
<1> QED
  BY <1>1, <1>2, <1>3, PTL DEF PartsSpec
=============================================================================
