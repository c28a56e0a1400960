---------------------------- MODULE FastLog_proofs ----------------------------
(***************************************************************************)
(* Proof that the threads share the table of FastLog as their handles say  *)
(* and lose no line, for any threads, files, slots, size and splitting.    *)
(*                                                                         *)
(* The reference counts are right only if every handle is: the invariant   *)
(* counts, for each slot, the files of the handles that are in it, so that *)
(* OpenFileUnit adds one to the slot of its name and CloseFileUnit takes   *)
(* one away.  Every open file exists under its name, every line lies in a  *)
(* file named after its log, and a suffix of a renamed log is below the    *)
(* number of lines: so the number of lines is a free suffix and FreeName   *)
(* never meets an existing file, while what a rename to the temporary name *)
(* overwrites belongs to a log that some thread opened without             *)
(* kLogSizeSplit.  All this but the types holds until a renamed log cannot *)
(* be created anew: then its slot is taken for free while handles use it.  *)
(***************************************************************************)
EXTENDS FastLog, FiniteSetTheorems, SequenceTheorems, WellFoundedInduction, TLAPS

(* The names of the logs, and whether a thread that opens the log named     *)
(* name does without kLogSizeSplit.                                         *)
LogNames   == UNION {Range(Files[t]) : t \in Threads}
Unsplit(name) == \E t \in Threads : ~Split[t] /\ name \in Range(Files[t])
FileUnit   == [fp : BOOLEAN, name : LogNames \cup {None}, ref_cnt : Nat,
               last_date : Nat \cup {None}]

(* Users for any handles; file i of thread t as a user. *)
Use(t, i) == <<t, i>>
UsersOf(h, s) == UNION {{<<t, i>> : i \in {i \in DOMAIN h[t] : h[t][i] = s}} : t \in Threads}

(* The table g and the handles h agree. *)
Counted(g, h) ==
    /\ \A s \in Slots : /\ IsFiniteSet(UsersOf(h, s))
                        /\ g[s].ref_cnt = Cardinality(UsersOf(h, s))
                        /\ g[s].fp <=> UsersOf(h, s) # {}
    /\ \A s \in Slots : g[s].fp <=> g[s].name # None
    /\ \A t \in Threads : \A i \in DOMAIN h[t] : g[h[t][i]].name = Files[t][i]
    /\ \A s, r \in Slots : g[s].fp /\ g[s].name = g[r].name => s = r

(* Every line up to n is on the disk d or was removed. *)
NothingLost(d, gone, n) == {line.nr : line \in LinesIn(d) \cup gone} = 1..n

(* What is in a file belongs to it; the names with a suffix number that is  *)
(* not below the number of lines are free.                                  *)
FileOK(f, file, n) ==
    /\ f.name \in LogNames /\ f.suffix \in Int /\ f.suffix < n
    /\ f.suffix = -2 => Unsplit(f.name)
    /\ "lines" \in DOMAIN file
    /\ \A line \in file.lines : line.file = f.name
DiskOK(d, n) == \A f \in DOMAIN d : FileOK(f, d[f], n)

OpenExist(g, d) == \A s \in Slots : g[s].fp => Log(g[s].name) \in DOMAIN d

Victims == {None} \cup {Tmp(name) : name \in LogNames \cup {None}}

LogTyped ==
    /\ g_file_array \in [Slots -> FileUnit]
    /\ handle \in [Threads -> Seq(Slots)]
    /\ pc \in [Threads -> {"closed", "open", "opened", "closing"}]
    /\ victim \in [Threads -> Victims]
    /\ now \in Nat /\ lines \in Nat /\ broken \in BOOLEAN
    /\ \A t \in Threads : /\ Len(handle[t]) <= Len(Files[t])
                          /\ pc[t] = "open" => Len(handle[t]) < Len(Files[t])

Whole(g, h, d, gone, n) ==
    /\ Counted(g, h) /\ OpenExist(g, d) /\ DiskOK(d, n) /\ NothingLost(d, gone, n)
    /\ \A line \in gone : Unsplit(line.file)

LogInv ==
    /\ LogTyped
    /\ ~broken => Whole(g_file_array, handle, disk, removed, lines)

-----------------------------------------------------------------------------
(* The names a thread opens. *)
LEMMA FilesType ==
    ASSUME LogAssumption, NEW t \in Threads
    PROVE  /\ Files[t] \in Seq(LogNames) /\ Len(Files[t]) \in Nat \ {0}
           /\ DOMAIN Files[t] = 1..Len(Files[t])
           /\ \A i \in 1..Len(Files[t]) : /\ Files[t][i] \in LogNames /\ Files[t][i] # None
                                          /\ Files[t][i] \in Range(Files[t])
<1>1. Files[t] \in Seq(Range(Files[t]) \ {None}) /\ Files[t] # <<>>
  BY DEF LogAssumption
<1>2. /\ Len(Files[t]) \in Nat \ {0} /\ DOMAIN Files[t] = 1..Len(Files[t])
      /\ \A i \in 1..Len(Files[t]) : Files[t][i] \in Range(Files[t]) \ {None}
  BY <1>1
<1>3. Range(Files[t]) \subseteq LogNames
  BY DEF LogNames
<1>4. Files[t] \in [1..Len(Files[t]) -> Range(Files[t]) \ {None}]
  BY <1>1
<1>5. Files[t] \in [1..Len(Files[t]) -> LogNames]
  BY <1>3, <1>4
<1> QED
  BY <1>2, <1>3, <1>5

(* None is not the name of a log. *)
LEMMA NamesNotNone ==
    ASSUME LogAssumption
    PROVE  None \notin LogNames
<1>1. ASSUME NEW t \in Threads, NEW i \in DOMAIN Files[t]
      PROVE  Files[t][i] # None
  BY FilesType
<1> QED
  BY <1>1 DEF LogNames, Range

(* Min of a set of numbers is its least element. *)
LEMMA MinIn ==
    ASSUME NEW T \in SUBSET Nat, T # {}
    PROVE  Min(T) \in T /\ \A y \in T : Min(T) <= y
<1> DEFINE R == {p \in Nat \X Nat : p[1] < p[2]}
<1>1. IsWellFoundedOn(R, Nat)
  BY NatLessThanWellFounded, Zenon DEF OpToRel
<1>2. PICK f \in T : \A g \in T : ~(<<g, f>> \in R)
  BY <1>1, WFMin, Zenon
<1>3. \A g \in T : ~(g < f)
  BY <1>2
<1>4. \A g \in T : f <= g
  BY <1>3
<1> QED
  BY <1>4, Zenon DEF Min

(* Who uses a slot. *)
LEMMA UsersAre ==
    \A h, s, x : x \in UsersOf(h, s) =>
        \E u \in Threads : \E i \in DOMAIN h[u] : h[u][i] = s /\ x = Use(u, i)
BY DEF UsersOf, Use

(* A handle that has a slot uses it. *)
LEMMA UsersIn ==
    \A h, s : \A u \in Threads : \A i \in DOMAIN h[u] :
        h[u][i] = s => Use(u, i) \in UsersOf(h, s)
BY DEF UsersOf, Use

(* A user is one file of one thread. *)
LEMMA UseOne == \A t, i, u, j : Use(t, i) = Use(u, j) => t = u /\ i = j
BY DEF Use

(* Handle t of h is longer, by slot s, in h2. *)
Longer(h, h2, t, s) ==
    /\ h2 \in [Threads -> Seq(Slots)]
    /\ \A u \in Threads \ {t} : h2[u] = h[u]
    /\ DOMAIN h[t] = 1..Len(h[t]) /\ Len(h[t]) \in Nat
    /\ DOMAIN h2[t] = 1..Len(h[t]) + 1 /\ Len(h2[t]) = Len(h[t]) + 1
    /\ \A i \in 1..Len(h[t]) : h2[t][i] = h[t][i]
    /\ h2[t][Len(h[t]) + 1] = s

(* A slot at the end of a handle. *)
LEMMA AppendLonger ==
    ASSUME NEW h \in [Threads -> Seq(Slots)], NEW t \in Threads, NEW s \in Slots
    PROVE  Longer(h, [h EXCEPT ![t] = Append(h[t], s)], t, s)
BY DEF Longer

(* The last slot leaves a handle. *)
LEMMA FrontLonger ==
    ASSUME NEW h \in [Threads -> Seq(Slots)], NEW t \in Threads, h[t] # <<>>
    PROVE  /\ Last(h[t]) \in Slots
           /\ Longer([h EXCEPT ![t] = Front(h[t])], h, t, Last(h[t]))
<1> DEFINE m == Len(h[t])
<1>1. /\ m \in Nat \ {0} /\ DOMAIN h[t] = 1..m /\ Last(h[t]) = h[t][m]
      /\ Last(h[t]) \in Slots
      /\ \A i \in 1..m - 1 : h[t][i] \in Slots
  BY DEF Last
<1> HIDE DEF m
<1>2. /\ SubSeq(h[t], 1, m - 1) \in Seq(Slots)
      /\ Len(SubSeq(h[t], 1, m - 1)) = IF 1 <= m - 1 THEN (m - 1) - 1 + 1 ELSE 0
      /\ \A i \in 1..(m - 1) - 1 + 1 : SubSeq(h[t], 1, m - 1)[i] = h[t][1 + i - 1]
  BY <1>1, SubSeqProperties
<1> DEFINE f == Front(h[t])
<1>3. f = SubSeq(h[t], 1, m - 1)
  BY DEF Front, m
<1> HIDE DEF f
<1>4. /\ f \in Seq(Slots) /\ Len(f) = m - 1
      /\ \A i \in 1..m - 1 : f[i] = h[t][i]
  BY <1>1, <1>2, <1>3
<1>5. DOMAIN f = 1..m - 1
  BY <1>4
<1>6. Longer([h EXCEPT ![t] = f], h, t, Last(h[t]))
  <2>1. PICK g : g = [h EXCEPT ![t] = f]
    OBVIOUS
  <2>2. g[t] = f /\ \A u \in Threads \ {t} : h[u] = g[u]
    BY <2>1
  <2>3. Len(g[t]) \in Nat /\ Len(g[t]) + 1 = m /\ DOMAIN g[t] = 1..Len(g[t])
    BY <2>2, <1>1, <1>4, <1>5
  <2>4. \A i \in 1..Len(g[t]) : h[t][i] = g[t][i]
    BY <2>2, <1>4
  <2> QED
    BY <2>1, <2>2, <2>3, <2>4, <1>1 DEF Longer, m
<1> QED
  BY <1>1, <1>6 DEF f

(* A longer handle is one more user of its last slot and of no other. *)
LEMMA UsersLonger ==
    ASSUME NEW h, NEW h2, NEW t \in Threads, NEW s \in Slots, Longer(h, h2, t, s)
    PROVE  /\ UsersOf(h2, s) = UsersOf(h, s) \cup {Use(t, Len(h2[t]))}
           /\ Use(t, Len(h2[t])) \notin UsersOf(h, s)
           /\ \A r \in Slots \ {s} : UsersOf(h2, r) = UsersOf(h, r)
           /\ \A u \in Threads : \A i \in DOMAIN h2[u] :
                 \/ i \in DOMAIN h[u] /\ h2[u][i] = h[u][i]
                 \/ u = t /\ i = Len(h2[t]) /\ h2[u][i] = s
           /\ \A u \in Threads : \A i \in DOMAIN h[u] :
                 i \in DOMAIN h2[u] /\ h2[u][i] = h[u][i]
<1> DEFINE m == Len(h2[t])
<1>1. /\ \A u \in Threads \ {t} : h2[u] = h[u]
      /\ m \in DOMAIN h2[t] /\ m \notin DOMAIN h[t] /\ h2[t][m] = s
      /\ \A i \in DOMAIN h2[t] : i \in DOMAIN h[t] \/ i = m
      /\ \A i \in DOMAIN h[t] : i \in DOMAIN h2[t] /\ h2[t][i] = h[t][i]
  BY DEF Longer
<1> HIDE DEF m
<1>2. \A u \in Threads : \A i \in DOMAIN h[u] :
         i \in DOMAIN h2[u] /\ h2[u][i] = h[u][i]
  BY <1>1
<1>3. \A u \in Threads : \A i \in DOMAIN h2[u] :
         \/ i \in DOMAIN h[u] /\ h2[u][i] = h[u][i]
         \/ u = t /\ i = m /\ h2[u][i] = s
  BY <1>1
<1>4. ASSUME NEW r, NEW x, x \in UsersOf(h, r)
      PROVE  x \in UsersOf(h2, r) /\ x # Use(t, m)
  <2>1. PICK u \in Threads : \E i \in DOMAIN h[u] : h[u][i] = r /\ x = Use(u, i)
    BY <1>4, UsersAre
  <2>2. PICK i \in DOMAIN h[u] : h[u][i] = r /\ x = Use(u, i)
    BY <2>1
  <2>3. i \in DOMAIN h2[u] /\ h2[u][i] = r
    BY <2>2, <1>2
  <2>4. Use(u, i) \in UsersOf(h2, r)
    BY <2>3, UsersIn
  <2> QED
    BY <2>2, <2>4, <1>1, UseOne
<1>5. ASSUME NEW r, NEW x, x \in UsersOf(h2, r), x \notin UsersOf(h, r)
      PROVE  r = s /\ x = Use(t, m)
  <2>1. PICK u \in Threads : \E i \in DOMAIN h2[u] : h2[u][i] = r /\ x = Use(u, i)
    BY <1>5, UsersAre
  <2>2. PICK i \in DOMAIN h2[u] : h2[u][i] = r /\ x = Use(u, i)
    BY <2>1
  <2>3. i \in DOMAIN h[u] /\ h[u][i] = r => x \in UsersOf(h, r)
    BY <2>2, UsersIn
  <2> QED
    BY <2>2, <2>3, <1>3, <1>5
<1>6. Use(t, m) \in UsersOf(h2, s)
  BY <1>1, UsersIn
<1>7. UsersOf(h2, s) = UsersOf(h, s) \cup {Use(t, m)} /\ Use(t, m) \notin UsersOf(h, s)
  BY <1>4, <1>5, <1>6
<1>8. \A r \in Slots \ {s} : UsersOf(h2, r) = UsersOf(h, r)
  BY <1>4, <1>5
<1> QED
  BY <1>2, <1>3, <1>7, <1>8 DEF m

-----------------------------------------------------------------------------
(* A file that is opened gets one user more. *)
LEMMA TakeSlot ==
    ASSUME LogAssumption, NEW g, NEW g2, NEW h, NEW h2, NEW t \in Threads, NEW s \in Slots,
           Counted(g, h), Longer(h, h2, t, s), Len(h2[t]) \in DOMAIN Files[t],
           \A r \in Slots \ {s} : g2[r] = g[r],
           g2[s].fp, g2[s].name = Files[t][Len(h2[t])],
           g2[s].ref_cnt = g[s].ref_cnt + 1,
           \/ g[s].fp /\ g[s].name = g2[s].name
           \/ ~g[s].fp /\ \A r \in Slots : ~(g[r].fp /\ g[r].name = g2[s].name)
    PROVE  Counted(g2, h2)
<1>1. /\ UsersOf(h2, s) = UsersOf(h, s) \cup {Use(t, Len(h2[t]))}
      /\ Use(t, Len(h2[t])) \notin UsersOf(h, s)
      /\ \A r \in Slots \ {s} : UsersOf(h2, r) = UsersOf(h, r)
      /\ \A u \in Threads : \A i \in DOMAIN h2[u] :
            \/ i \in DOMAIN h[u] /\ h2[u][i] = h[u][i]
            \/ u = t /\ i = Len(h2[t]) /\ h2[u][i] = s
  BY UsersLonger
<1>2. \A r \in Slots : IsFiniteSet(UsersOf(h, r)) /\ g[r].ref_cnt = Cardinality(UsersOf(h, r))
  BY DEF Counted
<1>3. /\ IsFiniteSet(UsersOf(h2, s))
      /\ Cardinality(UsersOf(h2, s)) = Cardinality(UsersOf(h, s)) + 1
  BY <1>1, <1>2, FS_AddElement
<1>4. \A r \in Slots : /\ IsFiniteSet(UsersOf(h2, r))
                       /\ g2[r].ref_cnt = Cardinality(UsersOf(h2, r))
  BY <1>1, <1>2, <1>3
<1>5. \A r \in Slots : g2[r].fp <=> UsersOf(h2, r) # {}
  BY <1>1 DEF Counted
<1>6. \A r \in Slots : g2[r].fp <=> g2[r].name # None
  BY FilesType DEF Counted
<1>7. ASSUME NEW u \in Threads, NEW i \in DOMAIN h2[u]
      PROVE  g2[h2[u][i]].name = Files[u][i]
  <2>1. CASE i \in DOMAIN h[u] /\ h2[u][i] = h[u][i]
    <3>1. g[h[u][i]].name = Files[u][i]
      BY <2>1 DEF Counted
    <3>2. Use(u, i) \in UsersOf(h, h[u][i])
      BY <2>1, UsersIn
    <3>3. h2[u][i] \in Slots
      BY <1>7 DEF Longer
    <3>4. CASE h[u][i] = s
      <4>1. g[s].fp
        BY <3>2, <3>4 DEF Counted
      <4> QED
        BY <2>1, <3>1, <3>4, <4>1
    <3>5. CASE h[u][i] # s
      BY <2>1, <3>1, <3>3, <3>5
    <3> QED
      BY <3>4, <3>5
  <2>2. CASE u = t /\ i = Len(h2[t]) /\ h2[u][i] = s
    BY <2>2
  <2> QED
    BY <1>1, <2>1, <2>2
<1>8. \A r, q \in Slots : g2[r].fp /\ g2[r].name = g2[q].name => r = q
  <2>1. ASSUME NEW r \in Slots, NEW q \in Slots, g2[r].fp, g2[r].name = g2[q].name
        PROVE  r = q
    <3>1. \A a, b \in Slots : g[a].fp /\ g[a].name = g[b].name => a = b
      BY DEF Counted
    <3>2. \A a \in Slots : g[a].fp <=> g[a].name # None
      BY DEF Counted
    <3>3. g2[s].name # None
      BY FilesType
    <3>4. CASE r # s /\ q # s
      BY <2>1, <3>1, <3>4
    <3>5. CASE r # s /\ q = s
      <4>1. g[r].fp /\ g[r].name = g2[s].name
        BY <2>1, <3>5
      <4> QED
        BY <3>1, <3>5, <4>1
    <3>6. CASE r = s /\ q # s
      <4>1. g[q].name = g2[s].name
        BY <2>1, <3>6
      <4>2. g[q].fp
        BY <4>1, <3>2, <3>3
      <4> QED
        BY <3>1, <3>6, <4>1, <4>2
    <3> QED
      BY <3>4, <3>5, <3>6
  <2> QED
    BY <2>1
<1> QED
  BY <1>4, <1>5, <1>6, <1>7, <1>8 DEF Counted

(* A file that is closed loses one user, and is closed with the last. *)
LEMMA LeaveSlot ==
    ASSUME NEW g \in [Slots -> FileUnit], NEW g2, NEW h, NEW h2,
           NEW t \in Threads, NEW s \in Slots,
           Counted(g, h), Longer(h2, h, t, s),
           \A r \in Slots \ {s} : g2[r] = g[r],
           g2[s] = UnitClosed(g[s])
    PROVE  Counted(g2, h2)
<1>1. /\ UsersOf(h, s) = UsersOf(h2, s) \cup {Use(t, Len(h[t]))}
      /\ Use(t, Len(h[t])) \notin UsersOf(h2, s)
      /\ \A r \in Slots \ {s} : UsersOf(h, r) = UsersOf(h2, r)
      /\ \A u \in Threads : \A i \in DOMAIN h2[u] : i \in DOMAIN h[u] /\ h[u][i] = h2[u][i]
  BY UsersLonger
<1>2. \A r \in Slots : IsFiniteSet(UsersOf(h, r)) /\ g[r].ref_cnt = Cardinality(UsersOf(h, r))
  BY DEF Counted
<1>3. IsFiniteSet(UsersOf(h2, s))
  BY <1>1, <1>2, FS_Subset
<1>4. /\ Cardinality(UsersOf(h, s)) = Cardinality(UsersOf(h2, s)) + 1
      /\ Cardinality(UsersOf(h2, s)) \in Nat
  BY <1>1, <1>3, FS_AddElement, FS_CardinalityType
<1>5. g[s].fp
  BY <1>1 DEF Counted
<1>6. CASE UsersOf(h2, s) = {}
  <2>1. g[s].ref_cnt = 1
    BY <1>2, <1>4, <1>6, FS_EmptySet
  <2>2. g2[s].fp = FALSE /\ g2[s].ref_cnt = 0 /\ g2[s].name = None
    BY <2>1 DEF UnitClosed, FreeSlot
  <2>3. \A r \in Slots : /\ IsFiniteSet(UsersOf(h2, r))
                         /\ g2[r].ref_cnt = Cardinality(UsersOf(h2, r))
    BY <1>1, <1>2, <1>3, <1>6, <2>2, FS_EmptySet
  <2>4. \A r \in Slots : g2[r].fp <=> UsersOf(h2, r) # {}
    BY <1>1, <1>6, <2>2 DEF Counted
  <2>5. \A r \in Slots : g2[r].fp <=> g2[r].name # None
    BY <2>2 DEF Counted
  <2>6. ASSUME NEW u \in Threads, NEW i \in DOMAIN h2[u]
        PROVE  g2[h2[u][i]].name = Files[u][i]
    <3>1. Use(u, i) \in UsersOf(h2, h2[u][i]) /\ h2[u][i] \in Slots
      <4>1. i \in DOMAIN h[u] /\ h[u][i] = h2[u][i]
        BY <1>1, <2>6
      <4>2. h[u][i] \in Slots
        BY <4>1 DEF Longer
      <4> QED
        BY <4>1, <4>2, UsersIn, <2>6
    <3>2. h2[u][i] # s
      BY <3>1, <1>6
    <3> QED
      BY <1>1, <3>1, <3>2 DEF Counted
  <2>7. \A r, q \in Slots : g2[r].fp /\ g2[r].name = g2[q].name => r = q
    <3>1. \A r, q \in Slots : g[r].fp /\ g[r].name = g[q].name => r = q
      BY DEF Counted
    <3> QED
      BY <2>2, <2>5, <3>1
  <2> QED
    BY <2>3, <2>4, <2>5, <2>6, <2>7 DEF Counted
<1>7. CASE UsersOf(h2, s) # {}
  <2>1. g[s].ref_cnt > 1 /\ g[s] \in FileUnit
    <3>1. Cardinality(UsersOf(h2, s)) # 0
      BY <1>3, <1>7, FS_EmptySet
    <3> QED
      BY <1>2, <1>4, <3>1
  <2>2. g2[s].fp = g[s].fp /\ g2[s].name = g[s].name /\ g2[s].ref_cnt = g[s].ref_cnt - 1
    BY <2>1 DEF UnitClosed, FileUnit
  <2>3. \A r \in Slots : /\ IsFiniteSet(UsersOf(h2, r))
                         /\ g2[r].ref_cnt = Cardinality(UsersOf(h2, r))
    <3>1. g2[s].ref_cnt = Cardinality(UsersOf(h2, s))
      BY <1>2, <1>4, <2>2
    <3> QED
      BY <1>1, <1>2, <1>3, <3>1
  <2>4. \A r \in Slots : g2[r].fp <=> UsersOf(h2, r) # {}
    BY <1>1, <1>5, <1>7, <2>2 DEF Counted
  <2>5. \A r \in Slots : g2[r].fp = g[r].fp /\ g2[r].name = g[r].name
    BY <2>2
  <2>6. ASSUME NEW u \in Threads, NEW i \in DOMAIN h2[u]
        PROVE  g2[h2[u][i]].name = Files[u][i]
    <3>1. i \in DOMAIN h[u] /\ h[u][i] = h2[u][i]
      BY <1>1, <2>6
    <3>2. h[u][i] \in Slots
      BY <3>1 DEF Longer
    <3> QED
      BY <3>1, <3>2, <2>5 DEF Counted
  <2> QED
    BY <2>3, <2>4, <2>5, <2>6 DEF Counted
<1> QED
  BY <1>6, <1>7

-----------------------------------------------------------------------------
(* The files. *)
LEMMA LogNamed ==
    ASSUME NEW name
    PROVE  /\ Log(name).name = name /\ Log(name).suffix = -1
           /\ Tmp(name).name = name /\ Tmp(name).suffix = -2
           /\ \A other : Log(name) = Log(other) => name = other
           /\ \A other : Log(name) # Tmp(other)
BY DEF Log, Tmp

(* A name with a time and a suffix. *)
LEMMA RolledNamed ==
    ASSUME NEW name, NEW n
    PROVE  Rolled(name, n).name = name /\ Rolled(name, n).suffix = n
BY DEF Rolled

(* A line is in some file. *)
LEMMA LinesInAre ==
    ASSUME NEW d, NEW line
    PROVE  line \in LinesIn(d) <=> \E f \in DOMAIN d : line \in d[f].lines
BY DEF LinesIn

(* The numbers, when one line comes in. *)
LEMMA OneMore ==
    ASSUME NEW n \in Nat, NEW A, NEW B, NEW line, line.nr = n + 1,
           {x.nr : x \in A} = 1..n, B = A \cup {line}
    PROVE  {x.nr : x \in B} = 1..n + 1
<1>1. {x.nr : x \in B} = {x.nr : x \in A} \cup {n + 1}
  OBVIOUS
<1>2. 1..n + 1 = 1..n \cup {n + 1}
  OBVIOUS
<1> QED
  BY <1>1, <1>2

(* d2 is d with line in the log of that name. *)
Added(d, d2, name, line) ==
    /\ DOMAIN d2 = DOMAIN d
    /\ \A f \in DOMAIN d : f # Log(name) => d2[f] = d[f]
    /\ "lines" \in DOMAIN d[Log(name)] =>
           /\ "lines" \in DOMAIN d2[Log(name)]
           /\ d2[Log(name)].lines = d[Log(name)].lines \cup {line}

(* d2 is d with the log of that name renamed to target, and a new one that  *)
(* has these lines.                                                         *)
Renamed(d, d2, name, target, these) ==
    /\ DOMAIN d2 = DOMAIN d \cup {target}
    /\ \A f \in DOMAIN d : f # Log(name) /\ f # target => d2[f] = d[f]
    /\ d2[target] = d[Log(name)]
    /\ "lines" \in DOMAIN d2[Log(name)] /\ d2[Log(name)].lines = these

(* The log of that name may be renamed to target, and lost is what target   *)
(* holds.                                                                   *)
Target(target, name, n) ==
    /\ target.name = name /\ target.suffix \in Int /\ target.suffix < n + 1
    /\ target # Log(name) /\ (target.suffix = -2 => Unsplit(name))
Loses(d, target, lost) ==
    /\ target \in DOMAIN d => lost = d[target].lines
    /\ target \notin DOMAIN d => lost = {}

(* No line is lost when one is appended. *)
LEMMA LineAdded ==
    ASSUME NEW d, NEW d2, NEW gone, NEW n \in Nat, NEW name \in LogNames, NEW line,
           line.nr = n + 1, line.file = name,
           DiskOK(d, n), NothingLost(d, gone, n),
           Log(name) \in DOMAIN d, Added(d, d2, name, line)
    PROVE  DiskOK(d2, n + 1) /\ NothingLost(d2, gone, n + 1)
<1> DEFINE o == Log(name)
<1>1. o.name = name /\ o.suffix = -1
  BY LogNamed
<1>7. /\ DOMAIN d2 = DOMAIN d /\ \A f \in DOMAIN d : f # o => d2[f] = d[f]
      /\ "lines" \in DOMAIN d2[o] /\ d2[o].lines = d[o].lines \cup {line}
  BY DEF Added, DiskOK, FileOK
<1> HIDE DEF o
<1>2. DiskOK(d2, n + 1)
  <2>1. ASSUME NEW f \in DOMAIN d2
        PROVE  FileOK(f, d2[f], n + 1)
    <3>1. FileOK(f, d[f], n)
      BY <1>7 DEF DiskOK
    <3>2. CASE f = o
      BY <3>1, <3>2, <1>1, <1>7 DEF FileOK
    <3>3. CASE f # o
      BY <3>1, <3>3, <1>7 DEF FileOK
    <3> QED
      BY <3>2, <3>3
  <2> QED
    BY <2>1 DEF DiskOK
<1>3. LinesIn(d2) = LinesIn(d) \cup {line}
  <2>1. ASSUME NEW x
        PROVE  x \in LinesIn(d2) <=> x \in LinesIn(d) \/ x = line
    <3>1. \A f \in DOMAIN d : x \in d2[f].lines <=> x \in d[f].lines \/ (f = o /\ x = line)
      BY <1>7
    <3>2. x \in LinesIn(d2) <=> \E f \in DOMAIN d2 : x \in d2[f].lines
      BY LinesInAre
    <3>3. x \in LinesIn(d) <=> \E f \in DOMAIN d : x \in d[f].lines
      BY LinesInAre
    <3> QED
      BY <3>1, <3>2, <3>3, <1>7 DEF o
  <2> QED
    BY <2>1
<1>4. LinesIn(d2) \cup gone = (LinesIn(d) \cup gone) \cup {line}
  BY <1>3
<1>5. {x.nr : x \in LinesIn(d) \cup gone} = 1..n
  BY DEF NothingLost
<1>6. {x.nr : x \in LinesIn(d2) \cup gone} = 1..n + 1
  BY <1>4, <1>5, OneMore
<1> QED
  BY <1>2, <1>6 DEF NothingLost

(* The log becomes target, and the new one has the line.  What target held  *)
(* is gone.                                                                 *)
LEMMA LineRolled ==
    ASSUME NEW d, NEW d2, NEW gone, NEW lost, NEW n \in Nat, NEW name \in LogNames,
           NEW line, NEW target,
           line.nr = n + 1, line.file = name,
           DiskOK(d, n), NothingLost(d, gone, n),
           Log(name) \in DOMAIN d,
           Target(target, name, n), Loses(d, target, lost),
           Renamed(d, d2, name, target, {line})
    PROVE  DiskOK(d2, n + 1) /\ NothingLost(d2, gone \cup lost, n + 1)
<1> DEFINE o == Log(name)
<1>1. o.name = name /\ o.suffix = -1
  BY LogNamed
<1>6. /\ target # o /\ target.name = name /\ target.suffix \in Int /\ target.suffix < n + 1
      /\ target.suffix = -2 => Unsplit(name)
  BY DEF Target
<1>7. /\ DOMAIN d2 = DOMAIN d \cup {target}
      /\ \A f \in DOMAIN d : f # o /\ f # target => d2[f] = d[f]
      /\ d2[target] = d[o]
      /\ "lines" \in DOMAIN d2[o] /\ d2[o].lines = {line}
  BY DEF Renamed
<1>8. /\ target \in DOMAIN d => lost = d[target].lines
      /\ target \notin DOMAIN d => lost = {}
  BY DEF Loses
<1> HIDE DEF o
<1>2. DiskOK(d2, n + 1)
  <2>1. ASSUME NEW f \in DOMAIN d2
        PROVE  FileOK(f, d2[f], n + 1)
    <3>1. FileOK(o, d[o], n)
      BY DEF DiskOK, o
    <3>2. CASE f = o
      BY <3>1, <3>2, <1>1, <1>7 DEF FileOK
    <3>3. CASE f = target
      BY <3>1, <3>3, <1>1, <1>6, <1>7 DEF FileOK
    <3>4. CASE f # o /\ f # target
      <4>1. f \in DOMAIN d /\ d2[f] = d[f]
        BY <3>4, <1>7 DEF o
      <4>2. FileOK(f, d[f], n)
        BY <4>1 DEF DiskOK
      <4> QED
        BY <4>1, <4>2 DEF FileOK
    <3> QED
      BY <3>2, <3>3, <3>4
  <2> QED
    BY <2>1 DEF DiskOK
<1>3. LinesIn(d2) \cup (gone \cup lost) = (LinesIn(d) \cup gone) \cup {line}
  <2>1. ASSUME NEW x, x \in LinesIn(d2)
        PROVE  x \in LinesIn(d) \/ x = line
    <3>1. PICK f \in DOMAIN d2 : x \in d2[f].lines
      BY <2>1, LinesInAre
    <3>2. CASE f = o
      BY <3>1, <3>2, <1>7 DEF o
    <3>3. CASE f = target
      BY <3>1, <3>3, <1>7, LinesInAre DEF o
    <3>4. CASE f # o /\ f # target
      BY <3>1, <3>4, <1>7, LinesInAre DEF o
    <3> QED
      BY <3>2, <3>3, <3>4
  <2>2. ASSUME NEW x, x \in LinesIn(d)
        PROVE  x \in LinesIn(d2) \/ x \in lost
    <3>1. PICK f \in DOMAIN d : x \in d[f].lines
      BY <2>2, LinesInAre
    <3>2. CASE f = o
      <4>1. target \in DOMAIN d2 /\ x \in d2[target].lines
        BY <3>1, <3>2, <1>7 DEF o
      <4> QED
        BY <4>1, LinesInAre
    <3>3. CASE f = target
      BY <3>1, <3>3, <1>8
    <3>4. CASE f # o /\ f # target
      <4>1. f \in DOMAIN d2 /\ x \in d2[f].lines
        BY <3>1, <3>4, <1>7 DEF o
      <4> QED
        BY <4>1, LinesInAre
    <3> QED
      BY <3>2, <3>3, <3>4
  <2>3. line \in LinesIn(d2)
    <3>1. o \in DOMAIN d2 /\ line \in d2[o].lines
      BY <1>7 DEF o
    <3> QED
      BY <3>1, LinesInAre
  <2>4. ASSUME NEW x, x \in lost
        PROVE  x \in LinesIn(d)
    BY <2>4, <1>8, LinesInAre
  <2> QED
    BY <2>1, <2>2, <2>3, <2>4
<1>4. {x.nr : x \in LinesIn(d) \cup gone} = 1..n
  BY DEF NothingLost
<1>5. {x.nr : x \in LinesIn(d2) \cup (gone \cup lost)} = 1..n + 1
  BY <1>3, <1>4, OneMore
<1> QED
  BY <1>2, <1>5 DEF NothingLost

(* A file is removed, and an empty one is created. *)
LEMMA FileDropped ==
    ASSUME NEW d, NEW n, NEW gone, NEW f, DiskOK(d, n), NothingLost(d, gone, n)
    PROVE  LET lost == IF f \in DOMAIN d THEN d[f].lines ELSE {} IN
           /\ DiskOK(Drop(d, f), n) /\ NothingLost(Drop(d, f), gone \cup lost, n)
           /\ \A line \in lost : line.file = f.name
           /\ DOMAIN Drop(d, f) = DOMAIN d \ {f}
<1> DEFINE lost == IF f \in DOMAIN d THEN d[f].lines ELSE {}
           d2 == Drop(d, f)
<1>1. DOMAIN d2 = DOMAIN d \ {f} /\ \A g \in DOMAIN d2 : d2[g] = d[g]
  BY DEF Drop
<1> HIDE DEF d2
<1>2. DiskOK(d2, n)
  BY <1>1 DEF DiskOK
<1>3. \A line \in lost : line.file = f.name
  BY DEF DiskOK, FileOK
<1>4. LinesIn(d2) \cup lost = LinesIn(d)
  <2>1. ASSUME NEW x, x \in LinesIn(d)
        PROVE  x \in LinesIn(d2) \cup lost
    <3>1. PICK g \in DOMAIN d : x \in d[g].lines
      BY <2>1, LinesInAre
    <3> QED
      BY <3>1, <1>1, LinesInAre
  <2>2. ASSUME NEW x, x \in LinesIn(d2)
        PROVE  x \in LinesIn(d)
    BY <2>2, <1>1, LinesInAre
  <2>3. ASSUME NEW x, x \in lost
        PROVE  x \in LinesIn(d)
    BY <2>3, LinesInAre
  <2> QED
    BY <2>1, <2>2, <2>3
<1>5. LinesIn(d2) \cup (gone \cup lost) = LinesIn(d) \cup gone
  BY <1>4
<1> QED
  BY <1>1, <1>2, <1>3, <1>5 DEF NothingLost, d2

(* An empty file is created, if there is none. *)
LEMMA FileCreated ==
    ASSUME NEW d, NEW n \in Nat, NEW gone, NEW name \in LogNames,
           DiskOK(d, n), NothingLost(d, gone, n)
    PROVE  LET d2 == Created(d, Log(name)) IN
           /\ DiskOK(d2, n) /\ NothingLost(d2, gone, n)
           /\ DOMAIN d2 = DOMAIN d \cup {Log(name)}
<1> DEFINE o == Log(name)
           d2 == Created(d, Log(name))
<1>1. CASE o \in DOMAIN d
  BY <1>1 DEF Created
<1>2. CASE o \notin DOMAIN d
  <2>1. /\ DOMAIN d2 = DOMAIN d \cup {o} /\ \A g \in DOMAIN d : d2[g] = d[g]
        /\ d2[o] = [lines |-> {}, mtime |-> now]
    BY <1>2 DEF Created, Put
  <2>2. o.name = name /\ o.suffix = -1
    BY LogNamed
  <2> HIDE DEF d2, o
  <2>3. d2[o].lines = {} /\ "lines" \in DOMAIN d2[o]
    BY <2>1
  <2>4. FileOK(o, d2[o], n)
    BY <2>2, <2>3 DEF FileOK
  <2>5. DiskOK(d2, n)
    BY <2>1, <2>4 DEF DiskOK
  <2>6. LinesIn(d2) = LinesIn(d)
    <3>1. ASSUME NEW x
          PROVE  x \in LinesIn(d2) <=> x \in LinesIn(d)
      BY <2>1, <2>3, <1>2, LinesInAre
    <3> QED
      BY <3>1
  <2> QED
    BY <2>1, <2>5, <2>6 DEF NothingLost, d2, o
<1> QED
  BY <1>1, <1>2

-----------------------------------------------------------------------------
(* The state. *)
LEMMA InitLog == ASSUME LogAssumption, Init PROVE LogInv
<1>1. LogTyped
  <2>1. \A t \in Threads : Len(Files[t]) \in Nat \ {0}
    BY FilesType
  <2>2. FreeSlot \in FileUnit /\ None \in Victims
    BY DEF FileUnit, FreeSlot, Victims
  <2>3. /\ g_file_array \in [Slots -> FileUnit]
        /\ handle \in [Threads -> Seq(Slots)] /\ \A t \in Threads : handle[t] = <<>>
        /\ pc \in [Threads -> {"closed"}]
        /\ victim \in [Threads -> Victims]
        /\ now = 0 /\ lines = 0 /\ broken = FALSE
    BY <2>2 DEF Init
  <2>4. \A t \in Threads : Len(handle[t]) = 0 /\ pc[t] # "open"
    BY <2>3
  <2>5. \A t \in Threads : /\ Len(handle[t]) <= Len(Files[t])
                           /\ pc[t] = "open" => Len(handle[t]) < Len(Files[t])
    BY <2>1, <2>4
  <2>6. pc \in [Threads -> {"closed", "open", "opened", "closing"}]
    BY <2>3
  <2>7. now \in Nat /\ lines \in Nat /\ broken \in BOOLEAN
    BY <2>3
  <2> QED
    BY <2>3, <2>5, <2>6, <2>7, Zenon DEF LogTyped
<1>2. \A s \in Slots : UsersOf(handle, s) = {}
  <2>1. ASSUME NEW s \in Slots, NEW x \in UsersOf(handle, s)
        PROVE  FALSE
    <3>1. PICK u \in Threads : \E i \in DOMAIN handle[u] : handle[u][i] = s /\ x = Use(u, i)
      BY UsersAre
    <3> QED
      BY <3>1 DEF Init
  <2> QED
    BY <2>1
<1>3. \A s \in Slots : /\ g_file_array[s].fp = FALSE /\ g_file_array[s].name = None
                       /\ g_file_array[s].ref_cnt = 0
  BY DEF Init, FreeSlot
<1>4. Counted(g_file_array, handle)
  <2>1. \A s \in Slots : /\ IsFiniteSet(UsersOf(handle, s))
                         /\ g_file_array[s].ref_cnt = Cardinality(UsersOf(handle, s))
    BY <1>2, <1>3, FS_EmptySet
  <2>2. \A t \in Threads : DOMAIN handle[t] = {}
    BY DEF Init
  <2> QED
    BY <1>2, <1>3, <2>1, <2>2 DEF Counted
<1>5. DOMAIN disk = {} /\ removed = {} /\ lines = 0
  BY DEF Init
<1>6. LinesIn(disk) = {}
  BY <1>5 DEF LinesIn
<1>7. NothingLost(disk, removed, lines)
  BY <1>5, <1>6 DEF NothingLost
<1>8. OpenExist(g_file_array, disk) /\ DiskOK(disk, lines)
  BY <1>3, <1>5 DEF OpenExist, DiskOK
<1> QED
  BY <1>1, <1>4, <1>5, <1>7, <1>8 DEF LogInv, Whole

(* Steps that change only the place of a thread. *)
LEMMA PlaceStep ==
    ASSUME LogInv, LogAssumption, NEW t \in Threads,
           OpenLog(t) \/ CloseLog(t) \/ FreeLogUnit(t)
    PROVE  LogInv'
<1>1. UNCHANGED <<g_file_array, handle, victim, disk, now, lines, removed, broken>>
  BY DEF OpenLog, CloseLog, FreeLogUnit
<1>2. \E place \in {"closed", "open", "closing"} :
         pc' = [pc EXCEPT ![t] = place] /\ (place = "open" => handle[t] = <<>>)
  BY DEF OpenLog, CloseLog, FreeLogUnit, Goto
<1>3. \A u \in Threads : Len(Files[u]) \in Nat \ {0}
  BY FilesType
<1>4. LogTyped'
  <2>1. PICK place \in {"closed", "open", "closing"} :
           pc' = [pc EXCEPT ![t] = place] /\ (place = "open" => handle[t] = <<>>)
    BY <1>2
  <2>2. ASSUME NEW u \in Threads, pc'[u] = "open"
        PROVE  Len(handle[u]) < Len(Files[u])
    <3>1. CASE u = t
      <4>1. Len(handle[u]) = 0
        BY <2>1, <2>2, <3>1 DEF LogInv, LogTyped
      <4> QED
        BY <4>1, <1>3
    <3>2. CASE u # t
      BY <2>1, <2>2, <3>2 DEF LogInv, LogTyped
    <3> QED
      BY <3>1, <3>2
  <2> QED
    BY <1>1, <2>1, <2>2 DEF LogInv, LogTyped
<1> QED
  BY <1>1, <1>4 DEF LogInv

(* The clock. *)
LEMMA TickStep ==
    ASSUME LogInv, Tick
    PROVE  LogInv'
<1>1. UNCHANGED <<g_file_array, handle, pc, victim, disk, lines, removed, broken>>
      /\ now' = now + 1
  BY DEF Tick
<1>4. LogTyped'
  BY <1>1 DEF LogInv, LogTyped
<1> QED
  BY <1>1, <1>4 DEF LogInv

(* remove() of a renamed log. *)
LEMMA RemoveStep ==
    ASSUME LogInv, NEW t \in Threads, RemoveTmp(t)
    PROVE  LogInv'
<1> DEFINE f == victim[t]
           lost == IF f \in DOMAIN disk THEN disk[f].lines ELSE {}
<1>1. /\ UNCHANGED <<g_file_array, handle, pc, now, lines, broken>>
      /\ disk' = Drop(disk, f) /\ removed' = removed \cup lost
      /\ victim' = [victim EXCEPT ![t] = None]
      /\ f # None
  BY DEF RemoveTmp, Exists
<1>2. PICK name \in LogNames \cup {None} : f = Tmp(name)
  BY <1>1 DEF LogInv, LogTyped, Victims
<1> HIDE DEF f, lost
<1>4. LogTyped'
  <2>1. None \in Victims
    BY DEF Victims
  <2> QED
    BY <1>1, <2>1 DEF LogInv, LogTyped
<1>5. ASSUME ~broken
      PROVE  Whole(g_file_array, handle, disk', removed', lines)
  <2>0. Whole(g_file_array, handle, disk, removed, lines)
    BY <1>5 DEF LogInv
  <2>1. /\ DiskOK(disk', lines) /\ NothingLost(disk', removed', lines)
        /\ \A line \in lost : line.file = f.name
        /\ DOMAIN disk' = DOMAIN disk \ {f}
    BY <1>1, <2>0, FileDropped DEF Whole, lost
  <2>2. lost # {} => f \in DOMAIN disk
    BY DEF lost
  <2>3. f \in DOMAIN disk => Unsplit(f.name)
    BY <1>2, <2>0, LogNamed DEF Whole, DiskOK, FileOK
  <2>4. \A line \in lost : Unsplit(line.file)
    BY <2>1, <2>2, <2>3
  <2>5. OpenExist(g_file_array, disk')
    BY <1>2, <2>0, <2>1, LogNamed DEF Whole, OpenExist
  <2> QED
    BY <1>1, <2>0, <2>1, <2>4, <2>5 DEF Whole
<1> QED
  BY <1>1, <1>4, <1>5 DEF LogInv

(* A unit of the table with other values in some of its fields. *)
LEMMA UnitTypes ==
    ASSUME NEW unit \in FileUnit
    PROVE  /\ unit.fp \in BOOLEAN /\ unit.ref_cnt \in Nat
           /\ LET more == [unit EXCEPT !.ref_cnt = unit.ref_cnt + 1]
              IN  /\ more \in FileUnit /\ more.fp = unit.fp /\ more.name = unit.name
                  /\ more.ref_cnt = unit.ref_cnt + 1
           /\ UnitClosed(unit) \in FileUnit
           /\ \A d \in Nat :
                 LET dated == [unit EXCEPT !.last_date = d]
                 IN  /\ dated \in FileUnit /\ dated.fp = unit.fp
                     /\ dated.name = unit.name /\ dated.ref_cnt = unit.ref_cnt
           /\ [unit EXCEPT !.fp = FALSE] \in FileUnit
<1>1. unit.fp \in BOOLEAN /\ unit.ref_cnt \in Nat
  BY DEF FileUnit
<1>2. LET more == [unit EXCEPT !.ref_cnt = unit.ref_cnt + 1]
      IN  /\ more \in FileUnit /\ more.fp = unit.fp /\ more.name = unit.name
          /\ more.ref_cnt = unit.ref_cnt + 1
  BY DEF FileUnit
<1>3. UnitClosed(unit) \in FileUnit
  BY DEF FileUnit, UnitClosed, FreeSlot
<1>4. \A d \in Nat :
         LET dated == [unit EXCEPT !.last_date = d]
         IN  /\ dated \in FileUnit /\ dated.fp = unit.fp
             /\ dated.name = unit.name /\ dated.ref_cnt = unit.ref_cnt
  BY DEF FileUnit
<1>5. [unit EXCEPT !.fp = FALSE] \in FileUnit
  BY DEF FileUnit
<1> QED
  BY <1>1, <1>2, <1>3, <1>4, <1>5

(* The table with one unit replaced. *)
LEMMA OtherUnits ==
    ASSUME NEW g \in [Slots -> FileUnit], NEW s \in Slots, NEW unit \in FileUnit
    PROVE  LET g2 == [g EXCEPT ![s] = unit]
           IN  /\ g2 \in [Slots -> FileUnit] /\ g2[s] = unit
               /\ \A r \in Slots \ {s} : g2[r] = g[r]
OBVIOUS

(* CloseFileUnit. *)
LEMMA CloseStep ==
    ASSUME LogInv, NEW t \in Threads, CloseFileUnit(t)
    PROVE  LogInv'
<1> DEFINE s == Last(handle[t])
<1>1. /\ UNCHANGED <<pc, victim, disk, now, lines, removed, broken>>
      /\ handle[t] # <<>> /\ pc[t] = "closing"
      /\ g_file_array' = [g_file_array EXCEPT ![s] = UnitClosed(g_file_array[s])]
      /\ handle' = [handle EXCEPT ![t] = Front(handle[t])]
  BY DEF CloseFileUnit
<1>2. g_file_array \in [Slots -> FileUnit] /\ handle \in [Threads -> Seq(Slots)]
  BY DEF LogInv, LogTyped
<1>3. s \in Slots /\ Longer(handle', handle, t, s)
  BY <1>1, <1>2, FrontLonger
<1> HIDE DEF s
<1>4. UnitClosed(g_file_array[s]) \in FileUnit
  BY <1>2, <1>3, UnitTypes
<1>5. /\ g_file_array' \in [Slots -> FileUnit]
      /\ g_file_array'[s] = UnitClosed(g_file_array[s])
      /\ \A r \in Slots \ {s} : g_file_array'[r] = g_file_array[r]
  BY <1>1, <1>2, <1>3, <1>4, OtherUnits
<1>6. LogTyped'
  <2>1. handle' \in [Threads -> Seq(Slots)]
    <3>1. Front(handle[t]) \in Seq(Slots)
      <4>1. \A i \in 1..Len(handle[t]) - 1 : handle[t][i] \in Slots
        BY <1>2
      <4>2. SubSeq(handle[t], 1, Len(handle[t]) - 1) \in Seq(Slots)
        BY <4>1, <1>2, SubSeqProperties
      <4> QED
        BY <4>2 DEF Front
    <3> QED
      BY <3>1, <1>1, <1>2
  <2>2. Len(handle[t]) = Len(handle'[t]) + 1 /\ Len(handle'[t]) \in Nat
        /\ \A u \in Threads \ {t} : handle'[u] = handle[u]
    BY <1>3 DEF Longer
  <2>3. \A u \in Threads : /\ Len(handle[u]) <= Len(Files[u])
                           /\ pc[u] = "open" => Len(handle[u]) < Len(Files[u])
    BY DEF LogInv, LogTyped
  <2>4. \A u \in Threads : /\ Len(handle'[u]) <= Len(Files[u])
                           /\ pc[u] = "open" => Len(handle'[u]) < Len(Files[u])
    <3>1. ASSUME NEW u \in Threads
          PROVE  /\ Len(handle'[u]) <= Len(Files[u])
                 /\ pc[u] = "open" => Len(handle'[u]) < Len(Files[u])
      <4>1. CASE u = t
        BY <4>1, <1>1, <2>2, <2>3
      <4>2. CASE u # t
        BY <4>2, <2>2, <2>3
      <4> QED
        BY <4>1, <4>2
    <3> QED
      BY <3>1
  <2> QED
    BY <1>1, <1>5, <2>1, <2>4 DEF LogInv, LogTyped
<1>7. ASSUME ~broken
      PROVE  Whole(g_file_array', handle', disk, removed, lines)
  <2>1. Whole(g_file_array, handle, disk, removed, lines)
    BY <1>7 DEF LogInv
  <2>2. PICK g2 : g2 = g_file_array'
    OBVIOUS
  <2>3. PICK h2 : h2 = handle'
    OBVIOUS
  <2>4. Counted(g2, h2)
    BY <1>2, <1>3, <1>5, <2>1, <2>2, <2>3, LeaveSlot DEF Whole
  <2>5. \A r \in Slots : g2[r].fp => g_file_array[r].fp /\ g2[r].name = g_file_array[r].name
    <3>1. ASSUME g2[s].fp
          PROVE  g_file_array[s].fp /\ g2[s].name = g_file_array[s].name
      <4>1. g_file_array[s] \in FileUnit /\ g2[s] = UnitClosed(g_file_array[s])
        BY <1>2, <1>3, <1>5, <2>2
      <4> QED
        BY <3>1, <4>1 DEF UnitClosed, FreeSlot, FileUnit
    <3> QED
      BY <3>1, <1>5, <2>2
  <2>6. OpenExist(g2, disk)
    BY <2>1, <2>5 DEF OpenExist, Whole
  <2> QED
    BY <2>1, <2>2, <2>3, <2>4, <2>6 DEF Whole
<1> QED
  BY <1>1, <1>6, <1>7 DEF LogInv

(* What OpenFileUnit does when it gives thread t the slot s. *)
LEMMA OpenedStep ==
    ASSUME LogInv, LogAssumption, NEW t \in Threads, NEW s \in Slots, NEW unit \in FileUnit,
           pc[t] = "open",
           g_file_array' = [g_file_array EXCEPT ![s] = unit],
           handle' = [handle EXCEPT ![t] = Append(handle[t], s)],
           pc' = [pc EXCEPT ![t] = IF Len(handle[t]) + 1 = Len(Files[t])
                                   THEN "opened" ELSE "open"],
           UNCHANGED <<victim, now, lines, removed, broken>>,
           unit.fp, unit.name = Files[t][Len(handle[t]) + 1],
           ~broken =>
               /\ unit.ref_cnt = g_file_array[s].ref_cnt + 1
               /\ \/ g_file_array[s].fp /\ g_file_array[s].name = unit.name
                  \/ ~g_file_array[s].fp
                     /\ \A r \in Slots : ~(g_file_array[r].fp /\ g_file_array[r].name = unit.name)
               /\ DiskOK(disk', lines) /\ NothingLost(disk', removed, lines)
               /\ DOMAIN disk' = DOMAIN disk \cup {Log(unit.name)}
    PROVE  LogInv'
<1>1. /\ g_file_array \in [Slots -> FileUnit] /\ handle \in [Threads -> Seq(Slots)]
      /\ Len(handle[t]) \in Nat /\ Len(handle[t]) < Len(Files[t])
      /\ Len(Files[t]) \in Nat
  BY FilesType DEF LogInv, LogTyped
<1>2. Longer(handle, handle', t, s)
  BY <1>1, AppendLonger
<1>3. Len(handle'[t]) = Len(handle[t]) + 1 /\ \A u \in Threads \ {t} : handle'[u] = handle[u]
  BY <1>2 DEF Longer
<1>4. /\ g_file_array' \in [Slots -> FileUnit]
      /\ g_file_array'[s] = unit
      /\ \A r \in Slots \ {s} : g_file_array'[r] = g_file_array[r]
  BY <1>1, OtherUnits
<1>5. LogTyped'
  <2>1. handle' \in [Threads -> Seq(Slots)]
    BY <1>2 DEF Longer
  <2>2. pc' \in [Threads -> {"closed", "open", "opened", "closing"}]
    BY DEF LogInv, LogTyped
  <2>3. \A u \in Threads : /\ Len(handle'[u]) <= Len(Files[u])
                           /\ pc'[u] = "open" => Len(handle'[u]) < Len(Files[u])
    <3>1. ASSUME NEW u \in Threads
          PROVE  /\ Len(handle'[u]) <= Len(Files[u])
                 /\ pc'[u] = "open" => Len(handle'[u]) < Len(Files[u])
      <4>1. CASE u = t
        <5>1. pc'[t] = "open" => Len(handle[t]) + 1 # Len(Files[t])
          BY DEF LogInv, LogTyped
        <5> QED
          BY <4>1, <5>1, <1>1, <1>3
      <4>2. CASE u # t
        BY <4>2, <1>3 DEF LogInv, LogTyped
      <4> QED
        BY <4>1, <4>2
    <3> QED
      BY <3>1
  <2> QED
    BY <1>4, <2>1, <2>2, <2>3 DEF LogInv, LogTyped
<1>6. ASSUME ~broken
      PROVE  Whole(g_file_array', handle', disk', removed, lines)
  <2>1. Whole(g_file_array, handle, disk, removed, lines)
    BY <1>6 DEF LogInv
  <2>2. PICK g2 : g2 = g_file_array'
    OBVIOUS
  <2>3. PICK h2 : h2 = handle'
    OBVIOUS
  <2>4. Len(h2[t]) \in DOMAIN Files[t]
    BY <1>1, <1>3, <2>3, FilesType
  <2>5. Counted(g_file_array, handle) /\ Longer(handle, h2, t, s)
    BY <1>2, <2>1, <2>3 DEF Whole
  <2>6. /\ \A r \in Slots \ {s} : g2[r] = g_file_array[r]
        /\ g2[s].fp /\ g2[s].name = Files[t][Len(h2[t])]
        /\ g2[s].ref_cnt = g_file_array[s].ref_cnt + 1
    BY <1>3, <1>4, <1>6, <2>2, <2>3
  <2>7. \/ g_file_array[s].fp /\ g_file_array[s].name = g2[s].name
        \/ ~g_file_array[s].fp
           /\ \A r \in Slots : ~(g_file_array[r].fp /\ g_file_array[r].name = g2[s].name)
    BY <1>4, <1>6, <2>2
  <2>8. Counted(g2, h2)
    BY <2>4, <2>5, <2>6, <2>7, TakeSlot
  <2>9. OpenExist(g2, disk')
    BY <1>4, <1>6, <2>1, <2>2 DEF OpenExist, Whole
  <2> QED
    BY <1>6, <2>1, <2>2, <2>3, <2>8, <2>9 DEF Whole
<1> QED
  BY <1>5, <1>6 DEF LogInv

(* OpenFileUnit. *)
LEMMA OpenStep ==
    ASSUME LogInv, LogAssumption, NEW t \in Threads, OpenFileUnit(t)
    PROVE  LogInv'
<1> DEFINE name == Files[t][Len(handle[t]) + 1]
           place == IF Len(handle[t]) + 1 = Len(Files[t]) THEN "opened" ELSE "open"
<1>1. /\ pc[t] = "open" /\ UNCHANGED <<victim, now, lines, removed, broken>>
      /\ \/ /\ SameName(name) # {}
            /\ g_file_array' = [g_file_array EXCEPT ![Min(SameName(name))] =
                  [g_file_array[Min(SameName(name))] EXCEPT
                     !.ref_cnt = g_file_array[Min(SameName(name))].ref_cnt + 1]]
            /\ handle' = [handle EXCEPT ![t] = Append(handle[t], Min(SameName(name)))]
            /\ pc' = [pc EXCEPT ![t] = place]
            /\ UNCHANGED disk
         \/ /\ SameName(name) = {} /\ FreeSlots # {}
            /\ g_file_array' = [g_file_array EXCEPT ![Min(FreeSlots)] =
                  [fp |-> TRUE, name |-> name, ref_cnt |-> 1,
                   last_date |-> g_file_array[Min(FreeSlots)].last_date]]
            /\ handle' = [handle EXCEPT ![t] = Append(handle[t], Min(FreeSlots))]
            /\ disk' = Created(disk, Log(name))
            /\ pc' = [pc EXCEPT ![t] = place]
         \/ /\ SameName(name) = {}
            /\ pc' = [pc EXCEPT ![t] = "closing"]
            /\ UNCHANGED <<g_file_array, handle, disk>>
  BY Zenon DEF OpenFileUnit, Goto
<1>2. /\ g_file_array \in [Slots -> FileUnit] /\ handle \in [Threads -> Seq(Slots)]
      /\ Len(handle[t]) \in Nat /\ Len(handle[t]) < Len(Files[t])
      /\ Len(Files[t]) \in Nat
  BY <1>1, FilesType DEF LogInv, LogTyped
<1>3. name \in LogNames
  BY <1>2, FilesType
<1>4. Slots \subseteq Nat
  BY DEF LogAssumption
<1> HIDE DEF name
<1>5. ~broken => Whole(g_file_array, handle, disk, removed, lines)
  BY DEF LogInv
<1>6. CASE /\ SameName(name) # {}
           /\ g_file_array' = [g_file_array EXCEPT ![Min(SameName(name))] =
                 [g_file_array[Min(SameName(name))] EXCEPT
                    !.ref_cnt = g_file_array[Min(SameName(name))].ref_cnt + 1]]
           /\ handle' = [handle EXCEPT ![t] = Append(handle[t], Min(SameName(name)))]
           /\ pc' = [pc EXCEPT ![t] = place]
           /\ UNCHANGED disk
  <2>1. SameName(name) \subseteq Slots
    BY DEF SameName
  <2>2. PICK s : s = Min(SameName(name))
    OBVIOUS
  <2>3. s \in SameName(name)
    BY <1>4, <1>6, <2>1, <2>2, MinIn
  <2>4. s \in Slots /\ g_file_array[s].fp /\ g_file_array[s].name = name
    BY <2>3 DEF SameName
  <2>5. PICK unit : unit = [g_file_array[s] EXCEPT !.ref_cnt = g_file_array[s].ref_cnt + 1]
    OBVIOUS
  <2>6. /\ unit \in FileUnit /\ unit.fp /\ unit.name = name
        /\ unit.ref_cnt = g_file_array[s].ref_cnt + 1
    BY <1>2, <2>4, <2>5, UnitTypes
  <2>7. /\ g_file_array' = [g_file_array EXCEPT ![s] = unit]
        /\ handle' = [handle EXCEPT ![t] = Append(handle[t], s)]
        /\ disk' = disk /\ pc' = [pc EXCEPT ![t] = place]
    BY <1>6, <2>2, <2>5, Zenon
  <2>8. ~broken => /\ DiskOK(disk', lines) /\ NothingLost(disk', removed, lines)
                   /\ DOMAIN disk' = DOMAIN disk \cup {Log(name)}
    BY <1>5, <2>4, <2>7 DEF Whole, OpenExist
  <2> QED
    BY <1>1, <2>4, <2>6, <2>7, <2>8, OpenedStep DEF name
<1>7. CASE /\ SameName(name) = {} /\ FreeSlots # {}
           /\ g_file_array' = [g_file_array EXCEPT ![Min(FreeSlots)] =
                 [fp |-> TRUE, name |-> name, ref_cnt |-> 1,
                  last_date |-> g_file_array[Min(FreeSlots)].last_date]]
           /\ handle' = [handle EXCEPT ![t] = Append(handle[t], Min(FreeSlots))]
           /\ disk' = Created(disk, Log(name))
           /\ pc' = [pc EXCEPT ![t] = place]
  <2>1. FreeSlots \subseteq Slots
    BY DEF FreeSlots
  <2>2. PICK s : s = Min(FreeSlots)
    OBVIOUS
  <2>3. s \in FreeSlots
    BY <1>4, <1>7, <2>1, <2>2, MinIn
  <2>4. s \in Slots /\ ~g_file_array[s].fp
    BY <2>3 DEF FreeSlots
  <2>5. PICK unit : unit = [fp |-> TRUE, name |-> name, ref_cnt |-> 1,
                            last_date |-> g_file_array[s].last_date]
    OBVIOUS
  <2>6. /\ unit \in FileUnit /\ unit.fp /\ unit.name = name /\ unit.ref_cnt = 1
    BY <1>2, <1>3, <2>4, <2>5 DEF FileUnit
  <2>7. /\ g_file_array' = [g_file_array EXCEPT ![s] = unit]
        /\ handle' = [handle EXCEPT ![t] = Append(handle[t], s)]
        /\ disk' = Created(disk, Log(name)) /\ pc' = [pc EXCEPT ![t] = place]
    BY <1>7, <2>2, <2>5, Zenon
  <2>8. ~broken => /\ DiskOK(disk', lines) /\ NothingLost(disk', removed, lines)
                   /\ DOMAIN disk' = DOMAIN disk \cup {Log(name)}
    <3>1. lines \in Nat
      BY DEF LogInv, LogTyped
    <3> QED
      BY <1>3, <1>5, <2>7, <3>1, FileCreated DEF Whole
  <2>9. \A r \in Slots : ~(g_file_array[r].fp /\ g_file_array[r].name = name)
    BY <1>7 DEF SameName
  <2>10. ~broken => unit.ref_cnt = g_file_array[s].ref_cnt + 1
    <3>1. ASSUME ~broken
          PROVE  g_file_array[s].ref_cnt = 0
      <4>1. UsersOf(handle, s) = {} /\ g_file_array[s].ref_cnt = Cardinality(UsersOf(handle, s))
        BY <1>5, <2>4, <3>1 DEF Whole, Counted
      <4> QED
        BY <4>1, FS_EmptySet
    <3> QED
      BY <3>1, <2>6
  <2> QED
    BY <1>1, <2>4, <2>6, <2>7, <2>8, <2>9, <2>10, OpenedStep DEF name
<1>8. CASE /\ pc' = [pc EXCEPT ![t] = "closing"]
           /\ UNCHANGED <<g_file_array, handle, disk>>
  <2>1. LogTyped'
    BY <1>1, <1>8 DEF LogInv, LogTyped
  <2> QED
    BY <1>1, <1>8, <2>1 DEF LogInv
<1> QED
  BY <1>1, <1>6, <1>7, <1>8 DEF name

(* A log that is renamed to target and created anew. *)
LEMMA RenamedLog ==
    ASSUME NEW d, NEW name, Log(name) \in DOMAIN d, NEW target, target # Log(name)
    PROVE  Renamed(d, Created(Drop(Put(d, target, d[Log(name)]), Log(name)), Log(name)),
                   name, target, {})
<1> DEFINE f == Log(name)
           put == Put(d, target, d[f])
           left == Drop(put, f)
           new == Created(left, f)
<1>0. f \in DOMAIN d /\ target # f
  OBVIOUS
<1>1. /\ DOMAIN put = DOMAIN d \cup {target} /\ put[target] = d[f]
      /\ \A h \in DOMAIN d : h # target => put[h] = d[h]
  BY DEF Put
<1> HIDE DEF put, f
<1>2. DOMAIN left = DOMAIN put \ {f} /\ \A h \in DOMAIN left : left[h] = put[h]
  BY DEF Drop
<1> HIDE DEF left
<1>3. new = Put(left, f, [lines |-> {}, mtime |-> now])
  BY <1>2 DEF Created
<1>4. /\ DOMAIN new = DOMAIN left \cup {f} /\ new[f] = [lines |-> {}, mtime |-> now]
      /\ \A h \in DOMAIN left : h # f => new[h] = left[h]
  BY <1>3 DEF Put
<1> HIDE DEF new
<1>5. DOMAIN new = DOMAIN d \cup {target}
  BY <1>0, <1>1, <1>2, <1>4
<1>6. ASSUME NEW h \in DOMAIN d, h # f, h # target
      PROVE  new[h] = d[h]
  BY <1>1, <1>2, <1>4, <1>6
<1>7. new[target] = d[f]
  BY <1>0, <1>1, <1>2, <1>4
<1>8. "lines" \in DOMAIN new[f] /\ new[f].lines = {}
  BY <1>4
<1> QED
  BY <1>5, <1>6, <1>7, <1>8 DEF new, left, put, f, Renamed

(* A line that is written to f at time. *)
LEMMA WrittenLog ==
    ASSUME NEW d, NEW name, Log(name) \in DOMAIN d, NEW line, NEW date
    PROVE  Added(d, [d EXCEPT ![Log(name)].lines = @ \cup {line}, ![Log(name)].mtime = date],
                 name, line)
<1> DEFINE f == Log(name)
           more == [d[f] EXCEPT !.lines = d[f].lines \cup {line}]
           d1 == [d EXCEPT ![f] = more]
           dated == [d1[f] EXCEPT !.mtime = date]
           d2 == [d1 EXCEPT ![f] = dated]
<1>1. [d EXCEPT ![f].lines = @ \cup {line}, ![f].mtime = date] = d2
  BY Zenon
<1>0. f \in DOMAIN d
  OBVIOUS
<1>2. "lines" \in DOMAIN d[f] => "lines" \in DOMAIN more /\ more.lines = d[f].lines \cup {line}
  OBVIOUS
<1> HIDE DEF more, f
<1>3. DOMAIN d1 = DOMAIN d /\ d1[f] = more /\ \A h \in DOMAIN d : h # f => d1[h] = d[h]
  BY <1>0
<1> HIDE DEF d1
<1>4. "lines" \in DOMAIN d[f] => "lines" \in DOMAIN dated /\ dated.lines = d[f].lines \cup {line}
  BY <1>2, <1>3
<1> HIDE DEF dated
<1>5. DOMAIN d2 = DOMAIN d /\ d2[f] = dated /\ \A h \in DOMAIN d : h # f => d2[h] = d[h]
  BY <1>0, <1>3
<1> HIDE DEF d2
<1>6. Added(d, d2, name, line)
  BY <1>4, <1>5 DEF Added, f
<1> QED
  BY <1>1, <1>6, Zenon DEF f

(* The name a log is renamed to under kLogSizeSplit is free. *)
LEMMA FreeNameFree ==
    ASSUME LogAssumption, NEW name, DiskOK(disk, lines), lines \in Nat, lines < MaxLines
    PROVE  /\ FreeName(name) \notin DOMAIN disk
           /\ FreeName(name).name = name /\ FreeName(name).suffix \in Nat
           /\ FreeName(name).suffix <= lines
<1> DEFINE Free == {n \in 0..MaxLines : ~Exists(Rolled(name, n))}
<1>1. lines \in Free
  <2>1. Rolled(name, lines).suffix = lines
    BY RolledNamed
  <2>2. Rolled(name, lines) \notin DOMAIN disk
    BY <2>1 DEF DiskOK, FileOK
  <2>3. lines \in 0..MaxLines
    BY DEF LogAssumption
  <2> QED
    BY <2>2, <2>3 DEF Exists
<1>2. Free \subseteq Nat
  OBVIOUS
<1>3. PICK n : n = Min(Free)
  OBVIOUS
<1>4. n \in Free /\ n <= lines
  BY <1>1, <1>2, <1>3, MinIn
<1>5. FreeName(name) = Rolled(name, n)
  BY <1>3, Zenon DEF FreeName
<1>6. Rolled(name, n).name = name /\ Rolled(name, n).suffix = n
  BY RolledNamed
<1> QED
  BY <1>4, <1>5, <1>6 DEF Exists

(* What a log is renamed to. *)
LEMMA TargetOK ==
    ASSUME LogInv, LogAssumption, ~broken, lines < MaxLines, NEW name,
           NEW split \in BOOLEAN, ~split => Unsplit(name)
    PROVE  LET target == IF split THEN FreeName(name) ELSE Tmp(name)
           IN  Target(target, name, lines) /\ (target \in DOMAIN disk => Unsplit(name))
<1>1. lines \in Nat /\ DiskOK(disk, lines)
  BY DEF LogInv, LogTyped, Whole
<1>2. CASE split
  <2>1. PICK target : target = FreeName(name)
    OBVIOUS
  <2>2. /\ target \notin DOMAIN disk
        /\ target.name = name /\ target.suffix \in Nat /\ target.suffix <= lines
    BY <1>1, <2>1, FreeNameFree
  <2>3. Log(name).suffix = -1
    BY LogNamed
  <2>4. target.suffix \in Int /\ target.suffix < lines + 1 /\ target.suffix # -2
        /\ target # Log(name)
    BY <1>1, <2>2, <2>3
  <2> QED
    BY <1>2, <2>1, <2>2, <2>4, Zenon DEF Target
<1>3. CASE ~split
  BY <1>1, <1>3, LogNamed DEF Target
<1> QED
  BY <1>2, <1>3

(* What is on the disk after the next line was written to the log, which    *)
(* was renamed to target before if roll.                                    *)
LEMMA DiskStep ==
    ASSUME LogInv, ~broken, NEW name \in LogNames, Log(name) \in DOMAIN disk,
           NEW line, line.nr = lines + 1, line.file = name,
           NEW target, Target(target, name, lines), target \in DOMAIN disk => Unsplit(name),
           NEW roll, NEW gone, roll => Loses(disk, target, gone), ~roll => gone = {},
           NEW new, roll => Renamed(disk, new, name, target, {}), ~roll => new = disk,
           NEW d2, Added(new, d2, name, line)
    PROVE  /\ DiskOK(d2, lines + 1) /\ NothingLost(d2, removed \cup gone, lines + 1)
           /\ \A x \in gone : Unsplit(x.file)
           /\ DOMAIN disk \subseteq DOMAIN d2
<1>1. lines \in Nat
  BY DEF LogInv, LogTyped
<1>2. DiskOK(disk, lines) /\ NothingLost(disk, removed, lines)
  BY DEF LogInv, Whole
<1>3. CASE roll
  <2>1. Renamed(disk, d2, name, target, {line})
    BY <1>3 DEF Renamed, Added, Target
  <2>2. Loses(disk, target, gone)
    BY <1>3
  <2>3. DiskOK(d2, lines + 1) /\ NothingLost(d2, removed \cup gone, lines + 1)
    BY <1>1, <1>2, <2>1, <2>2, LineRolled
  <2>4. \A x \in gone : Unsplit(x.file)
    <3>1. ASSUME target \in DOMAIN disk
          PROVE  \A x \in disk[target].lines : x.file = name
      BY <3>1, <1>2 DEF DiskOK, FileOK, Target
    <3> QED
      BY <2>2, <3>1 DEF Loses
  <2> QED
    BY <2>1, <2>3, <2>4 DEF Renamed
<1>4. CASE ~roll
  <2>1. gone = {} /\ Added(disk, d2, name, line)
    BY <1>4
  <2>2. DiskOK(d2, lines + 1) /\ NothingLost(d2, removed, lines + 1)
    BY <1>1, <1>2, <2>1, LineAdded
  <2>3. removed \cup gone = removed
    BY <2>1
  <2> QED
    BY <2>1, <2>2, <2>3 DEF Added
<1> QED
  BY <1>3, <1>4

(* Units that change in the date only. *)
LEMMA DatedUnits ==
    ASSUME NEW g, NEW g2, NEW h,
           \A s \in Slots : /\ g2[s].fp = g[s].fp /\ g2[s].name = g[s].name
                            /\ g2[s].ref_cnt = g[s].ref_cnt,
           \A t \in Threads : \A i \in DOMAIN h[t] : h[t][i] \in Slots,
           Counted(g, h)
    PROVE  Counted(g2, h)
<1>1. \A s \in Slots : /\ IsFiniteSet(UsersOf(h, s))
                       /\ g2[s].ref_cnt = Cardinality(UsersOf(h, s))
                       /\ g2[s].fp <=> UsersOf(h, s) # {}
  BY DEF Counted
<1>2. \A s \in Slots : g2[s].fp <=> g2[s].name # None
  BY DEF Counted
<1>3. \A t \in Threads : \A i \in DOMAIN h[t] : g2[h[t][i]].name = Files[t][i]
  BY DEF Counted
<1>4. \A s, r \in Slots : g2[s].fp /\ g2[s].name = g2[r].name => s = r
  BY DEF Counted
<1> QED
  BY <1>1, <1>2, <1>3, <1>4 DEF Counted

(* RealWriteLogBuffer, whether the file is renamed or not. *)
LEMMA WriteStep ==
    ASSUME LogInv, LogAssumption, NEW t \in Threads, WriteLog(t)
    PROVE  LogInv'
<1>1. PICK i \in DOMAIN handle[t] : Write(t, i, [file |-> Files[t][i], nr |-> lines + 1])
  BY Zenon DEF WriteLog
<1>2. PICK line : line = [file |-> Files[t][i], nr |-> lines + 1]
  OBVIOUS
<1>3. line.nr = lines + 1 /\ line.file = Files[t][i]
  BY <1>2
<1> DEFINE s    == handle[t][i]
           unit == g_file_array[s]
           f    == Log(unit.name)
           target == IF Split[t] THEN FreeName(unit.name) ELSE Tmp(unit.name)
           roll == MustRoll(unit)
           gone == IF roll /\ target \in DOMAIN disk THEN disk[target].lines ELSE {}
           new  == Created(IF roll THEN Drop(Put(disk, target, disk[f]), f) ELSE disk, f)
<1>4. /\ lines < MaxLines /\ unit.fp /\ lines' = line.nr
      /\ removed' = removed \cup gone
      /\ UNCHANGED <<pc, handle, now>>
      /\ \/ /\ disk' = [new EXCEPT ![f].lines = @ \cup {line}, ![f].mtime = now]
            /\ g_file_array' = [g_file_array EXCEPT ![s].last_date = now]
            /\ victim' = [victim EXCEPT ![t] = IF roll /\ ~Split[t] THEN target ELSE None]
            /\ UNCHANGED broken
         \/ /\ g_file_array' = [g_file_array EXCEPT ![s].fp = FALSE, ![s].last_date = now]
            /\ broken' = TRUE
            /\ UNCHANGED victim
  BY <1>1, <1>2, Zenon DEF Write, Exists
<1>5. /\ g_file_array \in [Slots -> FileUnit] /\ handle \in [Threads -> Seq(Slots)]
      /\ s \in Slots /\ unit \in FileUnit
      /\ now \in Nat /\ lines \in Nat /\ victim \in [Threads -> Victims]
  BY DEF LogInv, LogTyped
<1>10. lines' \in Nat
  <2>1. lines' = lines + 1
    BY <1>3, <1>4, Zenon
  <2>2. lines \in Nat
    BY <1>5
  <2> QED
    BY <2>1, <2>2
<1>6. i \in DOMAIN Files[t]
  BY <1>5, FilesType DEF LogInv, LogTyped
<1>7. unit.name \in LogNames \cup {None}
  BY <1>5 DEF FileUnit
<1>8. CASE /\ disk' = [new EXCEPT ![f].lines = @ \cup {line}, ![f].mtime = now]
           /\ g_file_array' = [g_file_array EXCEPT ![s].last_date = now]
           /\ victim' = [victim EXCEPT ![t] = IF roll /\ ~Split[t] THEN target ELSE None]
           /\ UNCHANGED broken
  <2>1. PICK dated : dated = [unit EXCEPT !.last_date = now]
    OBVIOUS
  <2>2. /\ dated \in FileUnit /\ dated.fp = unit.fp
        /\ dated.name = unit.name /\ dated.ref_cnt = unit.ref_cnt
    BY <1>5, <2>1, UnitTypes
  <2>3. g_file_array' = [g_file_array EXCEPT ![s] = dated]
    BY <1>8, <2>1, Zenon
  <2>4. /\ g_file_array' \in [Slots -> FileUnit] /\ g_file_array'[s] = dated
        /\ \A r \in Slots \ {s} : g_file_array'[r] = g_file_array[r]
    BY <1>5, <2>2, <2>3, OtherUnits
  <2>5. LogTyped'
    <3>1. (IF roll /\ ~Split[t] THEN target ELSE None) \in Victims
      <4>1. Tmp(unit.name) \in Victims /\ None \in Victims
        BY <1>7 DEF Victims
      <4> QED
        BY <4>1
    <3>2. victim' \in [Threads -> Victims]
      <4>1. PICK v : v = IF roll /\ ~Split[t] THEN target ELSE None
        OBVIOUS
      <4>2. v \in Victims
        BY <3>1, <4>1, Zenon
      <4>3. victim' = [victim EXCEPT ![t] = v]
        BY <1>8, <4>1, Zenon
      <4>4. victim \in [Threads -> Victims]
        BY <1>5
      <4> HIDE DEF roll, target
      <4> QED
        BY <4>2, <4>3, <4>4
    <3> QED
      BY <1>4, <1>8, <1>10, <2>4, <3>2 DEF LogInv, LogTyped
  <2>6. ASSUME ~broken
        PROVE  Whole(g_file_array', handle, disk', removed', lines + 1)
    <3>1. /\ Counted(g_file_array, handle) /\ OpenExist(g_file_array, disk)
          /\ \A x \in removed : Unsplit(x.file)
      BY <2>6 DEF LogInv, Whole
    <3>2. unit.name = Files[t][i]
      BY <3>1 DEF Counted
    <3>3. unit.name \in LogNames /\ f \in DOMAIN disk /\ line.file = unit.name
      BY <1>3, <1>4, <1>5, <1>6, <3>1, <3>2, FilesType DEF OpenExist
    <3>4. Split[t] \in BOOLEAN /\ (~Split[t] => Unsplit(unit.name))
      <4>1. unit.name \in Range(Files[t])
        BY <1>6, <3>2, FilesType
      <4>2. Split[t] \in BOOLEAN
        BY DEF LogAssumption
      <4> QED
        BY <4>1, <4>2 DEF Unsplit
    <3>5. PICK split : split = Split[t]
      OBVIOUS
    <3>6. PICK to : to = target
      OBVIOUS
    <3>7. PICK name : name = unit.name
      OBVIOUS
    <3>8. /\ name \in LogNames /\ Log(name) \in DOMAIN disk /\ line.file = name
          /\ f = Log(name) /\ split \in BOOLEAN /\ (~split => Unsplit(name))
      BY <3>3, <3>4, <3>5, <3>7
    <3>9. Target(to, name, lines) /\ (to \in DOMAIN disk => Unsplit(name))
      <4>1. to = IF split THEN FreeName(name) ELSE Tmp(name)
        BY <3>5, <3>6, <3>7, Zenon
      <4> QED
        BY <1>4, <2>6, <3>8, <4>1, TargetOK
    <3>10. PICK next : next = new
      OBVIOUS
    <3>11. ASSUME roll
           PROVE  Renamed(disk, next, name, to, {})
      <4>1. next = Created(Drop(Put(disk, to, disk[f]), f), f)
        BY <3>6, <3>10, <3>11, Zenon
      <4>2. next = Created(Drop(Put(disk, to, disk[Log(name)]), Log(name)), Log(name))
        BY <3>7, <4>1, Zenon
      <4>3. to # Log(name)
        BY <3>9 DEF Target
      <4> QED
        BY <3>8, <4>2, <4>3, RenamedLog, Zenon
    <3>12. ~roll => next = disk
      BY <3>3, <3>10 DEF Created
    <3>13. PICK d2 : d2 = disk'
      OBVIOUS
    <3>14. Added(next, d2, name, line)
      <4>1. d2 = [next EXCEPT ![Log(name)].lines = @ \cup {line}, ![Log(name)].mtime = now]
        BY <1>8, <3>7, <3>10, <3>13, Zenon
      <4>2. Log(name) \in DOMAIN next
        BY <3>8, <3>11, <3>12 DEF Renamed
      <4> QED
        BY <4>1, <4>2, WrittenLog, Zenon
    <3>15. PICK lost : lost = gone
      OBVIOUS
    <3>16. (roll => Loses(disk, to, lost)) /\ (~roll => lost = {})
      BY <3>6, <3>15 DEF Loses
    <3>17. /\ DiskOK(d2, lines + 1) /\ NothingLost(d2, removed \cup lost, lines + 1)
           /\ \A x \in lost : Unsplit(x.file)
           /\ DOMAIN disk \subseteq DOMAIN d2
      <4>1. PICK rolls : rolls = (roll = TRUE)
        OBVIOUS
      <4>2. /\ rolls => Renamed(disk, next, name, to, {}) /\ Loses(disk, to, lost)
            /\ ~rolls => next = disk /\ lost = {}
        BY <3>11, <3>12, <3>16, <4>1
      <4>3. line.nr = lines + 1
        BY <1>3
      <4> HIDE DEF roll, f, s, unit
      <4> QED
        BY <2>6, <3>8, <3>9, <3>14, <4>2, <4>3, DiskStep
    <3>18. \A r \in Slots : /\ g_file_array'[r].fp = g_file_array[r].fp
                            /\ g_file_array'[r].name = g_file_array[r].name
                            /\ g_file_array'[r].ref_cnt = g_file_array[r].ref_cnt
      BY <2>2, <2>4
    <3>19. Counted(g_file_array', handle)
      <4>1. PICK g2 : g2 = g_file_array'
        OBVIOUS
      <4>2. \A u \in Threads : \A j \in DOMAIN handle[u] : handle[u][j] \in Slots
        BY <1>5
      <4> QED
        BY <3>1, <3>18, <4>1, <4>2, DatedUnits
    <3>20. OpenExist(g_file_array', d2)
      BY <3>1, <3>17, <3>18 DEF OpenExist
    <3>21. removed' = removed \cup lost /\ handle' = handle /\ disk' = d2
      BY <1>4, <3>13, <3>15
    <3>22. \A x \in removed' : Unsplit(x.file)
      BY <3>1, <3>17, <3>21
    <3> QED
      BY <3>17, <3>19, <3>20, <3>21, <3>22 DEF Whole
  <2> QED
    BY <1>3, <1>4, <1>8, <2>5, <2>6 DEF LogInv
<1>9. CASE /\ g_file_array' = [g_file_array EXCEPT ![s].fp = FALSE, ![s].last_date = now]
           /\ broken' = TRUE
           /\ UNCHANGED victim
  <2> DEFINE shut == [unit EXCEPT !.fp = FALSE]
             g1   == [g_file_array EXCEPT ![s] = shut]
             dated == [g1[s] EXCEPT !.last_date = now]
  <2>1. g_file_array' = [g1 EXCEPT ![s] = dated]
    BY <1>9, Zenon
  <2>2. shut \in FileUnit
    BY <1>5, UnitTypes
  <2> HIDE DEF shut
  <2>3. g1 \in [Slots -> FileUnit] /\ g1[s] \in FileUnit
    BY <1>5, <2>2
  <2> HIDE DEF g1
  <2>4. dated \in FileUnit
    BY <1>5, <2>3, UnitTypes
  <2> HIDE DEF dated
  <2>5. g_file_array' \in [Slots -> FileUnit]
    <3>1. PICK u : u = dated
      OBVIOUS
    <3>2. u \in FileUnit
      BY <2>4, <3>1
    <3>3. g_file_array' = [g1 EXCEPT ![s] = u]
      BY <2>1, <3>1, Zenon
    <3>4. s \in Slots
      BY <1>5
    <3> HIDE DEF s
    <3> QED
      BY <2>3, <3>2, <3>3, <3>4, OtherUnits
  <2>7. LogTyped'
    BY <1>4, <1>9, <1>10, <2>5 DEF LogInv, LogTyped
  <2> QED
    BY <1>9, <2>7 DEF LogInv
<1> QED
  BY <1>4, <1>8, <1>9

(* Every step preserves the invariant. *)
LEMMA NextLog ==
    ASSUME LogInv, LogAssumption, [Next]_vars
    PROVE  LogInv'
<1>1. CASE UNCHANGED vars
  <2>1. UNCHANGED <<g_file_array, handle, pc, victim, disk, now, lines, removed, broken>>
    BY <1>1 DEF vars
  <2>2. LogTyped'
    BY <2>1 DEF LogInv, LogTyped
  <2> QED
    BY <2>1, <2>2 DEF LogInv
<1>2. CASE Tick
  BY <1>2, TickStep
<1>3. ASSUME NEW t \in Threads,
             \/ OpenLog(t) \/ OpenFileUnit(t) \/ CloseLog(t) \/ CloseFileUnit(t)
             \/ FreeLogUnit(t) \/ WriteLog(t) \/ RemoveTmp(t)
      PROVE  LogInv'
  BY <1>3, PlaceStep, OpenStep, CloseStep, WriteStep, RemoveStep
<1> QED
  BY <1>1, <1>2, <1>3 DEF Next

(* The invariant says that files are shared as the handles say ... *)
LEMMA SharedFollows == LogInv => FilesShared
<1>1. \A s : Users(s) = UsersOf(handle, s)
  BY DEF Users, UsersOf
<1> QED
  BY <1>1 DEF LogInv, Whole, Counted, FilesShared

(* ... and that no line is lost. *)
LEMMA KeptFollows == LogInv => LinesKept
BY DEF LogInv, Whole, NothingLost, LinesKept, Unsplit
=============================================================================
