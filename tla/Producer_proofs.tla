--------------------------- MODULE Producer_proofs ---------------------------
(***************************************************************************)
(* ForkProducer leaves no directory behind, for any number of threads and  *)
(* of directories, and hands on only files that the tracker accepted as    *)
(* new, each of them once.                                                 *)
(*                                                                         *)
(* NothingLeft is not inductive: that the counter is too small to let the  *)
(* last thread go while a directory is queued takes an exact account.  As  *)
(* long as the queue is not empty no try_pop has failed, so the counter    *)
(* is the number of directories taken plus the number of threads that have *)
(* counted and not popped yet.                                             *)
(***************************************************************************)
EXTENDS Producer, FiniteSetTheorems, TLAPS

Places == {"new", "empty", "count", "pop", "test", "exited", "new_server",
           "fill", "next_file", "connect", "send", "recv", "disconnect",
           "delete"}

Popping == {t \in Producers : pc[t] = "pop"}

Types ==
    /\ main \in {"ready", "fork", "joined"}
    /\ MAX_SUBDIR_COUNTS \in Nat
    /\ INC_SUBDIR_COUNTS \in Nat
    /\ G_Volumns_Mq \in Seq(DOMAIN FilesIn)
    /\ pc \in [Producers -> Places]

Started == main = "ready" =>
    INC_SUBDIR_COUNTS = 0 /\ \A t \in Producers : pc[t] = "new"

Account == (main # "ready" /\ G_Volumns_Mq # <<>>) =>
    INC_SUBDIR_COUNTS + Len(G_Volumns_Mq) = Len(Folders) + Cardinality(Popping)

ExitedOK == \A t \in Producers :
    pc[t] = "exited" => INC_SUBDIR_COUNTS >= MAX_SUBDIR_COUNTS

JoinedOK == main = "joined" => \A t \in Producers : pc[t] = "exited"

IInv == Types /\ Started /\ Account /\ ExitedOK /\ JoinedOK

-----------------------------------------------------------------------------
(* The initial state. *)
LEMMA InitIInv == Init => IInv
  <1> SUFFICES ASSUME Init PROVE IInv
    OBVIOUS
  <1>1. Len(Folders) \in Nat
    BY ProducerAssumption
  <1>2. Types
    BY <1>1 DEF Init, InitialMax, Types, Places
  <1> QED
    BY <1>2 DEF Init, IInv, Started, Account, ExitedOK, JoinedOK

(* Threads are finitely many, and so are those about to pop. *)
LEMMA PoppingFinite == IsFiniteSet(Popping) /\ Cardinality(Popping) \in Nat
  <1>1. IsFiniteSet(Producers) /\ Popping \subseteq Producers
    BY ProducerAssumption DEF Popping
  <1> QED
    BY <1>1, FS_Subset, FS_CardinalityType

(* What the steps of a thread have in common that neither count nor take. *)
Outside(t) ==
    /\ pc[t] \notin {"new", "pop", "exited"}
    /\ UNCHANGED <<main, MAX_SUBDIR_COUNTS, INC_SUBDIR_COUNTS, G_Volumns_Mq>>

(* A step of a thread that neither counts nor takes a directory, and exits *)
(* only if the counter says so.                                            *)
LEMMA OtherStep ==
    ASSUME IInv, NEW t \in Producers, NEW x \in Places,
           Outside(t),
           x # "pop",
           x = "exited" => INC_SUBDIR_COUNTS >= MAX_SUBDIR_COUNTS,
           pc' = [pc EXCEPT ![t] = x]
    PROVE  IInv'
  <1> USE DEF Outside
  <1>1. pc \in [Producers -> Places]
    BY DEF IInv, Types
  <1>2. Popping' = Popping
    BY <1>1 DEF Popping
  <1>3. Types'
    BY <1>1 DEF IInv, Types
  <1>4. Started'
    BY DEF IInv, Started
  <1>5. Account'
    BY <1>2 DEF IInv, Account
  <1>6. ExitedOK'
    BY <1>1 DEF IInv, ExitedOK
  <1>7. JoinedOK'
    BY DEF IInv, JoinedOK
  <1> QED
    BY <1>3, <1>4, <1>5, <1>6, <1>7 DEF IInv

(* A thread counts before it pops. *)
LEMMA CountStep == ASSUME IInv, NEW t \in Producers, Count(t) PROVE IInv'
  <1>1. /\ pc \in [Producers -> Places] /\ pc[t] = "count"
        /\ pc' = [pc EXCEPT ![t] = "pop"]
        /\ INC_SUBDIR_COUNTS \in Nat /\ MAX_SUBDIR_COUNTS \in Nat
        /\ INC_SUBDIR_COUNTS' = INC_SUBDIR_COUNTS + 1
        /\ G_Volumns_Mq \in Seq(DOMAIN FilesIn)
        /\ UNCHANGED <<main, MAX_SUBDIR_COUNTS, G_Volumns_Mq>>
    BY DEF IInv, Types, Count
  <1>2. Popping' = Popping \cup {t} /\ t \notin Popping
    BY <1>1 DEF Popping
  <1>3. Cardinality(Popping') = Cardinality(Popping) + 1
    BY <1>2, PoppingFinite, FS_AddElement
  <1>4. Types'
    BY <1>1 DEF IInv, Types, Places
  <1>5. Started'
    BY <1>1 DEF IInv, Started
  <1>6. Len(G_Volumns_Mq) \in Nat /\ Len(Folders) \in Nat
    BY <1>1, ProducerAssumption
  <1>7. Account'
    <2> SUFFICES ASSUME (main # "ready" /\ G_Volumns_Mq # <<>>)'
                 PROVE  (INC_SUBDIR_COUNTS + Len(G_Volumns_Mq)
                             = Len(Folders) + Cardinality(Popping))'
      BY DEF Account
    <2>1. INC_SUBDIR_COUNTS + Len(G_Volumns_Mq) = Len(Folders) + Cardinality(Popping)
      BY <1>1 DEF IInv, Account
    <2> QED
      BY <1>1, <1>3, <1>6, <2>1, PoppingFinite
  <1>8. ExitedOK'
    BY <1>1 DEF IInv, ExitedOK
  <1>9. JoinedOK'
    BY <1>1 DEF IInv, JoinedOK
  <1> QED
    BY <1>4, <1>5, <1>7, <1>8, <1>9 DEF IInv

(* A thread pops, or finds the queue empty. *)
LEMMA PopStep == ASSUME IInv, NEW t \in Producers, Pop(t) PROVE IInv'
  <1>1. /\ pc \in [Producers -> Places] /\ pc[t] = "pop"
        /\ INC_SUBDIR_COUNTS \in Nat /\ MAX_SUBDIR_COUNTS \in Nat
        /\ G_Volumns_Mq \in Seq(DOMAIN FilesIn)
        /\ UNCHANGED <<main, MAX_SUBDIR_COUNTS, INC_SUBDIR_COUNTS>>
    BY DEF IInv, Types, Pop
  <1>2. PICK x \in {"test", "new_server"} : pc' = [pc EXCEPT ![t] = x]
    BY DEF Pop
  <1>3. \/ G_Volumns_Mq = <<>> /\ G_Volumns_Mq' = <<>>
        \/ G_Volumns_Mq # <<>> /\ G_Volumns_Mq' = Tail(G_Volumns_Mq)
    BY DEF Pop
  <1>4. Popping' = Popping \ {t} /\ t \in Popping
    BY <1>1, <1>2 DEF Popping
  <1>5. Cardinality(Popping') = Cardinality(Popping) - 1
    BY <1>4, PoppingFinite, FS_RemoveElement
  <1>6. G_Volumns_Mq' \in Seq(DOMAIN FilesIn)
    BY <1>1, <1>3
  <1>7. Types'
    BY <1>1, <1>2, <1>6 DEF IInv, Types, Places
  <1>8. Started'
    BY <1>1 DEF IInv, Started
  <1>9. Account'
    <2> SUFFICES ASSUME (main # "ready" /\ G_Volumns_Mq # <<>>)'
                 PROVE  (INC_SUBDIR_COUNTS + Len(G_Volumns_Mq)
                             = Len(Folders) + Cardinality(Popping))'
      BY DEF Account
    <2>1. G_Volumns_Mq # <<>> /\ G_Volumns_Mq' = Tail(G_Volumns_Mq)
      BY <1>3
    <2>2. INC_SUBDIR_COUNTS + Len(G_Volumns_Mq) = Len(Folders) + Cardinality(Popping)
      BY <1>1, <2>1 DEF IInv, Account
    <2>3. Len(G_Volumns_Mq') = Len(G_Volumns_Mq) - 1 /\ Len(G_Volumns_Mq) \in Nat
      BY <1>1, <2>1
    <2>4. Len(Folders) \in Nat
      BY ProducerAssumption
    <2>5. PICK k \in Nat : k = Cardinality(Popping)
      BY PoppingFinite
    <2>6. INC_SUBDIR_COUNTS + (Len(G_Volumns_Mq) - 1) = Len(Folders) + (k - 1)
      BY <1>1, <2>2, <2>3, <2>4, <2>5
    <2>7. INC_SUBDIR_COUNTS' = INC_SUBDIR_COUNTS /\ Cardinality(Popping') = k - 1
      BY <1>1, <1>5, <2>5
    <2> QED
      BY <2>3, <2>6, <2>7
  <1>10. ExitedOK'
    BY <1>1, <1>2 DEF IInv, ExitedOK
  <1>11. JoinedOK'
    BY <1>1 DEF IInv, JoinedOK
  <1> QED
    BY <1>7, <1>8, <1>9, <1>10, <1>11 DEF IInv

(* Every step of a thread. *)
LEMMA ThreadStep == ASSUME IInv, NEW t \in Producers, Step(t) PROVE IInv'
  <1> USE DEF queuevars, Outside
  <1>1. CASE TestEmpty(t)
    <2>1. PICK x \in {"count", "test"} : pc' = [pc EXCEPT ![t] = x]
      BY <1>1 DEF TestEmpty
    <2>2. Outside(t)
      BY <1>1 DEF TestEmpty
    <2> QED
      BY <2>1, <2>2, OtherStep DEF Places
  <1>2. CASE Count(t)
    BY <1>2, CountStep
  <1>3. CASE Pop(t)
    BY <1>3, PopStep
  <1>4. CASE TestCount(t)
    <2>1. PICK x \in {"exited", "empty"} :
              /\ pc' = [pc EXCEPT ![t] = x]
              /\ x = "exited" => INC_SUBDIR_COUNTS >= MAX_SUBDIR_COUNTS
      BY <1>4 DEF TestCount
    <2>2. Outside(t)
      BY <1>4 DEF TestCount
    <2> QED
      BY <2>1, <2>2, OtherStep DEF Places
  <1>5. CASE NewServer(t)
    <2>1. pc' = [pc EXCEPT ![t] = "fill"] /\ Outside(t)
      BY <1>5 DEF NewServer
    <2> QED
      BY <2>1, OtherStep DEF Places
  <1>6. CASE FillServer(t)
    <2>1. pc' = [pc EXCEPT ![t] = "next_file"] /\ Outside(t)
      BY <1>6 DEF FillServer
    <2> QED
      BY <2>1, OtherStep DEF Places
  <1>7. CASE NextFile(t)
    <2>1. pc' = [pc EXCEPT ![t] = "connect"] /\ Outside(t)
      BY <1>7 DEF NextFile
    <2> QED
      BY <2>1, OtherStep DEF Places
  <1>8. CASE NoMoreFiles(t)
    <2>1. pc' = [pc EXCEPT ![t] = "disconnect"] /\ Outside(t)
      BY <1>8 DEF NoMoreFiles
    <2> QED
      BY <2>1, OtherStep DEF Places
  <1>9. CASE Connect(t)
    <2>1. pc' = [pc EXCEPT ![t] = "send"] /\ Outside(t)
      BY <1>9 DEF Connect
    <2> QED
      BY <2>1, OtherStep DEF Places
  <1>10. CASE Send(t)
    <2>1. pc' = [pc EXCEPT ![t] = "recv"] /\ Outside(t)
      BY <1>10 DEF Send
    <2> QED
      BY <2>1, OtherStep DEF Places
  <1>11. CASE Receive(t)
    <2>1. pc' = [pc EXCEPT ![t] = "next_file"] /\ Outside(t)
      BY <1>11 DEF Receive
    <2> QED
      BY <2>1, OtherStep DEF Places
  <1>12. CASE TransferFails(t)
    <2>1. pc' = [pc EXCEPT ![t] = "next_file"] /\ Outside(t)
      BY <1>12 DEF TransferFails
    <2> QED
      BY <2>1, OtherStep DEF Places
  <1>13. CASE Disconnect(t)
    <2>1. pc' = [pc EXCEPT ![t] = "delete"] /\ Outside(t)
      BY <1>13 DEF Disconnect
    <2> QED
      BY <2>1, OtherStep DEF Places
  <1>14. CASE Delete(t)
    <2>1. pc' = [pc EXCEPT ![t] = "test"] /\ Outside(t)
      BY <1>14 DEF Delete
    <2> QED
      BY <2>1, OtherStep DEF Places
  <1>15. CASE Crash(t)
    BY <1>15 DEF Crash, IInv, Types, Started, Account, Popping, ExitedOK, JoinedOK
  <1> QED
    BY <1>1, <1>2, <1>3, <1>4, <1>5, <1>6, <1>7, <1>8, <1>9, <1>10, <1>11,
       <1>12, <1>13, <1>14, <1>15 DEF Step

(* The steps of the main thread. *)
LEMMA MainThreadStep == ASSUME IInv, MainStep PROVE IInv'
  <1> USE DEF queuevars
  <1>1. CASE ReadyProducer
    <2>1. /\ main = "ready" /\ main' = "fork" /\ G_Volumns_Mq' = Folders
          /\ UNCHANGED <<MAX_SUBDIR_COUNTS, INC_SUBDIR_COUNTS, pc>>
      BY <1>1 DEF ReadyProducer
    <2>2. INC_SUBDIR_COUNTS = 0 /\ \A t \in Producers : pc[t] = "new"
      BY <2>1 DEF IInv, Started
    <2>3. Popping' = {}
      BY <2>1, <2>2 DEF Popping
    <2>4. Cardinality(Popping') = 0
      BY <2>3, FS_EmptySet
    <2>5. Types'
      BY <2>1, ProducerAssumption DEF IInv, Types
    <2>6. Account'
      BY <2>1, <2>2, <2>4, ProducerAssumption DEF Account
    <2>7. Started' /\ JoinedOK' /\ ExitedOK'
      BY <2>1, <2>2 DEF Started, JoinedOK, ExitedOK
    <2> QED
      BY <2>5, <2>6, <2>7 DEF IInv
  <1>2. ASSUME NEW t \in Producers, ForkProducer(t) PROVE IInv'
    <2>1. /\ main = "fork" /\ pc[t] = "new" /\ pc' = [pc EXCEPT ![t] = "empty"]
          /\ pc \in [Producers -> Places]
          /\ UNCHANGED <<main, MAX_SUBDIR_COUNTS, INC_SUBDIR_COUNTS, G_Volumns_Mq>>
      BY <1>2 DEF ForkProducer, IInv, Types
    <2>2. Popping' = Popping
      BY <2>1 DEF Popping
    <2>3. Types'
      BY <2>1 DEF IInv, Types, Places
    <2>4. Account'
      BY <2>1, <2>2 DEF IInv, Account
    <2>5. Started' /\ JoinedOK'
      BY <2>1 DEF Started, JoinedOK
    <2>6. ExitedOK'
      BY <2>1 DEF IInv, ExitedOK
    <2> QED
      BY <2>3, <2>4, <2>5, <2>6 DEF IInv
  <1>3. CASE JoinProducers
    BY <1>3 DEF JoinProducers, IInv, Types, Started, Account, Popping, ExitedOK,
                JoinedOK
  <1> QED
    BY <1>1, <1>2, <1>3 DEF MainStep

(* Every step preserves the inductive invariant. *)
LEMMA NextIInv == IInv /\ [Next]_vars => IInv'
  <1> SUFFICES ASSUME IInv, [Next]_vars PROVE IInv'
    OBVIOUS
  <1>1. CASE Next
    BY <1>1, MainThreadStep, ThreadStep DEF Next
  <1>2. CASE UNCHANGED vars
    BY <1>2 DEF vars, queuevars, IInv, Types, Started, Account, Popping,
                ExitedOK, JoinedOK
  <1> QED
    BY <1>1, <1>2

(* The account closes: once all threads have left, nobody is about to pop, *)
(* so a directory still queued would mean that the counter never reached   *)
(* the bound on which they left.                                           *)
LEMMA AccountCloses == IInv => NothingLeft
  <1> SUFFICES ASSUME IInv, main = "joined",
                      MAX_SUBDIR_COUNTS = Len(Folders), G_Volumns_Mq # <<>>
               PROVE  FALSE
    BY DEF NothingLeft
  <1>1. \A t \in Producers : pc[t] = "exited"
    BY DEF IInv, JoinedOK
  <1>2. INC_SUBDIR_COUNTS >= MAX_SUBDIR_COUNTS
    BY <1>1, ProducerAssumption DEF IInv, ExitedOK
  <1>3. Popping = {}
    BY <1>1 DEF Popping
  <1>4. Cardinality(Popping) = 0
    BY <1>3, FS_EmptySet
  <1>5. INC_SUBDIR_COUNTS + Len(G_Volumns_Mq) = Len(Folders)
    BY <1>4, ProducerAssumption DEF IInv, Account
  <1>6. /\ Len(G_Volumns_Mq) \in Nat /\ Len(G_Volumns_Mq) > 0
        /\ INC_SUBDIR_COUNTS \in Nat
    BY DEF IInv, Types
  <1> QED
    BY <1>2, <1>5, <1>6

(* ForkProducer returns only after every directory has been taken: however *)
(* many threads compete for the last directories, whatever attempts the    *)
(* counter has counted, and whether or not the shared connection was used  *)
(* after it was freed (as long as the process lives).                      *)
THEOREM AllTaken == Spec => []NothingLeft
  <1>1. Init => IInv
    BY InitIInv
  <1>2. IInv /\ [Next]_vars => IInv'
    BY NextIInv
  <1>3. IInv => NothingLeft
    BY AccountCloses
  <1> QED
    BY <1>1, <1>2, <1>3, PTL DEF Spec

-----------------------------------------------------------------------------
(* OnlyNewFiles is not inductive either: a thread that reads a response    *)
(* trusts it, so what matters is that each file has been accepted at most  *)
(* once, counting the responses that nobody has read yet.                  *)
Holding == {"fill", "next_file", "connect", "send", "recv", "disconnect",
            "delete"}
Asking  == {"connect", "send", "recv"}

(* A thread that uses the tracker has a connection to use. *)
ConnInv ==
    /\ conn \in [Producers -> Servers \cup {None}]
    /\ \A t \in Producers : pc[t] \in Holding => pTrackerServer \in Servers
    /\ \A t \in Producers : pc[t] \in Asking => conn[t] \in Servers

Responses == [file : registered, status : {"exist", "success"}]

(* Response i of server s accepts its file as new. *)
Accepts(s, i) == i \in DOMAIN inbox[s] /\ inbox[s][i].status = "success"

FileTypes ==
    /\ Known \subseteq registered
    /\ inbox \in [Servers -> Seq(Responses)]
    /\ G_ItemProduce_Mq \in Seq(registered \ Known)

NewOnly == \A s \in Servers : \A i \in DOMAIN inbox[s] :
    Accepts(s, i) => inbox[s][i].file \notin Known

AcceptedOnce == \A s, p \in Servers :
    \A i \in DOMAIN inbox[s], j \in DOMAIN inbox[p] :
        (Accepts(s, i) /\ Accepts(p, j) /\ inbox[s][i].file = inbox[p][j].file)
            => s = p /\ i = j

NotGivenYet == \A s \in Servers : \A i \in DOMAIN inbox[s] :
    Accepts(s, i) => \A j \in DOMAIN G_ItemProduce_Mq :
                         G_ItemProduce_Mq[j] # inbox[s][i].file

GivenOnce == \A i, j \in DOMAIN G_ItemProduce_Mq :
    G_ItemProduce_Mq[i] = G_ItemProduce_Mq[j] => i = j

FileInv == FileTypes /\ NewOnly /\ AcceptedOnce /\ NotGivenYet /\ GivenOnce

(* No file is accepted in the initial state. *)
LEMMA InitFiles == Init => ConnInv /\ FileInv
  <1> SUFFICES ASSUME Init PROVE ConnInv /\ FileInv
    OBVIOUS
  <1>1. ConnInv
    BY DEF Init, ConnInv, Holding, Asking
  <1>2. FileTypes
    BY DEF Init, FileTypes, Responses
  <1>3. NewOnly /\ AcceptedOnce /\ NotGivenYet /\ GivenOnce
    BY DEF Init, NewOnly, AcceptedOnce, NotGivenYet, GivenOnce
  <1> QED
    BY <1>1, <1>2, <1>3 DEF FileInv

(* A sequence over a set is one over any larger set. *)
LEMMA SeqOver ==
    ASSUME NEW S, NEW T, S \subseteq T, NEW s \in Seq(S)
    PROVE  s \in Seq(T)
  OBVIOUS

(* A thread that takes no connection keeps the others'. *)
LEMMA ConnStep ==
    ASSUME pc \in [Producers -> Places], ConnInv, NEW t \in Producers, NEW x,
           pc' = [pc EXCEPT ![t] = x],
           x \in Holding => pc[t] \in Holding \/ pTrackerServer' \in Servers,
           x \in Asking => conn'[t] \in Servers,
           pTrackerServer' = pTrackerServer \/ pTrackerServer' \in Servers,
           conn' \in [Producers -> Servers \cup {None}],
           \A u \in Producers \ {t} : conn'[u] = conn[u]
    PROVE  ConnInv'
  <1>1. ASSUME NEW u \in Producers, pc'[u] \in Holding
        PROVE  pTrackerServer' \in Servers
    BY <1>1 DEF ConnInv
  <1>2. ASSUME NEW u \in Producers, pc'[u] \in Asking
        PROVE  conn'[u] \in Servers
    BY <1>2 DEF ConnInv
  <1> QED
    BY <1>1, <1>2 DEF ConnInv

(* A connection that is opened or closed loses its responses: fewer files  *)
(* are accepted and not given yet.                                         *)
LEMMA DropStep ==
    ASSUME FileInv, NEW x, inbox' = [inbox EXCEPT ![x] = <<>>],
           UNCHANGED <<registered, G_ItemProduce_Mq>>
    PROVE  FileInv'
  <1>1. FileTypes'
    <2>1. inbox \in [Servers -> Seq(Responses)] /\ Responses' = Responses
      BY DEF FileInv, FileTypes, Responses
    <2>2. <<>> \in Seq(Responses)
      OBVIOUS
    <2>3. inbox' \in [Servers -> Seq(Responses)']
      BY <2>1, <2>2
    <2> QED
      BY <2>3 DEF FileInv, FileTypes
  <1>2. ASSUME NEW s \in Servers, NEW i \in DOMAIN inbox'[s]
        PROVE  /\ i \in DOMAIN inbox[s] /\ inbox'[s][i] = inbox[s][i]
               /\ (Accepts(s, i)' <=> Accepts(s, i))
    <2>1. inbox'[s] = IF s = x THEN <<>> ELSE inbox[s]
      BY DEF FileInv, FileTypes
    <2>2. s # x
      BY <1>2, <2>1
    <2> QED
      BY <1>2, <2>1, <2>2 DEF Accepts
  <1>3. NewOnly'
    BY <1>2 DEF FileInv, NewOnly
  <1>4. AcceptedOnce'
    BY <1>2 DEF FileInv, AcceptedOnce
  <1>5. NotGivenYet'
    BY <1>2 DEF FileInv, NotGivenYet
  <1>6. GivenOnce'
    BY DEF FileInv, GivenOnce
  <1> QED
    BY <1>1, <1>3, <1>4, <1>5, <1>6 DEF FileInv

(* The tracker accepts a file only if nobody has asked for it before. *)
LEMMA SendStep ==
    ASSUME FileInv, NEW s \in Servers, NEW f,
           inbox' = [inbox EXCEPT ![s] = Append(@, Answer(f))],
           registered' = registered \cup {f},
           UNCHANGED G_ItemProduce_Mq
    PROVE  FileInv'
  <1> DEFINE n == Len(inbox[s]) + 1
  <1>1. /\ inbox \in [Servers -> Seq(Responses)] /\ Known \subseteq registered
        /\ G_ItemProduce_Mq \in Seq(registered \ Known)
    BY DEF FileInv, FileTypes
  <1>2. /\ Responses \subseteq Responses' /\ Answer(f) \in Responses'
        /\ Answer(f).file = f
        /\ Answer(f).status = "success" <=> f \notin registered
    BY DEF Responses, Answer
  <1>3. FileTypes'
    <2>1. \A p \in Servers : inbox[p] \in Seq(Responses')
      BY <1>1, <1>2, SeqOver
    <2>2. Append(inbox[s], Answer(f)) \in Seq(Responses')
      BY <1>2, <2>1
    <2>3. inbox' \in [Servers -> Seq(Responses')]
      BY <1>1, <2>1, <2>2
    <2>4. registered \ Known \subseteq registered' \ Known
      OBVIOUS
    <2>5. G_ItemProduce_Mq \in Seq(registered' \ Known)
      BY <1>1, <2>4, SeqOver
    <2> QED
      BY <1>1, <2>3, <2>5 DEF FileTypes
  <1>4. ASSUME NEW p \in Servers, NEW i \in DOMAIN inbox'[p]
        PROVE  \/ /\ p = s /\ i = n /\ inbox'[p][i] = Answer(f)
                  /\ (Accepts(p, i)' <=> f \notin registered)
               \/ /\ ~(p = s /\ i = n) /\ i \in DOMAIN inbox[p]
                  /\ inbox'[p][i] = inbox[p][i]
                  /\ (Accepts(p, i)' <=> Accepts(p, i))
                  /\ inbox[p][i].file \in registered
    <2>1. CASE p = s
      <3>1. inbox'[s] = Append(inbox[s], Answer(f)) /\ inbox[s] \in Seq(Responses)
        BY <1>1
      <3>2. i = n \/ (i # n /\ i \in DOMAIN inbox[s] /\ inbox'[s][i] = inbox[s][i])
        BY <1>4, <2>1, <3>1
      <3>3. i = n => inbox'[s][i] = Answer(f)
        BY <3>1
      <3>4. i \in DOMAIN inbox[s] => inbox[s][i] \in Responses
        BY <3>1
      <3>5. i # n => (Accepts(p, i)' <=> Accepts(p, i)) /\ inbox[p][i].file \in registered
        BY <1>4, <2>1, <3>2, <3>4 DEF Accepts, Responses
      <3>6. i = n => (Accepts(p, i)' <=> f \notin registered)
        BY <1>2, <1>4, <2>1, <3>3 DEF Accepts
      <3> QED
        BY <2>1, <3>2, <3>3, <3>5, <3>6
    <2>2. CASE p # s
      <3>1. inbox'[p] = inbox[p] /\ inbox[p] \in Seq(Responses)
        BY <1>1, <2>2
      <3>2. i \in DOMAIN inbox[p]
        BY <1>4, <3>1
      <3>3. inbox[p][i] \in Responses
        BY <3>1, <3>2
      <3> QED
        BY <2>2, <3>1, <3>2, <3>3 DEF Accepts, Responses
    <2> QED
      BY <2>1, <2>2
  <1> HIDE DEF n
  <1>5. NewOnly'
    <2>1. ASSUME NEW p \in Servers, NEW i \in DOMAIN inbox'[p], Accepts(p, i)'
          PROVE  inbox'[p][i].file \notin Known
      BY <1>1, <1>2, <1>4, <2>1 DEF FileInv, NewOnly
    <2> QED
      BY <2>1 DEF NewOnly
  <1>6. AcceptedOnce'
    BY <1>2, <1>4 DEF FileInv, AcceptedOnce
  <1>7. \A j \in DOMAIN G_ItemProduce_Mq : G_ItemProduce_Mq[j] \in registered
    BY <1>1
  <1>8. NotGivenYet'
    <2>1. ASSUME NEW p \in Servers, NEW i \in DOMAIN inbox'[p], Accepts(p, i)',
                 NEW j \in DOMAIN G_ItemProduce_Mq
          PROVE  G_ItemProduce_Mq[j] # inbox'[p][i].file
      BY <1>2, <1>4, <1>7, <2>1 DEF FileInv, NotGivenYet
    <2> QED
      BY <2>1 DEF NotGivenYet
  <1>9. GivenOnce'
    BY DEF FileInv, GivenOnce
  <1> QED
    BY <1>3, <1>5, <1>6, <1>8, <1>9 DEF FileInv

(* The response read first says which file to hand on; it is gone then. *)
LEMMA ReceiveStep ==
    ASSUME FileInv, NEW s \in Servers, inbox[s] # <<>>,
           inbox' = [inbox EXCEPT ![s] = Tail(@)],
           G_ItemProduce_Mq' = IF Head(inbox[s]).status = "success"
                               THEN Append(G_ItemProduce_Mq, Head(inbox[s]).file)
                               ELSE G_ItemProduce_Mq,
           UNCHANGED registered
    PROVE  FileInv'
  <1> DEFINE f == inbox[s][1].file
             n == Len(G_ItemProduce_Mq) + 1
  <1>1. /\ inbox \in [Servers -> Seq(Responses)] /\ Known \subseteq registered
        /\ G_ItemProduce_Mq \in Seq(registered \ Known)
        /\ Responses' = Responses
    BY DEF FileInv, FileTypes, Responses
  <1>2. /\ inbox[s] \in Seq(Responses) /\ inbox'[s] = Tail(inbox[s])
        /\ 1 \in DOMAIN inbox[s] /\ Head(inbox[s]) = inbox[s][1]
        /\ inbox[s][1] \in Responses
        /\ \A i \in DOMAIN inbox'[s] : /\ i \in Nat /\ i + 1 \in DOMAIN inbox[s]
                                       /\ i + 1 # 1
                                       /\ inbox'[s][i] = inbox[s][i + 1]
    BY <1>1
  <1>3. /\ f \in registered
        /\ Accepts(s, 1) <=> Head(inbox[s]).status = "success"
        /\ Accepts(s, 1) => f \notin Known
    BY <1>2 DEF FileInv, NewOnly, Accepts, Responses
  <1>4. ASSUME NEW p \in Servers, NEW i \in DOMAIN inbox'[p]
        PROVE  \E m \in DOMAIN inbox[p] :
                   /\ inbox'[p][i] = inbox[p][m]
                   /\ Accepts(p, i)' <=> Accepts(p, m)
                   /\ ~(p = s /\ m = 1)
                   /\ p = s => i \in Nat /\ m = i + 1
                   /\ p # s => m = i
    <2>1. CASE p = s
      BY <1>2, <1>4, <2>1 DEF Accepts
    <2>2. CASE p # s
      <3>1. inbox'[p] = inbox[p]
        BY <1>1, <2>2
      <3> QED
        BY <1>4, <2>2, <3>1 DEF Accepts
    <2> QED
      BY <2>1, <2>2
  <1>5. /\ DOMAIN G_ItemProduce_Mq \subseteq DOMAIN G_ItemProduce_Mq'
        /\ \A j \in DOMAIN G_ItemProduce_Mq' :
               \/ /\ j \in DOMAIN G_ItemProduce_Mq
                  /\ G_ItemProduce_Mq'[j] = G_ItemProduce_Mq[j]
               \/ j = n /\ Accepts(s, 1) /\ G_ItemProduce_Mq'[j] = f
    BY <1>1, <1>2, <1>3
  <1>6. FileTypes'
    <2>1. \A p \in Servers : inbox'[p] \in Seq(Responses)
      <3>1. Tail(inbox[s]) \in Seq(Responses)
        BY <1>2
      <3> QED
        BY <1>1, <3>1
    <2>2. inbox' \in [Servers -> Seq(Responses)]
      BY <1>1, <2>1
    <2>3. G_ItemProduce_Mq' \in Seq(registered \ Known)
      <3>1. CASE Accepts(s, 1)
        <4>1. f \in registered \ Known
          BY <1>3, <3>1
        <4>2. G_ItemProduce_Mq' = Append(G_ItemProduce_Mq, f)
          BY <1>2, <1>3, <3>1
        <4> HIDE DEF f
        <4> QED
          BY <1>1, <4>1, <4>2
      <3>2. CASE ~Accepts(s, 1)
        BY <1>1, <1>3, <3>2
      <3> QED
        BY <3>1, <3>2
    <2> QED
      BY <1>1, <2>2, <2>3 DEF FileTypes
  <1>7. \A p \in Servers : \A m \in DOMAIN inbox[p] :
            Accepts(p, m) /\ Accepts(s, 1) /\ ~(p = s /\ m = 1) =>
                inbox[p][m].file # f
    BY <1>2 DEF FileInv, AcceptedOnce
  <1>8. Accepts(s, 1) => \A j \in DOMAIN G_ItemProduce_Mq : G_ItemProduce_Mq[j] # f
    BY <1>2 DEF FileInv, NotGivenYet
  <1> HIDE DEF f, n
  <1>9. NewOnly'
    <2>1. ASSUME NEW p \in Servers, NEW i \in DOMAIN inbox'[p], Accepts(p, i)'
          PROVE  inbox'[p][i].file \notin Known
      BY <1>4, <2>1 DEF FileInv, NewOnly
    <2> QED
      BY <2>1 DEF NewOnly
  <1>10. AcceptedOnce'
    <2>1. ASSUME NEW p \in Servers, NEW i \in DOMAIN inbox'[p], Accepts(p, i)',
                 NEW o \in Servers, NEW j \in DOMAIN inbox'[o], Accepts(o, j)',
                 inbox'[p][i].file = inbox'[o][j].file
          PROVE  p = o /\ i = j
      <3>1. PICK m \in DOMAIN inbox[p] :
                   /\ inbox'[p][i] = inbox[p][m] /\ Accepts(p, m)
                   /\ p = s => i \in Nat /\ m = i + 1
                   /\ p # s => m = i
        BY <1>4, <2>1
      <3>2. PICK k \in DOMAIN inbox[o] :
                   /\ inbox'[o][j] = inbox[o][k] /\ Accepts(o, k)
                   /\ o = s => j \in Nat /\ k = j + 1
                   /\ o # s => k = j
        BY <1>4, <2>1
      <3>3. p = o /\ m = k
        BY <2>1, <3>1, <3>2 DEF FileInv, AcceptedOnce
      <3> QED
        BY <3>1, <3>2, <3>3
    <2> QED
      BY <2>1 DEF AcceptedOnce
  <1>11. NotGivenYet'
    <2>1. ASSUME NEW p \in Servers, NEW i \in DOMAIN inbox'[p], Accepts(p, i)',
                 NEW j \in DOMAIN G_ItemProduce_Mq'
          PROVE  G_ItemProduce_Mq'[j] # inbox'[p][i].file
      <3>1. PICK m \in DOMAIN inbox[p] :
                   /\ inbox'[p][i] = inbox[p][m] /\ Accepts(p, m)
                   /\ ~(p = s /\ m = 1)
        BY <1>4, <2>1
      <3>2. \A k \in DOMAIN G_ItemProduce_Mq : G_ItemProduce_Mq[k] # inbox[p][m].file
        BY <3>1 DEF FileInv, NotGivenYet
      <3> QED
        BY <1>5, <1>7, <2>1, <3>1, <3>2
    <2> QED
      BY <2>1 DEF NotGivenYet
  <1>12. GivenOnce'
    BY <1>5, <1>8 DEF FileInv, GivenOnce
  <1> QED
    BY <1>6, <1>9, <1>10, <1>11, <1>12 DEF FileInv

(* A step that touches neither the responses nor the two sets of files. *)
LEMMA QuietStep ==
    ASSUME FileInv, UNCHANGED <<inbox, registered, G_ItemProduce_Mq>>
    PROVE  FileInv'
  <1>1. /\ FileTypes' /\ NewOnly'
        /\ \A s, i : Accepts(s, i)' <=> Accepts(s, i)
    BY DEF FileInv, FileTypes, Responses, NewOnly, Accepts
  <1>2. AcceptedOnce'
    BY <1>1 DEF FileInv, AcceptedOnce
  <1>3. NotGivenYet' /\ GivenOnce'
    BY <1>1 DEF FileInv, NotGivenYet, GivenOnce
  <1> QED
    BY <1>1, <1>2, <1>3 DEF FileInv

(* The steps of a thread. *)
LEMMA ThreadFiles ==
    ASSUME Types, ConnInv, FileInv, NEW t \in Producers, Step(t)
    PROVE  ConnInv' /\ FileInv'
  <1>1. pc \in [Producers -> Places]
    BY DEF Types
  <1>2. conn \in [Producers -> Servers \cup {None}]
    BY DEF ConnInv
  <1>3. ASSUME NEW x \in {"count", "test", "pop", "new_server", "exited", "empty"},
               pc' = [pc EXCEPT ![t] = x], UNCHANGED <<pTrackerServer, conn>>
        PROVE  ConnInv'
    BY <1>1, <1>2, <1>3, ConnStep DEF Holding, Asking
  <1>4. ASSUME NEW x \in {"next_file", "disconnect", "delete"}, pc[t] \in Holding,
               pc' = [pc EXCEPT ![t] = x], UNCHANGED <<pTrackerServer, conn>>
        PROVE  ConnInv'
    BY <1>1, <1>2, <1>4, ConnStep DEF Asking
  <1>5. ASSUME NEW x \in {"send", "recv"}, pc[t] \in Asking,
               pc' = [pc EXCEPT ![t] = x], UNCHANGED <<pTrackerServer, conn>>
        PROVE  ConnInv'
    <2>1. conn[t] \in Servers /\ pc[t] \in Holding
      BY <1>5 DEF ConnInv, Asking, Holding
    <2> QED
      BY <1>1, <1>2, <1>5, <2>1, ConnStep
  <1>6. CASE \/ TestEmpty(t) \/ Count(t) \/ Pop(t) \/ TestCount(t)
    <2>1. UNCHANGED <<pTrackerServer, conn, inbox, registered, G_ItemProduce_Mq>>
      BY <1>6 DEF TestEmpty, Count, Pop, TestCount, servervars, threadvars
    <2>2. PICK x \in {"count", "test", "pop", "new_server", "exited", "empty"} :
              pc' = [pc EXCEPT ![t] = x]
      BY <1>6 DEF TestEmpty, Count, Pop, TestCount
    <2> QED
      BY <1>3, <2>1, <2>2, QuietStep
  <1>7. CASE NewServer(t)
    <2>1. PICK s \in Servers : /\ pTrackerServer' = s
                               /\ inbox' = [inbox EXCEPT ![s] = <<>>]
      BY <1>7 DEF NewServer
    <2>2. /\ pc' = [pc EXCEPT ![t] = "fill"]
          /\ UNCHANGED <<conn, registered, G_ItemProduce_Mq>>
      BY <1>7 DEF NewServer, threadvars
    <2>3. ConnInv'
      BY <1>1, <1>2, <2>1, <2>2, ConnStep DEF Asking
    <2> QED
      BY <2>1, <2>2, <2>3, DropStep
  <1>8. CASE FillServer(t) \/ NoMoreFiles(t) \/ TransferFails(t)
    <2>1. UNCHANGED <<pTrackerServer, conn, inbox, registered, G_ItemProduce_Mq>>
      BY <1>8 DEF FillServer, NoMoreFiles, TransferFails, servervars, threadvars
    <2>2. pc[t] \in Holding
      BY <1>8 DEF FillServer, NoMoreFiles, TransferFails, Holding
    <2>3. PICK x \in {"next_file", "disconnect"} : pc' = [pc EXCEPT ![t] = x]
      BY <1>8 DEF FillServer, NoMoreFiles, TransferFails
    <2> QED
      BY <1>4, <2>1, <2>2, <2>3, QuietStep
  <1>9. CASE NextFile(t)
    <2>1. /\ pc[t] = "next_file" /\ pc' = [pc EXCEPT ![t] = "connect"]
          /\ conn' = [conn EXCEPT ![t] = pTrackerServer]
          /\ UNCHANGED <<pTrackerServer, inbox, registered, G_ItemProduce_Mq>>
      BY <1>9 DEF NextFile, servervars
    <2>2. pTrackerServer \in Servers /\ pc[t] \in Holding
      BY <2>1 DEF ConnInv, Holding
    <2>3. ConnInv'
      BY <1>1, <1>2, <2>1, <2>2, ConnStep
    <2> QED
      BY <2>1, <2>3, QuietStep
  <1>10. CASE Connect(t)
    <2>1. /\ pc[t] \in Asking /\ pc' = [pc EXCEPT ![t] = "send"]
          /\ UNCHANGED <<pTrackerServer, conn, registered, G_ItemProduce_Mq>>
          /\ inbox' = inbox \/ inbox' = [inbox EXCEPT ![conn[t]] = <<>>]
      BY <1>10 DEF Connect, threadvars, Asking
    <2> QED
      BY <1>5, <2>1, DropStep, QuietStep
  <1>11. CASE Send(t)
    <2>1. /\ pc[t] \in Asking /\ pc' = [pc EXCEPT ![t] = "recv"]
          /\ UNCHANGED <<pTrackerServer, conn, G_ItemProduce_Mq>>
          /\ inbox' = [inbox EXCEPT ![conn[t]] = Append(@, Answer(Head(rest[t])))]
          /\ registered' = registered \cup {Head(rest[t])}
      BY <1>11 DEF Send, threadvars, Asking
    <2>2. conn[t] \in Servers
      BY <2>1 DEF ConnInv
    <2> QED
      BY <1>5, <2>1, <2>2, SendStep
  <1>12. CASE Receive(t)
    <2>1. /\ pc[t] \in Asking /\ pc' = [pc EXCEPT ![t] = "next_file"]
          /\ inbox[conn[t]] # <<>>
          /\ inbox' = [inbox EXCEPT ![conn[t]] = Tail(@)]
          /\ G_ItemProduce_Mq' = IF Head(inbox[conn[t]]).status = "success"
                     THEN Append(G_ItemProduce_Mq, Head(inbox[conn[t]]).file)
                     ELSE G_ItemProduce_Mq
          /\ UNCHANGED <<pTrackerServer, conn, registered>>
      BY <1>12 DEF Receive, Asking
    <2>2. conn[t] \in Servers /\ pc[t] \in Holding
      BY <2>1 DEF ConnInv, Asking, Holding
    <2>3. FileInv'
      BY <2>1, <2>2, ReceiveStep
    <2> QED
      BY <1>4, <2>1, <2>2, <2>3
  <1>13. CASE Disconnect(t)
    <2>1. /\ pc[t] \in Holding /\ pc' = [pc EXCEPT ![t] = "delete"]
          /\ UNCHANGED <<pTrackerServer, conn, registered, G_ItemProduce_Mq>>
          /\ inbox' = [inbox EXCEPT ![pTrackerServer] = <<>>]
      BY <1>13 DEF Disconnect, threadvars, Holding
    <2> QED
      BY <1>4, <2>1, DropStep
  <1>14. CASE Delete(t)
    <2>1. /\ pc' = [pc EXCEPT ![t] = "test"]
          /\ UNCHANGED <<pTrackerServer, conn, inbox, registered, G_ItemProduce_Mq>>
      BY <1>14 DEF Delete, threadvars
    <2> QED
      BY <1>3, <2>1, QuietStep
  <1>15. CASE Crash(t)
    <2>1. UNCHANGED <<pc, pTrackerServer, conn, inbox, registered, G_ItemProduce_Mq>>
      BY <1>15 DEF Crash, servervars, threadvars
    <2> QED
      BY <2>1, QuietStep DEF ConnInv
  <1> QED
    BY <1>6, <1>7, <1>8, <1>9, <1>10, <1>11, <1>12, <1>13, <1>14, <1>15 DEF Step

(* Every step preserves what is known of the files. *)
LEMMA NextFiles ==
    Types /\ ConnInv /\ FileInv /\ [Next]_vars => ConnInv' /\ FileInv'
  <1> SUFFICES ASSUME Types, ConnInv, FileInv, [Next]_vars PROVE ConnInv' /\ FileInv'
    OBVIOUS
  <1>1. CASE ReadyProducer \/ JoinProducers
    <2>1. UNCHANGED <<pc, pTrackerServer, conn, inbox, registered, G_ItemProduce_Mq>>
      BY <1>1 DEF ReadyProducer, JoinProducers, servervars, threadvars
    <2> QED
      BY <2>1, QuietStep DEF ConnInv
  <1>2. ASSUME NEW t \in Producers, ForkProducer(t) PROVE ConnInv' /\ FileInv'
    <2>1. /\ pc' = [pc EXCEPT ![t] = "empty"] /\ pc \in [Producers -> Places]
          /\ UNCHANGED <<pTrackerServer, conn, inbox, registered, G_ItemProduce_Mq>>
      BY <1>2 DEF ForkProducer, servervars, threadvars, Types
    <2>2. conn \in [Producers -> Servers \cup {None}]
      BY DEF ConnInv
    <2>3. ConnInv'
      BY <2>1, <2>2, ConnStep DEF Holding, Asking
    <2> QED
      BY <2>1, <2>3, QuietStep
  <1>3. CASE UNCHANGED vars
    <2>1. UNCHANGED <<pc, pTrackerServer, conn, inbox, registered, G_ItemProduce_Mq>>
      BY <1>3 DEF vars, servervars, threadvars
    <2> QED
      BY <2>1, QuietStep DEF ConnInv
  <1> QED
    BY <1>1, <1>2, <1>3, ThreadFiles DEF Next, MainStep

(* The consumers are given only files that the tracker accepted as new,    *)
(* and each once, for any number of threads and connections: although      *)
(* _ProducerMsg keeps its connection in one static pointer, so that threads *)
(* read each other's responses, skip a file whose response is still to     *)
(* come, and use connections that another thread has freed.                *)
THEOREM NewFilesOnce == Spec => []OnlyNewFiles
  <1>1. Init => IInv /\ ConnInv /\ FileInv
    BY InitIInv, InitFiles
  <1>2. IInv /\ ConnInv /\ FileInv /\ [Next]_vars => IInv' /\ ConnInv' /\ FileInv'
    BY NextIInv, NextFiles DEF IInv
  <1>3. FileInv => OnlyNewFiles
    BY DEF FileInv, FileTypes, GivenOnce, OnlyNewFiles
  <1> QED
    BY <1>1, <1>2, <1>3, PTL DEF Spec
=============================================================================
