----------------------- MODULE ProducerConsumerProofs ------------------------
(***************************************************************************)
(* Proofs about the three producer/consumer programs, for any finite sets  *)
(* of producers and consumers, any finite memory and any number of slots.  *)
(* One invariant serves all three: in each of them the list is only used   *)
(* by the owner of the mutex.                                              *)
(***************************************************************************)
EXTENDS MC_ProducerConsumer, FiniteSetTheorems, TLAPS

ProducerLabels == {"wait", "lock", "new", "publish", "signal", "unlock", "post"}
ConsumerLabels ==
  {"wait", "lock", "sleep", "asleep", "relock", "read", "advance", "free", "unlock", "post"}

\* Where a thread has the mutex, and where its local pointer is set.
Inside == {"new", "publish", "signal", "sleep", "read", "advance", "free", "unlock"}
Holding == {"publish", "advance", "free"}

PcTypeOK ==
  /\ mutex \in Threads \cup {Nobody}
  /\ pc \in [Threads -> ProducerLabels \cup ConsumerLabels]
  /\ \A p \in Producers : pc[p] \in ProducerLabels
  /\ \A c \in Consumers : pc[c] \in ConsumerLabels

OwnerIsInside == \A t \in Threads : pc[t] \in Inside <=> mutex = t

OnList(n) == \E i \in 1..Len(head) : head[i] = n

NodesOnList ==
  /\ \A i, j \in 1..Len(head) : head[i] = head[j] => i = j
  /\ \A i \in 1..Len(head) : head[i] \in live

\* What the local pointers of a thread are worth, by its next step.
PointersFit ==
  /\ \A t \in Threads : pc[t] \notin Holding => mine[t] = NoNode
  /\ \A p \in Producers : pc[p] = "publish" =>
       mine[p] \in live /\ ~OnList(mine[p]) /\ rest[p] = head
  /\ \A c \in Consumers : pc[c] = "advance" => head # <<>> /\ mine[c] = Head(head)
  /\ \A c \in Consumers : pc[c] = "free" => mine[c] \in live /\ ~OnList(mine[c])
  /\ \A c \in Consumers : pc[c] = "sleep" => head = <<>>

\* A node that is allocated is on the list or in the hands of a thread.
NothingLeaks == \A n \in live : OnList(n) \/ \E t \in Threads : mine[t] = n

ListInv == ListTypeOK /\ PcTypeOK /\ OwnerIsInside /\ NodesOnList /\ PointersFit /\ NothingLeaks

-----------------------------------------------------------------------------
(* The statements of the critical sections keep the list *)

\* What the invariant says implies that the list is sound: two threads never hold one node.
LEMMA InvImpliesSound == ListInv => ListIsSound
<1> SUFFICES ASSUME ListInv PROVE ListIsSound
  OBVIOUS
<1>t. /\ mine \in [Threads -> Nodes \cup {NoNode}] /\ head \in Seq(Nodes)
      /\ pc \in [Threads -> ProducerLabels \cup ConsumerLabels]
      /\ \A p \in Producers : pc[p] \in ProducerLabels
      /\ \A c \in Consumers : pc[c] \in ConsumerLabels
  BY DEF ListInv, ListTypeOK, PcTypeOK
<1>1. \A t \in Threads : mine[t] # NoNode => mutex = t
  BY DEF ListInv, OwnerIsInside, PointersFit, Inside, Holding
<1>2. ASSUME NEW t \in Threads, mine[t] # NoNode PROVE mine[t] \in live
  <2>1. pc[t] \in Holding
    BY <1>2 DEF ListInv, PointersFit
  <2>2. CASE t \in Producers
    BY <1>t, <2>1, <2>2 DEF ListInv, PointersFit, Holding, ProducerLabels
  <2>3. CASE t \in Consumers /\ pc[t] = "advance"
    <3>1. head # <<>> /\ mine[t] = Head(head)
      BY <2>3 DEF ListInv, PointersFit
    <3>2. 1 \in 1..Len(head) /\ mine[t] = head[1]
      BY <1>t, <3>1
    <3> QED
      BY <3>2 DEF ListInv, NodesOnList
  <2>4. CASE t \in Consumers /\ pc[t] = "free"
    BY <2>4 DEF ListInv, PointersFit
  <2> QED
    BY <1>t, <2>1, <2>2, <2>3, <2>4 DEF Threads, Holding, ConsumerLabels
<1> QED
  BY <1>1, <1>2 DEF ListInv, NodesOnList, NothingLeaks, OnList, ListIsSound

\* A step that leaves the list alone, and moves a thread whose pointers are not set.
LEMMA QuietStep ==
  ASSUME ListInv, UNCHANGED list, PcTypeOK', OwnerIsInside',
         \A t \in Threads : pc'[t] = pc[t] \/ {pc[t], pc'[t]} \cap Holding = {},
         \A t \in Threads : pc'[t] = "sleep" => pc[t] = "sleep"
  PROVE  ListInv'
<1>0. PointersFit /\ NodesOnList /\ ListTypeOK /\ NothingLeaks /\ UNCHANGED <<head, live, mine, rest>>
  BY DEF ListInv, list
<1>1. ListTypeOK' /\ NodesOnList' /\ NothingLeaks'
  BY <1>0 DEF ListTypeOK, NodesOnList, NothingLeaks, OnList
<1>2. PointersFit'
  BY <1>0 DEF PointersFit, OnList, Holding, Threads
<1> QED
  BY <1>1, <1>2 DEF ListInv

\* While one thread uses the list, no other thread has anything of it.
LEMMA OthersAreOutside ==
  ASSUME ListInv, NEW t \in Threads, pc[t] \in Inside
  PROVE  /\ mutex = t
         /\ \A s \in Threads \ {t} : pc[s] \notin Inside /\ mine[s] = NoNode
BY DEF ListInv, OwnerIsInside, PointersFit, Inside, Holding

\* newNode = malloc(...); newNode->next = head
LEMMA NewNodeStep ==
  ASSUME ListInv, NEW p \in Producers, pc[p] = "new",
         NewNode(p), pc' = [pc EXCEPT ![p] = "publish"], mutex' = mutex
  PROVE  ListInv'
<1>t. /\ head \in Seq(Nodes) /\ live \subseteq Nodes
      /\ mine \in [Threads -> Nodes \cup {NoNode}] /\ rest \in [Threads -> Seq(Nodes)]
  BY DEF ListInv, ListTypeOK
<1>0. p \in Threads /\ PcTypeOK /\ OwnerIsInside /\ NodesOnList /\ PointersFit
  BY DEF ListInv, Threads
<1>1. mutex = p /\ \A s \in Threads \ {p} : pc[s] \notin Inside /\ mine[s] = NoNode
  BY <1>0, OthersAreOutside DEF Inside
<1>2. PICK n \in Nodes \ live : live' = live \cup {n} /\ mine' = [mine EXCEPT ![p] = n]
  BY DEF NewNode
<1>3. head' = head /\ rest' = [rest EXCEPT ![p] = head]
  BY DEF NewNode
<1>4. ListTypeOK'
  BY <1>t, <1>2, <1>3 DEF ListTypeOK
<1>5. PcTypeOK' /\ OwnerIsInside'
  BY <1>0, <1>1, SemThreadsAssumption DEF PcTypeOK, OwnerIsInside, Inside, ProducerLabels, Threads
<1>6. NodesOnList'
  BY <1>0, <1>2, <1>3 DEF NodesOnList
<1>7. PointersFit'
  <2>1. mine'[p] = n /\ rest'[p] = head /\ pc'[p] = "publish"
    BY <1>t, <1>0, <1>2, <1>3 DEF PcTypeOK
  <2>2. \A s \in Threads \ {p} : mine'[s] = NoNode /\ pc'[s] = pc[s] /\ pc[s] \notin Inside
    BY <1>t, <1>0, <1>1, <1>2 DEF PcTypeOK
  <2>3. ~OnList(n)' /\ n \in live'
    BY <1>0, <1>2, <1>3 DEF NodesOnList, OnList
  <2>4. p \notin Consumers
    BY SemThreadsAssumption
  <2> QED
    BY <1>3, <2>1, <2>2, <2>3, <2>4 DEF PointersFit, Inside, Holding, Threads
<1>8. NothingLeaks'
  <2>1. mine'[p] = n
    BY <1>t, <1>0, <1>2
  <2>2. mine[p] = NoNode /\ NoNode \notin live
    BY <1>0, <1>t, NodeListAssumption DEF PointersFit, Holding
  <2>3. \A m \in live : OnList(m)'
    BY <1>0, <1>1, <1>3, <2>2 DEF ListInv, NothingLeaks, OnList
  <2> QED
    BY <1>0, <1>2, <2>1, <2>3 DEF NothingLeaks
<1> QED
  BY <1>4, <1>5, <1>6, <1>7, <1>8 DEF ListInv

\* The list grows at its head, by a node that was not on it.
LEMMA PushedList ==
  ASSUME head \in Seq(Nodes), NEW n \in Nodes, ~OnList(n), head' = <<n>> \o head
  PROVE  /\ head' \in Seq(Nodes) /\ head' # <<>> /\ Len(head') = Len(head) + 1
         /\ \A i \in 1..Len(head') : head'[i] = IF i = 1 THEN n ELSE head[i - 1]
         /\ \A m : OnList(m)' <=> m = n \/ OnList(m)
<1>1. <<n>> \in Seq(Nodes) /\ Len(<<n>>) = 1 /\ <<n>>[1] = n /\ Len(head) \in Nat
  OBVIOUS
<1>2. /\ head' \in Seq(Nodes) /\ Len(head') = Len(head) + 1
  BY <1>1
<1>3. \A i \in 1..Len(head') : head'[i] = IF i = 1 THEN n ELSE head[i - 1]
  BY <1>1, <1>2
<1>4. \A m : OnList(m) => OnList(m)'
  <2> SUFFICES ASSUME NEW m, NEW i \in 1..Len(head), head[i] = m PROVE OnList(m)'
    BY DEF OnList
  <2>1. i + 1 \in 1..Len(head') /\ head'[i + 1] = m
    BY <1>1, <1>2, <1>3
  <2> QED
    BY <2>1 DEF OnList
<1>5. OnList(n)'
  BY <1>1, <1>2, <1>3 DEF OnList
<1>6. \A m : OnList(m)' => m = n \/ OnList(m)
  <2> SUFFICES ASSUME NEW m, NEW i \in 1..Len(head'), head'[i] = m, m # n PROVE OnList(m)
    BY DEF OnList
  <2>1. i - 1 \in 1..Len(head) /\ head[i - 1] = m
    BY <1>1, <1>2, <1>3
  <2> QED
    BY <2>1 DEF OnList
<1>7. head' # <<>>
  BY <1>1, <1>2
<1> QED
  BY <1>2, <1>3, <1>4, <1>5, <1>6, <1>7

\* head = newNode
LEMMA PublishStep ==
  ASSUME ListInv, NEW p \in Producers, pc[p] = "publish", NEW l \in {"signal", "unlock"},
         Publish(p), pc' = [pc EXCEPT ![p] = l], mutex' = mutex
  PROVE  /\ ListInv'
         /\ mine[p] \in Nodes /\ ~OnList(mine[p]) /\ head' = <<mine[p]>> \o head
<1>t. /\ head \in Seq(Nodes) /\ live \subseteq Nodes
      /\ mine \in [Threads -> Nodes \cup {NoNode}] /\ rest \in [Threads -> Seq(Nodes)]
  BY DEF ListInv, ListTypeOK
<1>0. p \in Threads /\ PcTypeOK /\ OwnerIsInside /\ NodesOnList /\ PointersFit
  BY DEF ListInv, Threads
<1>1. mutex = p /\ \A s \in Threads \ {p} : pc[s] \notin Inside /\ mine[s] = NoNode
  BY <1>0, OthersAreOutside DEF Inside
<1>2. mine[p] \in live /\ ~OnList(mine[p]) /\ rest[p] = head
  BY <1>0 DEF PointersFit
<1>3. /\ head' = <<mine[p]>> \o head /\ live' = live
      /\ mine' = [mine EXCEPT ![p] = NoNode] /\ rest' = [rest EXCEPT ![p] = <<>>]
  BY <1>2 DEF Publish
<1>4. /\ head' \in Seq(Nodes) /\ head' # <<>> /\ Len(head') = Len(head) + 1
      /\ \A i \in 1..Len(head') : head'[i] = IF i = 1 THEN mine[p] ELSE head[i - 1]
      /\ \A m : OnList(m)' <=> m = mine[p] \/ OnList(m)
  BY <1>t, <1>2, <1>3, PushedList
<1>5. ListTypeOK'
  <2>1. rest' \in [Threads -> Seq(Nodes)]
    <3>1. <<>> \in Seq(Nodes)
      OBVIOUS
    <3> QED
      BY <1>t, <1>3, <3>1
  <2>2. mine' \in [Threads -> Nodes \cup {NoNode}]
    BY <1>t, <1>3
  <2> QED
    BY <1>t, <1>3, <1>4, <2>1, <2>2 DEF ListTypeOK
<1>6. PcTypeOK' /\ OwnerIsInside'
  BY <1>0, <1>1, SemThreadsAssumption DEF PcTypeOK, OwnerIsInside, Inside, ProducerLabels, Threads
<1>7. NodesOnList'
  <2>1. Len(head) \in Nat
    BY <1>t
  <2>2. ASSUME NEW i \in 2..Len(head') PROVE head'[i] \in live /\ head'[i] # mine[p]
    <3>1. i - 1 \in 1..Len(head) /\ head'[i] = head[i - 1]
      BY <1>4, <2>1
    <3> QED
      BY <1>0, <1>2, <3>1 DEF NodesOnList, OnList
  <2>3. ASSUME NEW i \in 1..Len(head'), NEW j \in 1..Len(head'), head'[i] = head'[j] PROVE i = j
    <3>1. CASE i = 1 \/ j = 1
      BY <1>4, <2>1, <2>2, <2>3, <3>1
    <3>2. CASE i # 1 /\ j # 1
      <4>1. i - 1 \in 1..Len(head) /\ j - 1 \in 1..Len(head) /\ head[i - 1] = head[j - 1]
        BY <1>4, <2>1, <2>3, <3>2
      <4>2. i - 1 = j - 1
        BY <1>0, <4>1 DEF NodesOnList
      <4> QED
        BY <4>2
    <3> QED
      BY <3>1, <3>2
  <2>4. \A i \in 1..Len(head') : i = 1 \/ i \in 2..Len(head')
    BY <1>4, <2>1
  <2> QED
    BY <1>2, <1>3, <1>4, <2>2, <2>3, <2>4 DEF NodesOnList
<1>8. PointersFit'
  <2>1. mine'[p] = NoNode /\ pc'[p] = l
    BY <1>t, <1>0, <1>3 DEF PcTypeOK
  <2>2. \A s \in Threads \ {p} : mine'[s] = NoNode /\ pc'[s] = pc[s] /\ pc[s] \notin Inside
    BY <1>t, <1>0, <1>1, <1>3 DEF PcTypeOK
  <2> QED
    BY <2>1, <2>2 DEF PointersFit, Inside, Holding, Threads
<1>9. NothingLeaks'
  <2>1. NoNode \notin live
    BY <1>t, NodeListAssumption
  <2>2. \A m \in live : m = mine[p] \/ OnList(m)
    BY <1>1, <2>1 DEF ListInv, NothingLeaks
  <2> QED
    BY <1>3, <1>4, <2>2 DEF NothingLeaks
<1> QED
  BY <1>t, <1>2, <1>3, <1>5, <1>6, <1>7, <1>8, <1>9 DEF ListInv

\* delNode = head.  In semaphore.c this is only safe where the list holds a node.
LEMMA ReadHeadStep ==
  ASSUME ListInv, NEW c \in Consumers, \A s \in Threads \ {c} : pc[s] \notin Inside,
         pc[c] \in {"lock", "read"},
         NEW l \in {"unlock", "sleep", "advance"}, l = "advance" <=> head # <<>>,
         ReadHead(c), pc' = [pc EXCEPT ![c] = l], mutex' = c
  PROVE  ListInv'
<1>t. /\ head \in Seq(Nodes) /\ live \subseteq Nodes
      /\ mine \in [Threads -> Nodes \cup {NoNode}] /\ rest \in [Threads -> Seq(Nodes)]
  BY DEF ListInv, ListTypeOK
<1>0. c \in Threads /\ PcTypeOK /\ OwnerIsInside /\ NodesOnList /\ PointersFit
  BY DEF ListInv, Threads
<1>1. UNCHANGED <<head, live, rest>> /\ mine' = [mine EXCEPT ![c] = IF head = <<>> THEN NoNode ELSE Head(head)]
  BY DEF ReadHead
<1>2. ListTypeOK'
  <2>1. mine' \in [Threads -> Nodes \cup {NoNode}]
    <3>1. CASE head = <<>>
      BY <1>t, <1>1, <3>1
    <3>2. CASE head # <<>>
      <4>1. Head(head) \in Nodes
        BY <1>t, <3>2
      <4> QED
        BY <1>t, <1>1, <3>2, <4>1
    <3> QED
      BY <3>1, <3>2
  <2> QED
    BY <1>t, <1>1, <2>1 DEF ListTypeOK
<1>3. PcTypeOK' /\ OwnerIsInside'
  BY <1>0, SemThreadsAssumption DEF PcTypeOK, OwnerIsInside, Inside, ConsumerLabels, Threads
<1>4. NodesOnList'
  BY <1>0, <1>1 DEF NodesOnList
<1>5. PointersFit'
  <2>1. pc'[c] = l /\ mine'[c] = IF head = <<>> THEN NoNode ELSE Head(head)
    BY <1>t, <1>0, <1>1 DEF PcTypeOK
  <2>2. \A s \in Threads \ {c} : mine'[s] = NoNode /\ pc'[s] = pc[s] /\ pc[s] \notin Inside
    BY <1>t, <1>0, <1>1 DEF PcTypeOK, PointersFit, Inside, Holding
  <2>3. c \notin Producers
    BY SemThreadsAssumption
  <2> QED
    BY <1>1, <2>1, <2>2, <2>3 DEF PointersFit, Inside, Holding, Threads
<1>6. NothingLeaks'
  <2>1. mine[c] = NoNode /\ NoNode \notin live
    BY <1>0, <1>t, NodeListAssumption DEF PointersFit, Holding
  <2>2. \A t \in Threads \ {c} : mine'[t] = mine[t]
    BY <1>t, <1>1
  <2> QED
    BY <1>1, <2>1, <2>2 DEF ListInv, NothingLeaks, OnList
<1> QED
  BY <1>2, <1>3, <1>4, <1>5, <1>6 DEF ListInv

\* The list loses its first node, which is then not on it any more.
LEMMA PoppedList ==
  ASSUME head \in Seq(Nodes), head # <<>>, NodesOnList, head' = Tail(head)
  PROVE  /\ head' \in Seq(Nodes) /\ Len(head') = Len(head) - 1 /\ Len(head) \in Nat
         /\ \A i \in 1..Len(head') : i + 1 \in 1..Len(head) /\ head'[i] = head[i + 1]
         /\ \A n : n = Head(head) => ~OnList(n)'
         /\ \A n : OnList(n) => n = Head(head) \/ OnList(n)'
<1>1. /\ head' \in Seq(Nodes) /\ Len(head') = Len(head) - 1 /\ Len(head) \in Nat /\ Len(head) >= 1
      /\ \A i \in 1..Len(head') : head'[i] = head[i + 1]
  OBVIOUS
<1>2. \A i \in 1..Len(head') : i + 1 \in 1..Len(head)
  BY <1>1
<1>3. ASSUME NEW i \in 1..Len(head'), head'[i] = Head(head) PROVE FALSE
  <2>1. 1 \in 1..Len(head) /\ i + 1 \in 1..Len(head) /\ head[i + 1] = head[1]
    BY <1>1, <1>2, <1>3
  <2>2. i + 1 = 1
    BY <2>1 DEF NodesOnList
  <2> QED
    BY <2>2
<1>4. \A n : n = Head(head) => ~OnList(n)'
  BY <1>3 DEF OnList
<1>5. ASSUME NEW n, NEW i \in 1..Len(head), head[i] = n PROVE n = Head(head) \/ OnList(n)'
  <2>1. CASE i = 1
    BY <1>5, <2>1
  <2>2. CASE i # 1
    <3>1. i - 1 \in 1..Len(head') /\ head'[i - 1] = n
      BY <1>1, <1>5, <2>2
    <3> QED
      BY <3>1 DEF OnList
  <2> QED
    BY <2>1, <2>2
<1> QED
  BY <1>1, <1>2, <1>4, <1>5 DEF OnList

\* head = head->next
LEMMA AdvanceStep ==
  ASSUME ListInv, NEW c \in Consumers, pc[c] = "advance",
         Advance, pc' = [pc EXCEPT ![c] = "free"], mutex' = mutex
  PROVE  ListInv' /\ head # <<>> /\ head' = Tail(head)
<1>t. /\ head \in Seq(Nodes) /\ live \subseteq Nodes
      /\ mine \in [Threads -> Nodes \cup {NoNode}] /\ rest \in [Threads -> Seq(Nodes)]
  BY DEF ListInv, ListTypeOK
<1>0. c \in Threads /\ PcTypeOK /\ OwnerIsInside /\ NodesOnList /\ PointersFit
  BY DEF ListInv, Threads
<1>1. mutex = c /\ \A s \in Threads \ {c} : pc[s] \notin Inside /\ mine[s] = NoNode
  BY <1>0, OthersAreOutside DEF Inside
<1>2. head # <<>> /\ mine[c] = Head(head) /\ head' = Tail(head) /\ UNCHANGED <<live, mine, rest>>
  BY <1>0 DEF PointersFit, Advance
<1>3. /\ head' \in Seq(Nodes) /\ Len(head') = Len(head) - 1 /\ Len(head) \in Nat
      /\ \A i \in 1..Len(head') : i + 1 \in 1..Len(head) /\ head'[i] = head[i + 1]
      /\ \A n : n = mine[c] => ~OnList(n)'
      /\ \A n : OnList(n) => n = mine[c] \/ OnList(n)'
  BY <1>t, <1>0, <1>2, PoppedList
<1>4. ListTypeOK'
  BY <1>t, <1>2, <1>3 DEF ListTypeOK
<1>5. PcTypeOK' /\ OwnerIsInside'
  BY <1>0, <1>1, SemThreadsAssumption DEF PcTypeOK, OwnerIsInside, Inside, ConsumerLabels, Threads
<1>6. NodesOnList'
  <2>1. ASSUME NEW i \in 1..Len(head'), NEW j \in 1..Len(head'), head'[i] = head'[j] PROVE i = j
    <3>1. i + 1 = j + 1
      BY <1>0, <1>3, <2>1 DEF NodesOnList
    <3> QED
      BY <3>1
  <2> QED
    BY <1>0, <1>2, <1>3, <2>1 DEF NodesOnList
<1>7. PointersFit'
  <2>1. pc'[c] = "free" /\ mine'[c] = Head(head) /\ Head(head) \in live
    <3>1. 1 \in 1..Len(head) /\ Head(head) = head[1]
      BY <1>t, <1>2
    <3> QED
      BY <1>0, <1>2, <3>1 DEF PcTypeOK, NodesOnList
  <2>2. \A s \in Threads \ {c} : mine'[s] = NoNode /\ pc'[s] = pc[s] /\ pc[s] \notin Inside
    BY <1>t, <1>0, <1>1, <1>2 DEF PcTypeOK
  <2>3. c \notin Producers /\ mine'[c] = mine[c]
    BY <1>2, SemThreadsAssumption
  <2> QED
    BY <1>2, <1>3, <2>1, <2>2, <2>3 DEF PointersFit, Inside, Holding, Threads
<1>8. NothingLeaks'
  BY <1>0, <1>2, <1>3 DEF ListInv, NothingLeaks
<1> QED
  BY <1>2, <1>4, <1>5, <1>6, <1>7, <1>8 DEF ListInv

\* free(delNode)
LEMMA FreeStep ==
  ASSUME ListInv, NEW c \in Consumers, pc[c] = "free",
         FreeNode(c), pc' = [pc EXCEPT ![c] = "unlock"], mutex' = mutex
  PROVE  ListInv'
<1>t. /\ head \in Seq(Nodes) /\ live \subseteq Nodes
      /\ mine \in [Threads -> Nodes \cup {NoNode}] /\ rest \in [Threads -> Seq(Nodes)]
  BY DEF ListInv, ListTypeOK
<1>0. c \in Threads /\ PcTypeOK /\ OwnerIsInside /\ NodesOnList /\ PointersFit
  BY DEF ListInv, Threads
<1>1. mutex = c /\ \A s \in Threads \ {c} : pc[s] \notin Inside /\ mine[s] = NoNode
  BY <1>0, OthersAreOutside DEF Inside
<1>2. UNCHANGED <<head, rest>> /\ live' = live \ {mine[c]} /\ mine' = [mine EXCEPT ![c] = NoNode]
  BY DEF FreeNode
<1>3. ListTypeOK'
  BY <1>t, <1>2 DEF ListTypeOK
<1>4. PcTypeOK' /\ OwnerIsInside'
  BY <1>0, <1>1, SemThreadsAssumption DEF PcTypeOK, OwnerIsInside, Inside, ConsumerLabels, Threads
<1>5. NodesOnList'
  <2>1. ~OnList(mine[c])
    BY <1>0 DEF PointersFit
  <2> QED
    BY <1>0, <1>2, <2>1 DEF NodesOnList, OnList
<1>6. PointersFit'
  <2>1. pc'[c] = "unlock" /\ mine'[c] = NoNode
    BY <1>t, <1>0, <1>2 DEF PcTypeOK
  <2>2. \A s \in Threads \ {c} : mine'[s] = NoNode /\ pc'[s] = pc[s] /\ pc[s] \notin Inside
    BY <1>t, <1>0, <1>1, <1>2 DEF PcTypeOK
  <2> QED
    BY <2>1, <2>2 DEF PointersFit, Inside, Holding, Threads
<1>7. NothingLeaks'
  <2>1. \A t \in Threads \ {c} : mine'[t] = mine[t]
    BY <1>t, <1>2
  <2> QED
    BY <1>2, <2>1 DEF ListInv, NothingLeaks, OnList
<1> QED
  BY <1>3, <1>4, <1>5, <1>6, <1>7 DEF ListInv

-----------------------------------------------------------------------------
(* The steps of the three programs *)

\* A thread that locks, unlocks, sleeps or waits moves to where it may use the list, or away
\* from it, as the mutex says.
LEMMA MoveStep ==
  ASSUME ListInv, UNCHANGED list, NEW t \in Threads, NEW l, pc' = [pc EXCEPT ![t] = l],
         t \in Producers => l \in ProducerLabels, t \in Consumers => l \in ConsumerLabels,
         pc[t] \notin Holding, l \notin Holding \cup {"sleep"},
         \/ mutex' = mutex /\ (l \in Inside <=> pc[t] \in Inside)
         \/ mutex = Nobody /\ mutex' = t /\ l \in Inside
         \/ pc[t] \in Inside /\ mutex' = Nobody /\ l \notin Inside
  PROVE  ListInv'
<1>0. PcTypeOK /\ OwnerIsInside /\ Nobody \notin Threads
  BY SemThreadsAssumption DEF ListInv
<1>1. pc'[t] = l /\ \A s \in Threads \ {t} : pc'[s] = pc[s]
  BY <1>0 DEF PcTypeOK
<1>2. PcTypeOK'
  <2>1. l \in ProducerLabels \cup ConsumerLabels
    BY DEF Threads
  <2>2. mutex' \in Threads \cup {Nobody}
    BY <1>0 DEF PcTypeOK
  <2> QED
    BY <1>0, <1>1, <2>1, <2>2 DEF PcTypeOK, Threads
<1>3. OwnerIsInside'
  BY <1>0, <1>1 DEF OwnerIsInside
<1> QED
  BY <1>1, <1>2, <1>3, QuietStep

\* producer_comsumer.c
LEMMA MutexStep ==
  ASSUME ListInv, Mutex!Next
  PROVE  ListInv'
<1>l. ProducerLabels \cap {"advance", "free"} = {} /\ "publish" \notin ConsumerLabels
  BY DEF ProducerLabels, ConsumerLabels
<1>1. ASSUME NEW p \in Producers, Mutex!ProduceLock(p) \/ Mutex!Unlock(p) PROVE ListInv'
  BY <1>1, MoveStep, SemThreadsAssumption
     DEF Mutex!ProduceLock, Mutex!Unlock, Mutex!Goto, Mutex!list, list, Threads, Inside, Holding,
         ProducerLabels
<1>2. ASSUME NEW p \in Producers, Mutex!ProduceNew(p) PROVE ListInv'
  BY <1>2, NewNodeStep DEF Mutex!ProduceNew, Mutex!NewNode, NewNode, Mutex!Goto
<1>3. ASSUME NEW p \in Producers, Mutex!ProducePublish(p) PROVE ListInv'
  BY <1>3, PublishStep DEF Mutex!ProducePublish, Mutex!Publish, Publish, Mutex!Goto
<1>4. ASSUME NEW c \in Consumers, Mutex!ConsumeLock(c) PROVE ListInv'
  <2>1. \A s \in Threads : pc[s] \notin Inside
    BY <1>4, SemThreadsAssumption DEF Mutex!ConsumeLock, ListInv, OwnerIsInside
  <2> QED
    BY <1>4, <2>1, ReadHeadStep DEF Mutex!ConsumeLock, Mutex!ReadHead, ReadHead, Mutex!Goto
<1>5. ASSUME NEW c \in Consumers, Mutex!ConsumeAdvance(c) PROVE ListInv'
  BY <1>5, AdvanceStep DEF Mutex!ConsumeAdvance, Mutex!Advance, Advance, Mutex!Goto
<1>6. ASSUME NEW c \in Consumers, Mutex!ConsumeFree(c) PROVE ListInv'
  BY <1>6, FreeStep DEF Mutex!ConsumeFree, Mutex!FreeNode, FreeNode, Mutex!Goto
<1>7. ASSUME NEW c \in Consumers, Mutex!Unlock(c) PROVE ListInv'
  BY <1>7, MoveStep, SemThreadsAssumption
     DEF Mutex!Unlock, Mutex!Goto, Mutex!list, list, Threads, Inside, Holding, ConsumerLabels
<1> QED
  BY <1>1, <1>2, <1>3, <1>4, <1>5, <1>6, <1>7 DEF Mutex!Next

\* pthread_condition.c
LEMMA CondStep ==
  ASSUME ListInv, Cond!Next
  PROVE  ListInv'
<1>1. ASSUME NEW p \in Producers, Cond!ProduceLock(p) \/ Cond!Unlock(p) PROVE ListInv'
  BY <1>1, MoveStep, SemThreadsAssumption
     DEF Cond!ProduceLock, Cond!Unlock, Cond!Goto, Cond!list, list, Threads, Inside, Holding,
         ProducerLabels
<1>2. ASSUME NEW p \in Producers, Cond!ProduceNew(p) PROVE ListInv'
  BY <1>2, NewNodeStep DEF Cond!ProduceNew, Cond!NewNode, NewNode, Cond!Goto
<1>3. ASSUME NEW p \in Producers, Cond!ProducePublish(p) PROVE ListInv'
  BY <1>3, PublishStep DEF Cond!ProducePublish, Cond!Publish, Publish, Cond!Goto
<1>4. ASSUME NEW p \in Producers, Cond!ProduceSignal(p) PROVE ListInv'
  <2>1. CASE Cond!Asleep = {}
    BY <1>4, <2>1, MoveStep, SemThreadsAssumption
       DEF Cond!ProduceSignal, Cond!Goto, Cond!list, list, Threads, Inside, Holding, ProducerLabels
  <2>2. CASE Cond!Asleep # {}
    <3>0. UNCHANGED <<list, mutex>>
      BY <1>4 DEF Cond!ProduceSignal, Cond!list, list
    <3>1. PICK c \in Consumers : pc[c] = "asleep" /\ pc' = [pc EXCEPT ![p] = "unlock", ![c] = "relock"]
      BY <1>4, <2>2 DEF Cond!ProduceSignal, Cond!Asleep
    <3>2. p \in Threads /\ c \in Threads /\ p # c /\ c \notin Producers /\ p \notin Consumers /\ pc[p] = "signal"
      BY <1>4, SemThreadsAssumption DEF Threads, Cond!ProduceSignal
    <3>3. pc'[p] = "unlock" /\ pc'[c] = "relock" /\ \A s \in Threads \ {p, c} : pc'[s] = pc[s]
      BY <3>1, <3>2 DEF ListInv, PcTypeOK
    <3>4. PcTypeOK'
      BY <3>0, <3>1, <3>2, <3>3 DEF ListInv, PcTypeOK, ProducerLabels, ConsumerLabels, Threads
    <3>5. OwnerIsInside'
      BY <3>0, <3>1, <3>2, <3>3 DEF ListInv, OwnerIsInside, Inside
    <3> QED
      BY <3>0, <3>1, <3>2, <3>3, <3>4, <3>5, QuietStep DEF Holding
  <2> QED
    BY <2>1, <2>2
<1>5. ASSUME NEW c \in Consumers, Cond!ConsumeLock(c) PROVE ListInv'
  <2>1. \A s \in Threads : pc[s] \notin Inside
    BY <1>5, SemThreadsAssumption DEF Cond!ConsumeLock, ListInv, OwnerIsInside
  <2> QED
    BY <1>5, <2>1, ReadHeadStep DEF Cond!ConsumeLock, Cond!ReadHead, ReadHead, Cond!Goto
<1>6. ASSUME NEW c \in Consumers, Cond!ConsumeAdvance(c) PROVE ListInv'
  BY <1>6, AdvanceStep DEF Cond!ConsumeAdvance, Cond!Advance, Advance, Cond!Goto
<1>7. ASSUME NEW c \in Consumers, Cond!ConsumeFree(c) PROVE ListInv'
  BY <1>7, FreeStep DEF Cond!ConsumeFree, Cond!FreeNode, FreeNode, Cond!Goto
<1>8. ASSUME NEW c \in Consumers,
             Cond!Unlock(c) \/ Cond!ConsumeSleep(c) \/ Cond!SpuriousWakeup(c) \/ Cond!ConsumeRelock(c)
      PROVE  ListInv'
  BY <1>8, MoveStep, SemThreadsAssumption
     DEF Cond!Unlock, Cond!ConsumeSleep, Cond!SpuriousWakeup, Cond!ConsumeRelock, Cond!Goto,
         Cond!list, list, Threads, Inside, Holding, ConsumerLabels
<1> QED
  BY <1>1, <1>2, <1>3, <1>4, <1>5, <1>6, <1>7, <1>8 DEF Cond!Next

\* No signal is lost: the list is empty when a consumer goes to sleep, since it holds the
\* mutex from its test on.
LEMMA WakeupStep ==
  ASSUME ListInv, Cond!NoLostWakeup, Cond!Next
  PROVE  Cond!NoLostWakeup'
<1>t. pc \in [Threads -> ProducerLabels \cup ConsumerLabels] /\ Producers \cap Consumers = {} /\ Consumers # {}
      /\ Nobody \notin Threads
  BY SemThreadsAssumption, NodeListAssumption DEF ListInv, PcTypeOK
<1>1. ASSUME NEW t \in Threads, NEW l, pc' = [pc EXCEPT ![t] = l], l # "asleep",
             pc[t] # "signal" \/ \E c \in Consumers : pc[c] # "asleep",
             head' = head \/ (t \in Consumers) \/ l = "signal"
      PROVE  Cond!NoLostWakeup'
  BY <1>t, <1>1 DEF Cond!NoLostWakeup, Cond!Asleep, Threads
<1>2. ASSUME NEW p \in Producers, Cond!ProduceLock(p) \/ Cond!ProduceNew(p) \/ Cond!Unlock(p)
      PROVE Cond!NoLostWakeup'
  BY <1>1, <1>2 DEF Cond!ProduceLock, Cond!ProduceNew, Cond!Unlock, Cond!Goto, Cond!NewNode, Cond!list, Threads
<1>3. ASSUME NEW p \in Producers, Cond!ProducePublish(p) PROVE Cond!NoLostWakeup'
  BY <1>1, <1>3 DEF Cond!ProducePublish, Cond!Goto, Threads
<1>4. ASSUME NEW p \in Producers, Cond!ProduceSignal(p) PROVE Cond!NoLostWakeup'
  <2>1. CASE Cond!Asleep = {}
    <3>1. \E c \in Consumers : pc[c] # "asleep"
      BY <1>t, <2>1 DEF Cond!Asleep
    <3> QED
      BY <1>1, <1>4, <2>1, <3>1 DEF Cond!ProduceSignal, Cond!Goto, Cond!list, Threads
  <2>2. CASE Cond!Asleep # {}
    <3>1. PICK c \in Consumers : pc' = [pc EXCEPT ![p] = "unlock", ![c] = "relock"]
      BY <1>4, <2>2 DEF Cond!ProduceSignal, Cond!Asleep
    <3>2. pc'[c] = "relock"
      BY <1>t, <3>1 DEF Threads
    <3> QED
      BY <3>2 DEF Cond!NoLostWakeup, Cond!Asleep
  <2> QED
    BY <2>1, <2>2
<1>5. ASSUME NEW c \in Consumers, Cond!ConsumeSleep(c) PROVE Cond!NoLostWakeup'
  BY <1>5 DEF Cond!ConsumeSleep, ListInv, PointersFit, Cond!NoLostWakeup, Cond!list
<1>6. ASSUME NEW c \in Consumers, Cond!ConsumeLock(c) \/ Cond!ConsumeAdvance(c) \/ Cond!ConsumeFree(c) \/ Cond!Unlock(c)
        \/ Cond!SpuriousWakeup(c) \/ Cond!ConsumeRelock(c)
      PROVE Cond!NoLostWakeup'
  <2>1. PICK l \in {"sleep", "advance", "free", "unlock", "lock", "relock"} : pc' = [pc EXCEPT ![c] = l]
    BY <1>6 DEF Cond!ConsumeLock, Cond!ConsumeAdvance, Cond!ConsumeFree, Cond!Unlock, Cond!SpuriousWakeup, Cond!ConsumeRelock, Cond!Goto
  <2>2. pc'[c] = l
    BY <1>t, <2>1 DEF Threads
  <2> QED
    BY <2>2 DEF Cond!NoLostWakeup, Cond!Asleep
<1> QED
  BY <1>2, <1>3, <1>4, <1>5, <1>6 DEF Cond!Next

-----------------------------------------------------------------------------
(* The semaphores of semaphore.c count *)

\* Where producers and consumers are on their way through the buffer.
At(T, labels) == Cardinality({t \in T : pc[t] \in labels})
Pushing == At(Producers, {"lock", "new", "publish"})
Pushed == At(Producers, {"unlock", "post"})
Popping == At(Consumers, {"lock", "read", "advance"})
Popped == At(Consumers, {"free", "unlock", "post"})

\* A node on the list has been posted, is about to be, or belongs to a consumer that is past
\* sem_wait.  A slot is free, or one thread or one node uses it.
SemCounts ==
  /\ psem \in Nat /\ csem \in Nat
  /\ Len(head) = csem + Pushed + Popping
  /\ psem + Pushing + Len(head) + Popped = Slots

\* How one step of thread t, to label l, changes the count n of the threads of T at labels.
Enters(t, l, T, labels) == t \in T /\ pc[t] \notin labels /\ l \in labels
Leaves(t, l, T, labels) == t \in T /\ pc[t] \in labels /\ l \notin labels
Counted(before, after, t, l, T, labels) ==
  /\ Enters(t, l, T, labels) => after = before + 1
  /\ Leaves(t, l, T, labels) => after = before - 1
  /\ ~Enters(t, l, T, labels) /\ ~Leaves(t, l, T, labels) => after = before

\* What the step of one thread does to one count.
LEMMA CountChange ==
  ASSUME PcTypeOK, NEW T, T \subseteq Threads, IsFiniteSet(T), NEW labels,
         NEW t \in Threads, NEW l, pc' = [pc EXCEPT ![t] = l]
  PROVE  /\ At(T, labels) \in Nat
         /\ (t \in T /\ pc[t] \in labels) => At(T, labels) > 0
         /\ Counted(At(T, labels), At(T, labels)', t, l, T, labels)
<1> DEFINE S == {s \in T : pc[s] \in labels}
           U == {s \in T : pc'[s] \in labels}
<1>0. pc'[t] = l /\ \A s \in Threads \ {t} : pc'[s] = pc[s]
  BY DEF PcTypeOK
<1>1. IsFiniteSet(S) /\ Cardinality(S) \in Nat
  BY FS_Subset, FS_CardinalityType
<1>2. t \in S => Cardinality(S) > 0
  BY <1>1, FS_EmptySet
<1>3. CASE Enters(t, l, T, labels)
  <2>1. U = S \cup {t} /\ t \notin S
    BY <1>0, <1>3 DEF Enters, Leaves
  <2> QED
    BY <1>1, <1>2, <1>3, <2>1, FS_AddElement DEF At, Counted, Enters, Leaves
<1>4. CASE Leaves(t, l, T, labels)
  <2>1. U = S \ {t} /\ t \in S
    BY <1>0, <1>4 DEF Enters, Leaves
  <2> QED
    BY <1>1, <1>2, <1>4, <2>1, FS_RemoveElement DEF At, Counted, Enters, Leaves
<1>5. CASE ~Enters(t, l, T, labels) /\ ~Leaves(t, l, T, labels)
  <2>1. U = S
    BY <1>0, <1>5 DEF Enters, Leaves
  <2> QED
    BY <1>1, <1>2, <1>5, <2>1 DEF At, Counted, Enters, Leaves
<1> QED
  BY <1>3, <1>4, <1>5

\* The four counts are numbers.
LEMMA CountIsNat == Pushing \in Nat /\ Pushed \in Nat /\ Popping \in Nat /\ Popped \in Nat
BY FS_Subset, FS_CardinalityType, SemThreadsAssumption DEF Pushing, Pushed, Popping, Popped, At

AllCounted(t, l) ==
  /\ Counted(Pushing, Pushing', t, l, Producers, {"lock", "new", "publish"})
  /\ Counted(Pushed, Pushed', t, l, Producers, {"unlock", "post"})
  /\ Counted(Popping, Popping', t, l, Consumers, {"lock", "read", "advance"})
  /\ Counted(Popped, Popped', t, l, Consumers, {"free", "unlock", "post"})

\* The four counts, after one step of one thread.
LEMMA CountsChange ==
  ASSUME PcTypeOK, NEW t \in Threads, NEW l, pc' = [pc EXCEPT ![t] = l]
  PROVE  /\ (t \in Consumers /\ pc[t] \in {"lock", "read", "advance"}) => Popping > 0
         /\ AllCounted(t, l)
<1>1. /\ IsFiniteSet(Producers) /\ IsFiniteSet(Consumers)
      /\ Producers \subseteq Threads /\ Consumers \subseteq Threads
  BY SemThreadsAssumption DEF Threads
<1> QED
  BY <1>1, CountChange DEF AllCounted, Pushing, Pushed, Popping, Popped

\* Every step of semaphore.c keeps the counts and the list.
LEMMA SemStep ==
  ASSUME ListInv, SemCounts, Next
  PROVE  ListInv' /\ SemCounts'
<1>0. PcTypeOK /\ Producers \cap Consumers = {} /\ head \in Seq(Nodes) /\ Len(head) \in Nat /\ Slots \in Nat
      /\ Nobody \notin Threads /\ Producers \subseteq Threads /\ Consumers \subseteq Threads
  BY SemThreadsAssumption, SlotsAssumption DEF ListInv, ListTypeOK, Threads
<1>n. Pushing \in Nat /\ Pushed \in Nat /\ Popping \in Nat /\ Popped \in Nat
  BY <1>0, CountIsNat
<1>1. ASSUME NEW p \in Producers, ProduceWait(p) PROVE ListInv' /\ SemCounts'
  <2>1. ListInv'
    BY <1>0, <1>1, MoveStep DEF ProduceWait, Goto, Inside, Holding, ProducerLabels
  <2>2. Pushing' = Pushing + 1 /\ Pushed' = Pushed /\ Popping' = Popping /\ Popped' = Popped
    <3>1. AllCounted(p, "lock")
      BY <1>0, <1>1, CountsChange DEF ProduceWait, Goto
    <3> QED
      BY <1>0, <1>1, <1>n, <3>1 DEF AllCounted, Counted, Enters, Leaves, ProduceWait
  <2> QED
    BY <1>0, <1>1, <2>1, <2>2, <1>n DEF ProduceWait, SemCounts, list
<1>2. ASSUME NEW p \in Producers, ProduceLock(p) PROVE ListInv' /\ SemCounts'
  <2>1. ListInv'
    BY <1>0, <1>2, MoveStep DEF ProduceLock, Lock, Goto, Inside, Holding, ProducerLabels
  <2>2. Pushing' = Pushing /\ Pushed' = Pushed /\ Popping' = Popping /\ Popped' = Popped
    <3>1. AllCounted(p, "new")
      BY <1>0, <1>2, CountsChange DEF ProduceLock, Lock, Goto
    <3> QED
      BY <1>0, <1>2, <1>n, <3>1 DEF AllCounted, Counted, Enters, Leaves, ProduceLock, Lock
  <2> QED
    BY <1>0, <1>2, <2>1, <2>2, <1>n DEF ProduceLock, Lock, SemCounts, list
<1>3. ASSUME NEW p \in Producers, ProduceNew(p) PROVE ListInv' /\ SemCounts'
  <2>1. ListInv'
    BY <1>0, <1>3, NewNodeStep DEF ProduceNew, Goto
  <2>2. Pushing' = Pushing /\ Pushed' = Pushed /\ Popping' = Popping /\ Popped' = Popped
    <3>1. AllCounted(p, "publish")
      BY <1>0, <1>3, CountsChange DEF ProduceNew, Goto
    <3> QED
      BY <1>0, <1>3, <1>n, <3>1 DEF AllCounted, Counted, Enters, Leaves, ProduceNew
  <2> QED
    BY <1>0, <1>3, <2>1, <2>2, <1>n DEF ProduceNew, NewNode, SemCounts
<1>4. ASSUME NEW p \in Producers, ProducePublish(p) PROVE ListInv' /\ SemCounts'
  <2>1. ListInv' /\ Len(head') = Len(head) + 1
    <3>1. ListInv' /\ mine[p] \in Nodes /\ ~OnList(mine[p]) /\ head' = <<mine[p]>> \o head
      BY <1>0, <1>4, PublishStep DEF ProducePublish, Goto
    <3> QED
      BY <1>0, <3>1, PushedList
  <2>2. Pushing' = Pushing - 1 /\ Pushed' = Pushed + 1 /\ Popping' = Popping /\ Popped' = Popped
    <3>1. AllCounted(p, "unlock")
      BY <1>0, <1>4, CountsChange DEF ProducePublish, Goto
    <3> QED
      BY <1>0, <1>4, <1>n, <3>1 DEF AllCounted, Counted, Enters, Leaves, ProducePublish
  <2> QED
    BY <1>0, <1>4, <2>1, <2>2, <1>n DEF ProducePublish, SemCounts
<1>5. ASSUME NEW t \in Threads, Unlock(t) PROVE ListInv' /\ SemCounts'
  <2>1. ListInv'
    BY <1>0, <1>5, MoveStep DEF Unlock, Goto, Inside, Holding, ProducerLabels, ConsumerLabels
  <2>2. Pushing' = Pushing /\ Pushed' = Pushed /\ Popping' = Popping /\ Popped' = Popped
    <3>1. AllCounted(t, "post")
      BY <1>0, <1>5, CountsChange DEF Unlock, Goto
    <3> QED
      BY <1>0, <1>5, <1>n, <3>1 DEF AllCounted, Counted, Enters, Leaves, Unlock
  <2> QED
    BY <1>0, <1>5, <2>1, <2>2 DEF Unlock, SemCounts, list
<1>6. ASSUME NEW p \in Producers, ProducePost(p) PROVE ListInv' /\ SemCounts'
  <2>1. ListInv'
    BY <1>0, <1>6, MoveStep DEF ProducePost, Goto, Inside, Holding, ProducerLabels
  <2>2. Pushing' = Pushing /\ Pushed' = Pushed - 1 /\ Popping' = Popping /\ Popped' = Popped
    <3>1. AllCounted(p, "wait")
      BY <1>0, <1>6, CountsChange DEF ProducePost, Goto
    <3> QED
      BY <1>0, <1>6, <1>n, <3>1 DEF AllCounted, Counted, Enters, Leaves, ProducePost
  <2> QED
    BY <1>0, <1>6, <2>1, <2>2, <1>n DEF ProducePost, SemCounts, list
<1>7. ASSUME NEW c \in Consumers, ConsumeWait(c) PROVE ListInv' /\ SemCounts'
  <2>1. ListInv'
    BY <1>0, <1>7, MoveStep DEF ConsumeWait, Goto, Inside, Holding, ConsumerLabels
  <2>2. Pushing' = Pushing /\ Pushed' = Pushed /\ Popping' = Popping + 1 /\ Popped' = Popped
    <3>1. AllCounted(c, "lock")
      BY <1>0, <1>7, CountsChange DEF ConsumeWait, Goto
    <3> QED
      BY <1>0, <1>7, <1>n, <3>1 DEF AllCounted, Counted, Enters, Leaves, ConsumeWait
  <2> QED
    BY <1>0, <1>7, <2>1, <2>2, <1>n DEF ConsumeWait, SemCounts, list
<1>8. ASSUME NEW c \in Consumers, ConsumeLock(c) PROVE ListInv' /\ SemCounts'
  <2>1. ListInv'
    BY <1>0, <1>8, MoveStep DEF ConsumeLock, Lock, Goto, Inside, Holding, ConsumerLabels
  <2>2. Pushing' = Pushing /\ Pushed' = Pushed /\ Popping' = Popping /\ Popped' = Popped
    <3>1. AllCounted(c, "read")
      BY <1>0, <1>8, CountsChange DEF ConsumeLock, Lock, Goto
    <3> QED
      BY <1>0, <1>8, <1>n, <3>1 DEF AllCounted, Counted, Enters, Leaves, ConsumeLock, Lock
  <2> QED
    BY <1>0, <1>8, <2>1, <2>2, <1>n DEF ConsumeLock, Lock, SemCounts, list
<1>9. ASSUME NEW c \in Consumers, ConsumeRead(c) PROVE ListInv' /\ SemCounts'
  <2>1. head # <<>>
    <3>1. Popping > 0
      BY <1>0, <1>9, CountsChange DEF ConsumeRead, Goto
    <3> QED
      BY <1>0, <1>n, <3>1 DEF SemCounts
  <2>2. mutex = c /\ \A s \in Threads \ {c} : pc[s] \notin Inside
    BY <1>0, <1>9, OthersAreOutside DEF ConsumeRead, Inside
  <2>3. ListInv'
    BY <1>9, <2>1, <2>2, ReadHeadStep DEF ConsumeRead, Goto
  <2>4. Pushing' = Pushing /\ Pushed' = Pushed /\ Popping' = Popping /\ Popped' = Popped
    <3>1. AllCounted(c, "advance")
      BY <1>0, <1>9, CountsChange DEF ConsumeRead, Goto
    <3> QED
      BY <1>0, <1>9, <1>n, <3>1 DEF AllCounted, Counted, Enters, Leaves, ConsumeRead
  <2> QED
    BY <1>0, <1>9, <2>3, <2>4, <1>n DEF ConsumeRead, ReadHead, SemCounts
<1>10. ASSUME NEW c \in Consumers, ConsumeAdvance(c) PROVE ListInv' /\ SemCounts'
  <2>1. ListInv' /\ Len(head') = Len(head) - 1
    <3>1. ListInv' /\ head # <<>> /\ head' = Tail(head)
      BY <1>10, AdvanceStep DEF ConsumeAdvance, Goto
    <3> QED
      BY <1>0, <3>1
  <2>2. Pushing' = Pushing /\ Pushed' = Pushed /\ Popping' = Popping - 1 /\ Popped' = Popped + 1
    <3>1. AllCounted(c, "free")
      BY <1>0, <1>10, CountsChange DEF ConsumeAdvance, Goto
    <3> QED
      BY <1>0, <1>10, <1>n, <3>1 DEF AllCounted, Counted, Enters, Leaves, ConsumeAdvance
  <2> QED
    BY <1>0, <1>10, <2>1, <2>2, <1>n DEF ConsumeAdvance, SemCounts
<1>11. ASSUME NEW c \in Consumers, ConsumeFree(c) PROVE ListInv' /\ SemCounts'
  <2>1. ListInv'
    BY <1>0, <1>11, FreeStep DEF ConsumeFree, Goto
  <2>2. Pushing' = Pushing /\ Pushed' = Pushed /\ Popping' = Popping /\ Popped' = Popped
    <3>1. AllCounted(c, "unlock")
      BY <1>0, <1>11, CountsChange DEF ConsumeFree, Goto
    <3> QED
      BY <1>0, <1>11, <1>n, <3>1 DEF AllCounted, Counted, Enters, Leaves, ConsumeFree
  <2> QED
    BY <1>0, <1>11, <2>1, <2>2, <1>n DEF ConsumeFree, FreeNode, SemCounts
<1>12. ASSUME NEW c \in Consumers, ConsumePost(c) PROVE ListInv' /\ SemCounts'
  <2>1. ListInv'
    BY <1>0, <1>12, MoveStep DEF ConsumePost, Goto, Inside, Holding, ConsumerLabels
  <2>2. Pushing' = Pushing /\ Pushed' = Pushed /\ Popping' = Popping /\ Popped' = Popped - 1
    <3>1. AllCounted(c, "wait")
      BY <1>0, <1>12, CountsChange DEF ConsumePost, Goto
    <3> QED
      BY <1>0, <1>12, <1>n, <3>1 DEF AllCounted, Counted, Enters, Leaves, ConsumePost
  <2> QED
    BY <1>0, <1>12, <2>1, <2>2, <1>n DEF ConsumePost, SemCounts, list
<1> QED
  BY <1>0, <1>1, <1>2, <1>3, <1>4, <1>5, <1>6, <1>7, <1>8, <1>9, <1>10, <1>11, <1>12
     DEF Next, Producer, Consumer

-----------------------------------------------------------------------------
(* The invariant of the programs *)

\* Each program has its own calls: only semaphore.c waits for semaphores, and only
\* pthread_condition.c for a signal.
Foreign ==
  IF Running("semaphore") THEN {"signal", "sleep", "asleep", "relock"}
  ELSE IF Running("pthread_condition") THEN {"wait", "post", "read"}
  ELSE {"wait", "post", "read", "signal", "sleep", "asleep", "relock"}
LabelsFit == \A t \in Threads : pc[t] \notin Foreign

\* Where producers look for memory before they lock, there still is some when they use it.
RoomForNew == ~Running("semaphore") => \A p \in Producers : pc[p] = "new" => live # Nodes

PInv ==
  /\ ListInv /\ LabelsFit /\ RoomForNew
  /\ program \in {"producer_comsumer", "pthread_condition", "semaphore"}
  /\ Running("pthread_condition") => Cond!NoLostWakeup
  /\ Running("semaphore") => SemCounts
  /\ ~Running("semaphore") => psem = 0 /\ csem = 0

\* Every program starts with an empty list and all its threads outside.
LEMMA PInvInit == MCInit => PInv
<1> SUFFICES ASSUME MCInit PROVE PInv
  OBVIOUS
<1>1. /\ head = <<>> /\ live = {} /\ mine = [t \in Threads |-> NoNode] /\ rest = [t \in Threads |-> <<>>]
      /\ mutex = Nobody /\ \E l \in {"wait", "lock"} : pc = [t \in Threads |-> l] /\ (Running("semaphore") <=> l = "wait")
  BY DEF MCInit, Init, ListInit, Mutex!Init, Mutex!ListInit, Mutex!Threads, Cond!Init, Cond!ListInit, Cond!Threads,
         Threads, Running
<1>2. ListTypeOK
  BY <1>1 DEF ListTypeOK
<1>3. PcTypeOK /\ OwnerIsInside /\ PointersFit
  BY <1>1, SemThreadsAssumption
     DEF PcTypeOK, OwnerIsInside, PointersFit, ProducerLabels, ConsumerLabels, Threads, Inside, Holding
<1>4. NodesOnList /\ NothingLeaks
  BY <1>1 DEF NodesOnList, NothingLeaks
<1>5. Running("semaphore") => SemCounts
  <2> SUFFICES ASSUME Running("semaphore") PROVE SemCounts
    OBVIOUS
  <2>1. psem = Slots /\ csem = 0 /\ Len(head) = 0
    BY <1>1 DEF MCInit, Init, Running
  <2>2. Pushing = 0 /\ Pushed = 0 /\ Popping = 0 /\ Popped = 0
    BY <1>1, FS_EmptySet DEF Pushing, Pushed, Popping, Popped, At, Threads
  <2> QED
    BY <2>1, <2>2, SlotsAssumption DEF SemCounts
<1>6. /\ program \in {"producer_comsumer", "pthread_condition", "semaphore"}
      /\ ~Running("semaphore") => psem = 0 /\ csem = 0
  BY DEF MCInit, Running
<1>7. Cond!NoLostWakeup
  BY <1>1 DEF Cond!NoLostWakeup
<1>8. LabelsFit /\ RoomForNew
  BY <1>1 DEF LabelsFit, Foreign, RoomForNew, Threads
<1> QED
  BY <1>2, <1>3, <1>4, <1>5, <1>6, <1>7, <1>8 DEF PInv, ListInv

\* Producers are in malloc only under the mutex, and so nobody takes the memory from them.
LEMMA RoomStep ==
  ASSUME ListInv, RoomForNew, UNCHANGED program, Mutex!Next \/ Cond!Next
  PROVE  RoomForNew'
<1> SUFFICES ASSUME ~Running("semaphore"), NEW p \in Producers, pc'[p] = "new" PROVE live' # Nodes
  BY DEF RoomForNew, Running
<1>t. /\ pc \in [Threads -> ProducerLabels \cup ConsumerLabels] /\ p \in Threads /\ p \notin Consumers
      /\ Producers \cap Consumers = {} /\ \A c \in Consumers : pc[c] \in ConsumerLabels
      /\ Producers \subseteq Threads /\ Consumers \subseteq Threads
  BY SemThreadsAssumption DEF ListInv, PcTypeOK, Threads
<1>1. PICK t \in Threads :
        \/ Mutex!ProduceLock(t) \/ Cond!ProduceLock(t)
        \/ live' = live /\ \E l : l # "new" /\ pc' = [pc EXCEPT ![t] = l]
        \/ live' = live /\ \E l, m, u : l # "new" /\ m # "new" /\ pc' = [pc EXCEPT ![t] = l, ![u] = m]
        \/ pc[t] = "new" /\ pc' = [pc EXCEPT ![t] = "publish"]
        \/ pc[t] = "free" /\ pc' = [pc EXCEPT ![t] = "unlock"]
  <2>1. CASE Mutex!Next
    <3>1. ASSUME NEW q \in Producers,
                 Mutex!ProduceLock(q) \/ Mutex!ProduceNew(q) \/ Mutex!ProducePublish(q) \/ Mutex!Unlock(q)
          PROVE  \/ Mutex!ProduceLock(q)
                 \/ live' = live /\ \E l : l # "new" /\ pc' = [pc EXCEPT ![q] = l]
                 \/ pc[q] = "new" /\ pc' = [pc EXCEPT ![q] = "publish"]
      BY <3>1 DEF Mutex!ProduceNew, Mutex!ProducePublish, Mutex!Publish, Mutex!Unlock, Mutex!Goto, Mutex!list
    <3>2. ASSUME NEW c \in Consumers,
                 Mutex!ConsumeLock(c) \/ Mutex!ConsumeAdvance(c) \/ Mutex!ConsumeFree(c) \/ Mutex!Unlock(c)
          PROVE  \/ live' = live /\ \E l : l # "new" /\ pc' = [pc EXCEPT ![c] = l]
                 \/ pc[c] = "free" /\ pc' = [pc EXCEPT ![c] = "unlock"]
      BY <3>2 DEF Mutex!ConsumeLock, Mutex!ReadHead, Mutex!ConsumeAdvance, Mutex!Advance, Mutex!ConsumeFree,
                  Mutex!Unlock, Mutex!Goto, Mutex!list
    <3> QED
      BY <1>t, <2>1, <3>1, <3>2 DEF Mutex!Next
  <2>2. CASE Cond!Next
    <3>1. ASSUME NEW q \in Producers,
                 \/ Cond!ProduceLock(q) \/ Cond!ProduceNew(q) \/ Cond!ProducePublish(q) \/ Cond!Unlock(q)
          PROVE  \/ Cond!ProduceLock(q)
                 \/ live' = live /\ \E l : l # "new" /\ pc' = [pc EXCEPT ![q] = l]
                 \/ pc[q] = "new" /\ pc' = [pc EXCEPT ![q] = "publish"]
      BY <3>1 DEF Cond!ProduceNew, Cond!ProducePublish, Cond!Publish, Cond!Unlock, Cond!Goto, Cond!list
    <3>2. ASSUME NEW q \in Producers, Cond!ProduceSignal(q)
          PROVE  \/ live' = live /\ \E l : l # "new" /\ pc' = [pc EXCEPT ![q] = l]
                 \/ live' = live /\ \E l, m, u : l # "new" /\ m # "new" /\ pc' = [pc EXCEPT ![q] = l, ![u] = m]
      BY <3>2 DEF Cond!ProduceSignal, Cond!Goto, Cond!list
    <3>3. ASSUME NEW c \in Consumers,
                 \/ Cond!ConsumeLock(c) \/ Cond!ConsumeAdvance(c) \/ Cond!ConsumeFree(c) \/ Cond!Unlock(c)
                 \/ Cond!ConsumeSleep(c) \/ Cond!SpuriousWakeup(c) \/ Cond!ConsumeRelock(c)
          PROVE  \/ live' = live /\ \E l : l # "new" /\ pc' = [pc EXCEPT ![c] = l]
                 \/ pc[c] = "free" /\ pc' = [pc EXCEPT ![c] = "unlock"]
      BY <3>3 DEF Cond!ConsumeLock, Cond!ReadHead, Cond!ConsumeAdvance, Cond!Advance, Cond!ConsumeFree,
                  Cond!Unlock, Cond!ConsumeSleep, Cond!SpuriousWakeup, Cond!ConsumeRelock, Cond!Goto, Cond!list
    <3> QED
      BY <1>t, <2>2, <3>1, <3>2, <3>3 DEF Cond!Next
  <2> QED
    BY <2>1, <2>2
<1>2. CASE Mutex!ProduceLock(t) \/ Cond!ProduceLock(t)
  BY <1>2 DEF Mutex!ProduceLock, Cond!ProduceLock, Mutex!list, Cond!list
<1>3. CASE live' = live /\ \E l : l # "new" /\ pc' = [pc EXCEPT ![t] = l]
  <2>1. pc[p] = "new"
    BY <1>t, <1>3
  <2> QED
    BY <1>3, <2>1 DEF RoomForNew
<1>4. CASE live' = live /\ \E l, m, u : l # "new" /\ m # "new" /\ pc' = [pc EXCEPT ![t] = l, ![u] = m]
  <2>1. pc[p] = "new"
    BY <1>t, <1>4
  <2> QED
    BY <1>4, <2>1 DEF RoomForNew
<1>5. CASE pc[t] \in {"new", "free"} /\ \E l \in {"publish", "unlock"} : pc' = [pc EXCEPT ![t] = l]
  <2>1. p # t /\ pc[p] = "new"
    BY <1>t, <1>5
  <2> QED
    BY <1>t, <1>5, <2>1 DEF ListInv, OwnerIsInside, Inside
<1> QED
  BY <1>1, <1>2, <1>3, <1>4, <1>5

\* Every step of the program that runs keeps to its own calls.
LEMMA LabelsStep == LabelsFit /\ PcTypeOK /\ [MCNext]_allvars => LabelsFit'
<1> SUFFICES ASSUME LabelsFit, PcTypeOK, [MCNext]_allvars PROVE LabelsFit'
  OBVIOUS
<1>1. CASE Running("producer_comsumer") /\ Mutex!Next /\ UNCHANGED <<program, semaphores>>
  <2>1. \E t \in Threads, l \in {"new", "publish", "unlock", "lock", "advance", "free"} : pc' = [pc EXCEPT ![t] = l]
    BY <1>1 DEF Mutex!Next, Mutex!ProduceLock, Mutex!ProduceNew, Mutex!ProducePublish, Mutex!Unlock,
       Mutex!ConsumeLock, Mutex!ConsumeAdvance, Mutex!ConsumeFree, Mutex!Goto, Threads
  <2> QED
    BY <1>1, <2>1 DEF LabelsFit, Foreign, Running, PcTypeOK
<1>2. CASE Running("pthread_condition") /\ Cond!Next /\ UNCHANGED <<program, semaphores>>
  <2>1. \/ \E t \in Threads, l \in {"new", "publish", "signal", "unlock", "lock", "advance", "free", "sleep", "asleep",
                                  "relock"} : pc' = [pc EXCEPT ![t] = l]
        \/ \E t, c \in Threads : pc' = [pc EXCEPT ![t] = "unlock", ![c] = "relock"]
    BY <1>2 DEF Cond!Next, Cond!ProduceLock, Cond!ProduceNew, Cond!ProducePublish, Cond!ProduceSignal, Cond!Unlock,
       Cond!ConsumeLock, Cond!ConsumeAdvance, Cond!ConsumeFree, Cond!ConsumeSleep, Cond!SpuriousWakeup,
       Cond!ConsumeRelock, Cond!Goto, Cond!Asleep, Threads
  <2> QED
    BY <1>2, <2>1 DEF LabelsFit, Foreign, Running, PcTypeOK
<1>3. CASE Running("semaphore") /\ Next /\ UNCHANGED program
  <2>1. \E t \in Threads, l \in {"lock", "new", "publish", "unlock", "post", "wait", "read", "advance", "free"} :
           pc' = [pc EXCEPT ![t] = l]
    BY <1>3 DEF Next, Producer, Consumer, ProduceWait, ProduceLock, ConsumeLock, Lock, ProduceNew, ProducePublish, Unlock,
       ProducePost, ConsumeWait, ConsumeRead, ConsumeAdvance, ConsumeFree, ConsumePost, Goto, Threads
  <2> QED
    BY <1>3, <2>1 DEF LabelsFit, Foreign, Running, PcTypeOK
<1>4. CASE UNCHANGED allvars
  BY <1>4 DEF allvars, vars, LabelsFit, Foreign, Running
<1> QED
  BY <1>1, <1>2, <1>3, <1>4 DEF MCNext

\* Every step of the program that runs keeps the invariant.
LEMMA PInvStep == PInv /\ [MCNext]_allvars => PInv'
<1> SUFFICES ASSUME PInv, [MCNext]_allvars PROVE PInv'
  OBVIOUS
<1>l. LabelsFit'
  BY LabelsStep DEF PInv, ListInv
<1>1. CASE Running("producer_comsumer") /\ Mutex!Next /\ UNCHANGED <<program, semaphores>>
  BY <1>1, <1>l, MutexStep, RoomStep DEF PInv, Running, semaphores
<1>2. CASE Running("pthread_condition") /\ Cond!Next /\ UNCHANGED <<program, semaphores>>
  BY <1>2, <1>l, CondStep, WakeupStep, RoomStep DEF PInv, Running, semaphores
<1>3. CASE Running("semaphore") /\ Next /\ UNCHANGED program
  BY <1>3, <1>l, SemStep DEF PInv, Running, RoomForNew
<1>4. CASE UNCHANGED allvars
  <2>1. UNCHANGED <<program, head, live, mine, rest, mutex, pc, psem, csem>>
    BY <1>4 DEF allvars, vars, list
  <2>2. ListInv'
    BY <2>1 DEF PInv, ListInv, ListTypeOK, PcTypeOK, OwnerIsInside, NodesOnList, PointersFit,
                     NothingLeaks, OnList
  <2>3. Running("semaphore") => SemCounts'
    BY <2>1 DEF PInv, SemCounts, Pushing, Pushed, Popping, Popped, At
  <2>4. Running("pthread_condition") => Cond!NoLostWakeup'
    BY <2>1 DEF PInv, Cond!NoLostWakeup, Cond!Asleep
  <2>5. RoomForNew'
    BY <2>1 DEF PInv, RoomForNew, Running
  <2> QED
    BY <1>l, <2>1, <2>2, <2>3, <2>4, <2>5 DEF PInv, Running
<1> QED
  BY <1>1, <1>2, <1>3, <1>4 DEF MCNext

\* The invariant holds of every behaviour.
THEOREM ProducerConsumerInvariant == MCSpec => []PInv
BY PInvInit, PInvStep, PTL DEF MCSpec

\* The list is sound in all three programs: no node is twice on it, freed while it is on it or
\* held by two threads.
THEOREM ListsAreSound == MCSpec => []ListIsSound
<1>1. PInv => ListIsSound
  BY InvImpliesSound DEF PInv
<1> QED
  BY <1>1, ProducerConsumerInvariant, PTL

\* pthread_condition.c never lets all its consumers sleep on a node that nobody will signal.  The
\* semaphores of semaphore.c bound the buffer, and a consumer that is past sem_wait finds a
\* node, so head->next is never read through NULL.
THEOREM WakeupsFit == MCSpec => []WakeupsMatchNodes
<1>0. PInv => CondLosesNoWakeup
  BY DEF PInv, CondLosesNoWakeup
<1>1. ASSUME PInv PROVE SemCountsNodes
  <2>0. head \in Seq(Nodes) /\ Len(head) \in Nat /\ Slots \in Nat /\ ListTypeOK
        /\ mutex \in Threads \cup {Nobody}
    BY <1>1, SlotsAssumption DEF PInv, ListInv, ListTypeOK, PcTypeOK
  <2>1. Pushing \in Nat /\ Pushed \in Nat /\ Popping \in Nat /\ Popped \in Nat
    BY CountIsNat
  <2>2. CASE Running("semaphore")
    <3>1. SemCounts
      BY <1>1, <2>2 DEF PInv
    <3>2. psem \in 0..Slots /\ csem \in 0..Slots
      BY <2>0, <2>1, <3>1 DEF SemCounts
    <3>3. BufferBound /\ HeadIsNeverNull
      BY <2>0, <2>1, <3>1 DEF SemCounts, BufferBound, HeadIsNeverNull, Pushing, Popping, Popped, At
    <3> QED
      BY <2>0, <3>2, <3>3 DEF SemCountsNodes, ListsTypeOK
  <2>3. CASE ~Running("semaphore")
    BY <1>1, <2>0, <2>3 DEF PInv, SemCountsNodes, ListsTypeOK
  <2> QED
    BY <2>2, <2>3
<1>2. PInv => WakeupsMatchNodes
  BY <1>0, <1>1 DEF WakeupsMatchNodes
<1> QED
  BY <1>2, ProducerConsumerInvariant, PTL

-----------------------------------------------------------------------------
(* No program stops *)

\* Only as many nodes are on the list as the list is long.
LEMMA ListCoversNodes ==
  ASSUME head \in Seq(Nodes), \A n \in Nodes : OnList(n)
  PROVE  Cardinality(Nodes) <= Len(head)
<1>1. PICK l \in Nat : l = Len(head)
  OBVIOUS
<1> DEFINE f == [i \in 1..l |-> head[i]]
<1>2. f \in Surjection(1..l, Nodes)
  <2>1. f \in [1..l -> Nodes]
    BY <1>1
  <2>2. \A n \in Nodes : \E i \in 1..l : f[i] = n
    BY <1>1 DEF OnList
  <2> HIDE DEF f
  <2> QED
    BY <2>1, <2>2 DEF Surjection
<1>3. IsFiniteSet(1..l) /\ Cardinality(1..l) = l
  <2>1. IsFiniteSet(1..l) /\ Cardinality(1..l) = IF 1 > l THEN 0 ELSE l - 1 + 1
    BY FS_Interval
  <2> QED
    BY <2>1
<1>4. Cardinality(Nodes) <= Cardinality(1..l)
  BY <1>2, <1>3, FS_Surjection
<1> QED
  BY <1>1, <1>3, <1>4

\* The thread that has the mutex does not wait for anything.
LEMMA OwnerGoesOn ==
  ASSUME PInv, mutex # Nobody, Slots <= Cardinality(Nodes)
  PROVE  SomeoneGoesOn
<1>1. PICK t \in Threads : mutex = t
  BY DEF PInv, ListInv, PcTypeOK
<1>2. pc[t] \in Inside
  BY <1>1 DEF PInv, ListInv, OwnerIsInside
<1>3. t \in Consumers /\ pc[t] = "advance" => head # <<>>
  BY DEF PInv, ListInv, PointersFit
<1>4. ASSUME t \in Producers, pc[t] = "new" PROVE live # Nodes
  <2>1. CASE ~Running("semaphore")
    BY <1>4, <2>1 DEF PInv, RoomForNew
  <2>2. CASE Running("semaphore") /\ live = Nodes
    <3>0. head \in Seq(Nodes) /\ Len(head) \in Nat /\ PcTypeOK /\ Slots \in Nat
          /\ Nodes \cap {NoNode} = {} /\ Cardinality(Nodes) \in Nat
      BY SlotsAssumption, NodeListAssumption, FS_CardinalityType DEF PInv, ListInv, ListTypeOK
    <3>1. \A s \in Threads : mine[s] = NoNode
      BY <1>1, <1>4 DEF PInv, ListInv, OwnerIsInside, PointersFit, Inside, Holding
    <3>2. Cardinality(Nodes) <= Len(head)
      BY <2>2, <3>0, <3>1, ListCoversNodes DEF PInv, ListInv, NothingLeaks
    <3>3. Pushing > 0
      <4>1. Producers \subseteq Threads /\ IsFiniteSet(Producers)
        BY SemThreadsAssumption DEF Threads
      <4>2. PICK p \in Producers : pc[p] = "new"
        BY <1>4
      <4>3. IsFiniteSet({q \in Producers : pc[q] \in {"lock", "new", "publish"}})
        BY <4>1, FS_Subset
      <4> QED
        BY <4>2, <4>3, FS_EmptySet, FS_CardinalityType DEF Pushing, At
    <3>4. /\ psem \in Nat /\ Pushing \in Nat /\ Popped \in Nat
          /\ psem + Pushing + Len(head) + Popped = Slots
      BY <2>2, CountIsNat DEF PInv, SemCounts
    <3> QED
      BY <3>0, <3>2, <3>3, <3>4
  <2> QED
    BY <2>1, <2>2
<1>5. t \in Producers => pc[t] # "advance"
  BY DEF PInv, ListInv, PcTypeOK, ProducerLabels
<1>6. ~Blocked(t)
  BY <1>2, <1>3, <1>4, <1>5 DEF Blocked, Inside, Threads
<1> QED
  BY <1>6 DEF SomeoneGoesOn

\* With the mutex free, no thread works on a node: all of them are on the list.
LEMMA SomeoneLocks ==
  ASSUME PInv, mutex = Nobody, Producers # {}, Nodes # {}
  PROVE  SomeoneGoesOn
<1>0. /\ \A t \in Threads : pc[t] \notin Inside /\ mine[t] = NoNode
      /\ \A p \in Producers : p \in Threads /\ p \notin Consumers /\ pc[p] \in ProducerLabels
      /\ \A c \in Consumers : c \in Threads /\ c \notin Producers /\ pc[c] \in ConsumerLabels
      /\ live \subseteq Nodes /\ NoNode \notin Nodes /\ head \in Seq(Nodes) /\ Len(head) \in Nat
  BY SemThreadsAssumption, NodeListAssumption
     DEF PInv, ListInv, ListTypeOK, PcTypeOK, OwnerIsInside, PointersFit, Inside, Holding, Threads
<1>1. PICK p \in Producers, c \in Consumers : TRUE
  BY NodeListAssumption
<1>2. CASE ~Running("semaphore") /\ ~Running("pthread_condition")
  <2>1. pc[c] = "lock"
    BY <1>0, <1>2 DEF PInv, LabelsFit, Foreign, ConsumerLabels, Inside
  <2>2. ~Blocked(c)
    BY <1>0, <2>1 DEF Blocked
  <2> QED
    BY <1>0, <2>2 DEF SomeoneGoesOn
<1>3. CASE Running("pthread_condition")
  <2>0. ~Running("semaphore")
    BY <1>3 DEF Running
  <2>1. \A d \in Consumers : pc[d] \in {"lock", "relock", "asleep"}
    BY <1>0, <1>3, <2>0 DEF PInv, LabelsFit, Foreign, ConsumerLabels, Inside
  <2>2. CASE \E d \in Consumers : pc[d] # "asleep"
    <3>1. PICK d \in Consumers : pc[d] \in {"lock", "relock"}
      BY <2>1, <2>2
    <3>2. ~Blocked(d)
      BY <1>0, <3>1 DEF Blocked
    <3> QED
      BY <1>0, <3>2 DEF SomeoneGoesOn
  <2>3. CASE \A d \in Consumers : pc[d] = "asleep"
    <3>1. head = <<>>
      BY <1>0, <1>3, <2>3 DEF PInv, Cond!NoLostWakeup, Cond!Asleep, Inside
    <3>2. live = {}
      BY <1>0, <3>1 DEF PInv, ListInv, NothingLeaks, OnList
    <3>3. pc[p] = "lock"
      BY <1>0, <1>3, <2>0 DEF PInv, LabelsFit, Foreign, ProducerLabels, Inside
    <3>4. ~Blocked(p)
      BY <1>0, <3>2, <3>3 DEF Blocked
    <3> QED
      BY <1>0, <3>4 DEF SomeoneGoesOn
  <2> QED
    BY <2>2, <2>3
<1>4. CASE Running("semaphore")
  <2>1. \A t \in Threads : pc[t] \in {"wait", "lock", "post"}
    BY <1>0, <1>4 DEF PInv, LabelsFit, Foreign, ProducerLabels, ConsumerLabels, Inside, Threads
  <2>2. CASE \E t \in Threads : pc[t] # "wait"
    <3>1. PICK t \in Threads : pc[t] \in {"lock", "post"}
      BY <2>1, <2>2
    <3>2. ~Blocked(t)
      BY <1>4, <3>1 DEF Blocked
    <3> QED
      BY <3>2 DEF SomeoneGoesOn
  <2>3. CASE \A t \in Threads : pc[t] = "wait"
    <3>1. Pushing = 0 /\ Pushed = 0 /\ Popping = 0 /\ Popped = 0
      <4>1. \A T, labels : T \subseteq Threads /\ "wait" \notin labels => {t \in T : pc[t] \in labels} = {}
        BY <2>3
      <4>2. Producers \subseteq Threads /\ Consumers \subseteq Threads
        BY DEF Threads
      <4> QED
        BY <4>1, <4>2, FS_EmptySet DEF Pushing, Pushed, Popping, Popped, At
    <3>2. psem \in Nat /\ csem \in Nat /\ psem + csem = Slots /\ Slots \in Nat \ {0}
      BY <1>0, <1>4, <3>1, SlotsAssumption DEF PInv, SemCounts
    <3>3. psem > 0 \/ csem > 0
      BY <3>2
    <3>4. ~Blocked(p) \/ ~Blocked(c)
      BY <1>0, <2>3, <3>3 DEF Blocked
    <3> QED
      BY <1>0, <3>4 DEF SomeoneGoesOn
  <2> QED
    BY <2>2, <2>3
<1> QED
  BY <1>2, <1>3, <1>4

\* None of the three programs stops, however many threads it has: some thread can take its next
\* step, if there is a producer and memory for as many nodes as semaphore.c lets into its buffer.
THEOREM NoProgramStops ==
  ASSUME Producers # {}, Nodes # {}, Slots <= Cardinality(Nodes)
  PROVE  MCSpec => []SomeoneGoesOn
<1>1. PInv => SomeoneGoesOn
  BY OwnerGoesOn, SomeoneLocks
<1> QED
  BY <1>1, ProducerConsumerInvariant, PTL

-----------------------------------------------------------------------------
(* The programs implement a shared stack *)

\* A list without repetition fits into the memory with room for a node that is not on it.
LEMMA ListFitsMemory ==
  ASSUME head \in Seq(Nodes), NodesOnList, NEW n \in Nodes, ~OnList(n)
  PROVE  Len(head) < Cardinality(Nodes)
<1> DEFINE S == Nodes \ {n}
           f == [i \in 1..Len(head) |-> head[i]]
<1>1. IsFiniteSet(S) /\ Cardinality(S) = Cardinality(Nodes) - 1 /\ Cardinality(Nodes) \in Nat
  BY NodeListAssumption, FS_RemoveElement, FS_CardinalityType
<1>2. Len(head) \in Nat /\ Cardinality(1..Len(head)) = Len(head)
  <2>1. PICK l \in Nat : l = Len(head)
    OBVIOUS
  <2>2. Cardinality(1..l) = IF 1 > l THEN 0 ELSE l - 1 + 1
    BY FS_Interval
  <2>3. Cardinality(1..l) = l
    BY <2>2
  <2> QED
    BY <2>1, <2>3
<1>3. f \in Injection(1..Len(head), S)
  <2>1. f \in [1..Len(head) -> S]
    BY DEF OnList
  <2>2. \A i, j \in 1..Len(head) : f[i] = f[j] => i = j
    BY DEF NodesOnList
  <2> QED
    BY <2>1, <2>2 DEF Injection, IsInjective
<1>4. Cardinality(1..Len(head)) <= Cardinality(S)
  BY <1>1, <1>3, FS_Injection
<1> QED
  BY <1>1, <1>2, <1>4

\* Every step of every program is a push, a pop or no step of the stack.
LEMMA StackStep ==
  ASSUME PInv, [MCNext]_allvars
  PROVE  [Stack!Pop \/ \E n \in Nodes : Stack!Push(n)]_head
<1>0. ListInv /\ PInv /\ head \in Seq(Nodes) /\ NodesOnList
  BY DEF PInv, ListInv, ListTypeOK
<1>1. ASSUME NEW p \in Producers, pc[p] = "publish", Publish(p), NEW l \in {"signal", "unlock"},
             pc' = [pc EXCEPT ![p] = l], mutex' = mutex,
             Running("semaphore") => Len(head) < Slots
      PROVE  \E n \in Nodes : Stack!Push(n)
  <2>1. mine[p] \in Nodes /\ ~OnList(mine[p]) /\ head' = <<mine[p]>> \o head
    BY <1>0, <1>1, PublishStep
  <2>2. Len(head) < Cardinality(Nodes)
    BY <1>0, <2>1, ListFitsMemory
  <2> QED
    BY <1>1, <2>1, <2>2 DEF Stack!Push, Stack!OnStack, OnList
<1>2. ASSUME NEW c \in Consumers, pc[c] = "advance", Advance PROVE Stack!Pop
  BY <1>0, <1>2 DEF Stack!Pop, Advance, ListInv, PointersFit
<1>3. CASE Running("producer_comsumer") /\ Mutex!Next
  <2>1. ASSUME NEW p \in Producers, Mutex!ProducePublish(p) PROVE \E n \in Nodes : Stack!Push(n)
    BY <1>1, <1>3, <2>1 DEF Mutex!ProducePublish, Mutex!Publish, Publish, Mutex!Goto, Running
  <2>2. ASSUME NEW c \in Consumers, Mutex!ConsumeAdvance(c) PROVE Stack!Pop
    BY <1>2, <2>2 DEF Mutex!ConsumeAdvance, Mutex!Advance, Advance
  <2> QED
    BY <1>3, <2>1, <2>2
       DEF Mutex!Next, Mutex!ProduceLock, Mutex!ProduceNew, Mutex!NewNode, Mutex!Unlock, Mutex!ConsumeLock,
           Mutex!ReadHead, Mutex!ConsumeFree, Mutex!FreeNode, Mutex!list
<1>4. CASE Running("pthread_condition") /\ Cond!Next
  <2>1. ASSUME NEW p \in Producers, Cond!ProducePublish(p) PROVE \E n \in Nodes : Stack!Push(n)
    BY <1>1, <1>4, <2>1 DEF Cond!ProducePublish, Cond!Publish, Publish, Cond!Goto, Running
  <2>2. ASSUME NEW c \in Consumers, Cond!ConsumeAdvance(c) PROVE Stack!Pop
    BY <1>2, <2>2 DEF Cond!ConsumeAdvance, Cond!Advance, Advance
  <2> QED
    BY <1>4, <2>1, <2>2
       DEF Cond!Next, Cond!ProduceLock, Cond!ProduceNew, Cond!NewNode, Cond!ProduceSignal, Cond!Unlock,
           Cond!ConsumeLock, Cond!ReadHead, Cond!ConsumeFree, Cond!FreeNode, Cond!ConsumeSleep,
           Cond!SpuriousWakeup, Cond!ConsumeRelock, Cond!list
<1>5. CASE Running("semaphore") /\ Next
  <2>1. ASSUME NEW p \in Producers, ProducePublish(p) PROVE \E n \in Nodes : Stack!Push(n)
    <3>1. PcTypeOK /\ SemCounts /\ p \in Threads /\ pc[p] = "publish"
      BY <1>0, <1>5, <2>1 DEF PInv, ListInv, Threads, ProducePublish
    <3>2. Pushing > 0
      <4>1. {t \in Producers : pc[t] \in {"lock", "new", "publish"}} # {}
        BY <3>1
      <4>2. IsFiniteSet({t \in Producers : pc[t] \in {"lock", "new", "publish"}})
        BY SemThreadsAssumption, FS_Subset
      <4> QED
        BY <4>1, <4>2, CountIsNat, FS_EmptySet DEF Pushing, At
    <3>3. Len(head) < Slots
      BY <1>0, <3>1, <3>2, CountIsNat, SlotsAssumption DEF SemCounts
    <3> QED
      BY <1>1, <2>1, <3>3 DEF ProducePublish, Goto
  <2>2. ASSUME NEW c \in Consumers, ConsumeAdvance(c) PROVE Stack!Pop
    BY <1>2, <2>2 DEF ConsumeAdvance
  <2> QED
    BY <1>5, <2>1, <2>2
       DEF Next, Producer, Consumer, ProduceWait, ProduceLock, Lock, ProduceNew, NewNode, Unlock, ProducePost,
           ConsumeWait, ConsumeLock, ConsumeRead, ReadHead, ConsumeFree, FreeNode, ConsumePost, list
<1>6. CASE UNCHANGED allvars
  BY <1>6 DEF allvars, vars, list
<1> QED
  BY <1>3, <1>4, <1>5, <1>6 DEF MCNext

\* The list that producers and consumers share is a stack: every push and pop takes effect at
\* one point in time, on a stack that is never fuller than the semaphores or the memory allow.
THEOREM ListsImplementStack == MCSpec => IsSharedStack
<1>1. MCInit => head = <<>>
  BY DEF MCInit, Init, ListInit, Mutex!Init, Mutex!ListInit, Cond!Init, Cond!ListInit
<1> QED
  BY <1>1, StackStep, ProducerConsumerInvariant, PTL DEF MCSpec, IsSharedStack, Stack!StackSpec
=============================================================================
