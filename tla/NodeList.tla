------------------------------ MODULE NodeList ------------------------------
(***************************************************************************)
(* The singly linked list that the producer/consumer programs share, and   *)
(* the statements their critical sections consist of.  The list is the     *)
(* sequence of nodes reachable from head; a thread's local pointers are    *)
(* mine (newNode or delNode) and rest (newNode->next).                     *)
(***************************************************************************)
EXTENDS Naturals, Sequences, FiniteSets

CONSTANTS
  Producers, Consumers,
  Nodes,     \* what malloc can return: bounds the number of nodes alive
  NoNode     \* NULL

\* The memory is finite, NULL is no address, and every program creates a consumer.
ASSUME NodeListAssumption ==
  IsFiniteSet(Nodes) /\ NoNode \notin Nodes /\ Consumers # {}

VARIABLES
  head,      \* the list, first node first
  live,      \* nodes that are allocated
  mine, rest \* local pointers, per thread

list == <<head, live, mine, rest>>

Threads == Producers \cup Consumers

ListInit ==
  /\ head = <<>>
  /\ live = {}
  /\ mine = [t \in Threads |-> NoNode]
  /\ rest = [t \in Threads |-> <<>>]

\* newNode = malloc(...); newNode->next = head;
NewNode(p) ==
  /\ \E n \in Nodes \ live :
       /\ live' = live \cup {n}
       /\ mine' = [mine EXCEPT ![p] = n]
  /\ rest' = [rest EXCEPT ![p] = head]
  /\ UNCHANGED head

\* head = newNode;
Publish(p) ==
  /\ head' = <<mine[p]>> \o rest[p]
  /\ mine' = [mine EXCEPT ![p] = NoNode]
  /\ rest' = [rest EXCEPT ![p] = <<>>]
  /\ UNCHANGED live

\* delNode = head;
ReadHead(c) ==
  /\ mine' = [mine EXCEPT ![c] = IF head = <<>> THEN NoNode ELSE Head(head)]
  /\ UNCHANGED <<head, live, rest>>

\* head = head->next;
Advance ==
  /\ head' = Tail(head)
  /\ UNCHANGED <<live, mine, rest>>

\* free(delNode);
FreeNode(c) ==
  /\ live' = live \ {mine[c]}
  /\ mine' = [mine EXCEPT ![c] = NoNode]
  /\ UNCHANGED <<head, rest>>

ListTypeOK ==
  /\ head \in Seq(Nodes)
  /\ live \subseteq Nodes
  /\ mine \in [Threads -> Nodes \cup {NoNode}]
  /\ rest \in [Threads -> Seq(Nodes)]

\* The list is sound: no node is on it twice, every node on it is allocated, nobody is
\* about to free, or has allocated and not published, a node of another, and none leaks:
\* a node that is allocated and not on the list is the one some thread works on.
ListIsSound ==
  /\ \A i, j \in 1..Len(head) : head[i] = head[j] => i = j
  /\ \A i \in 1..Len(head) : head[i] \in live
  /\ \A t \in Threads : mine[t] # NoNode => mine[t] \in live
  /\ \A s, t \in Threads : mine[s] = mine[t] /\ mine[s] # NoNode => s = t
  /\ \A n \in live : (\E i \in 1..Len(head) : head[i] = n) \/ (\E t \in Threads : mine[t] = n)
=============================================================================
