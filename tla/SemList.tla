------------------------------ MODULE SemList -------------------------------
(***************************************************************************)
(* semaphore.c: a bounded buffer.  psem counts the free slots, csem the    *)
(* nodes to be consumed, and a mutex protects the list.                    *)
(***************************************************************************)
EXTENDS NodeList, FiniteSets

CONSTANTS Nobody,
          Slots   \* the initial value of psem

ASSUME SlotsAssumption == Slots \in Nat \ {0}
ASSUME SemThreadsAssumption ==
  /\ IsFiniteSet(Producers) /\ IsFiniteSet(Consumers)
  /\ Producers \cap Consumers = {} /\ Nobody \notin Threads

VARIABLES mutex, pc, psem, csem
vars == <<list, mutex, pc, psem, csem>>

Init ==
  /\ ListInit
  /\ mutex = Nobody
  /\ pc = [t \in Threads |-> "wait"]
  /\ psem = Slots
  /\ csem = 0

Goto(t, l) == pc' = [pc EXCEPT ![t] = l]

ProduceWait(p) ==
  /\ pc[p] = "wait" /\ psem > 0
  /\ psem' = psem - 1
  /\ Goto(p, "lock")
  /\ UNCHANGED <<list, mutex, csem>>

Lock(t, next) ==
  /\ pc[t] = "lock" /\ mutex = Nobody
  /\ mutex' = t
  /\ Goto(t, next)
  /\ UNCHANGED <<list, psem, csem>>

ProduceLock(p) == Lock(p, "new")

ProduceNew(p) == pc[p] = "new" /\ NewNode(p) /\ Goto(p, "publish") /\ UNCHANGED <<mutex, psem, csem>>

ProducePublish(p) ==
  pc[p] = "publish" /\ Publish(p) /\ Goto(p, "unlock") /\ UNCHANGED <<mutex, psem, csem>>

\* Mutant of Unlock: the sem_post that follows is missing.
UnlockWithoutPost(t) ==
  /\ pc[t] = "unlock"
  /\ mutex' = Nobody
  /\ Goto(t, "wait")
  /\ UNCHANGED <<list, psem, csem>>

Unlock(t) ==
  /\ pc[t] = "unlock"
  /\ mutex' = Nobody
  /\ Goto(t, "post")
  /\ UNCHANGED <<list, psem, csem>>

ProducePost(p) ==
  /\ pc[p] = "post"
  /\ csem' = csem + 1
  /\ Goto(p, "wait")
  /\ UNCHANGED <<list, mutex, psem>>

ConsumeWait(c) ==
  /\ pc[c] = "wait" /\ csem > 0
  /\ csem' = csem - 1
  /\ Goto(c, "lock")
  /\ UNCHANGED <<list, mutex, psem>>

ConsumeLock(c) == Lock(c, "read")

\* delNode = head, with no test for NULL.
ConsumeRead(c) == pc[c] = "read" /\ ReadHead(c) /\ Goto(c, "advance") /\ UNCHANGED <<mutex, psem, csem>>

\* head = head->next: undefined, and here stuck, where head is NULL.
ConsumeAdvance(c) ==
  /\ pc[c] = "advance" /\ head # <<>>
  /\ Advance
  /\ Goto(c, "free")
  /\ UNCHANGED <<mutex, psem, csem>>

ConsumeFree(c) == pc[c] = "free" /\ FreeNode(c) /\ Goto(c, "unlock") /\ UNCHANGED <<mutex, psem, csem>>

ConsumePost(c) ==
  /\ pc[c] = "post"
  /\ psem' = psem + 1
  /\ Goto(c, "wait")
  /\ UNCHANGED <<list, mutex, csem>>

Producer(p) ==
  \/ ProduceWait(p) \/ ProduceLock(p) \/ ProduceNew(p) \/ ProducePublish(p)
  \/ Unlock(p) \/ ProducePost(p)

Consumer(c) ==
  \/ ConsumeWait(c) \/ ConsumeLock(c) \/ ConsumeRead(c) \/ ConsumeAdvance(c)
  \/ ConsumeFree(c) \/ Unlock(c) \/ ConsumePost(c)

Next == (\E p \in Producers : Producer(p)) \/ (\E c \in Consumers : Consumer(c))

Spec == Init /\ [][Next]_vars

\* At most Slots nodes are on the list, on their way to it, or off it without their
\* slot having been given back: the producers can never overrun the buffer.
BufferBound ==
  Len(head) + Cardinality({p \in Producers : pc[p] \in {"lock", "new", "publish"}})
            + Cardinality({c \in Consumers : pc[c] \in {"free", "unlock", "post"}}) <= Slots

\* f_comsume dereferences head without a test.  A consumer that got past sem_wait
\* finds a node, however many consumers got past it at the same time.
HeadIsNeverNull ==
  Cardinality({c \in Consumers : pc[c] \in {"lock", "read", "advance"}}) <= Len(head)
=============================================================================
