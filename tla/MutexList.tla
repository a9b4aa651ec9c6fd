----------------------------- MODULE MutexList ------------------------------
(***************************************************************************)
(* Producer_Comsumer/producer_comsumer.c: producers and consumers share    *)
(* the list under a mutex; a consumer that finds the list empty unlocks    *)
(* and tries again.                                                        *)
(***************************************************************************)
EXTENDS NodeList

CONSTANT Nobody
VARIABLES mutex, pc
vars == <<list, mutex, pc>>

Init ==
  /\ ListInit
  /\ mutex = Nobody
  /\ pc = [t \in Threads |-> "lock"]

Goto(t, l) == pc' = [pc EXCEPT ![t] = l]

\* Mutant of ProduceLock: the list is used without the mutex.
ProduceWithoutLock(p) ==
  /\ pc[p] = "lock" /\ live # Nodes
  /\ Goto(p, "new")
  /\ UNCHANGED <<list, mutex>>

\* Producers pause while all Nodes are allocated: the bound on the memory.
ProduceLock(p) ==
  /\ pc[p] = "lock" /\ mutex = Nobody /\ live # Nodes
  /\ mutex' = p
  /\ Goto(p, "new")
  /\ UNCHANGED list

ProduceNew(p) == pc[p] = "new" /\ NewNode(p) /\ Goto(p, "publish") /\ UNCHANGED mutex

ProducePublish(p) == pc[p] = "publish" /\ Publish(p) /\ Goto(p, "unlock") /\ UNCHANGED mutex

Unlock(t) == pc[t] = "unlock" /\ mutex' = Nobody /\ Goto(t, "lock") /\ UNCHANGED list

\* Mutant of ConsumeLock: head is read before the mutex is taken.
ConsumeReadsThenLocks(c) ==
  /\ pc[c] = "lock"
  /\ IF head = <<>> THEN UNCHANGED <<list, mutex, pc>>
     ELSE ReadHead(c) /\ UNCHANGED mutex /\ Goto(c, "advance")

\* Lock, delNode = head, and if (head).
ConsumeLock(c) ==
  /\ pc[c] = "lock" /\ mutex = Nobody
  /\ mutex' = c
  /\ ReadHead(c)
  /\ Goto(c, IF head = <<>> THEN "unlock" ELSE "advance")

ConsumeAdvance(c) == pc[c] = "advance" /\ Advance /\ Goto(c, "free") /\ UNCHANGED mutex

ConsumeFree(c) == pc[c] = "free" /\ FreeNode(c) /\ Goto(c, "unlock") /\ UNCHANGED mutex

Next ==
  \/ \E p \in Producers : ProduceLock(p) \/ ProduceNew(p) \/ ProducePublish(p) \/ Unlock(p)
  \/ \E c \in Consumers : ConsumeLock(c) \/ ConsumeAdvance(c) \/ ConsumeFree(c) \/ Unlock(c)

Spec == Init /\ [][Next]_vars
=============================================================================
