------------------------------ MODULE CondList ------------------------------
(***************************************************************************)
(* pthread_condition.c: a consumer that finds the list empty sleeps on a   *)
(* condition variable, which every producer signals after its push.        *)
(***************************************************************************)
EXTENDS NodeList

CONSTANT Nobody
VARIABLES mutex, pc
vars == <<list, mutex, pc>>

Init ==
  /\ ListInit
  /\ mutex = Nobody
  /\ pc = [t \in Threads |-> "lock"]

Goto(t, l) == pc' = [pc EXCEPT ![t] = l]

\* Producers pause while all Nodes are allocated: the bound on the memory.
ProduceLock(p) ==
  /\ pc[p] = "lock" /\ mutex = Nobody /\ live # Nodes
  /\ mutex' = p
  /\ Goto(p, "new")
  /\ UNCHANGED list

ProduceNew(p) == pc[p] = "new" /\ NewNode(p) /\ Goto(p, "publish") /\ UNCHANGED mutex

ProducePublish(p) == pc[p] = "publish" /\ Publish(p) /\ Goto(p, "signal") /\ UNCHANGED mutex

Asleep == {c \in Consumers : pc[c] = "asleep"}

\* Mutant of ProduceSignal: nobody is woken.
ProduceSignalsNobody(p) == pc[p] = "signal" /\ Goto(p, "unlock") /\ UNCHANGED <<list, mutex>>

\* pthread_cond_signal: one sleeper, if there is one, leaves the condition variable.
ProduceSignal(p) ==
  /\ pc[p] = "signal"
  /\ IF Asleep = {}
     THEN Goto(p, "unlock")
     ELSE \E c \in Asleep : pc' = [pc EXCEPT ![p] = "unlock", ![c] = "relock"]
  /\ UNCHANGED <<list, mutex>>

Unlock(t) == pc[t] = "unlock" /\ mutex' = Nobody /\ Goto(t, "lock") /\ UNCHANGED list

\* Mutant of ConsumeLock: the list is found empty before the mutex is taken.
ConsumeTestsThenLocks(c) ==
  /\ pc[c] = "lock"
  /\ \/ head = <<>> /\ Goto(c, "sleep") /\ UNCHANGED <<list, mutex>>
     \/ /\ head # <<>> /\ mutex = Nobody
        /\ mutex' = c
        /\ ReadHead(c)
        /\ Goto(c, "advance")

\* Lock and delNode = head.
ConsumeLock(c) ==
  /\ pc[c] = "lock" /\ mutex = Nobody
  /\ mutex' = c
  /\ ReadHead(c)
  /\ Goto(c, IF head = <<>> THEN "sleep" ELSE "advance")

ConsumeAdvance(c) == pc[c] = "advance" /\ Advance /\ Goto(c, "free") /\ UNCHANGED mutex

ConsumeFree(c) == pc[c] = "free" /\ FreeNode(c) /\ Goto(c, "unlock") /\ UNCHANGED mutex

\* pthread_cond_wait: the mutex is released and the consumer sleeps, in one step.
ConsumeSleep(c) ==
  /\ pc[c] = "sleep"
  /\ mutex' = Nobody
  /\ Goto(c, "asleep")
  /\ UNCHANGED list

\* pthread_cond_wait may return without a signal.
SpuriousWakeup(c) == pc[c] = "asleep" /\ Goto(c, "relock") /\ UNCHANGED <<list, mutex>>

\* pthread_cond_wait returns with the mutex; the consumer unlocks and starts over.
ConsumeRelock(c) ==
  /\ pc[c] = "relock" /\ mutex = Nobody
  /\ mutex' = c
  /\ Goto(c, "unlock")
  /\ UNCHANGED list

Next ==
  \/ \E p \in Producers :
       ProduceLock(p) \/ ProduceNew(p) \/ ProducePublish(p) \/ ProduceSignal(p) \/ Unlock(p)
  \/ \E c \in Consumers :
       \/ ConsumeLock(c) \/ ConsumeAdvance(c) \/ ConsumeFree(c) \/ Unlock(c)
       \/ ConsumeSleep(c) \/ SpuriousWakeup(c) \/ ConsumeRelock(c)

Spec == Init /\ [][Next]_vars

\* The consumers never all sleep while the list holds a node, unless a producer is
\* about to signal: signalling once per push loses no wakeup, even when another
\* consumer takes the node before the one that was woken.
NoLostWakeup ==
  (head # <<>> /\ Asleep = Consumers) => \E p \in Producers : pc[p] = "signal"
=============================================================================
