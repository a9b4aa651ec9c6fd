------------------------ MODULE MC_ProducerConsumer -------------------------
(***************************************************************************)
(* The three producer/consumer programs on two producers and three         *)
(* consumers.  Which program runs is chosen in the initial state.  The     *)
(* operators without a prefix are those of semaphore.c.                    *)
(***************************************************************************)
EXTENDS SemList

CONSTANTS p1, p2, c1, c2, c3

MCProducers == {p1, p2}
MCConsumers == {c1, c2, c3}
MCNodes == 1..4

VARIABLE program
semaphores == <<psem, csem>>
allvars == <<program, vars>>

Mutex == INSTANCE MutexList
Cond == INSTANCE CondList

Running(p) == program = p

MCInit ==
  \/ program = "producer_comsumer" /\ Mutex!Init /\ psem = 0 /\ csem = 0
  \/ program = "pthread_condition" /\ Cond!Init /\ psem = 0 /\ csem = 0
  \/ program = "semaphore" /\ Init

MCNext ==
  \/ Running("producer_comsumer") /\ Mutex!Next /\ UNCHANGED <<program, semaphores>>
  \/ Running("pthread_condition") /\ Cond!Next /\ UNCHANGED <<program, semaphores>>
  \/ Running("semaphore") /\ Next /\ UNCHANGED program

\* Every thread of semaphore.c is scheduled.
MCSpec ==
  /\ MCInit /\ [][MCNext]_allvars
  /\ \A p \in Producers : WF_allvars(Running("semaphore") /\ Producer(p) /\ UNCHANGED program)
  /\ \A c \in Consumers : WF_allvars(Running("semaphore") /\ Consumer(c) /\ UNCHANGED program)

-----------------------------------------------------------------------------
ListsTypeOK ==
  /\ ListTypeOK
  /\ mutex \in Threads \cup {Nobody}
  /\ psem \in 0..Slots /\ csem \in 0..Slots

\* pthread_condition.c never lets all consumers sleep on a list that holds a node:
\* the signal after each push is enough, whoever takes the node (see CondList).
CondLosesNoWakeup == Running("pthread_condition") => Cond!NoLostWakeup

\* semaphore.c keeps to its slots, and dereferences head safely without testing it (see
\* SemList); the variables of all three programs keep their types.
SemCountsNodes == ListsTypeOK /\ (Running("semaphore") => BufferBound /\ HeadIsNeverNull)

\* Wakeups and nodes match in both programs that wait: by signals in the one, by tokens in
\* the other.
WakeupsMatchNodes == CondLosesNoWakeup /\ SemCountsNodes

\* What keeps a thread from its next step: the mutex is taken, no signal has come, there is
\* no token in its semaphore, no memory is left for a node, or head->next is read through NULL.
Blocked(t) ==
  \/ pc[t] \in {"lock", "relock"} /\ mutex # Nobody
  \/ pc[t] = "asleep"
  \/ pc[t] = "wait" /\ (IF t \in Producers THEN psem ELSE csem) = 0
  \/ t \in Producers /\ live = Nodes /\ (pc[t] = "new" \/ (pc[t] = "lock" /\ ~Running("semaphore")))
  \/ pc[t] = "advance" /\ head = <<>>

\* No program stops: in every state some thread can take its next step, and none of them needs
\* pthread_cond_wait to return without a signal.
SomeoneGoesOn == \E t \in Threads : ~Blocked(t)

\* Every program is a stack whose pushes and pops take effect at one point in time.
Stack == INSTANCE SharedStack WITH
           stack <- head,
           capacity <- IF Running("semaphore") THEN Slots ELSE Cardinality(Nodes)

IsSharedStack == Stack!StackSpec

\* semaphore.c never stalls: nodes are freed again and again, even where no thread
\* can be sure of ever getting the mutex.
ConsumptionGoesOn ==
  Running("semaphore") => []<>(\E c \in Consumers : pc[c] = "free")
=============================================================================
