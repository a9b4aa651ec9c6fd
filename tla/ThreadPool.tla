----------------------------- MODULE ThreadPool -----------------------------
(***************************************************************************)
(* Thread_pool<T> of FIN_project/Abandoned_webserver/thread_pool.h, with   *)
(* the Locker and Semaphore of locker.h.  A step of this specification is  *)
(* one call of the mutex or the semaphore, or what a thread does between   *)
(* two such calls.                                                         *)
(*                                                                         *)
(* The owner constructs the pool, clients (Producers) call append, each of *)
(* the Workers executes run, and the owner destroys the pool when no       *)
(* client is inside append.                                                *)
(***************************************************************************)
EXTENDS Integers, Sequences, FiniteSets

CONSTANTS
  Producers,     \* threads that call append
  Workers,       \* the m_thread_number threads of the pool
  Requests,      \* the T* values passed to append; may contain Null
  MaxRequests,   \* m_max_requests
  MaxAppends,    \* bound on the calls of append
  MaxInterrupts, \* bound on the times sem_wait returns without a token
  Null,          \* the null T*
  NoThread       \* the owner of a free mutex

ASSUME ThreadsAssumption ==
  /\ IsFiniteSet(Producers) /\ IsFiniteSet(Workers) /\ Workers # {}
  /\ Producers \cap Workers = {}
  /\ NoThread \notin Producers \cup Workers

\* The constructor throws unless thread_Num and max_Request are positive.
ASSUME LimitsAssumption ==
  /\ MaxRequests \in Nat \ {0}
  /\ MaxAppends \in Nat
  /\ MaxInterrupts \in Nat

VARIABLES
  m_workQueue,   \* requests that wait, oldest first
  m_queueLocker, \* the thread that holds the mutex, or NoThread
  m_queseStat,   \* value of the semaphore
  m_stop,        \* set by the destructor, read by run
  life,          \* where the pool is in its life
  ppc, preq,     \* per producer: next step of append, its argument
  wpc, wreq,     \* per worker: next step of run, its local "request"
  refused,       \* history: calls of append that returned false
  accepted,      \* history: requests pushed, in that order
  taken,         \* history: requests popped, in that order
  takenAtStop,   \* history: Len(taken) when m_stop was set
  interrupts     \* how often sem_wait returned without a token

pvars == <<ppc, preq, refused, accepted>>
wvars == <<wpc, wreq, taken, interrupts>>
lvars == <<life, m_stop, takenAtStop>>
vars == <<m_workQueue, m_queueLocker, m_queseStat, pvars, wvars, lvars>>

Threads == Producers \cup Workers

Init ==
  /\ m_workQueue = <<>>
  /\ m_queueLocker = NoThread
  /\ m_queseStat = 0
  /\ m_stop = FALSE
  /\ life = "constructing"
  /\ ppc = [p \in Producers |-> "idle"]
  /\ preq = [p \in Producers |-> Null]
  /\ wpc = [w \in Workers |-> "unborn"]
  /\ wreq = [w \in Workers |-> Null]
  /\ refused = 0
  /\ accepted = <<>>
  /\ taken = <<>>
  /\ takenAtStop = 0
  /\ interrupts = 0

-----------------------------------------------------------------------------
(* Locker and Semaphore *)

\* Mutant of SemPost: an event flag that does not count.
SemPostSaturates == m_queseStat' = 1

Lock(t) == m_queueLocker = NoThread /\ m_queueLocker' = t
Unlock(t) == m_queueLocker' = IF m_queueLocker = t THEN NoThread ELSE m_queueLocker
SemWait == m_queseStat > 0 /\ m_queseStat' = m_queseStat - 1
SemPost == m_queseStat' = m_queseStat + 1

PGoto(p, l) == ppc' = [ppc EXCEPT ![p] = l]
WGoto(w, l) == wpc' = [wpc EXCEPT ![w] = l]

-----------------------------------------------------------------------------
(* Construction and destruction *)

\* pthread_create and pthread_detach succeed; the thread enters worker.
CreateWorker(w) ==
  /\ life = "constructing" /\ wpc[w] = "unborn"
  /\ WGoto(w, "loop")
  /\ life' = IF \A v \in Workers \ {w} : wpc[v] # "unborn" THEN "ready" ELSE life
  /\ UNCHANGED <<m_workQueue, m_queueLocker, m_queseStat, pvars, wreq, taken, interrupts,
                 m_stop, takenAtStop>>

\* pthread_create fails: the constructor throws, the members it has built are
\* destroyed and the memory is released, under the threads already created.
ConstructorFails ==
  /\ life = "constructing"
  /\ life' = "gone"
  /\ UNCHANGED <<m_workQueue, m_queueLocker, m_queseStat, pvars, wvars, m_stop, takenAtStop>>

\* The destructor's last statement.
DestructorStops ==
  /\ life = "ready"
  /\ \A p \in Producers : ppc[p] = "idle"
  /\ life' = "stopping"
  /\ m_stop' = TRUE
  /\ takenAtStop' = Len(taken)
  /\ UNCHANGED <<m_workQueue, m_queueLocker, m_queseStat, pvars, wvars>>

\* The members' destructors and operator delete.
DestructorFrees ==
  /\ life = "stopping"
  /\ life' = "gone"
  /\ UNCHANGED <<m_workQueue, m_queueLocker, m_queseStat, pvars, wvars, m_stop, takenAtStop>>

-----------------------------------------------------------------------------
(* append *)

AppendLock(p) ==
  /\ life = "ready" /\ ppc[p] = "idle"
  /\ Len(accepted) + refused < MaxAppends
  /\ \E r \in Requests : preq' = [preq EXCEPT ![p] = r]
  /\ Lock(p)
  /\ PGoto(p, "check")
  /\ UNCHANGED <<m_workQueue, m_queseStat, refused, accepted, wvars, lvars>>

\* Mutant of IsFull: one request too few.
IsFullTooEarly == Len(m_workQueue) >= MaxRequests

IsFull == Len(m_workQueue) > MaxRequests

AppendRefuse(p) ==
  /\ ppc[p] = "check" /\ IsFull
  /\ Unlock(p)
  /\ refused' = refused + 1
  /\ PGoto(p, "idle")
  /\ UNCHANGED <<m_workQueue, m_queseStat, preq, accepted, wvars, lvars>>

AppendPush(p) ==
  /\ ppc[p] = "check" /\ ~IsFull
  /\ m_workQueue' = Append(m_workQueue, preq[p])
  /\ accepted' = Append(accepted, preq[p])
  /\ PGoto(p, "unlock")
  /\ UNCHANGED <<m_queueLocker, m_queseStat, preq, refused, wvars, lvars>>

AppendUnlock(p) ==
  /\ ppc[p] = "unlock"
  /\ Unlock(p)
  /\ PGoto(p, "post")
  /\ UNCHANGED <<m_workQueue, m_queseStat, preq, refused, accepted, wvars, lvars>>

AppendPost(p) ==
  /\ ppc[p] = "post"
  /\ SemPost
  /\ PGoto(p, "idle")
  /\ UNCHANGED <<m_workQueue, m_queueLocker, preq, refused, accepted, wvars, lvars>>

-----------------------------------------------------------------------------
(* run *)

Exists == life # "gone"

\* Mutant of RunLoop: while (true).
RunLoopForever(w) ==
  /\ Exists /\ wpc[w] = "loop"
  /\ WGoto(w, "wait")
  /\ UNCHANGED <<m_workQueue, m_queueLocker, m_queseStat, pvars, wreq, taken, interrupts, lvars>>

\* while (!m_stop)
RunLoop(w) ==
  /\ Exists /\ wpc[w] = "loop"
  /\ WGoto(w, IF m_stop THEN "returned" ELSE "wait")
  /\ UNCHANGED <<m_workQueue, m_queueLocker, m_queseStat, pvars, wreq, taken, interrupts, lvars>>

RunWait(w) ==
  /\ Exists /\ wpc[w] = "wait"
  /\ SemWait
  /\ WGoto(w, "lock")
  /\ UNCHANGED <<m_workQueue, m_queueLocker, pvars, wreq, taken, interrupts, lvars>>

\* sem_wait returns -1 without a token (EINTR); run ignores the result of wait.
RunWaitInterrupted(w) ==
  /\ Exists /\ wpc[w] = "wait"
  /\ interrupts < MaxInterrupts
  /\ interrupts' = interrupts + 1
  /\ WGoto(w, "lock")
  /\ UNCHANGED <<m_workQueue, m_queueLocker, m_queseStat, pvars, wreq, taken, lvars>>

RunLock(w) ==
  /\ Exists /\ wpc[w] = "lock"
  /\ Lock(w)
  /\ WGoto(w, "check")
  /\ UNCHANGED <<m_workQueue, m_queseStat, pvars, wreq, taken, interrupts, lvars>>

\* The queue is empty: unlock and continue.
RunEmpty(w) ==
  /\ Exists /\ wpc[w] = "check" /\ m_workQueue = <<>>
  /\ Unlock(w)
  /\ WGoto(w, "loop")
  /\ UNCHANGED <<m_workQueue, m_queseStat, pvars, wreq, taken, interrupts, lvars>>

\* Mutant of RunPop: back() and pop_back().
RunPopNewest(w) ==
  /\ Exists /\ wpc[w] = "check" /\ m_workQueue # <<>>
  /\ LET n == Len(m_workQueue) IN
       /\ wreq' = [wreq EXCEPT ![w] = m_workQueue[n]]
       /\ m_workQueue' = SubSeq(m_workQueue, 1, n - 1)
       /\ taken' = Append(taken, m_workQueue[n])
  /\ WGoto(w, "unlock")
  /\ UNCHANGED <<m_queueLocker, m_queseStat, pvars, interrupts, lvars>>

RunPop(w) ==
  /\ Exists /\ wpc[w] = "check" /\ m_workQueue # <<>>
  /\ wreq' = [wreq EXCEPT ![w] = Head(m_workQueue)]
  /\ m_workQueue' = Tail(m_workQueue)
  /\ taken' = Append(taken, Head(m_workQueue))
  /\ WGoto(w, "unlock")
  /\ UNCHANGED <<m_queueLocker, m_queseStat, pvars, interrupts, lvars>>

\* Mutant of RunUnlock: a null request ends the thread.
RunUnlockReturns(w) ==
  /\ Exists /\ wpc[w] = "unlock"
  /\ Unlock(w)
  /\ WGoto(w, IF wreq[w] = Null THEN "returned" ELSE "process")
  /\ UNCHANGED <<m_workQueue, m_queseStat, pvars, wreq, taken, interrupts, lvars>>

\* Unlock, and skip a null request.
RunUnlock(w) ==
  /\ Exists /\ wpc[w] = "unlock"
  /\ Unlock(w)
  /\ WGoto(w, IF wreq[w] = Null THEN "loop" ELSE "process")
  /\ UNCHANGED <<m_workQueue, m_queseStat, pvars, wreq, taken, interrupts, lvars>>

\* request->process() returns.  It does not use the pool.
RunProcess(w) ==
  /\ wpc[w] = "process"
  /\ WGoto(w, "loop")
  /\ UNCHANGED <<m_workQueue, m_queueLocker, m_queseStat, pvars, wreq, taken, interrupts, lvars>>

\* The worker touches a pool that is gone; what it does from here on is undefined.
RunUndefined(w) ==
  /\ ~Exists /\ wpc[w] \notin {"unborn", "process", "returned", "undefined"}
  /\ WGoto(w, "undefined")
  /\ UNCHANGED <<m_workQueue, m_queueLocker, m_queseStat, pvars, wreq, taken, interrupts, lvars>>

-----------------------------------------------------------------------------
Producer(p) ==
  AppendLock(p) \/ AppendRefuse(p) \/ AppendPush(p) \/ AppendUnlock(p) \/ AppendPost(p)

Worker(w) ==
  \/ RunLoop(w) \/ RunWait(w) \/ RunWaitInterrupted(w) \/ RunLock(w)
  \/ RunEmpty(w) \/ RunPop(w) \/ RunUnlock(w) \/ RunProcess(w) \/ RunUndefined(w)

Owner ==
  \/ \E w \in Workers : CreateWorker(w)
  \/ ConstructorFails \/ DestructorStops \/ DestructorFrees

Next ==
  \/ \E p \in Producers : Producer(p)
  \/ \E w \in Workers : Worker(w)
  \/ Owner

Spec == Init /\ [][Next]_vars

\* The kernel schedules every thread, a released mutex goes to some thread that
\* waits for it, and process() returns.  Nothing forces a client to call append,
\* the owner to destroy the pool, or a signal to arrive.
WorkerStep(w) ==
  RunLoop(w) \/ RunWait(w) \/ RunLock(w) \/ RunEmpty(w) \/ RunPop(w) \/ RunUnlock(w) \/ RunProcess(w)
AppendStep(p) == AppendRefuse(p) \/ AppendPush(p) \/ AppendUnlock(p) \/ AppendPost(p)

Fairness ==
  /\ \A w \in Workers : WF_vars(WorkerStep(w)) /\ WF_vars(CreateWorker(w))
  /\ \A p \in Producers : WF_vars(AppendStep(p))

FairSpec == Spec /\ Fairness

-----------------------------------------------------------------------------
(* Properties *)

ProducerSteps == {"idle", "check", "unlock", "post"}
WorkerSteps == {"unborn", "loop", "wait", "lock", "check", "unlock", "process",
                "returned", "undefined"}

\* Every variable keeps its type.
TypeOK ==
  /\ m_workQueue \in Seq(Requests)
  /\ m_queueLocker \in Threads \cup {NoThread}
  /\ m_queseStat \in Nat
  /\ m_stop \in BOOLEAN
  /\ life \in {"constructing", "ready", "stopping", "gone"}
  /\ ppc \in [Producers -> ProducerSteps]
  /\ preq \in [Producers -> Requests \cup {Null}]
  /\ wpc \in [Workers -> WorkerSteps]
  /\ wreq \in [Workers -> Requests \cup {Null}]
  /\ refused \in Nat /\ takenAtStop \in Nat /\ interrupts \in Nat
  /\ accepted \in Seq(Requests) /\ taken \in Seq(Requests)

\* The threads between a lock() and the matching unlock().
InAppend(p) == ppc[p] \in {"check", "unlock"}
InRun(w) == wpc[w] \in {"check", "unlock"}

\* At most one thread is between lock() and unlock(), whether in append or in run:
\* no two threads ever work on m_workQueue at once.
MutualExclusion ==
  /\ \A p, q \in Producers : InAppend(p) /\ InAppend(q) => p = q
  /\ \A v, w \in Workers : InRun(v) /\ InRun(w) => v = w
  /\ \A p \in Producers, w \in Workers : ~(InAppend(p) /\ InRun(w))

\* Tokens on their way into or out of the semaphore.
Posting == {p \in Producers : ppc[p] \in {"unlock", "post"}}
Woken == {w \in Workers : wpc[w] \in {"lock", "check"}}

\* No request is stranded: as long as the pool exists, every request that waits in
\* m_workQueue has a token of its own, in the semaphore, with an append that is about
\* to post it, or with a worker that has woken and not looked at the queue yet.
\* This holds although run ignores a failed wait and append posts after it unlocks.
NoStrandedRequest ==
  life # "gone" =>
    m_queseStat + Cardinality(Posting) + Cardinality(Woken) >= Len(m_workQueue)

\* Where no wait fails the tokens match the requests exactly, so no worker that
\* holds the mutex ever finds the queue empty.
NoWastedWakeup ==
  (interrupts = 0 /\ life # "gone") =>
    m_queseStat + Cardinality(Posting) + Cardinality(Woken) = Len(m_workQueue)

\* Both: whatever clients, workers and failed waits do, tokens and requests stay together.
TokensMatchRequests == NoStrandedRequest /\ NoWastedWakeup

\* The queue holds one request more than m_max_requests at the most, whatever the
\* number of threads in append: the size is tested and changed under one lock.
CapacityBound == Len(m_workQueue) <= MaxRequests + 1

\* First in, first out, nothing lost, nothing duplicated: the requests popped,
\* followed by the requests that wait, are the requests accepted.
FirstInFirstOut == accepted = taken \o m_workQueue

\* The queue is sound: one thread works on it at a time, it keeps to its capacity, and
\* requests leave it in the order they came, none lost and none twice.
QueueIsSound == TypeOK /\ MutualExclusion /\ CapacityBound /\ FirstInFirstOut

\* Once m_stop is set each worker starts on one more request at the most: it reads
\* m_stop before every wait and not after.
StopIsPrompt == m_stop => Len(taken) <= takenAtStop + Cardinality(Workers)

\* The pool implements the abstract work queue.  A worker serves its request from
\* the pop to the end of process() (or until what it does is undefined).
Serving == [w \in Workers |-> IF wpc[w] \in {"unlock", "process"} THEN <<wreq[w]>> ELSE <<>>]

WQ == INSTANCE WorkQueue WITH
        queue <- m_workQueue, serving <- Serving, Capacity <- MaxRequests + 1

ImplementsWorkQueue == WQ!QueueSpec

\* Every request that append accepts is popped by some worker, unless the owner
\* destroys the pool first.
EveryRequestIsServed ==
  \A n \in 1..MaxAppends :
    Len(accepted) >= n ~> (Len(taken) >= n \/ life \in {"stopping", "gone"})
=============================================================================
