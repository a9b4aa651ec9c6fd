-------------------------- MODULE ThreadPoolProofs --------------------------
(***************************************************************************)
(* Proofs about the thread pool, for every number of clients and workers,  *)
(* every capacity and every bound of ThreadPool.tla.                       *)
(***************************************************************************)
EXTENDS ThreadPool, SequenceTheorems, FiniteSetTheorems, TLAPS

-----------------------------------------------------------------------------
(* Type correctness *)

\* The argument of an append under way is a request.
Arguments == \A p \in Producers : ppc[p] = "check" => preq[p] \in Requests

\* Every step keeps the types.
LEMMA TypeStep == TypeOK /\ Arguments /\ [Next]_vars => (TypeOK /\ Arguments)'
<1> SUFFICES ASSUME TypeOK, Arguments, [Next]_vars PROVE (TypeOK /\ Arguments)'
  OBVIOUS
<1> USE LimitsAssumption
<1>1. ASSUME NEW p \in Producers, AppendLock(p) PROVE (TypeOK /\ Arguments)'
  BY <1>1 DEF AppendLock, Lock, PGoto, wvars, lvars, TypeOK, Arguments, Threads, ProducerSteps, WorkerSteps
<1>2. ASSUME NEW p \in Producers, AppendRefuse(p) PROVE (TypeOK /\ Arguments)'
  BY <1>2 DEF AppendRefuse, Unlock, PGoto, wvars, lvars, TypeOK, Arguments, Threads, ProducerSteps, WorkerSteps
<1>3. ASSUME NEW p \in Producers, AppendPush(p) PROVE (TypeOK /\ Arguments)'
  BY <1>3 DEF AppendPush, PGoto, wvars, lvars, TypeOK, Arguments, Threads, ProducerSteps, WorkerSteps
<1>4. ASSUME NEW p \in Producers, AppendUnlock(p) PROVE (TypeOK /\ Arguments)'
  BY <1>4 DEF AppendUnlock, Unlock, PGoto, wvars, lvars, TypeOK, Arguments, Threads, ProducerSteps, WorkerSteps
<1>5. ASSUME NEW p \in Producers, AppendPost(p) PROVE (TypeOK /\ Arguments)'
  BY <1>5 DEF AppendPost, SemPost, PGoto, wvars, lvars, TypeOK, Arguments, Threads, ProducerSteps, WorkerSteps
<1>6. ASSUME NEW w \in Workers, CreateWorker(w) PROVE (TypeOK /\ Arguments)'
  BY <1>6 DEF CreateWorker, WGoto, pvars, TypeOK, Arguments, Threads, ProducerSteps, WorkerSteps
<1>7. ASSUME NEW w \in Workers, RunLoop(w) PROVE (TypeOK /\ Arguments)'
  BY <1>7 DEF RunLoop, WGoto, pvars, lvars, TypeOK, Arguments, Threads, ProducerSteps, WorkerSteps
<1>8. ASSUME NEW w \in Workers, RunWait(w) PROVE (TypeOK /\ Arguments)'
  BY <1>8 DEF RunWait, SemWait, WGoto, pvars, lvars, TypeOK, Arguments, Threads, ProducerSteps, WorkerSteps
<1>9. ASSUME NEW w \in Workers, RunWaitInterrupted(w) PROVE (TypeOK /\ Arguments)'
  BY <1>9 DEF RunWaitInterrupted, WGoto, pvars, lvars, TypeOK, Arguments, Threads, ProducerSteps, WorkerSteps
<1>10. ASSUME NEW w \in Workers, RunLock(w) PROVE (TypeOK /\ Arguments)'
  BY <1>10 DEF RunLock, Lock, WGoto, pvars, lvars, TypeOK, Arguments, Threads, ProducerSteps, WorkerSteps
<1>11. ASSUME NEW w \in Workers, RunEmpty(w) PROVE (TypeOK /\ Arguments)'
  BY <1>11 DEF RunEmpty, Unlock, WGoto, pvars, lvars, TypeOK, Arguments, Threads, ProducerSteps, WorkerSteps
<1>12. ASSUME NEW w \in Workers, RunPop(w) PROVE (TypeOK /\ Arguments)'
  BY <1>12 DEF RunPop, WGoto, pvars, lvars, TypeOK, Arguments, Threads, ProducerSteps, WorkerSteps
<1>13. ASSUME NEW w \in Workers, RunUnlock(w) PROVE (TypeOK /\ Arguments)'
  BY <1>13 DEF RunUnlock, Unlock, WGoto, pvars, lvars, TypeOK, Arguments, Threads, ProducerSteps, WorkerSteps
<1>14. ASSUME NEW w \in Workers, RunProcess(w) PROVE (TypeOK /\ Arguments)'
  BY <1>14 DEF RunProcess, WGoto, pvars, lvars, TypeOK, Arguments, Threads, ProducerSteps, WorkerSteps
<1>15. ASSUME NEW w \in Workers, RunUndefined(w) PROVE (TypeOK /\ Arguments)'
  BY <1>15 DEF RunUndefined, WGoto, pvars, lvars, TypeOK, Arguments, Threads, ProducerSteps, WorkerSteps
<1>16. CASE ConstructorFails
  BY <1>16 DEF ConstructorFails, pvars, wvars, TypeOK, Arguments, Threads, ProducerSteps, WorkerSteps
<1>17. CASE DestructorStops
  BY <1>17 DEF DestructorStops, pvars, wvars, TypeOK, Arguments, Threads, ProducerSteps, WorkerSteps
<1>18. CASE DestructorFrees
  BY <1>18 DEF DestructorFrees, pvars, wvars, TypeOK, Arguments, Threads, ProducerSteps, WorkerSteps
<1>19. CASE UNCHANGED vars
  BY <1>19 DEF vars, pvars, wvars, lvars, TypeOK, Arguments, Threads, ProducerSteps, WorkerSteps
<1>20. QED
  BY <1>1, <1>2, <1>3, <1>4, <1>5, <1>6, <1>7, <1>8, <1>9, <1>10, <1>11, <1>12, <1>13, <1>14, <1>15, <1>16, <1>17, <1>18, <1>19 DEF Next, Producer, Worker, Owner

\* The types are invariant.
THEOREM TypeCorrect == Spec => [](TypeOK /\ Arguments)
<1>1. Init => TypeOK /\ Arguments
  <2>1. SUFFICES ASSUME Init PROVE TypeOK /\ Arguments
    OBVIOUS
  <2>2. ppc \in [Producers -> ProducerSteps] /\ wpc \in [Workers -> WorkerSteps]
    BY <2>1 DEF Init, ProducerSteps, WorkerSteps
  <2>3. preq \in [Producers -> Requests \cup {Null}] /\ wreq \in [Workers -> Requests \cup {Null}]
    BY <2>1 DEF Init
  <2>4. m_workQueue \in Seq(Requests) /\ accepted \in Seq(Requests) /\ taken \in Seq(Requests)
    BY <2>1 DEF Init
  <2>5. Arguments
    BY <2>1 DEF Init, Arguments
  <2>6. QED
    BY <2>1, <2>2, <2>3, <2>4, <2>5 DEF Init, TypeOK
<1>2. QED
  BY <1>1, TypeStep, PTL DEF Spec

-----------------------------------------------------------------------------
(* Mutual exclusion *)

\* The inductive form of mutual exclusion: who is between lock() and unlock() owns
\* the mutex.
LockOwned ==
  /\ \A p \in Producers : InAppend(p) => m_queueLocker = p
  /\ \A w \in Workers : InRun(w) => m_queueLocker = w

\* Every step keeps the mutex with the thread that locked it.
LEMMA LockStep == TypeOK /\ LockOwned /\ [Next]_vars => LockOwned'
<1> SUFFICES ASSUME TypeOK, LockOwned, [Next]_vars PROVE LockOwned'
  OBVIOUS
<1> USE ThreadsAssumption
<1>1. ASSUME NEW p \in Producers, AppendLock(p) PROVE LockOwned'
  BY <1>1 DEF AppendLock, Lock, PGoto, wvars, lvars, TypeOK, LockOwned, InAppend, InRun
<1>2. ASSUME NEW p \in Producers, AppendRefuse(p) PROVE LockOwned'
  BY <1>2 DEF AppendRefuse, Unlock, PGoto, wvars, lvars, TypeOK, LockOwned, InAppend, InRun
<1>3. ASSUME NEW p \in Producers, AppendPush(p) PROVE LockOwned'
  BY <1>3 DEF AppendPush, PGoto, wvars, lvars, TypeOK, LockOwned, InAppend, InRun
<1>4. ASSUME NEW p \in Producers, AppendUnlock(p) PROVE LockOwned'
  BY <1>4 DEF AppendUnlock, Unlock, PGoto, wvars, lvars, TypeOK, LockOwned, InAppend, InRun
<1>5. ASSUME NEW p \in Producers, AppendPost(p) PROVE LockOwned'
  BY <1>5 DEF AppendPost, SemPost, PGoto, wvars, lvars, TypeOK, LockOwned, InAppend, InRun
<1>6. ASSUME NEW w \in Workers, CreateWorker(w) PROVE LockOwned'
  BY <1>6 DEF CreateWorker, WGoto, pvars, TypeOK, LockOwned, InAppend, InRun
<1>7. ASSUME NEW w \in Workers, RunLoop(w) PROVE LockOwned'
  BY <1>7 DEF RunLoop, WGoto, pvars, lvars, TypeOK, LockOwned, InAppend, InRun
<1>8. ASSUME NEW w \in Workers, RunWait(w) PROVE LockOwned'
  BY <1>8 DEF RunWait, SemWait, WGoto, pvars, lvars, TypeOK, LockOwned, InAppend, InRun
<1>9. ASSUME NEW w \in Workers, RunWaitInterrupted(w) PROVE LockOwned'
  BY <1>9 DEF RunWaitInterrupted, WGoto, pvars, lvars, TypeOK, LockOwned, InAppend, InRun
<1>10. ASSUME NEW w \in Workers, RunLock(w) PROVE LockOwned'
  BY <1>10 DEF RunLock, Lock, WGoto, pvars, lvars, TypeOK, LockOwned, InAppend, InRun
<1>11. ASSUME NEW w \in Workers, RunEmpty(w) PROVE LockOwned'
  BY <1>11 DEF RunEmpty, Unlock, WGoto, pvars, lvars, TypeOK, LockOwned, InAppend, InRun
<1>12. ASSUME NEW w \in Workers, RunPop(w) PROVE LockOwned'
  BY <1>12 DEF RunPop, WGoto, pvars, lvars, TypeOK, LockOwned, InAppend, InRun
<1>13. ASSUME NEW w \in Workers, RunUnlock(w) PROVE LockOwned'
  BY <1>13 DEF RunUnlock, Unlock, WGoto, pvars, lvars, TypeOK, LockOwned, InAppend, InRun
<1>14. ASSUME NEW w \in Workers, RunProcess(w) PROVE LockOwned'
  BY <1>14 DEF RunProcess, WGoto, pvars, lvars, TypeOK, LockOwned, InAppend, InRun
<1>15. ASSUME NEW w \in Workers, RunUndefined(w) PROVE LockOwned'
  BY <1>15 DEF RunUndefined, WGoto, pvars, lvars, TypeOK, LockOwned, InAppend, InRun
<1>16. CASE ConstructorFails
  BY <1>16 DEF ConstructorFails, pvars, wvars, TypeOK, LockOwned, InAppend, InRun
<1>17. CASE DestructorStops
  BY <1>17 DEF DestructorStops, pvars, wvars, TypeOK, LockOwned, InAppend, InRun
<1>18. CASE DestructorFrees
  BY <1>18 DEF DestructorFrees, pvars, wvars, TypeOK, LockOwned, InAppend, InRun
<1>19. CASE UNCHANGED vars
  BY <1>19 DEF vars, pvars, wvars, lvars, TypeOK, LockOwned, InAppend, InRun
<1>20. QED
  BY <1>1, <1>2, <1>3, <1>4, <1>5, <1>6, <1>7, <1>8, <1>9, <1>10, <1>11, <1>12, <1>13, <1>14, <1>15, <1>16, <1>17, <1>18, <1>19 DEF Next, Producer, Worker, Owner

\* No two threads, clients or workers, work on the queue at once.
THEOREM MutualExclusionHolds == Spec => []MutualExclusion
<1>1. Init => LockOwned
  BY DEF Init, LockOwned, InAppend, InRun
<1>2. TypeOK /\ LockOwned => MutualExclusion
  BY ThreadsAssumption DEF LockOwned, MutualExclusion
<1>3. QED
  BY <1>1, <1>2, TypeCorrect, LockStep, PTL DEF Spec

-----------------------------------------------------------------------------
(* The capacity and the order of the queue *)

\* The test in append and the push are one critical section, so a push starts from
\* m_max_requests requests at the most.
LEMMA CapacityStep == TypeOK /\ CapacityBound /\ [Next]_vars => CapacityBound'
<1> SUFFICES ASSUME TypeOK, CapacityBound, [Next]_vars PROVE CapacityBound'
  OBVIOUS
<1> USE LimitsAssumption
<1>1. ASSUME NEW p \in Producers, AppendLock(p) PROVE CapacityBound'
  BY <1>1 DEF AppendLock, Lock, PGoto, wvars, lvars, TypeOK, CapacityBound, IsFull
<1>2. ASSUME NEW p \in Producers, AppendRefuse(p) PROVE CapacityBound'
  BY <1>2 DEF AppendRefuse, Unlock, PGoto, wvars, lvars, TypeOK, CapacityBound, IsFull
<1>3. ASSUME NEW p \in Producers, AppendPush(p) PROVE CapacityBound'
  BY <1>3 DEF AppendPush, PGoto, wvars, lvars, TypeOK, CapacityBound, IsFull
<1>4. ASSUME NEW p \in Producers, AppendUnlock(p) PROVE CapacityBound'
  BY <1>4 DEF AppendUnlock, Unlock, PGoto, wvars, lvars, TypeOK, CapacityBound, IsFull
<1>5. ASSUME NEW p \in Producers, AppendPost(p) PROVE CapacityBound'
  BY <1>5 DEF AppendPost, SemPost, PGoto, wvars, lvars, TypeOK, CapacityBound, IsFull
<1>6. ASSUME NEW w \in Workers, CreateWorker(w) PROVE CapacityBound'
  BY <1>6 DEF CreateWorker, WGoto, pvars, TypeOK, CapacityBound, IsFull
<1>7. ASSUME NEW w \in Workers, RunLoop(w) PROVE CapacityBound'
  BY <1>7 DEF RunLoop, WGoto, pvars, lvars, TypeOK, CapacityBound, IsFull
<1>8. ASSUME NEW w \in Workers, RunWait(w) PROVE CapacityBound'
  BY <1>8 DEF RunWait, SemWait, WGoto, pvars, lvars, TypeOK, CapacityBound, IsFull
<1>9. ASSUME NEW w \in Workers, RunWaitInterrupted(w) PROVE CapacityBound'
  BY <1>9 DEF RunWaitInterrupted, WGoto, pvars, lvars, TypeOK, CapacityBound, IsFull
<1>10. ASSUME NEW w \in Workers, RunLock(w) PROVE CapacityBound'
  BY <1>10 DEF RunLock, Lock, WGoto, pvars, lvars, TypeOK, CapacityBound, IsFull
<1>11. ASSUME NEW w \in Workers, RunEmpty(w) PROVE CapacityBound'
  BY <1>11 DEF RunEmpty, Unlock, WGoto, pvars, lvars, TypeOK, CapacityBound, IsFull
<1>12. ASSUME NEW w \in Workers, RunPop(w) PROVE CapacityBound'
  BY <1>12 DEF RunPop, WGoto, pvars, lvars, TypeOK, CapacityBound, IsFull
<1>13. ASSUME NEW w \in Workers, RunUnlock(w) PROVE CapacityBound'
  BY <1>13 DEF RunUnlock, Unlock, WGoto, pvars, lvars, TypeOK, CapacityBound, IsFull
<1>14. ASSUME NEW w \in Workers, RunProcess(w) PROVE CapacityBound'
  BY <1>14 DEF RunProcess, WGoto, pvars, lvars, TypeOK, CapacityBound, IsFull
<1>15. ASSUME NEW w \in Workers, RunUndefined(w) PROVE CapacityBound'
  BY <1>15 DEF RunUndefined, WGoto, pvars, lvars, TypeOK, CapacityBound, IsFull
<1>16. CASE ConstructorFails
  BY <1>16 DEF ConstructorFails, pvars, wvars, TypeOK, CapacityBound, IsFull
<1>17. CASE DestructorStops
  BY <1>17 DEF DestructorStops, pvars, wvars, TypeOK, CapacityBound, IsFull
<1>18. CASE DestructorFrees
  BY <1>18 DEF DestructorFrees, pvars, wvars, TypeOK, CapacityBound, IsFull
<1>19. CASE UNCHANGED vars
  BY <1>19 DEF vars, pvars, wvars, lvars, TypeOK, CapacityBound, IsFull
<1>20. QED
  BY <1>1, <1>2, <1>3, <1>4, <1>5, <1>6, <1>7, <1>8, <1>9, <1>10, <1>11, <1>12, <1>13, <1>14, <1>15, <1>16, <1>17, <1>18, <1>19 DEF Next, Producer, Worker, Owner

\* The queue never holds more than m_max_requests + 1 requests.
THEOREM CapacityHolds == Spec => []CapacityBound
<1>1. Init => CapacityBound
  BY LimitsAssumption DEF Init, CapacityBound
<1>2. QED
  BY <1>1, TypeCorrect, CapacityStep, PTL DEF Spec

\* Pushing at the back and popping at the front keep the concatenation.
LEMMA PushKeepsOrder ==
  \A s, t \in Seq(Requests) : \A x \in Requests : Append(s \o t, x) = s \o Append(t, x)
  OBVIOUS

\* A pop moves the oldest request from the queue to the end of those taken: the two
\* together stay what append accepted.
LEMMA PopKeepsOrder ==
  ASSUME NEW s \in Seq(Requests), NEW t \in Seq(Requests), t # <<>>
  PROVE  s \o t = Append(s, Head(t)) \o Tail(t)
<1>1. Len(t) \in Nat /\ Len(t) > 0
  OBVIOUS
<1>2. Len(s \o t) = Len(Append(s, Head(t)) \o Tail(t))
  BY <1>1
<1>3. \A i \in 1..Len(s \o t) : (s \o t)[i] = (Append(s, Head(t)) \o Tail(t))[i]
  BY <1>1
<1>4. s \o t \in Seq(Requests) /\ Append(s, Head(t)) \o Tail(t) \in Seq(Requests)
  BY <1>1
<1>5. QED
  BY <1>2, <1>3, <1>4, SeqEqual

\* Every step keeps accepted = taken \o m_workQueue.
LEMMA OrderStep == TypeOK /\ Arguments /\ FirstInFirstOut /\ [Next]_vars => FirstInFirstOut'
<1> SUFFICES ASSUME TypeOK, Arguments, FirstInFirstOut, [Next]_vars PROVE FirstInFirstOut'
  OBVIOUS
<1>1. ASSUME NEW p \in Producers, AppendLock(p) PROVE FirstInFirstOut'
  BY <1>1 DEF AppendLock, Lock, PGoto, wvars, lvars, TypeOK, FirstInFirstOut
<1>2. ASSUME NEW p \in Producers, AppendRefuse(p) PROVE FirstInFirstOut'
  BY <1>2 DEF AppendRefuse, Unlock, PGoto, wvars, lvars, TypeOK, FirstInFirstOut
<1>3. ASSUME NEW p \in Producers, AppendPush(p) PROVE FirstInFirstOut'
  <2>1. preq[p] \in Requests /\ taken \in Seq(Requests) /\ m_workQueue \in Seq(Requests)
    BY <1>3 DEF AppendPush, Arguments, TypeOK
  <2>2. Append(taken \o m_workQueue, preq[p]) = taken \o Append(m_workQueue, preq[p])
    BY <2>1, PushKeepsOrder
  <2>3. QED
    BY <1>3, <2>2 DEF AppendPush, FirstInFirstOut, wvars
<1>4. ASSUME NEW p \in Producers, AppendUnlock(p) PROVE FirstInFirstOut'
  BY <1>4 DEF AppendUnlock, Unlock, PGoto, wvars, lvars, TypeOK, FirstInFirstOut
<1>5. ASSUME NEW p \in Producers, AppendPost(p) PROVE FirstInFirstOut'
  BY <1>5 DEF AppendPost, SemPost, PGoto, wvars, lvars, TypeOK, FirstInFirstOut
<1>6. ASSUME NEW w \in Workers, CreateWorker(w) PROVE FirstInFirstOut'
  BY <1>6 DEF CreateWorker, WGoto, pvars, TypeOK, FirstInFirstOut
<1>7. ASSUME NEW w \in Workers, RunLoop(w) PROVE FirstInFirstOut'
  BY <1>7 DEF RunLoop, WGoto, pvars, lvars, TypeOK, FirstInFirstOut
<1>8. ASSUME NEW w \in Workers, RunWait(w) PROVE FirstInFirstOut'
  BY <1>8 DEF RunWait, SemWait, WGoto, pvars, lvars, TypeOK, FirstInFirstOut
<1>9. ASSUME NEW w \in Workers, RunWaitInterrupted(w) PROVE FirstInFirstOut'
  BY <1>9 DEF RunWaitInterrupted, WGoto, pvars, lvars, TypeOK, FirstInFirstOut
<1>10. ASSUME NEW w \in Workers, RunLock(w) PROVE FirstInFirstOut'
  BY <1>10 DEF RunLock, Lock, WGoto, pvars, lvars, TypeOK, FirstInFirstOut
<1>11. ASSUME NEW w \in Workers, RunEmpty(w) PROVE FirstInFirstOut'
  BY <1>11 DEF RunEmpty, Unlock, WGoto, pvars, lvars, TypeOK, FirstInFirstOut
<1>12. ASSUME NEW w \in Workers, RunPop(w) PROVE FirstInFirstOut'
  <2>1. taken \in Seq(Requests) /\ m_workQueue \in Seq(Requests) /\ m_workQueue # <<>>
    BY <1>12 DEF RunPop, TypeOK
  <2>2. taken \o m_workQueue = Append(taken, Head(m_workQueue)) \o Tail(m_workQueue)
    BY <2>1, PopKeepsOrder
  <2>3. QED
    BY <1>12, <2>2 DEF RunPop, FirstInFirstOut, pvars
<1>13. ASSUME NEW w \in Workers, RunUnlock(w) PROVE FirstInFirstOut'
  BY <1>13 DEF RunUnlock, Unlock, WGoto, pvars, lvars, TypeOK, FirstInFirstOut
<1>14. ASSUME NEW w \in Workers, RunProcess(w) PROVE FirstInFirstOut'
  BY <1>14 DEF RunProcess, WGoto, pvars, lvars, TypeOK, FirstInFirstOut
<1>15. ASSUME NEW w \in Workers, RunUndefined(w) PROVE FirstInFirstOut'
  BY <1>15 DEF RunUndefined, WGoto, pvars, lvars, TypeOK, FirstInFirstOut
<1>16. CASE ConstructorFails
  BY <1>16 DEF ConstructorFails, pvars, wvars, TypeOK, FirstInFirstOut
<1>17. CASE DestructorStops
  BY <1>17 DEF DestructorStops, pvars, wvars, TypeOK, FirstInFirstOut
<1>18. CASE DestructorFrees
  BY <1>18 DEF DestructorFrees, pvars, wvars, TypeOK, FirstInFirstOut
<1>19. CASE UNCHANGED vars
  BY <1>19 DEF vars, pvars, wvars, lvars, TypeOK, FirstInFirstOut
<1>20. QED
  BY <1>1, <1>2, <1>3, <1>4, <1>5, <1>6, <1>7, <1>8, <1>9, <1>10, <1>11, <1>12, <1>13, <1>14, <1>15, <1>16, <1>17, <1>18, <1>19 DEF Next, Producer, Worker, Owner

\* Requests are popped in the order they were accepted, none twice, none skipped.
THEOREM OrderHolds == Spec => []FirstInFirstOut
<1>1. Init => FirstInFirstOut
  BY DEF Init, FirstInFirstOut
<1>2. QED
  BY <1>1, TypeCorrect, OrderStep, PTL DEF Spec

\* The queue is sound: the results so far, as the one invariant that the run checks.
THEOREM QueueSound == Spec => []QueueIsSound
<1>1. TypeOK /\ MutualExclusion /\ CapacityBound /\ FirstInFirstOut => QueueIsSound
  BY DEF QueueIsSound
<1>2. QED
  BY <1>1, TypeCorrect, MutualExclusionHolds, CapacityHolds, OrderHolds, PTL

-----------------------------------------------------------------------------
(* Tokens and requests *)

\* The producers about to post and the workers that have woken are finite sets, so
\* their sizes are numbers.
LEMMA TokenSets ==
  /\ IsFiniteSet(Posting) /\ Cardinality(Posting) \in Nat
  /\ IsFiniteSet(Woken) /\ Cardinality(Woken) \in Nat
<1>1. Posting \in SUBSET Producers /\ Woken \in SUBSET Workers
  BY DEF Posting, Woken
<1>2. IsFiniteSet(Posting) /\ IsFiniteSet(Woken)
  BY <1>1, FS_Subset, ThreadsAssumption
<1>3. QED
  BY <1>2, FS_CardinalityType

\* A thread that joins a set of threads makes it larger by one.
LEMMA EnterSet ==
  ASSUME NEW S, IsFiniteSet(S), NEW x, x \notin S
  PROVE  Cardinality(S \cup {x}) = Cardinality(S) + 1
  BY FS_AddElement

\* A thread that leaves a set of threads makes it smaller by one.
LEMMA LeaveSet ==
  ASSUME NEW S, IsFiniteSet(S), NEW x, x \in S
  PROVE  Cardinality(S \ {x}) = Cardinality(S) - 1
  BY FS_RemoveElement

\* A push adds a token-to-be with its request; a pop spends the token its worker woke
\* with; a failed wait only adds a worker that looks.
LEMMA TokenStep == TypeOK /\ Arguments /\ TokensMatchRequests /\ [Next]_vars => TokensMatchRequests'
<1> SUFFICES ASSUME TypeOK, Arguments, TokensMatchRequests, [Next]_vars PROVE TokensMatchRequests'
  OBVIOUS
<1>1. ASSUME NEW p \in Producers, AppendLock(p) PROVE TokensMatchRequests'
  <2>1. Posting' = Posting /\ Woken' = Woken
    BY <1>1 DEF AppendLock, Lock, PGoto, wvars, lvars, Posting, Woken, TypeOK
  <2>2. QED
    BY <1>1, <2>1 DEF AppendLock, Lock, PGoto, wvars, lvars, TokensMatchRequests, NoStrandedRequest, NoWastedWakeup, TypeOK
<1>2. ASSUME NEW p \in Producers, AppendRefuse(p) PROVE TokensMatchRequests'
  <2>1. Posting' = Posting /\ Woken' = Woken
    BY <1>2 DEF AppendRefuse, Unlock, PGoto, wvars, lvars, Posting, Woken, TypeOK
  <2>2. QED
    BY <1>2, <2>1 DEF AppendRefuse, Unlock, PGoto, wvars, lvars, TokensMatchRequests, NoStrandedRequest, NoWastedWakeup, TypeOK
<1>3. ASSUME NEW p \in Producers, AppendPush(p) PROVE TokensMatchRequests'
  <2>1. p \notin Posting /\ Posting' = Posting \cup {p} /\ Woken' = Woken
    BY <1>3 DEF AppendPush, PGoto, wvars, lvars, Posting, Woken, TypeOK
  <2>2. Cardinality(Posting') = Cardinality(Posting) + 1
    BY <2>1, TokenSets, EnterSet
  <2>3. QED
    BY <1>3, <2>1, <2>2, TokenSets DEF AppendPush, PGoto, wvars, lvars, TokensMatchRequests, NoStrandedRequest, NoWastedWakeup, TypeOK
<1>4. ASSUME NEW p \in Producers, AppendUnlock(p) PROVE TokensMatchRequests'
  <2>1. Posting' = Posting /\ Woken' = Woken
    BY <1>4 DEF AppendUnlock, Unlock, PGoto, wvars, lvars, Posting, Woken, TypeOK
  <2>2. QED
    BY <1>4, <2>1 DEF AppendUnlock, Unlock, PGoto, wvars, lvars, TokensMatchRequests, NoStrandedRequest, NoWastedWakeup, TypeOK
<1>5. ASSUME NEW p \in Producers, AppendPost(p) PROVE TokensMatchRequests'
  <2>1. p \in Posting /\ Posting' = Posting \ {p} /\ Woken' = Woken
    BY <1>5 DEF AppendPost, SemPost, PGoto, wvars, lvars, Posting, Woken, TypeOK
  <2>2. Cardinality(Posting') = Cardinality(Posting) - 1
    BY <2>1, TokenSets, LeaveSet
  <2>3. QED
    BY <1>5, <2>1, <2>2, TokenSets DEF AppendPost, SemPost, PGoto, wvars, lvars, TokensMatchRequests, NoStrandedRequest, NoWastedWakeup, TypeOK
<1>6. ASSUME NEW w \in Workers, CreateWorker(w) PROVE TokensMatchRequests'
  <2>1. Posting' = Posting /\ Woken' = Woken
    BY <1>6 DEF CreateWorker, WGoto, pvars, Posting, Woken, TypeOK
  <2>2. QED
    BY <1>6, <2>1 DEF CreateWorker, WGoto, pvars, TokensMatchRequests, NoStrandedRequest, NoWastedWakeup, TypeOK
<1>7. ASSUME NEW w \in Workers, RunLoop(w) PROVE TokensMatchRequests'
  <2>1. Posting' = Posting /\ Woken' = Woken
    BY <1>7 DEF RunLoop, WGoto, pvars, lvars, Posting, Woken, TypeOK
  <2>2. QED
    BY <1>7, <2>1 DEF RunLoop, WGoto, pvars, lvars, TokensMatchRequests, NoStrandedRequest, NoWastedWakeup, TypeOK
<1>8. ASSUME NEW w \in Workers, RunWait(w) PROVE TokensMatchRequests'
  <2>1. w \notin Woken /\ Woken' = Woken \cup {w} /\ Posting' = Posting
    BY <1>8 DEF RunWait, SemWait, WGoto, pvars, lvars, Posting, Woken, TypeOK
  <2>2. Cardinality(Woken') = Cardinality(Woken) + 1
    BY <2>1, TokenSets, EnterSet
  <2>3. QED
    BY <1>8, <2>1, <2>2, TokenSets DEF RunWait, SemWait, WGoto, pvars, lvars, Exists, TokensMatchRequests, NoStrandedRequest, NoWastedWakeup, TypeOK
<1>9. ASSUME NEW w \in Workers, RunWaitInterrupted(w) PROVE TokensMatchRequests'
  <2>1. w \notin Woken /\ Woken' = Woken \cup {w} /\ Posting' = Posting
    BY <1>9 DEF RunWaitInterrupted, WGoto, pvars, lvars, Posting, Woken, TypeOK
  <2>2. Cardinality(Woken') = Cardinality(Woken) + 1
    BY <2>1, TokenSets, EnterSet
  <2>3. QED
    BY <1>9, <2>1, <2>2, TokenSets DEF RunWaitInterrupted, WGoto, pvars, lvars, Exists, TokensMatchRequests, NoStrandedRequest, NoWastedWakeup, TypeOK
<1>10. ASSUME NEW w \in Workers, RunLock(w) PROVE TokensMatchRequests'
  <2>1. Posting' = Posting /\ Woken' = Woken
    BY <1>10 DEF RunLock, Lock, WGoto, pvars, lvars, Posting, Woken, TypeOK
  <2>2. QED
    BY <1>10, <2>1 DEF RunLock, Lock, WGoto, pvars, lvars, TokensMatchRequests, NoStrandedRequest, NoWastedWakeup, TypeOK
<1>11. ASSUME NEW w \in Workers, RunEmpty(w) PROVE TokensMatchRequests'
  <2>1. w \in Woken /\ Woken' = Woken \ {w} /\ Posting' = Posting
    BY <1>11 DEF RunEmpty, Unlock, WGoto, pvars, lvars, Posting, Woken, TypeOK
  <2>2. Cardinality(Woken') = Cardinality(Woken) - 1 /\ Cardinality(Woken') \in Nat
    BY <2>1, TokenSets, LeaveSet, FS_RemoveElement, FS_CardinalityType
  <2>3. Len(m_workQueue) = 0 /\ m_workQueue' = m_workQueue
    BY <1>11 DEF RunEmpty
  <2>4. ~NoWastedWakeup \/ interrupts # 0
    BY <1>11, <2>2, <2>3, TokenSets DEF RunEmpty, Exists, NoWastedWakeup, TypeOK
  <2>5. NoStrandedRequest'
    BY <1>11, <2>1, <2>2, <2>3, TokenSets DEF RunEmpty, NoStrandedRequest, TypeOK
  <2>6. QED
    BY <1>11, <2>4, <2>5 DEF RunEmpty, pvars, TokensMatchRequests, NoWastedWakeup
<1>12. ASSUME NEW w \in Workers, RunPop(w) PROVE TokensMatchRequests'
  <2>1. w \in Woken /\ Woken' = Woken \ {w} /\ Posting' = Posting
    BY <1>12 DEF RunPop, WGoto, pvars, lvars, Posting, Woken, TypeOK
  <2>2. Cardinality(Woken') = Cardinality(Woken) - 1
    BY <2>1, TokenSets, LeaveSet
  <2>3. QED
    BY <1>12, <2>1, <2>2, TokenSets DEF RunPop, WGoto, pvars, lvars, Exists, TokensMatchRequests, NoStrandedRequest, NoWastedWakeup, TypeOK
<1>13. ASSUME NEW w \in Workers, RunUnlock(w) PROVE TokensMatchRequests'
  <2>1. Posting' = Posting /\ Woken' = Woken
    BY <1>13 DEF RunUnlock, Unlock, WGoto, pvars, lvars, Posting, Woken, TypeOK
  <2>2. QED
    BY <1>13, <2>1 DEF RunUnlock, Unlock, WGoto, pvars, lvars, TokensMatchRequests, NoStrandedRequest, NoWastedWakeup, TypeOK
<1>14. ASSUME NEW w \in Workers, RunProcess(w) PROVE TokensMatchRequests'
  <2>1. Posting' = Posting /\ Woken' = Woken
    BY <1>14 DEF RunProcess, WGoto, pvars, lvars, Posting, Woken, TypeOK
  <2>2. QED
    BY <1>14, <2>1 DEF RunProcess, WGoto, pvars, lvars, TokensMatchRequests, NoStrandedRequest, NoWastedWakeup, TypeOK
<1>15. ASSUME NEW w \in Workers, RunUndefined(w) PROVE TokensMatchRequests'
  BY <1>15 DEF RunUndefined, Exists, lvars, TokensMatchRequests, NoStrandedRequest, NoWastedWakeup
<1>16. CASE ConstructorFails
  BY <1>16 DEF ConstructorFails, TokensMatchRequests, NoStrandedRequest, NoWastedWakeup
<1>17. CASE DestructorStops
  <2>1. Posting' = Posting /\ Woken' = Woken
    BY <1>17 DEF DestructorStops, pvars, wvars, Posting, Woken, TypeOK
  <2>2. QED
    BY <1>17, <2>1 DEF DestructorStops, pvars, wvars, TokensMatchRequests, NoStrandedRequest, NoWastedWakeup, TypeOK
<1>18. CASE DestructorFrees
  BY <1>18 DEF DestructorFrees, TokensMatchRequests, NoStrandedRequest, NoWastedWakeup
<1>19. CASE UNCHANGED vars
  BY <1>19 DEF vars, pvars, wvars, lvars, TokensMatchRequests, NoStrandedRequest, NoWastedWakeup, Posting, Woken
<1>20. QED
  BY <1>1, <1>2, <1>3, <1>4, <1>5, <1>6, <1>7, <1>8, <1>9, <1>10, <1>11, <1>12, <1>13, <1>14, <1>15, <1>16, <1>17, <1>18, <1>19 DEF Next, Producer, Worker, Owner

\* The constructor starts with no request and no token.
LEMMA TokenInit == Init => TokensMatchRequests
<1> SUFFICES ASSUME Init PROVE TokensMatchRequests
  OBVIOUS
<1>1. Posting = {} /\ Woken = {}
  BY DEF Init, Posting, Woken
<1>2. Cardinality(Posting) = 0 /\ Cardinality(Woken) = 0
  BY <1>1, FS_EmptySet
<1>3. QED
  BY <1>2 DEF Init, TokensMatchRequests, NoStrandedRequest, NoWastedWakeup

\* No request waits without a token that will wake a worker for it, and without failed waits
\* tokens and requests match one to one.
THEOREM NoRequestStranded == Spec => []TokensMatchRequests
<1>2. QED
  BY TokenInit, TypeCorrect, TokenStep, PTL DEF Spec

-----------------------------------------------------------------------------
(* Stopping *)

\* The workers that have read m_stop and not popped since.
Committed == {w \in Workers : wpc[w] \in {"wait", "lock", "check"}}

\* The inductive form: after the stop only committed workers can still pop.
StopBudget ==
  /\ life \in {"constructing", "ready"} => ~m_stop
  /\ m_stop => Len(taken) + Cardinality(Committed) <= takenAtStop + Cardinality(Workers)

\* The workers that have read m_stop before it was set are a subset of all workers.
LEMMA CommittedSet ==
  /\ IsFiniteSet(Committed) /\ Cardinality(Committed) \in Nat
  /\ Cardinality(Committed) <= Cardinality(Workers) /\ Cardinality(Workers) \in Nat
<1>1. Committed \in SUBSET Workers
  BY DEF Committed
<1>2. IsFiniteSet(Committed) /\ Cardinality(Committed) <= Cardinality(Workers)
  BY <1>1, FS_Subset, ThreadsAssumption
<1>3. QED
  BY <1>2, FS_CardinalityType, ThreadsAssumption

\* The stop opens a budget of one pop per worker, and a worker that reads m_stop
\* afterwards returns.
LEMMA StopStep == TypeOK /\ StopBudget /\ [Next]_vars => StopBudget'
<1> SUFFICES ASSUME TypeOK, StopBudget, [Next]_vars PROVE StopBudget'
  OBVIOUS
<1>1. ASSUME NEW p \in Producers, AppendLock(p) PROVE StopBudget'
  <2>1. Committed' = Committed
    BY <1>1 DEF AppendLock, wvars, Committed
  <2>2. QED
    BY <1>1, <2>1 DEF AppendLock, wvars, lvars, StopBudget
<1>2. ASSUME NEW p \in Producers, AppendRefuse(p) PROVE StopBudget'
  <2>1. Committed' = Committed
    BY <1>2 DEF AppendRefuse, wvars, Committed
  <2>2. QED
    BY <1>2, <2>1 DEF AppendRefuse, wvars, lvars, StopBudget
<1>3. ASSUME NEW p \in Producers, AppendPush(p) PROVE StopBudget'
  <2>1. Committed' = Committed
    BY <1>3 DEF AppendPush, wvars, Committed
  <2>2. QED
    BY <1>3, <2>1 DEF AppendPush, wvars, lvars, StopBudget
<1>4. ASSUME NEW p \in Producers, AppendUnlock(p) PROVE StopBudget'
  <2>1. Committed' = Committed
    BY <1>4 DEF AppendUnlock, wvars, Committed
  <2>2. QED
    BY <1>4, <2>1 DEF AppendUnlock, wvars, lvars, StopBudget
<1>5. ASSUME NEW p \in Producers, AppendPost(p) PROVE StopBudget'
  <2>1. Committed' = Committed
    BY <1>5 DEF AppendPost, wvars, Committed
  <2>2. QED
    BY <1>5, <2>1 DEF AppendPost, wvars, lvars, StopBudget
<1>6. ASSUME NEW w \in Workers, CreateWorker(w) PROVE StopBudget'
  BY <1>6 DEF CreateWorker, StopBudget, TypeOK
<1>7. ASSUME NEW w \in Workers, RunLoop(w) PROVE StopBudget'
  <2>1. CASE m_stop
    <3>1. Committed' = Committed
      BY <1>7, <2>1 DEF RunLoop, WGoto, Committed, TypeOK
    <3>2. QED
      BY <1>7, <3>1 DEF RunLoop, lvars, StopBudget
  <2>2. CASE ~m_stop
    BY <1>7, <2>2 DEF RunLoop, lvars, StopBudget
  <2>3. QED
    BY <2>1, <2>2
<1>8. ASSUME NEW w \in Workers, RunWait(w) PROVE StopBudget'
  <2>1. Committed' = Committed
    BY <1>8 DEF RunWait, SemWait, WGoto, pvars, lvars, Committed, TypeOK
  <2>2. QED
    BY <1>8, <2>1 DEF RunWait, SemWait, WGoto, pvars, lvars, StopBudget, TypeOK
<1>9. ASSUME NEW w \in Workers, RunWaitInterrupted(w) PROVE StopBudget'
  <2>1. Committed' = Committed
    BY <1>9 DEF RunWaitInterrupted, WGoto, pvars, lvars, Committed, TypeOK
  <2>2. QED
    BY <1>9, <2>1 DEF RunWaitInterrupted, WGoto, pvars, lvars, StopBudget, TypeOK
<1>10. ASSUME NEW w \in Workers, RunLock(w) PROVE StopBudget'
  <2>1. Committed' = Committed
    BY <1>10 DEF RunLock, Lock, WGoto, pvars, lvars, Committed, TypeOK
  <2>2. QED
    BY <1>10, <2>1 DEF RunLock, Lock, WGoto, pvars, lvars, StopBudget, TypeOK
<1>11. ASSUME NEW w \in Workers, RunEmpty(w) PROVE StopBudget'
  <2>1. w \in Committed /\ Committed' = Committed \ {w}
    BY <1>11 DEF RunEmpty, Unlock, WGoto, pvars, lvars, Committed, TypeOK
  <2>2. Cardinality(Committed') = Cardinality(Committed) - 1
    BY <2>1, CommittedSet, LeaveSet
  <2>3. QED
    BY <1>11, <2>2, CommittedSet DEF RunEmpty, Unlock, WGoto, pvars, lvars, StopBudget, TypeOK
<1>12. ASSUME NEW w \in Workers, RunPop(w) PROVE StopBudget'
  <2>1. w \in Committed /\ Committed' = Committed \ {w}
    BY <1>12 DEF RunPop, WGoto, pvars, lvars, Committed, TypeOK
  <2>2. Cardinality(Committed') = Cardinality(Committed) - 1
    BY <2>1, CommittedSet, LeaveSet
  <2>3. QED
    BY <1>12, <2>2, CommittedSet DEF RunPop, WGoto, pvars, lvars, StopBudget, TypeOK
<1>13. ASSUME NEW w \in Workers, RunUnlock(w) PROVE StopBudget'
  <2>1. Committed' = Committed
    BY <1>13 DEF RunUnlock, Unlock, WGoto, pvars, lvars, Committed, TypeOK
  <2>2. QED
    BY <1>13, <2>1 DEF RunUnlock, Unlock, WGoto, pvars, lvars, StopBudget, TypeOK
<1>14. ASSUME NEW w \in Workers, RunProcess(w) PROVE StopBudget'
  <2>1. Committed' = Committed
    BY <1>14 DEF RunProcess, WGoto, pvars, lvars, Committed, TypeOK
  <2>2. QED
    BY <1>14, <2>1 DEF RunProcess, WGoto, pvars, lvars, StopBudget, TypeOK
<1>15. ASSUME NEW w \in Workers, RunUndefined(w) PROVE StopBudget'
  <2>1. Committed' \in SUBSET Committed
    BY <1>15 DEF RunUndefined, WGoto, Committed, TypeOK
  <2>2. Cardinality(Committed') <= Cardinality(Committed) /\ Cardinality(Committed') \in Nat
    BY <2>1, CommittedSet, FS_Subset, FS_CardinalityType
  <2>3. QED
    BY <1>15, <2>2, CommittedSet DEF RunUndefined, lvars, StopBudget, TypeOK
<1>16. CASE ConstructorFails
  BY <1>16 DEF ConstructorFails, StopBudget
<1>17. CASE DestructorStops
  <2>1. Committed' = Committed
    BY <1>17 DEF DestructorStops, wvars, Committed
  <2>2. QED
    BY <1>17, <2>1, CommittedSet DEF DestructorStops, wvars, StopBudget, TypeOK
<1>18. CASE DestructorFrees
  <2>1. Committed' = Committed
    BY <1>18 DEF DestructorFrees, pvars, wvars, Committed, TypeOK
  <2>2. QED
    BY <1>18, <2>1 DEF DestructorFrees, pvars, wvars, StopBudget, TypeOK
<1>19. CASE UNCHANGED vars
  BY <1>19 DEF vars, pvars, wvars, lvars, StopBudget, Committed
<1>20. QED
  BY <1>1, <1>2, <1>3, <1>4, <1>5, <1>6, <1>7, <1>8, <1>9, <1>10, <1>11, <1>12, <1>13, <1>14, <1>15, <1>16, <1>17, <1>18, <1>19 DEF Next, Producer, Worker, Owner

\* After the stop the workers together pop at most one request each.
THEOREM StopHolds == Spec => []StopIsPrompt
<1>1. Init => StopBudget
  BY DEF Init, StopBudget
<1>2. TypeOK /\ StopBudget => StopIsPrompt
  BY CommittedSet DEF StopBudget, StopIsPrompt, TypeOK
<1>3. QED
  BY <1>1, <1>2, TypeCorrect, StopStep, PTL DEF Spec

-----------------------------------------------------------------------------
(* The pool implements the abstract work queue *)

\* append is Put or Refuse, a pop is Get, the end of process() is Done; every other
\* step of the pool leaves the abstract queue alone.
LEMMA RefinementStep == TypeOK /\ Arguments /\ [Next]_vars => [WQ!QueueNext]_(WQ!qvars)
<1> SUFFICES ASSUME TypeOK, Arguments, [Next]_vars PROVE [WQ!QueueNext]_(WQ!qvars)
  OBVIOUS
<1>1. ASSUME NEW p \in Producers, AppendLock(p) PROVE [WQ!QueueNext]_(WQ!qvars)
  <2>1. Serving' = Serving
    BY <1>1 DEF AppendLock, Lock, PGoto, wvars, Serving, TypeOK
  <2>2. QED
    BY <1>1, <2>1 DEF AppendLock, Lock, PGoto, wvars, WQ!qvars
<1>2. ASSUME NEW p \in Producers, AppendRefuse(p) PROVE [WQ!QueueNext]_(WQ!qvars)
  <2>1. Serving' = Serving
    BY <1>2 DEF AppendRefuse, wvars, Serving
  <2>2. WQ!Refuse
    BY <1>2, <2>1, LimitsAssumption DEF AppendRefuse, IsFull, WQ!Refuse, WQ!HasRoom, TypeOK
  <2>3. QED
    BY <2>2 DEF WQ!QueueNext
<1>3. ASSUME NEW p \in Producers, AppendPush(p) PROVE [WQ!QueueNext]_(WQ!qvars)
  <2>1. Serving' = Serving
    BY <1>3 DEF AppendPush, wvars, Serving
  <2>2. preq[p] \in Requests
    BY <1>3 DEF AppendPush, Arguments
  <2>3. WQ!Put(preq[p])
    BY <1>3, <2>1, LimitsAssumption DEF AppendPush, IsFull, WQ!Put, WQ!HasRoom, TypeOK
  <2>4. QED
    BY <2>2, <2>3 DEF WQ!QueueNext
<1>4. ASSUME NEW p \in Producers, AppendUnlock(p) PROVE [WQ!QueueNext]_(WQ!qvars)
  <2>1. Serving' = Serving
    BY <1>4 DEF AppendUnlock, Unlock, PGoto, wvars, Serving, TypeOK
  <2>2. QED
    BY <1>4, <2>1 DEF AppendUnlock, Unlock, PGoto, wvars, WQ!qvars
<1>5. ASSUME NEW p \in Producers, AppendPost(p) PROVE [WQ!QueueNext]_(WQ!qvars)
  <2>1. Serving' = Serving
    BY <1>5 DEF AppendPost, SemPost, PGoto, wvars, Serving, TypeOK
  <2>2. QED
    BY <1>5, <2>1 DEF AppendPost, SemPost, PGoto, wvars, WQ!qvars
<1>6. ASSUME NEW w \in Workers, CreateWorker(w) PROVE [WQ!QueueNext]_(WQ!qvars)
  <2>1. Serving' = Serving
    BY <1>6 DEF CreateWorker, WGoto, pvars, Serving, TypeOK
  <2>2. QED
    BY <1>6, <2>1 DEF CreateWorker, WGoto, pvars, WQ!qvars
<1>7. ASSUME NEW w \in Workers, RunLoop(w) PROVE [WQ!QueueNext]_(WQ!qvars)
  <2>1. Serving' = Serving
    BY <1>7 DEF RunLoop, WGoto, pvars, lvars, Serving, TypeOK
  <2>2. QED
    BY <1>7, <2>1 DEF RunLoop, WGoto, pvars, lvars, WQ!qvars
<1>8. ASSUME NEW w \in Workers, RunWait(w) PROVE [WQ!QueueNext]_(WQ!qvars)
  <2>1. Serving' = Serving
    BY <1>8 DEF RunWait, SemWait, WGoto, pvars, lvars, Serving, TypeOK
  <2>2. QED
    BY <1>8, <2>1 DEF RunWait, SemWait, WGoto, pvars, lvars, WQ!qvars
<1>9. ASSUME NEW w \in Workers, RunWaitInterrupted(w) PROVE [WQ!QueueNext]_(WQ!qvars)
  <2>1. Serving' = Serving
    BY <1>9 DEF RunWaitInterrupted, WGoto, pvars, lvars, Serving, TypeOK
  <2>2. QED
    BY <1>9, <2>1 DEF RunWaitInterrupted, WGoto, pvars, lvars, WQ!qvars
<1>10. ASSUME NEW w \in Workers, RunLock(w) PROVE [WQ!QueueNext]_(WQ!qvars)
  <2>1. Serving' = Serving
    BY <1>10 DEF RunLock, Lock, WGoto, pvars, lvars, Serving, TypeOK
  <2>2. QED
    BY <1>10, <2>1 DEF RunLock, Lock, WGoto, pvars, lvars, WQ!qvars
<1>11. ASSUME NEW w \in Workers, RunEmpty(w) PROVE [WQ!QueueNext]_(WQ!qvars)
  <2>1. Serving' = Serving
    BY <1>11 DEF RunEmpty, Unlock, WGoto, pvars, lvars, Serving, TypeOK
  <2>2. QED
    BY <1>11, <2>1 DEF RunEmpty, Unlock, WGoto, pvars, lvars, WQ!qvars
<1>12. ASSUME NEW w \in Workers, RunPop(w) PROVE [WQ!QueueNext]_(WQ!qvars)
  <2>1. Serving[w] = <<>> /\ Serving' = [Serving EXCEPT ![w] = <<Head(m_workQueue)>>]
    BY <1>12 DEF RunPop, WGoto, Serving, TypeOK
  <2>2. WQ!Get(w)
    BY <1>12, <2>1 DEF RunPop, pvars, WQ!Get
  <2>3. QED
    BY <2>2 DEF WQ!QueueNext
<1>13. ASSUME NEW w \in Workers, RunUnlock(w) PROVE [WQ!QueueNext]_(WQ!qvars)
  <2>1. CASE wreq[w] = Null
    <3>1. Serving[w] # <<>> /\ Serving' = [Serving EXCEPT ![w] = <<>>]
      BY <1>13, <2>1 DEF RunUnlock, WGoto, Serving, TypeOK
    <3>2. WQ!Done(w)
      BY <1>13, <3>1 DEF RunUnlock, pvars, WQ!Done
    <3>3. QED
      BY <3>2 DEF WQ!QueueNext
  <2>2. CASE wreq[w] # Null
    <3>1. Serving' = Serving
      BY <1>13, <2>2 DEF RunUnlock, WGoto, Serving, TypeOK
    <3>2. QED
      BY <1>13, <3>1 DEF RunUnlock, pvars, WQ!qvars
  <2>3. QED
    BY <2>1, <2>2
<1>14. ASSUME NEW w \in Workers, RunProcess(w) PROVE [WQ!QueueNext]_(WQ!qvars)
  <2>1. Serving[w] # <<>> /\ Serving' = [Serving EXCEPT ![w] = <<>>]
    BY <1>14 DEF RunProcess, WGoto, Serving, TypeOK
  <2>2. WQ!Done(w)
    BY <1>14, <2>1 DEF RunProcess, pvars, WQ!Done
  <2>3. QED
    BY <2>2 DEF WQ!QueueNext
<1>15. ASSUME NEW w \in Workers, RunUndefined(w) PROVE [WQ!QueueNext]_(WQ!qvars)
  <2>1. CASE wpc[w] = "unlock"
    <3>1. Serving[w] # <<>> /\ Serving' = [Serving EXCEPT ![w] = <<>>]
      BY <1>15, <2>1 DEF RunUndefined, WGoto, Serving, TypeOK
    <3>2. WQ!Done(w)
      BY <1>15, <3>1 DEF RunUndefined, pvars, WQ!Done
    <3>3. QED
      BY <3>2 DEF WQ!QueueNext
  <2>2. CASE wpc[w] # "unlock"
    <3>1. Serving' = Serving
      BY <1>15, <2>2 DEF RunUndefined, WGoto, Serving, TypeOK
    <3>2. QED
      BY <1>15, <3>1 DEF RunUndefined, pvars, WQ!qvars
  <2>3. QED
    BY <2>1, <2>2
<1>16. CASE ConstructorFails
  <2>1. Serving' = Serving
    BY <1>16 DEF ConstructorFails, pvars, wvars, Serving, TypeOK
  <2>2. QED
    BY <1>16, <2>1 DEF ConstructorFails, pvars, wvars, WQ!qvars
<1>17. CASE DestructorStops
  <2>1. Serving' = Serving
    BY <1>17 DEF DestructorStops, pvars, wvars, Serving, TypeOK
  <2>2. QED
    BY <1>17, <2>1 DEF DestructorStops, pvars, wvars, WQ!qvars
<1>18. CASE DestructorFrees
  <2>1. Serving' = Serving
    BY <1>18 DEF DestructorFrees, pvars, wvars, Serving, TypeOK
  <2>2. QED
    BY <1>18, <2>1 DEF DestructorFrees, pvars, wvars, WQ!qvars
<1>19. CASE UNCHANGED vars
  BY <1>19 DEF vars, pvars, wvars, lvars, Serving, WQ!qvars
<1>20. QED
  BY <1>1, <1>2, <1>3, <1>4, <1>5, <1>6, <1>7, <1>8, <1>9, <1>10, <1>11, <1>12, <1>13, <1>14, <1>15, <1>16, <1>17, <1>18, <1>19 DEF Next, Producer, Worker, Owner

\* Thread_pool is a FIFO work queue of capacity m_max_requests + 1.
THEOREM PoolImplementsWorkQueue == Spec => ImplementsWorkQueue
<1>1. Init => WQ!QueueInit
  BY DEF Init, WQ!QueueInit, Serving
<1>2. QED
  BY <1>1, TypeCorrect, RefinementStep, PTL DEF Spec, ImplementsWorkQueue, WQ!QueueSpec
=============================================================================
