----------------------------- MODULE LocksProofs ----------------------------
(***************************************************************************)
(* Proofs about the lock examples: the ticket programs, for any finite set *)
(* of windows and any number of tickets; rwlock.c, for any writers,        *)
(* readers and number of increments; deadLock1.c; and the examples about   *)
(* the life of one thread.                                                 *)
(***************************************************************************)
EXTENDS MC_Locks, TLAPS

-----------------------------------------------------------------------------
(* The ticket programs *)

Inside == {"retest", "print", "load", "store", "unlock"}

\* Only the owner of the mutex is between lock and unlock.
Owned == \A w \in Windows : pc[w] \in Inside => mutex = w

\* The counter is what has not been printed, except between printing and ticket--.
Selling(w) == pc[w] \in {"load", "store"}
Counted ==
  /\ (\A w \in Windows : ~Selling(w)) => ticket = Total - Len(printed)
  /\ \A w \in Windows : Selling(w) => ticket = Total - Len(printed) + 1
  /\ \A w \in Windows : pc[w] = "store" => loaded[w] = ticket

InOrder == \A n \in 1..Len(printed) : printed[n] = Total - n + 1

\* A window sells what is there, closes when nothing is, and has the mutex only inside.
TicketsLeft ==
  /\ ticket >= 0
  /\ \A w \in Windows : pc[w] \in {"print", "load", "store"} => ticket > 0
  /\ \A w \in Windows : pc[w] = "returned" => ticket = 0
  /\ \A w \in Windows : mutex = w => pc[w] \in Inside

\* EachTicketOnce is not inductive: it mentions neither the counter nor the mutex.
MutexInv == seller = "mutex" => Owned /\ Counted /\ InOrder /\ TicketsLeft
TInv == TicketsTypeOK /\ MutexInv

\* Initially the mutex is free and the counter is full.
LEMMA TicketsStart == Init => TInv
BY TicketsAssumption
DEF Init, TInv, TicketsTypeOK, MutexInv, Owned, Counted, Selling, Inside, InOrder, TicketsLeft

\* Every step of every window keeps the types.
LEMMA TicketsTypeStep == TicketsTypeOK /\ [TicketsNext]_tvars => TicketsTypeOK'
<1> SUFFICES ASSUME TicketsTypeOK, [TicketsNext]_tvars PROVE TicketsTypeOK'
  OBVIOUS
<1> USE DEF TicketsTypeOK, Goto
<1>1. ASSUME NEW w \in Windows, Test(w) PROVE TicketsTypeOK'
  BY <1>1 DEF Test
<1>2. ASSUME NEW w \in Windows, Lock(w) PROVE TicketsTypeOK'
  BY <1>2 DEF Lock
<1>3. ASSUME NEW w \in Windows, Retest(w) PROVE TicketsTypeOK'
  BY <1>3 DEF Retest
<1>4. ASSUME NEW w \in Windows, PrintTicket(w) PROVE TicketsTypeOK'
  BY <1>4 DEF PrintTicket
<1>5. ASSUME NEW w \in Windows, Load(w) PROVE TicketsTypeOK'
  BY <1>5 DEF Load
<1>6. ASSUME NEW w \in Windows, Store(w) PROVE TicketsTypeOK'
  BY <1>6 DEF Store
<1>7. ASSUME NEW w \in Windows, Unlock(w) PROVE TicketsTypeOK'
  BY <1>7 DEF Unlock
<1>8. CASE UNCHANGED tvars
  BY <1>8 DEF tvars
<1> QED
  BY <1>1, <1>2, <1>3, <1>4, <1>5, <1>6, <1>7, <1>8 DEF TicketsNext, Window

\* In mutex.c every step keeps the mutex owned and the counter in step with the tickets.
LEMMA MutexStep ==
  ASSUME TInv, [TicketsNext]_tvars, seller = "mutex"
  PROVE  (Owned /\ Counted /\ InOrder)'
<1> USE TicketsAssumption
<1>0. TicketsTypeOK /\ Owned /\ Counted /\ InOrder
  BY DEF TInv, MutexInv
<1> USE <1>0 DEF TicketsTypeOK, Owned, Counted, Selling, Inside, InOrder, Goto
<1>1. ASSUME NEW w \in Windows, Test(w) PROVE (Owned /\ Counted /\ InOrder)'
  BY <1>1 DEF Test
<1>2. ASSUME NEW w \in Windows, Lock(w) PROVE (Owned /\ Counted /\ InOrder)'
  BY <1>2 DEF Lock
<1>3. ASSUME NEW w \in Windows, Retest(w) PROVE (Owned /\ Counted /\ InOrder)'
  BY <1>3 DEF Retest
<1>4. ASSUME NEW w \in Windows, PrintTicket(w) PROVE (Owned /\ Counted /\ InOrder)'
  <2>1. mutex = w /\ \A v \in Windows : ~Selling(v)
    BY <1>4 DEF PrintTicket
  <2>2. Len(printed') = Len(printed) + 1 /\ Len(printed) \in Nat
    BY <1>4 DEF PrintTicket
  <2>3. printed'[Len(printed) + 1] = Total - Len(printed)
    BY <1>4, <2>1 DEF PrintTicket
  <2>4. \A n \in 1..Len(printed) : printed'[n] = printed[n]
    BY <1>4 DEF PrintTicket
  <2>5. ASSUME NEW n \in 1..Len(printed') PROVE printed'[n] = Total - n + 1
    <3>1. CASE n = Len(printed) + 1
      BY <3>1, <2>2, <2>3
    <3>2. CASE n \in 1..Len(printed)
      BY <3>2, <2>4
    <3> QED
      BY <3>1, <3>2, <2>2
  <2>6. Owned' /\ Counted'
    BY <1>4, <2>1, <2>2 DEF PrintTicket
  <2> QED
    BY <2>5, <2>6
<1>5. ASSUME NEW w \in Windows, Load(w) PROVE (Owned /\ Counted /\ InOrder)'
  BY <1>5 DEF Load
<1>6. ASSUME NEW w \in Windows, Store(w) PROVE (Owned /\ Counted /\ InOrder)'
  <2>1. \A v \in Windows \ {w} : ~Selling(v)
    BY <1>6 DEF Store
  <2>2. ticket' = Total - Len(printed)
    BY <1>6 DEF Store
  <2> QED
    BY <1>6, <2>1, <2>2 DEF Store
<1>7. ASSUME NEW w \in Windows, Unlock(w) PROVE (Owned /\ Counted /\ InOrder)'
  BY <1>7 DEF Unlock
<1>8. CASE UNCHANGED tvars
  BY <1>8 DEF tvars
<1> QED
  BY <1>1, <1>2, <1>3, <1>4, <1>5, <1>6, <1>7, <1>8 DEF TicketsNext, Window

\* In mutex.c a window that sells has seen a ticket under the mutex, and nobody has taken it since.
LEMMA TicketsLeftStep ==
  ASSUME TInv, [TicketsNext]_tvars, seller = "mutex"
  PROVE  TicketsLeft'
<1> USE TicketsAssumption
<1>0. TicketsTypeOK /\ Owned /\ Counted /\ TicketsLeft
  BY DEF TInv, MutexInv
<1> USE <1>0 DEF TicketsTypeOK, Owned, TicketsLeft, Inside, Goto
<1>1. ASSUME NEW w \in Windows, Test(w) PROVE TicketsLeft'
  BY <1>1 DEF Test, Last
<1>2. ASSUME NEW w \in Windows, Lock(w) PROVE TicketsLeft'
  BY <1>2 DEF Lock
<1>3. ASSUME NEW w \in Windows, Retest(w) PROVE TicketsLeft'
  BY <1>3 DEF Retest
<1>4. ASSUME NEW w \in Windows, PrintTicket(w) PROVE TicketsLeft'
  BY <1>4 DEF PrintTicket
<1>5. ASSUME NEW w \in Windows, Load(w) PROVE TicketsLeft'
  BY <1>5 DEF Load
<1>6. ASSUME NEW w \in Windows, Store(w) PROVE TicketsLeft'
  <2>1. ticket' = ticket - 1 /\ ticket > 0
    BY <1>6 DEF Store, Counted
  <2>2. \A v \in Windows \ {w} : pc[v] \notin Inside /\ pc[v] # "returned"
    BY <1>6 DEF Store
  <2> QED
    BY <1>6, <2>1, <2>2 DEF Store
<1>7. ASSUME NEW w \in Windows, Unlock(w) PROVE TicketsLeft'
  BY <1>7 DEF Unlock
<1>8. CASE UNCHANGED tvars
  BY <1>8 DEF tvars
<1> QED
  BY <1>1, <1>2, <1>3, <1>4, <1>5, <1>6, <1>7, <1>8 DEF TicketsNext, Window

\* The program that runs does not change.
LEMMA SellerStays == [TicketsNext]_tvars => seller' = seller
BY DEF TicketsNext, Window, Test, Lock, Retest, PrintTicket, Load, Store, Unlock, tvars

\* Every step of every window keeps the strengthened invariant.
LEMMA TicketsStep == TInv /\ [TicketsNext]_tvars => TInv'
BY TicketsTypeStep, MutexStep, TicketsLeftStep, SellerStays DEF TInv, MutexInv

-----------------------------------------------------------------------------
(* rwlock.c *)

RwTypeOK ==
  /\ writer \in Writers \cup {NoWriter} /\ readers \subseteq Readers
  /\ num \in Nat /\ writes \in 0..MaxWrites
  /\ rpc \in [Writers \cup Readers -> {"lock", "load", "store", "unlock"}]
  /\ operand \in [Writers -> Nat]

\* A writer that is past its lock is the one that holds it, and no reader does.
WriterIsAlone ==
  /\ \A w \in Writers : rpc[w] # "lock" <=> writer = w
  /\ \A r \in Readers : rpc[r] # "lock" => rpc[r] = "unlock" /\ r \in readers /\ writer = NoWriter
  /\ readers # {} => writer = NoWriter

\* What a writer has loaded is still the value of num when it stores.
OperandIsFresh ==
  \A w \in Writers :
    /\ rpc[w] = "store" => operand[w] = num
    /\ rpc[w] \in {"load", "store"} => writes < MaxWrites

RwInv == RwTypeOK /\ WriterIsAlone /\ OperandIsFresh /\ Rw!NoLostIncrement

\* Initially nobody holds the lock.
LEMMA RwStarts == Rw!Init => RwInv
BY LocksAssumption
DEF Rw!Init, RwInv, RwTypeOK, WriterIsAlone, OperandIsFresh, Rw!NoLostIncrement

\* Every step of a writer or a reader keeps the writer alone and its operand fresh.
LEMMA RwStep == RwInv /\ [Rw!Next]_rwVars => RwInv'
<1> SUFFICES ASSUME RwInv, [Rw!Next]_rwVars PROVE RwInv'
  OBVIOUS
<1> USE LocksAssumption
<1> USE DEF RwInv, RwTypeOK, WriterIsAlone, OperandIsFresh, Rw!NoLostIncrement, Rw!RGoto
<1>1. ASSUME NEW w \in Writers, Rw!WrLock(w) PROVE RwInv'
  BY <1>1 DEF Rw!WrLock
<1>2. ASSUME NEW w \in Writers, Rw!Load(w) PROVE RwInv'
  BY <1>2 DEF Rw!Load
<1>3. ASSUME NEW w \in Writers, Rw!Store(w) PROVE RwInv'
  <2>1. writer = w /\ operand[w] = num /\ writes < MaxWrites
    BY <1>3 DEF Rw!Store
  <2>2. \A v \in Writers \ {w} : rpc[v] = "lock" /\ rpc'[v] = "lock"
    BY <1>3, <2>1 DEF Rw!Store
  <2>3. num' = num + 1 /\ writes' = writes + 1 /\ rpc'[w] = "unlock"
    BY <1>3, <2>1 DEF Rw!Store
  <2> QED
    BY <1>3, <2>1, <2>2, <2>3 DEF Rw!Store
<1>4. ASSUME NEW w \in Writers, Rw!Unlock(w) PROVE RwInv'
  BY <1>4 DEF Rw!Unlock
<1>5. ASSUME NEW r \in Readers, Rw!RdLock(r) PROVE RwInv'
  BY <1>5 DEF Rw!RdLock
<1>6. ASSUME NEW r \in Readers, Rw!Unlock(r) PROVE RwInv'
  BY <1>6 DEF Rw!Unlock
<1>7. CASE UNCHANGED rwVars
  BY <1>7 DEF rwVars
<1> QED
  BY <1>1, <1>2, <1>3, <1>4, <1>5, <1>6, <1>7 DEF Rw!Next

-----------------------------------------------------------------------------
(* deadLock1.c *)

\* Who owns which mutex, by the place of the owner in its function.
OrderInv ==
  /\ owner \in [1..2 -> Order!Workers \cup {"nobody"}]
  /\ lpc \in [Order!Workers -> {"first", "second", "work", "last", "done"}]
  /\ mpc \in {"join1", "join2", "returned"}
  /\ mpc # "join1" => lpc["workB"] = "done"
  /\ \A t \in Order!Workers :
       /\ owner[Order!First(t)] = t <=> lpc[t] \in {"second", "work", "last"}
       /\ owner[Order!Second(t)] = t <=> lpc[t] = "work"

\* Initially both mutexes are free.
LEMMA OrderStarts == Order!Init => OrderInv
BY DEF Order!Init, OrderInv, Order!Workers, Order!First, Order!Second

\* Every step of a worker and of main keeps the mutexes where the workers are.
LEMMA OrderStep == OrderInv /\ [Order!Next]_orderVars => OrderInv'
<1> SUFFICES ASSUME OrderInv, [Order!Next]_orderVars PROVE OrderInv'
  OBVIOUS
<1> USE DEF OrderInv, Order!Workers, Order!First, Order!Second
<1>1. ASSUME NEW t \in Order!Workers, Order!LockFirst(t) PROVE OrderInv'
  BY <1>1 DEF Order!LockFirst, Order!Acquire
<1>2. ASSUME NEW t \in Order!Workers, Order!LockSecond(t) PROVE OrderInv'
  BY <1>2 DEF Order!LockSecond, Order!Acquire
<1>3. ASSUME NEW t \in Order!Workers, Order!UnlockSecond(t) PROVE OrderInv'
  BY <1>3 DEF Order!UnlockSecond, Order!Release
<1>4. ASSUME NEW t \in Order!Workers, Order!UnlockFirst(t) PROVE OrderInv'
  BY <1>4 DEF Order!UnlockFirst, Order!Release
<1>5. CASE Order!JoinFirst
  BY <1>5 DEF Order!JoinFirst
<1>6. CASE Order!JoinSecond
  BY <1>6 DEF Order!JoinSecond
<1>7. CASE UNCHANGED orderVars
  BY <1>7 DEF orderVars
<1> QED
  BY <1>1, <1>2, <1>3, <1>4, <1>5, <1>6, <1>7 DEF Order!Next, Order!Worker

-----------------------------------------------------------------------------
(* The life of a thread *)

\* What main may still have to do.
StepsLeft ==
  /\ tprog \in DOMAIN Life!Calls
  /\ tprog = "pthread_create" => steps \in {<<"return">>, <<>>}
  /\ tprog \in {"pthread_exit", "pthread_attr"} => steps \in {<<"exit">>, <<>>}
  /\ tprog = "pthread_join" => steps \in {<<"join", "exit">>, <<"exit">>, <<>>}
  /\ tprog = "pthread_detach" =>
       steps \in {<<"detach", "join", "exit">>, <<"join", "exit">>, <<"exit">>, <<>>}
  /\ tprog = "pthread_cancel" => steps \in {<<"cancel", "exit">>, <<"exit">>, <<>>}

\* What a call of pthread_join will find.
JoinFinds ==
  /\ thread \in {"none", "running", "done", "cancelled"}
  /\ cancelled \/ thread = "cancelled" => tprog = "pthread_cancel"
  /\ tprog = "pthread_join" /\ steps = <<"join", "exit">> =>
       joined = "not yet" /\ (held <=> thread # "none")
  /\ tprog = "pthread_detach" /\ steps = <<"join", "exit">> => ~held

LifeInv == StepsLeft /\ JoinFinds /\ Life!ThreadsAreNotCutOff

\* Initially main has everything to do.
LEMMA LifeStarts == Life!LifeInit => LifeInv
<1> SUFFICES ASSUME Life!LifeInit PROVE LifeInv
  OBVIOUS
<1>1. DOMAIN Life!Calls = {"pthread_create", "pthread_exit", "pthread_attr", "pthread_join",
                          "pthread_detach", "pthread_cancel"}
  BY DEF Life!Calls
<1>2. /\ Life!Calls["pthread_create"] = <<"return">>
      /\ Life!Calls["pthread_exit"] = <<"exit">> /\ Life!Calls["pthread_attr"] = <<"exit">>
      /\ Life!Calls["pthread_join"] = <<"join", "exit">>
      /\ Life!Calls["pthread_detach"] = <<"detach", "join", "exit">>
      /\ Life!Calls["pthread_cancel"] = <<"cancel", "exit">>
  BY DEF Life!Calls, Life!PthreadCreate, Life!PthreadExitProgram, Life!PthreadAttr,
         Life!PthreadJoin, Life!PthreadDetach, Life!PthreadCancel
<1>3. tprog \in DOMAIN Life!Calls /\ steps = Life!Calls[tprog]
  BY DEF Life!LifeInit
<1>4. StepsLeft
  BY <1>1, <1>2, <1>3 DEF StepsLeft
<1>5. <<"detach", "join", "exit">> # <<"join", "exit">>
  OBVIOUS
<1>6. JoinFinds /\ Life!ThreadsAreNotCutOff
  BY <1>1, <1>2, <1>3, <1>5 DEF Life!LifeInit, JoinFinds, Life!ThreadsAreNotCutOff
<1> QED
  BY <1>4, <1>6 DEF LifeInv

\* The sequences of calls are taken apart from the front.
LEMMA Tails ==
  /\ \A a : <<a>> # <<>> /\ Head(<<a>>) = a /\ Tail(<<a>>) = <<>>
  /\ \A a, b : <<a, b>> # <<>> /\ Head(<<a, b>>) = a /\ Tail(<<a, b>>) = <<b>>
  /\ \A a, b, c : <<a, b, c>> # <<>> /\ Head(<<a, b, c>>) = a /\ Tail(<<a, b, c>>) = <<b, c>>
  /\ \A a, b, c : <<a, b>> # <<c>> /\ <<c>> # <<>>
OBVIOUS

\* A step of main is the next one of its program.
LEMMA NextStep ==
  ASSUME NEW call, StepsLeft, Life!Next(call), tprog' = tprog
  PROVE  /\ StepsLeft'
         /\ call = "return" => tprog = "pthread_create"
         /\ call = "join" =>
              tprog \in {"pthread_join", "pthread_detach"} /\ steps = <<"join", "exit">>
         /\ call = "detach" => tprog = "pthread_detach"
         /\ call = "cancel" => tprog = "pthread_cancel"
         /\ tprog = "pthread_join" => steps' # <<"join", "exit">>
         /\ tprog = "pthread_detach" /\ call # "detach" => steps' # <<"join", "exit">>
<1>1. steps # <<>> /\ Head(steps) = call /\ steps' = Tail(steps)
  BY DEF Life!Next
<1>2. CASE tprog = "pthread_create"
  BY <1>1, <1>2, Tails DEF StepsLeft
<1>3. CASE tprog \in {"pthread_exit", "pthread_attr"}
  BY <1>1, <1>3, Tails DEF StepsLeft
<1>4. CASE tprog = "pthread_join"
  <2>1. CASE steps = <<"join", "exit">>
    BY <1>1, <1>4, <2>1, Tails DEF StepsLeft
  <2>2. CASE steps = <<"exit">>
    BY <1>1, <1>4, <2>2, Tails DEF StepsLeft
  <2> QED
    BY <1>1, <1>4, <2>1, <2>2 DEF StepsLeft
<1>5. CASE tprog = "pthread_detach"
  <2>1. CASE steps = <<"detach", "join", "exit">>
    BY <1>1, <1>5, <2>1, Tails DEF StepsLeft
  <2>2. CASE steps = <<"join", "exit">>
    BY <1>1, <1>5, <2>2, Tails DEF StepsLeft
  <2>3. CASE steps = <<"exit">>
    BY <1>1, <1>5, <2>3, Tails DEF StepsLeft
  <2> QED
    BY <1>1, <1>5, <2>1, <2>2, <2>3 DEF StepsLeft
<1>6. CASE tprog = "pthread_cancel"
  <2>1. CASE steps = <<"cancel", "exit">>
    BY <1>1, <1>6, <2>1, Tails DEF StepsLeft
  <2>2. CASE steps = <<"exit">>
    BY <1>1, <1>6, <2>2, Tails DEF StepsLeft
  <2> QED
    BY <1>1, <1>6, <2>1, <2>2 DEF StepsLeft
<1>7. DOMAIN Life!Calls = {"pthread_create", "pthread_exit", "pthread_attr", "pthread_join",
                          "pthread_detach", "pthread_cancel"}
  BY DEF Life!Calls
<1> QED
  BY <1>2, <1>3, <1>4, <1>5, <1>6, <1>7 DEF StepsLeft

\* Every step of main and the end of the thread keep what main and the thread know of each other.
LEMMA LifeStep == LifeInv /\ [Life!LifeNext]_lifeVars => LifeInv'
<1> SUFFICES ASSUME LifeInv, [Life!LifeNext]_lifeVars PROVE LifeInv'
  OBVIOUS
<1> DEFINE Rest == JoinFinds' /\ Life!ThreadsAreNotCutOff'
<1>0. StepsLeft /\ JoinFinds /\ Life!ThreadsAreNotCutOff
  BY DEF LifeInv
<1>1. CASE Life!Detach
  <2>1. tprog' = tprog /\ Life!Next("detach")
    BY <1>1 DEF Life!Detach
  <2>2. StepsLeft' /\ tprog = "pthread_detach"
    BY <1>0, <2>1, NextStep
  <2> QED
    BY <1>0, <1>1, <2>1, <2>2
    DEF Life!Detach, Life!MayCrash, Life!Known, LifeInv, JoinFinds, Life!ThreadsAreNotCutOff, Life!Next
<1>2. CASE Life!Join
  <2>1. tprog' = tprog /\ Life!Next("join")
    BY <1>2 DEF Life!Join
  <2>2. /\ StepsLeft' /\ tprog \in {"pthread_join", "pthread_detach"} /\ steps = <<"join", "exit">>
        /\ steps' # <<"join", "exit">>
    BY <1>0, <2>1, NextStep
  <2>3. CASE tprog = "pthread_join"
    BY <1>0, <1>2, <2>2, <2>3
    DEF Life!Join, Life!MayCrash, Life!Known, LifeInv, JoinFinds, Life!ThreadsAreNotCutOff, Life!Next
  <2>4. CASE tprog = "pthread_detach"
    BY <1>0, <1>2, <2>2, <2>4
    DEF Life!Join, Life!MayCrash, Life!Known, LifeInv, JoinFinds, Life!ThreadsAreNotCutOff, Life!Next
  <2> QED
    BY <2>2, <2>3, <2>4
<1>3. CASE Life!Cancel
  <2>1. tprog' = tprog /\ Life!Next("cancel")
    BY <1>3 DEF Life!Cancel
  <2>2. StepsLeft' /\ tprog = "pthread_cancel"
    BY <1>0, <2>1, NextStep
  <2> QED
    BY <1>0, <1>3, <2>1, <2>2
    DEF Life!Cancel, Life!MayCrash, Life!Known, LifeInv, JoinFinds, Life!ThreadsAreNotCutOff, Life!Next
<1>4. CASE Life!PthreadExit
  <2>1. tprog' = tprog /\ Life!Next("exit")
    BY <1>4 DEF Life!PthreadExit
  <2>2. /\ StepsLeft' /\ (tprog = "pthread_join" => steps' # <<"join", "exit">>)
        /\ (tprog = "pthread_detach" => steps' # <<"join", "exit">>)
    BY <1>0, <2>1, NextStep
  <2> QED
    BY <1>0, <1>4, <2>1, <2>2
    DEF Life!PthreadExit, LifeInv, JoinFinds, Life!ThreadsAreNotCutOff, Life!Next
<1>5. CASE Life!Return
  <2>1. tprog' = tprog /\ Life!Next("return")
    BY <1>5 DEF Life!Return
  <2>2. StepsLeft' /\ tprog = "pthread_create"
    BY <1>0, <2>1, NextStep
  <2> QED
    BY <1>0, <1>5, <2>1, <2>2
    DEF Life!Return, LifeInv, JoinFinds, Life!ThreadsAreNotCutOff, Life!Next
<1>6. CASE Life!ThreadEnds
  BY <1>0, <1>6 DEF Life!ThreadEnds, LifeInv, StepsLeft, JoinFinds, Life!ThreadsAreNotCutOff
<1>7. CASE UNCHANGED lifeVars
  BY <1>0, <1>7 DEF lifeVars, LifeInv, StepsLeft, JoinFinds, Life!ThreadsAreNotCutOff
<1> QED
  BY <1>1, <1>2, <1>3, <1>4, <1>5, <1>6, <1>7 DEF Life!LifeNext, Life!LifeMain

-----------------------------------------------------------------------------
(* The programs together *)

LocksInv == TInv /\ RwInv /\ OrderInv /\ LifeInv

\* What holds of the examples in every reachable state.
THEOREM LocksInvariant == MCSpec => []LocksInv
<1>1. MCInit => LocksInv
  BY TicketsStart, RwStarts, OrderStarts, LifeStarts DEF MCInit, LocksInv
<1>2. LocksInv /\ [MCNext]_allvars => LocksInv'
  <2> SUFFICES ASSUME LocksInv, [MCNext]_allvars PROVE LocksInv'
    OBVIOUS
  <2>1. [TicketsNext]_tvars
    BY DEF MCNext, allvars
  <2>2. [Rw!Next]_rwVars
    BY DEF MCNext, allvars
  <2>3. [Order!Next]_orderVars
    BY DEF MCNext, allvars
  <2>4. [Life!LifeNext]_lifeVars
    BY DEF MCNext, allvars
  <2>5. TInv'
    BY <2>1, TicketsStep DEF LocksInv
  <2> QED
    BY <2>2, <2>3, <2>4, <2>5, RwStep, OrderStep, LifeStep DEF LocksInv
<1> QED
  BY <1>1, <1>2, PTL DEF MCSpec

\* mutex.c sells each ticket once and in order with any number of windows, although the
\* condition of its loop reads the counter without the mutex; and a window closes only when
\* every ticket has been sold, and never with the mutex.
THEOREM TicketsSoldOnce == MCSpec => []EachTicketOnce
<1>1. ASSUME LocksInv PROVE EachTicketOnce
  <2> SUFFICES ASSUME seller = "mutex"
      PROVE  /\ InOrder
             /\ \A w \in Windows : pc[w] = "returned" => Len(printed) = Total /\ ticket = 0
             /\ \A w \in Windows : mutex = w => pc[w] \in Inside
    BY DEF EachTicketOnce, InOrder, Inside
  <2>1. TicketsTypeOK /\ Owned /\ Counted /\ InOrder /\ TicketsLeft
    BY <1>1 DEF LocksInv, TInv, MutexInv
  <2>2. ASSUME NEW w \in Windows, pc[w] = "returned" PROVE Len(printed) = Total
    <3>1. ticket = 0 /\ \A v \in Windows : ~Selling(v)
      BY <2>1, <2>2 DEF TicketsLeft, Selling
    <3>2. Len(printed) \in Nat /\ Total \in Nat
      BY <2>1, TicketsAssumption DEF TicketsTypeOK
    <3> QED
      BY <2>1, <3>1, <3>2 DEF Counted
  <2> QED
    BY <2>1, <2>2 DEF TicketsLeft
<1> QED
  BY <1>1, LocksInvariant, PTL

\* Under the write lock no increment of num is lost, with any number of writers and readers,
\* and every variable has its type.
THEOREM NoIncrementIsLost == MCSpec => []RwLosesNoIncrement
<1>1. LocksInv => RwLosesNoIncrement
  BY DEF LocksInv, TInv, RwInv, RwTypeOK, OrderInv, LocksTypeOK, RwLosesNoIncrement
<1> QED
  BY <1>1, LocksInvariant, PTL

\* Only a main that returns cuts its thread off, and pthread_join returns the value of a thread
\* that has run to its end.
THEOREM NoThreadIsCutOff == MCSpec => []ThreadsAreNotCutOff
<1>1. LocksInv => ThreadsAreNotCutOff
  BY DEF LocksInv, LifeInv, ThreadsAreNotCutOff
<1> QED
  BY <1>1, LocksInvariant, PTL

\* A worker that waits for a mutex that is not free.
Stuck(t) ==
  \/ lpc[t] = "first" /\ owner[Order!First(t)] # "nobody"
  \/ lpc[t] = "second" /\ owner[Order!Second(t)] # "nobody"

\* Only the crossed locks stop the workers of deadLock1.c: if none can go on and one is not
\* done, each holds the mutex the other waits for.
THEOREM OnlyCrossedLocksStop ==
  MCSpec => []((   (\A t \in Order!Workers : lpc[t] = "done" \/ Stuck(t))
                /\ (\E t \in Order!Workers : lpc[t] # "done"))
               => Order!Deadlocked)
<1>1. ASSUME OrderInv, \A t \in Order!Workers : lpc[t] = "done" \/ Stuck(t),
             \E t \in Order!Workers : lpc[t] # "done"
      PROVE  Order!Deadlocked
  <2>1. ASSUME NEW t \in Order!Workers, lpc[t] # "done"
        PROVE  \A u \in Order!Workers \ {t} : lpc[t] = "second" /\ lpc[u] = "second"
                                            /\ owner[Order!Second(t)] = u
    <3> TAKE u \in Order!Workers \ {t}
    <3>1. Order!First(t) = Order!Second(u) /\ Order!Second(t) = Order!First(u)
      BY DEF Order!Workers, Order!First, Order!Second
    <3>2. owner[Order!First(t)] \in {t, u, "nobody"} /\ owner[Order!Second(t)] \in {t, u, "nobody"}
      BY <1>1 DEF OrderInv, Order!Workers, Order!First, Order!Second
    <3>3. /\ lpc[t] \in {"first", "second"} /\ lpc[u] \in {"first", "second", "done"}
          /\ owner[Order!First(t)] = t <=> lpc[t] \in {"second", "work", "last"}
          /\ owner[Order!Second(t)] = t <=> lpc[t] = "work"
          /\ owner[Order!First(u)] = u <=> lpc[u] \in {"second", "work", "last"}
          /\ owner[Order!Second(u)] = u <=> lpc[u] = "work"
      BY <1>1, <2>1 DEF OrderInv, Stuck
    <3>4. Stuck(t)
      BY <1>1, <2>1
    <3> QED
      BY <3>1, <3>2, <3>3, <3>4 DEF Stuck
  <2>2. PICK t \in Order!Workers : lpc[t] # "done"
    BY <1>1
  <2>3. PICK u \in Order!Workers : u # t /\ Order!Workers = {t, u}
    BY DEF Order!Workers
  <2>4. lpc[t] = "second" /\ lpc[u] = "second" /\ owner[Order!Second(t)] = u
    BY <2>1, <2>2, <2>3
  <2>5. owner[Order!Second(u)] = t
    BY <2>1, <2>3, <2>4
  <2>6. "nobody" \notin Order!Workers
    BY DEF Order!Workers
  <2> QED
    BY <2>3, <2>4, <2>5, <2>6 DEF Order!Deadlocked
<1>2. LocksInv => OrderInv
  BY DEF LocksInv
<1> QED
  BY <1>1, <1>2, LocksInvariant, PTL
=============================================================================
