----------------------------- MODULE LockOrder ------------------------------
(***************************************************************************)
(* deadLock1.c: workA locks mutex1 and then mutex2, workB mutex2 and then  *)
(* mutex1.  main passes the same pthread_t to both pthread_create calls,   *)
(* joins workB through it, and then joins an uninitialised pthread_t.      *)
(***************************************************************************)
EXTENDS Naturals

VARIABLES
  owner,  \* per mutex: the thread that holds it, or "nobody"
  lpc,    \* per thread: next step
  mpc     \* main: "join1", "join2", "returned"

ovars == <<owner, lpc, mpc>>

Workers == {"workA", "workB"}
First(t) == IF t = "workA" THEN 1 ELSE 2
Second(t) == 3 - First(t)

Init ==
  /\ owner = [m \in 1..2 |-> "nobody"]
  /\ lpc = [t \in Workers |-> "first"]
  /\ mpc = "join1"

\* The process exists until main returns.
Acquire(t, m, from, to) ==
  /\ mpc # "returned" /\ lpc[t] = from /\ owner[m] = "nobody"
  /\ owner' = [owner EXCEPT ![m] = t]
  /\ lpc' = [lpc EXCEPT ![t] = to]
  /\ UNCHANGED mpc

Release(t, m, from, to) ==
  /\ mpc # "returned" /\ lpc[t] = from
  /\ owner' = [owner EXCEPT ![m] = "nobody"]
  /\ lpc' = [lpc EXCEPT ![t] = to]
  /\ UNCHANGED mpc

LockFirst(t) == Acquire(t, First(t), "first", "second")
LockSecond(t) == Acquire(t, Second(t), "second", "work")
UnlockSecond(t) == Release(t, Second(t), "work", "last")

UnlockFirst(t) == Release(t, First(t), "last", "done")

JoinFirst ==
  /\ mpc = "join1" /\ lpc["workB"] = "done"
  /\ mpc' = "join2"
  /\ UNCHANGED <<owner, lpc>>

\* pthread_join(tid2) with an indeterminate tid2: the program crashes, or the call
\* fails and main destroys the mutexes and returns.  Either way the process ends.
JoinSecond ==
  /\ mpc = "join2"
  /\ mpc' = "returned"
  /\ UNCHANGED <<owner, lpc>>

Worker(t) == LockFirst(t) \/ LockSecond(t) \/ UnlockSecond(t) \/ UnlockFirst(t)
Next == JoinFirst \/ JoinSecond \/ \E t \in Workers : Worker(t)
LockOrderSpec == Init /\ [][Next]_ovars

\* Each thread holds the mutex the other waits for.
Deadlocked == \A t \in Workers : lpc[t] = "second" /\ owner[Second(t)] \notin {t, "nobody"}

\* The crossed locks are the only thing that can stop the program.
EndsOrDeadlocks == mpc = "join1" ~> (mpc = "returned" \/ Deadlocked)
=============================================================================
