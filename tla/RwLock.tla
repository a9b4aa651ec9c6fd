------------------------------- MODULE RwLock -------------------------------
(***************************************************************************)
(* rwlock.c: writers increment num under the write lock, readers print it  *)
(* under the read lock.  num++ is a load and a store.                      *)
(***************************************************************************)
EXTENDS Naturals

CONSTANTS
  Writers, Readers,
  MaxWrites,  \* bound on the increments
  NoWriter

VARIABLES
  writer, readers, \* who holds the lock
  num,
  rpc,        \* per thread: next step
  operand,    \* per writer: the operand of num++
  writes      \* history: completed increments

rvars == <<writer, readers, num, rpc, operand, writes>>

Init ==
  /\ writer = NoWriter /\ readers = {}
  /\ num = 1
  /\ rpc = [t \in Writers \cup Readers |-> "lock"]
  /\ operand = [w \in Writers |-> 0]
  /\ writes = 0

RGoto(t, l) == rpc' = [rpc EXCEPT ![t] = l]

\* Mutant of WrLock: pthread_rwlock_rdlock.
WrLockShared(w) ==
  /\ rpc[w] = "lock" /\ writer = NoWriter /\ writes < MaxWrites
  /\ readers' = readers \cup {w}
  /\ RGoto(w, "load")
  /\ UNCHANGED <<writer, num, operand, writes>>

WrLock(w) ==
  /\ rpc[w] = "lock" /\ writer = NoWriter /\ readers = {} /\ writes < MaxWrites
  /\ writer' = w
  /\ RGoto(w, "load")
  /\ UNCHANGED <<readers, num, operand, writes>>

Load(w) ==
  /\ rpc[w] = "load"
  /\ operand' = [operand EXCEPT ![w] = num]
  /\ RGoto(w, "store")
  /\ UNCHANGED <<writer, readers, num, writes>>

Store(w) ==
  /\ rpc[w] = "store"
  /\ num' = operand[w] + 1
  /\ writes' = writes + 1
  /\ RGoto(w, "unlock")
  /\ UNCHANGED <<writer, readers, operand>>

\* The reader prints num and goes on to unlock.
RdLock(r) ==
  /\ rpc[r] = "lock" /\ writer = NoWriter
  /\ readers' = readers \cup {r}
  /\ RGoto(r, "unlock")
  /\ UNCHANGED <<writer, num, operand, writes>>

Unlock(t) ==
  /\ rpc[t] = "unlock"
  /\ writer' = IF writer = t THEN NoWriter ELSE writer
  /\ readers' = readers \ {t}
  /\ RGoto(t, "lock")
  /\ UNCHANGED <<num, operand, writes>>

Next ==
  \/ \E w \in Writers : WrLock(w) \/ Load(w) \/ Store(w) \/ Unlock(w)
  \/ \E r \in Readers : RdLock(r) \/ Unlock(r)
RwSpec == Init /\ [][Next]_rvars

\* No increment is lost: num counts the completed increments of all writers.
NoLostIncrement == num = 1 + writes
=============================================================================
