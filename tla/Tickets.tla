------------------------------ MODULE Tickets -------------------------------
(***************************************************************************)
(* Three programs in which threads (windows) sell the tickets of one       *)
(* counter: sell_tickets.c without a lock, mutex.c with a mutex, and       *)
(* deadLock.c, which locks the mutex twice.  ticket-- is a load and a      *)
(* store.                                                                  *)
(***************************************************************************)
EXTENDS Integers, Sequences, FiniteSets

CONSTANTS
  Windows,   \* the threads
  Total,     \* the initial value of ticket
  Nobody     \* the owner of a free mutex

ASSUME TicketsAssumption ==
  /\ IsFiniteSet(Windows) /\ Windows # {} /\ Nobody \notin Windows
  /\ Total \in Nat \ {0, 1}

VARIABLES
  seller,    \* "sell_tickets", "mutex" or "deadLock"
  ticket, mutex,
  pc, loaded, \* per thread: next step, the operand of ticket--
  printed    \* history: the tickets sold, in that order

tvars == <<seller, ticket, mutex, pc, loaded, printed>>

Init ==
  /\ seller \in {"sell_tickets", "mutex", "deadLock"}
  /\ ticket = Total
  /\ mutex = Nobody
  /\ pc = [w \in Windows |-> "test"]
  /\ loaded = [w \in Windows |-> 0]
  /\ printed = <<>>

Goto(w, l) == pc' = [pc EXCEPT ![w] = l]

\* The ticket the loop condition stops at.
Last == IF seller = "sell_tickets" THEN 1 ELSE 0

\* while (ticket > Last): the counter is read without the mutex.
Test(w) ==
  /\ pc[w] = "test"
  /\ Goto(w, IF ticket <= Last THEN "returned"
             ELSE IF seller = "sell_tickets" THEN "print" ELSE "lock")
  /\ UNCHANGED <<seller, ticket, mutex, loaded, printed>>

\* Mutant of Lock: the mutex does not make its caller wait.
LockWithoutWaiting(w) ==
  /\ pc[w] = "lock"
  /\ mutex' = w
  /\ Goto(w, IF seller = "deadLock" THEN "relock" ELSE "retest")
  /\ UNCHANGED <<seller, ticket, loaded, printed>>

\* deadLock.c locks again what it holds: "relock" is never left.
Lock(w) ==
  /\ pc[w] = "lock" /\ mutex = Nobody
  /\ mutex' = w
  /\ Goto(w, IF seller = "deadLock" THEN "relock" ELSE "retest")
  /\ UNCHANGED <<seller, ticket, loaded, printed>>

\* Mutant of Retest: the branch that breaks keeps the mutex.
RetestKeepsLock(w) ==
  /\ pc[w] = "retest"
  /\ Goto(w, IF ticket > 0 THEN "print" ELSE "returned")
  /\ UNCHANGED <<seller, ticket, mutex, loaded, printed>>

\* if (ticket > 0), under the mutex; otherwise unlock and break.
Retest(w) ==
  /\ pc[w] = "retest"
  /\ Goto(w, IF ticket > 0 THEN "print" ELSE "returned")
  /\ mutex' = IF ticket > 0 THEN mutex ELSE Nobody
  /\ UNCHANGED <<seller, ticket, loaded, printed>>

PrintTicket(w) ==
  /\ pc[w] = "print"
  /\ printed' = Append(printed, ticket)
  /\ Goto(w, "load")
  /\ UNCHANGED <<seller, ticket, mutex, loaded>>

Load(w) ==
  /\ pc[w] = "load"
  /\ loaded' = [loaded EXCEPT ![w] = ticket]
  /\ Goto(w, "store")
  /\ UNCHANGED <<seller, ticket, mutex, printed>>

Store(w) ==
  /\ pc[w] = "store"
  /\ ticket' = loaded[w] - 1
  /\ Goto(w, IF seller = "sell_tickets" THEN "test" ELSE "unlock")
  /\ UNCHANGED <<seller, mutex, loaded, printed>>

Unlock(w) ==
  /\ pc[w] = "unlock"
  /\ mutex' = Nobody
  /\ Goto(w, "test")
  /\ UNCHANGED <<seller, ticket, loaded, printed>>

Window(w) ==
  Test(w) \/ Lock(w) \/ Retest(w) \/ PrintTicket(w) \/ Load(w) \/ Store(w) \/ Unlock(w)

TicketsNext == \E w \in Windows : Window(w)
TicketsSpec == Init /\ [][TicketsNext]_tvars

AllReturned == \A w \in Windows : pc[w] = "returned"

TicketsTypeOK ==
  /\ ticket \in Int /\ mutex \in Windows \cup {Nobody}
  /\ pc \in [Windows -> {"test", "lock", "relock", "retest", "print", "load", "store", "unlock",
                         "returned"}]
  /\ loaded \in [Windows -> Int]
  /\ printed \in Seq(Int)

\* mutex.c sells the tickets Total, Total - 1, ... in that order, each once, although
\* the loop condition reads the counter without the mutex.  No window closes while there are
\* tickets, and none closes or goes back to its loop with the mutex.
EachTicketOnce ==
  seller = "mutex" =>
    /\ \A n \in 1..Len(printed) : printed[n] = Total - n + 1
    /\ (\E w \in Windows : pc[w] = "returned") => Len(printed) = Total /\ ticket = 0
    /\ \A w \in Windows : mutex = w => pc[w] \in {"retest", "print", "load", "store", "unlock"}
=============================================================================
