------------------------------ MODULE MC_Locks ------------------------------
(***************************************************************************)
(* The lock examples (three windows and three tickets; two writers and two *)
(* readers; the two threads of deadLock1.c), and the examples about the    *)
(* life of one thread.  Which program runs is chosen in the initial state. *)
(* Operators without a prefix are those of Tickets.                        *)
(***************************************************************************)
EXTENDS Tickets

CONSTANTS Writers, Readers, MaxWrites, NoWriter, w1, w2, w3, r1, r2

MCWindows == {w1, w2, w3}
MCWriters == {w1, w2}
MCReaders == {r1, r2}

ASSUME LocksAssumption ==
  NoWriter \notin Writers /\ Writers \cap Readers = {} /\ MaxWrites \in Nat

VARIABLES
  program,
  writer, readers, num, rpc, operand, writes,
  owner, lpc, mpc,
  tprog, steps, thread, held, cancelled, joined, process

Rw == INSTANCE RwLock
Order == INSTANCE LockOrder
Life == INSTANCE ThreadLife

rwVars == <<writer, readers, num, rpc, operand, writes>>
orderVars == <<owner, lpc, mpc>>
lifeVars == <<tprog, steps, thread, held, cancelled, joined, process>>
allvars == <<program, tvars, rwVars, orderVars, lifeVars>>

Running(p) == program = p

MCInit ==
  /\ program \in {"tickets", "rwlock", "deadLock1", "life"}
  /\ Init /\ (program # "tickets" => seller = "mutex")
  /\ Rw!Init
  /\ Order!Init
  /\ Life!LifeInit /\ (Running("life") \/ (tprog = "pthread_exit" /\ thread = "running"))

MCNext ==
  \/ Running("tickets") /\ TicketsNext /\ UNCHANGED <<program, rwVars, orderVars, lifeVars>>
  \/ Running("rwlock") /\ Rw!Next /\ UNCHANGED <<program, tvars, orderVars, lifeVars>>
  \/ Running("deadLock1") /\ Order!Next /\ UNCHANGED <<program, tvars, rwVars, lifeVars>>
  \/ Running("life") /\ Life!LifeNext /\ UNCHANGED <<program, tvars, rwVars, orderVars>>

\* The kernel schedules every thread of the ticket programs, of deadLock1.c and of the
\* examples about one thread.
MCSpec ==
  /\ MCInit /\ [][MCNext]_allvars
  /\ \A w \in Windows : WF_allvars(Running("tickets") /\ Window(w) /\ UNCHANGED <<program, rwVars, orderVars, lifeVars>>)
  /\ WF_allvars(Running("deadLock1") /\ Order!Next /\ UNCHANGED <<program, tvars, rwVars, lifeVars>>)
  /\ WF_allvars(Running("life") /\ Life!LifeMain /\ UNCHANGED <<program, tvars, rwVars, orderVars>>)
  /\ WF_allvars(Running("life") /\ Life!ThreadEnds /\ UNCHANGED <<program, tvars, rwVars, orderVars>>)

-----------------------------------------------------------------------------
LocksTypeOK ==
  /\ TicketsTypeOK
  /\ writer \in Writers \cup {NoWriter} /\ readers \subseteq Readers
  /\ num \in Nat /\ writes \in 0..MaxWrites
  /\ owner \in [1..2 -> Order!Workers \cup {"nobody"}]

\* rwlock.c loses no increment (see RwLock), in a state in which every variable has its type.
RwLosesNoIncrement == LocksTypeOK /\ Rw!NoLostIncrement

\* The thread of an example is not cut off by the end of main (see ThreadLife).
ThreadsAreNotCutOff == Running("life") => Life!ThreadsAreNotCutOff

\* The programs end.  The windows of sell_tickets.c and mutex.c all return, and mutex.c has
\* then sold all tickets and left the mutex unlocked, whichever window saw the last one.
\* deadLock1.c ends unless both threads hold the lock the other needs (see LockOrder), and
\* the examples about one thread end (see ThreadLife).
ProgramsEnd ==
  /\ (Running("tickets") /\ seller # "deadLock") ~>
       (AllReturned /\ (seller = "mutex" => Len(printed) = Total /\ mutex = Nobody))
  /\ (Running("deadLock1") /\ mpc = "join1") ~> (mpc = "returned" \/ Order!Deadlocked)
  /\ Running("life") => Life!ProcessesEnd
=============================================================================
