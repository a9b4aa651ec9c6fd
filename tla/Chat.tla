-------------------------------- MODULE Chat --------------------------------
(***************************************************************************)
(* aChat.c and bChat.c: two users talk over the FIFOs aFifo and bFifo.     *)
(* Each program creates the FIFOs that are missing, opens both, and forks  *)
(* into a process that writes what the user types and one that prints what *)
(* the other user typed.  Both inherit both descriptors.                   *)
(***************************************************************************)
EXTENDS PipeKernel

CONSTANT Lines     \* bound on the lines a user types

ChatAssumption == Lines \in Nat

VARIABLES
  at,        \* per user: the next step of the program before the fork
  proc,      \* per process: "none", "loop", "spins" or "ended"
  exists     \* the FIFOs in the file system

chatvars == <<at, proc, exists>>

Users == {"a", "b"}
Talkers == Users \X {"writer", "reader"}
Mine(u) == {u} \X {"writer", "reader"}
Speaks(u) == IF u = "a" THEN "aFifo" ELSE "bFifo"
Hears(u) == IF u = "a" THEN "bFifo" ELSE "aFifo"

\* Until the fork the two processes of a user are one, and hold what it holds.
ChatInit ==
  /\ readers = [x \in Pipes |-> {}] /\ writers = [x \in Pipes |-> {}]
  /\ at = [u \in Users |-> "access aFifo"]
  /\ proc = [p \in Talkers |-> "none"]
  /\ exists \in SUBSET {"aFifo", "bFifo"}
  /\ KernelInit

After(u) ==
  CASE at[u] \in {"access aFifo", "mkfifo aFifo"} -> "access bFifo"
    [] at[u] \in {"access bFifo", "mkfifo bFifo"} -> "open first"
    [] at[u] \in {"open first", "opening first"} -> "open second"
    [] at[u] \in {"open second", "opening second"} -> "fork"
GoesOn(u) == at' = [at EXCEPT ![u] = After(u)]

Leaves(u) ==
  /\ at' = [at EXCEPT ![u] = "exited"]
  /\ Drop(Mine(u))

\* ret = access("aFifo", F_OK);
Access(u, x) ==
  /\ at[u] = (IF x = "aFifo" THEN "access aFifo" ELSE "access bFifo")
  /\ IF x \in exists THEN GoesOn(u)
                     ELSE at' = [at EXCEPT ![u] = IF x = "aFifo" THEN "mkfifo aFifo" ELSE "mkfifo bFifo"]
  /\ UNCHANGED <<proc, exists, kvars>>

\* ret = mkfifo("aFifo", 0664); the other user may have been faster, and then this one exits.
Mkfifo(u, x) ==
  /\ at[u] = (IF x = "aFifo" THEN "mkfifo aFifo" ELSE "mkfifo bFifo")
  /\ IF x \in exists THEN Leaves(u) ELSE GoesOn(u) /\ UNCHANGED ends
  /\ exists' = exists \cup {x}
  /\ UNCHANGED <<proc, pieces>>

\* Mutant of Opens: each user opens the FIFO he speaks through first.
OpensOwnFirst(u) == IF at[u] \in {"open first", "opening first"} THEN Speaks(u) ELSE Hears(u)

\* Both open aFifo first and bFifo second.
Opens(u) == IF at[u] \in {"open first", "opening first"} THEN "aFifo" ELSE "bFifo"

\* open waits until the other side opens the FIFO, too; the second one lets both go on.
Open(u) ==
  /\ at[u] \in {"open first", "open second"}
  /\ IF Opens(u) = Speaks(u)
     THEN writers' = [writers EXCEPT ![Opens(u)] = @ \cup Mine(u)] /\ UNCHANGED readers
     ELSE readers' = [readers EXCEPT ![Opens(u)] = @ \cup Mine(u)] /\ UNCHANGED writers
  /\ LET waiting == {v \in Users \ {u} : at[v] \in {"opening first", "opening second"} /\ Opens(v) = Opens(u)}
     IN at' = [v \in Users |->
                 IF v \in waiting \/ (v = u /\ waiting # {}) THEN After(v)
                 ELSE IF v # u THEN at[v]
                 ELSE IF at[u] = "open first" THEN "opening first" ELSE "opening second"]
  /\ UNCHANGED <<proc, exists, pieces>>

\* pid = fork(); with -1 the loop has nothing to do and goes round for ever.
Fork(u) ==
  /\ at[u] = "fork"
  /\ at' = [at EXCEPT ![u] = "forked"]
  /\ \E ok \in BOOLEAN :
       /\ proc' = [p \in Talkers |-> IF p \notin Mine(u) THEN proc[p]
                                   ELSE IF ok THEN "loop"
                                   ELSE IF p[2] = "writer" THEN "spins" ELSE "ended"]
       /\ IF ok THEN UNCHANGED ends ELSE Drop({<<u, "reader">>})
  /\ UNCHANGED <<exists, pieces>>

ProcEnds(p) ==
  /\ proc' = [proc EXCEPT ![p] = "ended"]
  /\ Drop({p})
  /\ UNCHANGED <<at, exists, content, sent, got>>

\* The user types a line.  SIGPIPE ends the writer if nobody is left to read it.
Say(u) ==
  /\ proc[<<u, "writer">>] = "loop" /\ Len(sent[Speaks(u)]) < Lines
  /\ Put(Speaks(u))
  /\ UNCHANGED chatvars

SayToNobody(u) ==
  /\ proc[<<u, "writer">>] = "loop" /\ readers[Speaks(u)] = {}
  /\ ProcEnds(<<u, "writer">>) /\ UNCHANGED over

\* The end of standard input: fgets leaves buf empty, and writing nothing always succeeds.
NoMoreInput(u) ==
  /\ proc[<<u, "writer">>] = "loop"
  /\ proc' = [proc EXCEPT ![<<u, "writer">>] = "spins"]
  /\ UNCHANGED <<at, exists, kvars>>

Hear(u) ==
  /\ proc[<<u, "reader">>] = "loop"
  /\ Take(Hears(u))
  /\ UNCHANGED chatvars

\* read returns 0: the reader returns, and only the reader.
HearEnd(u) ==
  /\ proc[<<u, "reader">>] = "loop" /\ AtEnd(Hears(u))
  /\ ProcEnds(<<u, "reader">>)
  /\ over' = [over EXCEPT ![Hears(u)] = TRUE]

\* Somebody kills one process, or before the fork the only one.
KillChat(p) ==
  \/ /\ proc[p] \in {"loop", "spins"}
     /\ ProcEnds(p) /\ UNCHANGED over
  \/ /\ at[p[1]] \notin {"forked", "exited"}
     /\ Leaves(p[1]) /\ UNCHANGED <<proc, exists, pieces>>

Setup(u) == Open(u) \/ Fork(u) \/ \E x \in {"aFifo", "bFifo"} : Access(u, x) \/ Mkfifo(u, x)
Listen(u) == Hear(u) \/ HearEnd(u)
ChatNext ==
  \/ \E u \in Users : Setup(u) \/ Listen(u) \/ Say(u) \/ SayToNobody(u) \/ NoMoreInput(u)
  \/ \E p \in Talkers : KillChat(p)

ChatTypeOK ==
  /\ proc \in [Talkers -> {"none", "loop", "spins", "ended"}]
  /\ exists \subseteq {"aFifo", "bFifo"}
  /\ \A x \in Pipes : readers[x] \subseteq Talkers /\ writers[x] \subseteq Talkers

\* The two programs meet: neither waits in open for ever, as both open the FIFOs in the
\* same order, unless one was killed or lost the race between access and mkfifo.
UsersMeet == <>(\A u \in Users : at[u] = "forked") \/ <>(\E u \in Users : at[u] = "exited")

\* The two programs are never both inside open, each for a FIFO the other has yet to open.
OpensDoNotCross == ~(\A u \in Users : at[u] \in {"opening first", "opening second"})

Gone(u) == at[u] = "exited" \/ \A p \in Mine(u) : proc[p] = "ended"

\* When both processes of a user are gone, the other user's reader has something to read, or the
\* end: no process of its own holds the write end of what it hears.
ReadersAreNotLeftWaiting ==
  \A u, v \in Users :
    (u # v /\ Gone(v) /\ proc[<<u, "reader">>] = "loop") => content[Hears(u)] # <<>> \/ AtEnd(Hears(u))

\* So it prints what is left and notices the end.  While a reader lives, it prints each line the
\* other user has typed.
LinesArrive ==
  /\ (Gone("a") /\ proc[<<"b", "reader">>] = "loop") ~> (proc[<<"b", "reader">>] = "ended")
  /\ (Gone("b") /\ proc[<<"a", "reader">>] = "loop") ~> (proc[<<"a", "reader">>] = "ended")
  /\ \A u \in Users, n \in 1..Lines :
       (Len(sent[Hears(u)]) = n /\ proc[<<u, "reader">>] = "loop")
         ~> (Len(got[Hears(u)]) >= n \/ proc[<<u, "reader">>] = "ended")
=============================================================================
