----------------------------- MODULE ThreadLife -----------------------------
(***************************************************************************)
(* The thread function examples: main creates one thread, and then sleeps  *)
(* and returns (pthread_create.c), leaves by pthread_exit (pthread_exit.c, *)
(* pthread_attr.c), joins it (pthread_join.c), detaches and then joins it  *)
(* (pthread_detach.c), or cancels it (pthread_cancel.c).                   *)
(***************************************************************************)
EXTENDS Naturals, Sequences

VARIABLES
  tprog,      \* which program runs
  steps,      \* what main still has to do after pthread_create
  thread,     \* the other thread: "none", "running", "done" or "cancelled"
  held,       \* the thread must still be joined or detached before it is released
  cancelled,  \* a cancellation is pending
  joined,     \* what pthread_join returned: "not yet", "value", "nothing", "EINVAL" or "undefined"
  process     \* "running" or "exited"

lifevars == <<tprog, steps, thread, held, cancelled, joined, process>>

\* What each main does after pthread_create.
PthreadCreate == <<"return">>
PthreadExitProgram == <<"exit">>
PthreadAttr   == <<"exit">>
PthreadJoin   == <<"join", "exit">>
PthreadDetach == <<"detach", "join", "exit">>
PthreadCancel == <<"cancel", "exit">>

Calls == [
  pthread_create |-> PthreadCreate, pthread_exit |-> PthreadExitProgram, pthread_attr |-> PthreadAttr,
  pthread_join |-> PthreadJoin, pthread_detach |-> PthreadDetach, pthread_cancel |-> PthreadCancel]

\* pthread_create.  If it fails, main goes on with a tid that was never set.
LifeInit ==
  /\ tprog \in DOMAIN Calls
  /\ steps = Calls[tprog]
  /\ thread \in {"running", "none"}
  /\ held = (thread = "running" /\ tprog # "pthread_attr")
  /\ cancelled = FALSE /\ joined = "not yet" /\ process = "running"

Next(call) == process = "running" /\ steps # <<>> /\ Head(steps) = call /\ steps' = Tail(steps)

\* A released thread's tid means nothing any more, as does one that was never set.
Known == thread = "running" \/ held

\* A call with such a tid is undefined: it may report an error or end the process.
MayCrash == process' \in {"running"} \cup (IF Known THEN {} ELSE {"exited"})

Detach ==
  /\ Next("detach")
  /\ held' = FALSE
  /\ MayCrash
  /\ UNCHANGED <<tprog, thread, cancelled, joined>>

\* pthread_join waits for a thread that is not detached.
Join ==
  /\ Next("join")
  /\ held => thread \in {"done", "cancelled"}
  /\ joined' = CASE held -> IF thread = "done" THEN "value" ELSE "nothing"
                 [] ~held /\ Known -> "EINVAL"
                 [] OTHER -> "undefined"
  /\ held' = FALSE
  /\ MayCrash
  /\ UNCHANGED <<tprog, thread, cancelled>>

Cancel ==
  /\ Next("cancel")
  /\ cancelled' = (thread = "running")
  /\ MayCrash
  /\ UNCHANGED <<tprog, thread, held, joined>>

\* Mutant of PthreadExit: main returns, and the process ends with it.
PthreadExitReturns ==
  /\ Next("exit")
  /\ process' = "exited"
  /\ UNCHANGED <<tprog, thread, held, cancelled, joined>>

\* pthread_exit(NULL) in main: the process ends with its last thread.
PthreadExit ==
  /\ Next("exit")
  /\ process' = IF thread = "running" THEN "running" ELSE "exited"
  /\ UNCHANGED <<tprog, thread, held, cancelled, joined>>

\* return 0; the other thread is cut off, wherever it is.
Return ==
  /\ Next("return")
  /\ process' = "exited"
  /\ UNCHANGED <<tprog, thread, held, cancelled, joined>>

\* The thread ends, at a cancellation point if one is pending.
ThreadEnds ==
  /\ process = "running" /\ thread = "running"
  /\ thread' \in {"done"} \cup (IF cancelled THEN {"cancelled"} ELSE {})
  /\ process' = IF steps = <<>> THEN "exited" ELSE "running"
  /\ UNCHANGED <<tprog, steps, held, cancelled, joined>>

LifeMain == Detach \/ Join \/ Cancel \/ PthreadExit \/ Return
LifeNext == LifeMain \/ ThreadEnds

\* The process does not end before its thread has, except where main returns; and a joined
\* thread has run to its end: main reads the value that pthread_exit left.  Joining is
\* undefined where the thread was never created or was detached and has ended.
ThreadsAreNotCutOff ==
  /\ (process = "exited" /\ tprog # "pthread_create") => thread # "running"
  /\ (joined = "value") => thread = "done" /\ tprog = "pthread_join"
  /\ (tprog = "pthread_join" /\ joined \notin {"not yet", "value"}) => joined = "undefined"
  /\ (joined = "undefined") => thread = "none" \/ tprog = "pthread_detach"

\* Every one of these processes ends.
ProcessesEnd == <>(process = "exited")
=============================================================================
