------------------------------ MODULE Children ------------------------------
(***************************************************************************)
(* The programs in which a parent forks children and gets rid of them in   *)
(* its own way: sigchild.c (a SIGCHLD handler), wait.c, waitpid.c, the     *)
(* process chorus (which counts them), zombie.c (never), kill.c (kills its *)
(* child), and orphan.c, fork.c and execl.c, whose parents just leave.     *)
(***************************************************************************)
EXTENDS Naturals, FiniteSets

CONSTANT N     \* how many children the loops fork: 20 in sigchild.c, 5 elsewhere

ASSUME ChildrenAssumption == N \in Nat \ {0}

VARIABLES
  program,     \* which program runs
  ppc,         \* the parent's next step
  forked,      \* fork calls so far
  last,        \* what the last fork returned to the parent: "child" or "failed"
  child,       \* per child: "none", "running", "zombie" or "reaped"
  blocked,     \* SIGCHLD is blocked in the parent
  catching,    \* myFun is installed
  pending,     \* SIGCHLD is pending; further ones merge with it
  handling,    \* myFun runs
  reclaim_num  \* children the parent has collected

cvars == <<program, ppc, forked, last, child, blocked, catching, pending, handling, reclaim_num>>
signals == <<blocked, catching, pending, handling>>

Programs == {"sigchild", "wait", "waitpid", "chorus", "zombie", "kill", "orphan"}
Kids == 1..N
THREAD_NUM == IF program \in {"zombie", "kill", "orphan"} THEN 1 ELSE N

Zombies == {c \in Kids : child[c] = "zombie"}
Alive == {c \in Kids : child[c] = "running"}

\* sigchild.c blocks SIGCHLD first, as children may end before the handler is installed.
Init ==
  /\ program \in Programs
  /\ ppc = "fork" /\ forked = 0 /\ last = "failed"
  /\ child = [c \in Kids |-> "none"]
  /\ blocked = (program = "sigchild") /\ catching = FALSE
  /\ pending = FALSE /\ handling = FALSE
  /\ reclaim_num = 0

-----------------------------------------------------------------------------
(* The parent: for (i = 0; i < THREAD_NUM; i++) pid = fork(); *)

Fork ==
  /\ ppc = "fork" /\ forked < THREAD_NUM
  /\ forked' = forked + 1
  /\ last' = "child"
  /\ child' = [child EXCEPT ![forked + 1] = "running"]
  /\ UNCHANGED <<program, ppc, signals, reclaim_num>>

\* The loops go on after a failed fork.
ForkFails ==
  /\ ppc = "fork" /\ forked < THREAD_NUM
  /\ forked' = forked + 1
  /\ last' = "failed"
  /\ UNCHANGED <<program, ppc, child, signals, reclaim_num>>

\* The end of the parent.  From then on init collects its children.
Exit ==
  /\ ppc' = "exited"
  /\ child' = [c \in Kids |-> IF child[c] = "zombie" THEN "reaped" ELSE child[c]]
  /\ UNCHANGED <<program, forked, last, signals, reclaim_num>>

\* What the parent turns to when all children are forked.
ParentPart ==
  CASE program = "sigchild" -> "install"
    [] program = "wait" -> "wait"
    [] program = "waitpid" -> "poll"
    [] program = "chorus" -> "count"
    [] program = "kill" -> "kill"
    [] OTHER -> "idle"

\* if (pid > 0): the test looks at the last fork alone, and only the chorus does not test.
\* A parent whose last fork failed returns.
AfterForks ==
  /\ ppc = "fork" /\ forked = THREAD_NUM
  /\ IF last = "child" \/ program = "chorus"
     THEN ppc' = ParentPart /\ UNCHANGED <<program, forked, last, child, signals, reclaim_num>>
     ELSE Exit

\* sigaction(SIGCHLD, &act, NULL);
Install ==
  /\ ppc = "install"
  /\ catching' = TRUE
  /\ ppc' = "unblock"
  /\ UNCHANGED <<program, forked, last, child, blocked, pending, handling, reclaim_num>>

\* sigprocmask(SIG_UNBLOCK, &set, NULL);
Unblock ==
  /\ ppc = "unblock"
  /\ blocked' = FALSE
  /\ ppc' = "idle"
  /\ UNCHANGED <<program, forked, last, child, catching, pending, handling, reclaim_num>>

\* The signal is delivered; it stays blocked while its handler runs.
HandlerStarts ==
  /\ ppc # "exited" /\ catching /\ ~blocked /\ pending /\ ~handling
  /\ pending' = FALSE
  /\ handling' = TRUE
  /\ UNCHANGED <<program, ppc, forked, last, child, blocked, catching, reclaim_num>>

\* Mutant of HandlerEnds: one waitpid per signal.
HandlerEndsEarly ==
  /\ handling
  /\ handling' = FALSE
  /\ UNCHANGED <<program, ppc, forked, last, child, blocked, catching, pending, reclaim_num>>

\* waitpid(-1, NULL, WNOHANG) returns 0 or -1: no zombie is left.
HandlerEnds ==
  /\ handling /\ Zombies = {}
  /\ handling' = FALSE
  /\ UNCHANGED <<program, ppc, forked, last, child, blocked, catching, pending, reclaim_num>>

\* wait or waitpid returns a child.
Collect ==
  /\ handling \/ ppc \in {"wait", "poll", "count"}
  /\ \E c \in Zombies : child' = [child EXCEPT ![c] = "reaped"]
  /\ reclaim_num' = reclaim_num + 1
  /\ UNCHANGED <<program, ppc, forked, last, signals>>

\* wait or waitpid returns -1: there are no children.  (0 means go on.)
NoChildLeft ==
  /\ ppc \in {"wait", "poll"} /\ Zombies \cup Alive = {}
  /\ Exit

\* Mutant of AllCounted: calls of waitpid that return 0 count, too.
AllCountedEarly ==
  /\ ppc = "count" /\ reclaim_num + 1 >= THREAD_NUM
  /\ Exit

\* while (reclaim_num != THREAD_NUM)
AllCounted ==
  /\ ppc = "count" /\ reclaim_num = THREAD_NUM
  /\ Exit

\* kill(pid, SIGINT), or nothing at all, and the parent returns.  zombie.c stays.
KillChild ==
  /\ ppc = "kill"
  /\ child' = [c \in Kids |-> IF child[c] \in {"running", "zombie"} THEN "reaped" ELSE child[c]]
  /\ ppc' = "exited"
  /\ UNCHANGED <<program, forked, last, signals, reclaim_num>>

Leave ==
  /\ ppc = "idle" /\ program = "orphan"
  /\ Exit

-----------------------------------------------------------------------------
(* A child works and returns, or is killed: the only end for those of wait.c and *)
(* waitpid.c.  The parent hears of it unless SIGCHLD is ignored, as is its default. *)

ChildEnds(c) ==
  /\ child[c] = "running"
  /\ child' = [child EXCEPT ![c] = IF ppc = "exited" THEN "reaped" ELSE "zombie"]
  /\ pending' = (pending \/ (ppc # "exited" /\ (blocked \/ catching)))
  /\ UNCHANGED <<program, ppc, forked, last, blocked, catching, handling, reclaim_num>>

-----------------------------------------------------------------------------
Parent ==
  \/ Fork \/ ForkFails \/ AfterForks \/ Install \/ Unblock \/ HandlerStarts \/ HandlerEnds
  \/ Collect \/ NoChildLeft \/ AllCounted \/ KillChild \/ Leave
WorkDone == program \notin {"wait", "waitpid"} /\ \E c \in Kids : ChildEnds(c)
ChildrenNext == Parent \/ \E c \in Kids : ChildEnds(c)
ChildrenSpec == Init /\ [][ChildrenNext]_cvars

ChildrenTypeOK ==
  /\ program \in Programs
  /\ ppc \in {"fork", "install", "unblock", "wait", "poll", "count", "kill", "idle", "exited"}
  /\ forked \in 0..N /\ last \in {"child", "failed"}
  /\ child \in [Kids -> {"none", "running", "zombie", "reaped"}]
  /\ blocked \in BOOLEAN /\ catching \in BOOLEAN /\ pending \in BOOLEAN /\ handling \in BOOLEAN
  /\ reclaim_num \in 0..N

\* sigchild.c forgets no dead child: although SIGCHLDs merge, are blocked until the handler
\* is installed and again while it runs, a zombie is followed by a run of the handler.
NoZombieForgotten ==
  (program = "sigchild" /\ ppc # "exited" /\ Zombies # {}) => pending \/ handling

\* A parent that waits for its children returns only after it has collected each of them,
\* unless its last fork failed.
AllCollected ==
  (ppc = "exited" /\ program \in {"wait", "waitpid", "chorus"} /\ (last = "child" \/ program = "chorus"))
    => /\ Zombies \cup Alive = {}
       /\ reclaim_num = Cardinality({c \in Kids : child[c] # "none"})

\* Some fork of the chorus failed: reclaim_num cannot reach THREAD_NUM.
Short == \E c \in Kids : c <= forked /\ child[c] = "none"

\* Zombies do not stay, and parents that wait return once their children have ended:
\* wait.c, waitpid.c and the chorus, unless a fork of the chorus failed.
ZombiesGo == \A c \in Kids :
  (child[c] = "zombie" /\ program \notin {"zombie", "kill", "orphan"}) ~> child[c] = "reaped"
ParentsReturn ==
  (program \in {"wait", "waitpid", "chorus"} /\ forked = N /\ Alive = {})
    ~> (ppc = "exited" \/ (program = "chorus" /\ Short))
=============================================================================
