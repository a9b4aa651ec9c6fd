--------------------------- MODULE ProcessesProofs --------------------------
(***************************************************************************)
(* Proofs about the programs of MC_Processes: parents and their children,  *)
(* signals, mapped and shared memory, pipes and FIFOs, the chat, echoes    *)
(* and the broadcast, for any number of each.  Each group of programs has  *)
(* an invariant of its own; the steps of the others leave it alone.        *)
(***************************************************************************)
EXTENDS MC_Processes, FiniteSetTheorems, SequenceTheorems, TLAPS

-----------------------------------------------------------------------------
(* One group of programs runs, and the others do nothing *)

\* What a step of the whole is for each group.
LEMMA GroupSteps ==
  ASSUME [MCNext]_allvars
  PROVE  /\ [ChildrenNext]_cvars /\ [Sig!SignalsNext]_svars /\ [Map!MappedNext]_mvars
         /\ [ShmNext]_shvars /\ [ChannelsNext]_chvars /\ UNCHANGED group
BY Zenon DEF MCNext, allvars, others, ChildrenStep, SignalsStep, MappedStep, SegmentsStep, ChannelsStep

\* What the whole begins with, for each group.
LEMMA GroupInits ==
  ASSUME MCInit
  PROVE  Init /\ Sig!SignalsInit /\ Map!MappedInit /\ ShmInit /\ ChannelsInit
BY Zenon DEF MCInit

-----------------------------------------------------------------------------
(* Children: sigchild.c, wait.c, waitpid.c, the chorus and the others *)

Reaped == {c \in Kids : child[c] = "reaped"}

\* While the parent lives, reclaim_num is the number of children that are gone, and children
\* that are not forked yet are not there.  Afterwards init leaves no zombie.
Counts ==
  /\ ppc # "exited" => reclaim_num = Cardinality(Reaped)
  /\ \A c \in Kids : c > forked => child[c] = "none"
  /\ ppc = "exited" => Zombies = {}

\* SIGCHLD is blocked until myFun is installed, and each program has its own next steps.
Phases ==
  /\ ppc = "wait" => program = "wait"
  /\ ppc = "poll" => program = "waitpid"
  /\ ppc = "count" => program = "chorus"
  /\ ppc = "kill" => program = "kill"
  /\ program = "sigchild" =>
       /\ ppc \in {"fork", "install", "unblock", "idle", "exited"}
       /\ ppc \in {"fork", "install"} => blocked
       /\ ppc \in {"unblock", "idle"} => catching

CInv == ChildrenTypeOK /\ Counts /\ Phases

-----------------------------------------------------------------------------
(* The children that are gone, counted *)

\* There are N children, so at most N are gone, and if N are gone, all are.
LEMMA ReapedCount ==
  /\ IsFiniteSet(Reaped)
  /\ Cardinality(Reaped) \in 0..N
  /\ Cardinality(Reaped) = N => Reaped = Kids
<1>1. IsFiniteSet(Kids) /\ Cardinality(Kids) = N
  BY ChildrenAssumption, FS_Interval DEF Kids
<1>2. Reaped \subseteq Kids
  BY DEF Reaped
<1>3. IsFiniteSet(Reaped) /\ Cardinality(Reaped) <= Cardinality(Kids)
  BY <1>1, <1>2, FS_Subset
<1>4. Cardinality(Reaped) = Cardinality(Kids) => Reaped = Kids
  BY <1>1, <1>2, FS_Subset
<1>5. Cardinality(Reaped) \in Nat
  BY <1>3, FS_CardinalityType
<1> QED
  BY <1>1, <1>3, <1>4, <1>5, ChildrenAssumption

\* One more zombie collected is one more child that is gone.
LEMMA CollectCounts ==
  ASSUME ChildrenTypeOK, Collect
  PROVE  Cardinality(Reaped') = Cardinality(Reaped) + 1 /\ Cardinality(Reaped') \in 0..N
<1>1. PICK c \in Zombies : child' = [child EXCEPT ![c] = "reaped"]
  BY DEF Collect
<1>2. c \in Kids /\ c \notin Reaped /\ Reaped' = Reaped \cup {c}
  BY <1>1 DEF Zombies, Reaped, ChildrenTypeOK, Kids
<1>3. Cardinality(Reaped') = Cardinality(Reaped) + 1
  BY <1>2, ReapedCount, FS_AddElement
<1>4. IsFiniteSet(Kids) /\ Cardinality(Kids) = N
  BY ChildrenAssumption, FS_Interval DEF Kids
<1>5. Reaped' \subseteq Kids
  BY <1>2 DEF Reaped
<1>6. Cardinality(Reaped') <= N
  BY <1>4, <1>5, FS_Subset
<1> QED
  BY <1>3, <1>6, ReapedCount, ChildrenAssumption

-----------------------------------------------------------------------------
(* The invariant *)

\* Initially nobody is forked, and sigchild.c has blocked SIGCHLD.
LEMMA ChildrenStart == Init => CInv
<1> SUFFICES ASSUME Init PROVE CInv
  OBVIOUS
<1>1. Reaped = {} /\ Cardinality(Reaped) = 0
  BY FS_EmptySet DEF Init, Reaped
<1>2. child = [c \in Kids |-> "none"] /\ ppc = "fork" /\ reclaim_num = 0
  BY DEF Init
<1>3. ChildrenTypeOK
  <2>1. blocked \in BOOLEAN /\ catching \in BOOLEAN /\ pending \in BOOLEAN /\ handling \in BOOLEAN
    BY Zenon DEF Init
  <2>2. program \in Programs /\ last = "failed" /\ forked \in 0..N /\ reclaim_num \in 0..N
    BY ChildrenAssumption DEF Init
  <2>3. child \in [Kids -> {"none", "running", "zombie", "reaped"}]
    BY <1>2
  <2> QED
    BY <1>2, <2>1, <2>2, <2>3 DEF ChildrenTypeOK
<1>4. Counts
  BY <1>1, <1>2 DEF Counts
<1>5. Phases
  BY <1>2 DEF Init, Phases
<1> QED
  BY <1>3, <1>4, <1>5 DEF CInv

\* The end of the parent keeps the invariant, wherever it comes from.
LEMMA ExitStep == ASSUME CInv, Exit PROVE CInv'
BY DEF Exit, CInv, ChildrenTypeOK, Counts, Phases, Zombies, signals

\* Every step keeps it.
LEMMA ChildrenKept == CInv /\ [ChildrenNext]_cvars => CInv'
<1> SUFFICES ASSUME CInv, [ChildrenNext]_cvars PROVE CInv'
  OBVIOUS
<1>0. ChildrenTypeOK /\ Counts /\ Phases /\ N \in Nat \ {0} /\ Kids = 1..N
  BY ChildrenAssumption DEF CInv, Kids
<1>n. THREAD_NUM \in 1..N
  BY <1>0 DEF THREAD_NUM
<1>1. CASE Fork
  <2>1. forked + 1 \in Kids /\ child[forked + 1] = "none"
    BY <1>0, <1>n, <1>1 DEF Fork, ChildrenTypeOK, Counts
  <2>2. Reaped' = Reaped
    BY <1>0, <1>1, <2>1 DEF Fork, Reaped, ChildrenTypeOK
  <2> QED
    BY <1>0, <1>1, <1>n, <2>1, <2>2 DEF Fork, CInv, ChildrenTypeOK, Counts, Phases, signals
<1>2. CASE ForkFails
  BY <1>0, <1>2, <1>n DEF ForkFails, CInv, ChildrenTypeOK, Counts, Phases, Reaped, signals
<1>3. CASE AfterForks
  <2>1. CASE last = "child" \/ program = "chorus"
    BY <1>0, <1>3, <2>1 DEF AfterForks, ParentPart, CInv, ChildrenTypeOK, Counts, Phases, Reaped, signals, Programs
  <2>2. CASE ~(last = "child" \/ program = "chorus")
    BY <1>3, <2>2, ExitStep DEF AfterForks
  <2> QED
    BY <2>1, <2>2
<1>4. CASE Install
  BY <1>0, <1>4 DEF Install, CInv, ChildrenTypeOK, Counts, Phases, Reaped
<1>5. CASE Unblock
  BY <1>0, <1>5 DEF Unblock, CInv, ChildrenTypeOK, Counts, Phases, Reaped
<1>6. CASE HandlerStarts
  BY <1>0, <1>6 DEF HandlerStarts, CInv, ChildrenTypeOK, Counts, Phases, Reaped, Zombies
<1>7. CASE HandlerEnds
  BY <1>0, <1>7 DEF HandlerEnds, CInv, ChildrenTypeOK, Counts, Phases, Reaped, Zombies
<1>8. CASE Collect
  <2>1. ppc # "exited" /\ reclaim_num' = Cardinality(Reaped') /\ reclaim_num' \in 0..N
    BY <1>0, <1>8, CollectCounts DEF Collect, Counts
  <2>2. PICK c \in Zombies : child' = [child EXCEPT ![c] = "reaped"]
    BY <1>8 DEF Collect
  <2> QED
    BY <1>0, <1>8, <2>1, <2>2 DEF Collect, CInv, ChildrenTypeOK, Counts, Phases, Zombies, signals
<1>9. CASE NoChildLeft
  BY <1>9, ExitStep DEF NoChildLeft
<1>10. CASE AllCounted
  BY <1>10, ExitStep DEF AllCounted
<1>11. CASE KillChild
  BY <1>0, <1>11 DEF KillChild, CInv, ChildrenTypeOK, Counts, Phases, Zombies, signals
<1>12. CASE Leave
  BY <1>12, ExitStep DEF Leave
<1>13. ASSUME NEW c \in Kids, ChildEnds(c) PROVE CInv'
  <2>1. ppc # "exited" => Reaped' = Reaped
    BY <1>0, <1>13 DEF ChildEnds, Reaped, ChildrenTypeOK
  <2>2. ppc = "exited" => Zombies' = {}
    BY <1>0, <1>13 DEF ChildEnds, Zombies, ChildrenTypeOK, Counts
  <2> QED
    BY <1>0, <1>13, <2>1, <2>2 DEF ChildEnds, CInv, ChildrenTypeOK, Counts, Phases
<1>14. CASE UNCHANGED cvars
  BY <1>0, <1>14 DEF cvars, CInv, ChildrenTypeOK, Counts, Phases, Reaped, Zombies
<1> QED
  BY <1>1, <1>2, <1>3, <1>4, <1>5, <1>6, <1>7, <1>8, <1>9, <1>10, <1>11, <1>12, <1>13, <1>14
     DEF ChildrenNext, Parent

\* The strengthened invariant holds in every reachable state.
LEMMA ChildrenInvariant == ChildrenSpec => []CInv
BY ChildrenStart, ChildrenKept, PTL DEF ChildrenSpec

-----------------------------------------------------------------------------
(* No dead child is forgotten *)

\* A child that ends while the parent of sigchild.c lives leaves a pending SIGCHLD, and only
\* the handler takes it away, which ends with no zombie left.
LEMMA ForgetStep == CInv /\ NoZombieForgotten /\ [ChildrenNext]_cvars => NoZombieForgotten'
<1> SUFFICES ASSUME CInv, NoZombieForgotten, [ChildrenNext]_cvars, program' = "sigchild",
                    ppc' # "exited", Zombies' # {}
             PROVE  (pending \/ handling)'
  BY DEF NoZombieForgotten
<1>0. ChildrenTypeOK /\ Phases
  BY DEF CInv
<1>1. CASE Fork
  <2>1. Zombies # {}
    BY <1>0, <1>1 DEF Fork, Zombies, ChildrenTypeOK
  <2> QED
    BY <1>1, <2>1 DEF Fork, NoZombieForgotten, signals
<1>2. CASE ForkFails
  BY <1>2 DEF ForkFails, NoZombieForgotten, signals, Zombies
<1>3. CASE AfterForks
  BY <1>3 DEF AfterForks, Exit, NoZombieForgotten, signals, Zombies
<1>4. CASE Install \/ Unblock
  BY <1>4 DEF Install, Unblock, NoZombieForgotten, Zombies
<1>5. CASE HandlerStarts
  BY <1>5 DEF HandlerStarts
<1>6. CASE HandlerEnds
  BY <1>6 DEF HandlerEnds, Zombies
<1>7. CASE Collect
  BY <1>0, <1>7 DEF Collect, signals, Phases
<1>8. CASE NoChildLeft \/ AllCounted \/ KillChild \/ Leave
  BY <1>8 DEF NoChildLeft, AllCounted, KillChild, Leave, Exit
<1>9. ASSUME NEW c \in Kids, ChildEnds(c) PROVE (pending \/ handling)'
  BY <1>0, <1>9 DEF ChildEnds, Phases, ChildrenTypeOK
<1>10. CASE UNCHANGED cvars
  BY <1>10 DEF cvars, NoZombieForgotten, Zombies
<1> QED
  BY <1>1, <1>2, <1>3, <1>4, <1>5, <1>6, <1>7, <1>8, <1>9, <1>10 DEF ChildrenNext, Parent

\* sigchild.c: although SIGCHLDs merge, and are blocked until the handler is installed and while
\* it runs, a zombie is followed by a run of the handler.
THEOREM ZombiesRemembered == ChildrenSpec => []NoZombieForgotten
<1>1. Init => NoZombieForgotten
  BY DEF Init, NoZombieForgotten, Zombies
<1> QED
  BY <1>1, ForgetStep, ChildrenInvariant, PTL DEF ChildrenSpec

-----------------------------------------------------------------------------
(* Parents leave nobody *)

\* When the parent of wait.c, waitpid.c or the chorus goes, each child is gone and counted.
LEMMA CollectedStep == CInv /\ AllCollected /\ [ChildrenNext]_cvars => AllCollected'
<1> SUFFICES ASSUME CInv, AllCollected, [ChildrenNext]_cvars PROVE AllCollected'
  OBVIOUS
<1>0. ChildrenTypeOK /\ Counts /\ Phases
  BY DEF CInv
<1> DEFINE Here == {c \in Kids : child[c] # "none"}
<1>1. CASE Fork \/ ForkFails \/ Install \/ Unblock \/ HandlerStarts \/ Collect
  <2>1. ppc' # "exited"
    BY <1>0, <1>1 DEF Fork, ForkFails, Install, Unblock, HandlerStarts, Collect, Counts
  <2> QED
    BY <2>1 DEF AllCollected
<1>2. CASE AfterForks
  BY <1>2 DEF AfterForks, Exit, AllCollected, ParentPart, signals
<1>3. CASE HandlerEnds \/ UNCHANGED cvars
  BY <1>3 DEF HandlerEnds, cvars, AllCollected, Zombies, Alive
<1>4. CASE NoChildLeft
  <2>1. child' = child /\ reclaim_num' = reclaim_num
    BY <1>0, <1>4 DEF NoChildLeft, Exit, ChildrenTypeOK, Zombies, Kids
  <2>2. Here = Reaped
    BY <1>0, <1>4 DEF NoChildLeft, ChildrenTypeOK, Zombies, Alive, Reaped
  <2>3. reclaim_num = Cardinality(Reaped)
    BY <1>0, <1>4 DEF NoChildLeft, Counts
  <2> QED
    BY <1>4, <2>1, <2>2, <2>3 DEF NoChildLeft, AllCollected, Zombies, Alive
<1>5. CASE AllCounted
  <2>1. reclaim_num = N /\ reclaim_num = Cardinality(Reaped)
    BY <1>0, <1>5 DEF AllCounted, Counts, Phases, THREAD_NUM
  <2>2. Reaped = Kids
    BY <2>1, ReapedCount
  <2>3. child' = child /\ reclaim_num' = reclaim_num
    BY <1>0, <1>5, <2>2 DEF AllCounted, Exit, ChildrenTypeOK, Reaped
  <2>4. Here = Reaped /\ Zombies \cup Alive = {}
    BY <2>2 DEF Reaped, Zombies, Alive
  <2> QED
    BY <2>1, <2>3, <2>4 DEF AllCollected, Zombies, Alive
<1>6. CASE KillChild \/ Leave
  <2>1. program' \in {"kill", "orphan"}
    BY <1>0, <1>6 DEF KillChild, Leave, Exit, Phases
  <2> QED
    BY <2>1 DEF AllCollected
<1>7. ASSUME NEW c \in Kids, ChildEnds(c) PROVE AllCollected'
  BY <1>7 DEF ChildEnds, AllCollected, Alive
<1> QED
  BY <1>1, <1>2, <1>3, <1>4, <1>5, <1>6, <1>7 DEF ChildrenNext, Parent

\* A parent of wait.c or waitpid.c whose last fork did not fail, and the parent of a chorus,
\* return only when every child they have started is collected and counted.  After a failed last
\* fork the first two leave their children behind, which the theorem excepts.
THEOREM NobodyLeftBehind == ChildrenSpec => []AllCollected
<1>1. Init => AllCollected
  BY DEF Init, AllCollected
<1> QED
  BY <1>1, CollectedStep, ChildrenInvariant, PTL DEF ChildrenSpec

\* The types are invariant: reclaim_num, too, stays within 0..N.
THEOREM ChildrenTypes == ChildrenSpec => []ChildrenTypeOK
<1>1. CInv => ChildrenTypeOK
  BY DEF CInv
<1> QED
  BY <1>1, ChildrenInvariant, PTL

-----------------------------------------------------------------------------
(* Shared memory segments: write_shm.c and read_shm.c *)

\* What the steps rely on: ShmTypeOK, in the order in which they need it.
ShmInv == ShmTypeOK /\ AttachedStays

\* The processes that answer for a segment.
Keeper(p, s) == shmid[p] = s /\ spc[p] \in {"shmat", "use", "getchar", "rmid", "killed"}

-----------------------------------------------------------------------------
\* At first there are no segments.
LEMMA ShmStart == ShmInit => ShmInv /\ NoSegmentLeftBehind
BY DEF ShmInit, ShmInv, ShmTypeOK, AttachedStays, NoSegmentLeftBehind

\* A detached segment is one that nobody else has attached.
LEMMA DetachKeeps ==
  ASSUME ShmInv, NEW p \in Procs, Detach(p), spc[p] = "getchar"
  PROVE  /\ present' \subseteq present
         /\ keyed \in present' \cup {NoSegment}
         /\ \A q \in Procs \ {p} : spc[q] \in {"use", "getchar"} => shmid[q] \in present'
<1>1. ASSUME NEW q \in Procs \ {p}, spc[q] \in {"use", "getchar"} PROVE shmid[q] \in present'
  <2>1. shmid[q] \in present
    BY <1>1 DEF ShmInv, AttachedStays
  <2>2. CASE shmid[p] # keyed /\ Attached(shmid[p]) = {p}
    <3>1. shmid[q] # shmid[p]
      BY <1>1, <2>2 DEF Attached
    <3> QED
      BY <2>1, <2>2, <3>1 DEF Detach
  <2> QED
    BY <2>1, <2>2 DEF Detach
<1>2. present' \subseteq present
  BY DEF Detach
<1>3. keyed \in present' \cup {NoSegment}
  BY DEF Detach, ShmInv, ShmTypeOK
<1> QED
  BY <1>1, <1>2, <1>3

\* Every step keeps the types, and the segments that are attached.
LEMMA ShmKept == ShmInv /\ [ShmNext]_shvars => ShmInv'
<1> SUFFICES ASSUME ShmInv, [ShmNext]_shvars PROVE ShmInv'
  OBVIOUS
<1>0. ShmTypeOK /\ AttachedStays
  BY DEF ShmInv
<1> USE DEF ShmTypeOK, AttachedStays, ShmInv
<1>1. ASSUME NEW p \in Procs, Shmget(p) PROVE ShmInv'
  BY <1>0, <1>1 DEF Shmget
<1>2. ASSUME NEW p \in Procs, Shmat(p) PROVE ShmInv'
  BY <1>0, <1>2 DEF Shmat
<1>3. ASSUME NEW p \in Procs, Use(p) PROVE ShmInv'
  BY <1>0, <1>3 DEF Use
<1>4. ASSUME NEW p \in Procs, Shmdt(p) PROVE ShmInv'
  <2>1. Detach(p) /\ spc[p] = "getchar"
    BY <1>4 DEF Shmdt
  <2>2. spc' = [spc EXCEPT ![p] = "rmid"] /\ UNCHANGED <<role, shmid, keyed, created>>
    BY <1>4 DEF Shmdt
  <2> QED
    BY <1>0, <2>1, <2>2, DetachKeeps
<1>5. ASSUME NEW p \in Procs, Remove(p) PROVE ShmInv'
  BY <1>0, <1>5 DEF Remove, Attached
<1>6. ASSUME NEW p \in Procs, Interrupted(p) PROVE ShmInv'
  <2>1. Detach(p) /\ spc[p] = "getchar"
    BY <1>6 DEF Interrupted
  <2>2. spc' = [spc EXCEPT ![p] = "killed"] /\ UNCHANGED <<role, shmid, keyed, created>>
    BY <1>6 DEF Interrupted
  <2> QED
    BY <1>0, <2>1, <2>2, DetachKeeps
<1>7. CASE UNCHANGED shvars
  BY <1>0, <1>7 DEF shvars
<1> QED
  BY <1>1, <1>2, <1>3, <1>4, <1>5, <1>6, <1>7 DEF ShmNext

\* A process that stops answering for a segment removes it or finds another that does.
LEMMA KeeperStep == ShmInv /\ NoSegmentLeftBehind /\ [ShmNext]_shvars => NoSegmentLeftBehind'
<1> SUFFICES ASSUME ShmInv, NoSegmentLeftBehind, [ShmNext]_shvars, NEW s \in present'
             PROVE  \E p \in Procs : Keeper(p, s)'
  BY DEF NoSegmentLeftBehind, Keeper
<1>0. ShmTypeOK /\ (s \in present => \E q \in Procs : Keeper(q, s))
  BY DEF ShmInv, NoSegmentLeftBehind, Keeper
<1> USE DEF ShmTypeOK, Keeper
<1>1. ASSUME NEW p \in Procs, Shmget(p) PROVE \E q \in Procs : Keeper(q, s)'
  <2>1. CASE s \in present
    <3>1. PICK q \in Procs : Keeper(q, s)
      BY <1>0, <2>1
    <3> QED
      BY <1>0, <1>1, <3>1 DEF Shmget
  <2>2. CASE s \notin present
    <3>1. Keeper(p, s)'
      BY <1>0, <1>1, <2>2 DEF Shmget
    <3> QED
      BY <3>1
  <2> QED
    BY <2>1, <2>2
<1>2. ASSUME NEW p \in Procs, Shmat(p) PROVE \E q \in Procs : Keeper(q, s)'
  <2>1. PICK q \in Procs : Keeper(q, s)
    BY <1>0, <1>2 DEF Shmat
  <2>2. Keeper(q, s)'
    BY <1>0, <1>2, <2>1 DEF Shmat
  <2> QED
    BY <2>2
<1>3. ASSUME NEW p \in Procs, Use(p) PROVE \E q \in Procs : Keeper(q, s)'
  <2>1. PICK q \in Procs : Keeper(q, s)
    BY <1>0, <1>3 DEF Use
  <2>2. Keeper(q, s)'
    BY <1>0, <1>3, <2>1 DEF Use
  <2> QED
    BY <2>2
<1>4. ASSUME NEW p \in Procs, Shmdt(p) \/ Interrupted(p) PROVE \E q \in Procs : Keeper(q, s)'
  <2>1. PICK q \in Procs : Keeper(q, s)
    BY <1>0, <1>4 DEF Shmdt, Interrupted, Detach
  <2>2. Keeper(q, s)'
    BY <1>0, <1>4, <2>1 DEF Shmdt, Interrupted
  <2> QED
    BY <2>2
<1>5. ASSUME NEW p \in Procs, Remove(p) PROVE \E q \in Procs : Keeper(q, s)'
  <2>1. PICK q \in Procs : Keeper(q, s)
    BY <1>0, <1>5 DEF Remove
  <2>2. CASE q = p
    <3>1. PICK r \in Procs : shmid[r] = s /\ spc[r] \in {"use", "getchar"}
      BY <1>5, <2>1, <2>2 DEF Remove, Attached
    <3>2. Keeper(r, s)'
      BY <1>0, <1>5, <3>1 DEF Remove
    <3> QED
      BY <3>2
  <2>3. CASE q # p
    <3>1. Keeper(q, s)'
      BY <1>0, <1>5, <2>1, <2>3 DEF Remove
    <3> QED
      BY <3>1
  <2> QED
    BY <2>2, <2>3
<1>6. CASE UNCHANGED shvars
  BY <1>0, <1>6 DEF shvars
<1> QED
  BY <1>1, <1>2, <1>3, <1>4, <1>5, <1>6 DEF ShmNext

-----------------------------------------------------------------------------
\* Of write_shm.c and read_shm.c: a segment stays as long as a process has it attached, and one
\* that exists has a process that has yet to remove it or was killed before it could.  So none is
\* left when all have returned; one whose user was killed may stay for ever.
THEOREM SegmentsSound ==
  ShmInit /\ [][ShmNext]_shvars => [](ShmTypeOK /\ AttachedStays /\ NoSegmentLeftBehind)
<1>1. ShmInv /\ NoSegmentLeftBehind => ShmTypeOK /\ AttachedStays /\ NoSegmentLeftBehind
  BY DEF ShmInv
<1> QED
  BY <1>1, ShmStart, ShmKept, KeeperStep, PTL

-----------------------------------------------------------------------------
(* Signals: timers, handlers, and blocked signals *)

\* A program with a handler has installed it before its timer runs.
Handles == sigprog \in {"sighanlder", "sigaction", "daemonP"}
CaughtFirst == Handles /\ ~caught => timer = "off" /\ "ALRM" \notin due /\ Head(todo) = "catch"
NoneLost == \A s \in keys : s \in due \/ ended # "no"
SigInv == Sig!SignalsTypeOK /\ CaughtFirst /\ NoneLost /\ (ended = "ALRM" => ~Handles)

\* The programs with a handler begin by installing it.
LEMMA CatchersStart ==
  /\ DOMAIN Sig!Statements =
       {"alarm", "alarm1", "setitimer", "sighanlder", "sigaction", "daemonP", "sigprocmask"}
  /\ Handles => Head(Sig!Statements[sigprog]) = "catch"
BY DEF Handles, Sig!Statements, Sig!Sighanlder, Sig!Sigaction, Sig!DaemonP

\* The other programs install none.
LEMMA OthersCatchNothing ==
  ASSUME sigprog \in DOMAIN Sig!Statements, ~Handles,
         NEW k \in 1..Len(Sig!Statements[sigprog])
  PROVE  Sig!Statements[sigprog][k] # "catch"
<1> USE DEF Sig!Statements
<1>1. sigprog \in {"alarm", "alarm1", "setitimer", "sigprocmask"}
  BY CatchersStart DEF Handles
<1>2. CASE sigprog = "alarm"
  BY <1>2 DEF Sig!Alarm
<1>3. CASE sigprog = "alarm1"
  BY <1>3 DEF Sig!Alarm1
<1>4. CASE sigprog = "setitimer"
  BY <1>4 DEF Sig!Setitimer
<1>5. CASE sigprog = "sigprocmask"
  BY <1>5 DEF Sig!Sigprocmask
<1> QED
  BY <1>1, <1>2, <1>3, <1>4, <1>5

\* At first no signal is there, and no timer runs.
LEMMA SignalsStart == Sig!SignalsInit => SigInv
<1> SUFFICES ASSUME Sig!SignalsInit PROVE SigInv
  OBVIOUS
<1>1. Sig!SignalsTypeOK
  <2>1. Rounds \in Nat
    BY ProcessesAssumption DEF Sig!SignalsAssumption
  <2>2. rounds = 0 /\ 0 \in 0..Rounds + 1
    BY <2>1 DEF Sig!SignalsInit
  <2> QED
    BY <2>2 DEF Sig!SignalsInit, Sig!SignalsTypeOK
<1>2. CaughtFirst
  BY CatchersStart DEF Sig!SignalsInit, CaughtFirst
<1> QED
  BY <1>1, <1>2 DEF Sig!SignalsInit, SigInv, NoneLost

\* Signals are lost by no step, and no timer of a program with a handler kills it.
LEMMA SignalsKept == SigInv /\ [Sig!SignalsNext]_svars => SigInv'
<1> SUFFICES ASSUME SigInv, [Sig!SignalsNext]_svars PROVE SigInv'
  OBVIOUS
<1>0. Sig!SignalsTypeOK /\ CaughtFirst /\ NoneLost /\ (ended = "ALRM" => ~Handles)
  BY DEF SigInv
<1> USE DEF Sig!SignalsTypeOK, CaughtFirst, NoneLost, SigInv, Handles, Sig!Keys
<1>1. CASE Sig!Catch
  BY <1>0, <1>1 DEF Sig!Catch, Sig!At
<1>2. CASE Sig!Arm
  BY <1>0, <1>2 DEF Sig!Arm, Sig!At
<1>3. CASE Sig!Expire
  BY <1>0, <1>3 DEF Sig!Expire
<1>4. ASSUME NEW s \in Sig!Keys, Sig!Send(s) PROVE SigInv'
  BY <1>0, <1>4 DEF Sig!Send
<1>5. CASE Sig!Getchar
  BY <1>0, <1>5 DEF Sig!Getchar
<1>6. CASE Sig!Block
  BY <1>0, <1>6 DEF Sig!Block, Sig!At
<1>7. CASE Sig!Round
  <2>0. Rounds \in Nat
    BY ProcessesAssumption DEF Sig!SignalsAssumption
  <2>1. rounds' \in 0..Rounds + 1
    BY <1>0, <1>7, <2>0 DEF Sig!Round
  <2> QED
    BY <1>0, <1>7, <2>1 DEF Sig!Round
<1>8. ASSUME NEW s \in Sig!Keys \cup {"ALRM"}, Sig!Deliver(s) PROVE SigInv'
  <2>1. CASE s = "ALRM"
    BY <1>0, <1>8, <2>1 DEF Sig!Deliver
  <2>2. CASE s # "ALRM"
    BY <1>0, <1>8, <2>2 DEF Sig!Deliver
  <2> QED
    BY <2>1, <2>2
<1>9. CASE Sig!Return
  BY <1>0, <1>9 DEF Sig!Return
<1>10. CASE UNCHANGED svars
  BY <1>0, <1>10 DEF svars
<1> QED
  BY <1>1, <1>2, <1>3, <1>4, <1>5, <1>6, <1>7, <1>8, <1>9, <1>10
     DEF Sig!SignalsNext, Sig!Main, Sig!Delivery

-----------------------------------------------------------------------------
(* Mapped memory: a.c and b.c, mmap-p2c-ipc.c, mmap-anonymous.c *)

\* mmap-p2c-ipc.c: the parent begins to read when its child has written everything.
OneAfterTheOther ==
  mprog = "p2c" /\ ~cut =>
    /\ wpc # "wait"
    /\ wpc = "write" => \A k \in 1..wat : mem[k] = text
    /\ wpc = "ended" => mem = Map!Text(text)
    /\ rpc = "wait" => rat = 0
    /\ rpc = "read" => wpc = "ended" /\ \A k \in 1..rat : buf[k] = text
MapInv == Map!MappedTypeOK /\ OneAfterTheOther

\* At first nothing is written and nothing is read.
LEMMA MappedStart == Map!MappedInit => MapInv
<1> SUFFICES ASSUME Map!MappedInit PROVE MapInv
  OBVIOUS
<1>0. Cells \in Nat \ {0} /\ MaxTexts \in Nat \ {0}
  BY ProcessesAssumption DEF Map!MappedAssumption
<1>1. /\ mem = Map!Text(0) /\ text = 0 /\ wat = 0 /\ rat = 0 /\ buf = Map!Text(0) /\ cut = FALSE
      /\ mprog \in {"contact", "p2c", "anonymous"}
  BY DEF Map!MappedInit
<1>2. PICK forked_ \in BOOLEAN :
        CASE mprog = "contact"   -> /\ wpc = (IF forked_ THEN "scanf" ELSE "ended")
                                    /\ rpc \in {"read", "ended"}
                                    /\ kid = (IF forked_ THEN "running" ELSE "none")
          [] mprog = "p2c"       -> /\ wpc = (IF forked_ THEN "scanf" ELSE "ended")
                                    /\ rpc = (IF forked_ THEN "wait" ELSE "ended")
                                    /\ kid = "none"
          [] mprog = "anonymous" -> /\ wpc = (IF forked_ THEN "scanf" ELSE "ended")
                                    /\ rpc = (IF forked_ THEN "read" ELSE "ended")
                                    /\ kid = "none"
  BY DEF Map!MappedInit
<1>3. wpc \in {"scanf", "ended"} /\ rpc \in {"wait", "read", "ended"} /\ kid \in {"none", "running", "killed"}
  BY <1>1, <1>2
<1>4. mprog = "p2c" => rpc \in {"wait", "ended"}
  BY <1>2
<1>5. Map!MappedTypeOK
  <2>1. 0 \in 0..MaxTexts /\ 0 \in 0..Cells
    BY <1>0
  <2>2. Map!Text(0) \in [1..Cells -> 0..MaxTexts]
    BY <2>1 DEF Map!Text
  <2> QED
    BY <1>1, <1>3, <2>1, <2>2 DEF Map!MappedTypeOK
<1> QED
  BY <1>1, <1>3, <1>4, <1>5 DEF MapInv, OneAfterTheOther

\* No step of one process disturbs what the other has copied.
LEMMA MappedKept == MapInv /\ [Map!MappedNext]_mvars => MapInv'
<1> SUFFICES ASSUME MapInv, [Map!MappedNext]_mvars PROVE MapInv'
  OBVIOUS
<1>0. Cells \in Nat \ {0} /\ MaxTexts \in Nat \ {0} /\ Map!MappedTypeOK /\ OneAfterTheOther
  BY ProcessesAssumption DEF Map!MappedAssumption, MapInv
<1> USE DEF Map!MappedTypeOK, OneAfterTheOther, MapInv, Map!writer, Map!reader
<1>1. CASE Map!Scanf
  BY <1>0, <1>1 DEF Map!Scanf
<1>2. CASE Map!WriteCell
  BY <1>0, <1>2 DEF Map!WriteCell
<1>3. CASE Map!Written
  <2>1. mprog = "p2c" /\ ~cut => mem = Map!Text(text)
    BY <1>0, <1>3 DEF Map!Written, Map!Text
  <2> QED
    BY <1>0, <1>3, <2>1 DEF Map!Written, Map!Text
<1>4. CASE Map!WriterWaits
  BY <1>0, <1>4 DEF Map!WriterWaits
<1>5. CASE Map!ReaderWaits
  BY <1>0, <1>5 DEF Map!ReaderWaits, Map!Text
<1>6. CASE Map!ReadCell
  BY <1>0, <1>6 DEF Map!ReadCell, Map!Text
<1>7. CASE Map!Printed
  BY <1>0, <1>7 DEF Map!Printed, Map!Text
<1>8. CASE Map!Killed
  BY <1>0, <1>8 DEF Map!Killed, Map!Text
<1>9. CASE UNCHANGED mvars
  BY <1>0, <1>9 DEF mvars, Map!Text
<1> QED
  BY <1>1, <1>2, <1>3, <1>4, <1>5, <1>6, <1>7, <1>8, <1>9
     DEF Map!MappedNext, Map!MappedWrite, Map!MappedRead

-----------------------------------------------------------------------------
(* Echoes: local_socket, epoll_timer/server.cpp, UDP *)

\* Where the number of a client is: on its way to the server, with it, or on its way back.
Asked(c) == \E k \in 1..Len(requests) : requests[k][1] = c
Served(c) == srv = "send" /\ job[1] = c

\* Of each client one number at most is on its way, the one it has sent last, and none while
\* it is about to send.
OneRequest ==
  /\ \A j, k \in 1..Len(requests) : requests[j][1] = requests[k][1] => j = k
  /\ \A k \in 1..Len(requests) : requests[k][2] = num[requests[k][1]]
  /\ srv = "send" => job \in Clients \X (1..MaxNum) /\ job[2] = num[job[1]]
  /\ \A c \in Clients : Asked(c) => ~Served(c) /\ answers[c] = <<>>
  /\ \A c \in Clients : Served(c) => answers[c] = <<>>
  /\ \A c \in Clients : answers[c] = <<>> \/ answers[c] = <<num[c]>>
  /\ \A c \in Clients : cli[c] = "send" => ~Asked(c) /\ ~Served(c) /\ answers[c] = <<>> /\ heard[c] = num[c]

EchoInv == EchoTypeOK /\ OneRequest

\* Who is on its way when a request is sent, and when the server takes the first.
LEMMA RequestsGrow ==
  ASSUME NEW S, requests \in Seq(S), NEW e \in S, requests' = Append(requests, e)
  PROVE  /\ requests' \in Seq(S)
         /\ 1..Len(requests') = (1..Len(requests)) \cup {Len(requests) + 1}
         /\ Len(requests) + 1 \notin 1..Len(requests)
         /\ requests'[Len(requests) + 1] = e /\ \A k \in 1..Len(requests) : requests'[k] = requests[k]
OBVIOUS

\* The others move up by one.
LEMMA RequestsShrink ==
  ASSUME NEW S, requests \in Seq(S), requests # <<>>, requests' = Tail(requests)
  PROVE  /\ requests' \in Seq(S) /\ Head(requests) \in S
         /\ 1 \in 1..Len(requests) /\ Head(requests) = requests[1]
         /\ \A k \in 1..Len(requests') :
              k + 1 \in 1..Len(requests) /\ k + 1 # 1 /\ requests'[k] = requests[k + 1]
OBVIOUS

\* At first nothing is sent.
LEMMA EchoStart == EchoInit => EchoInv
<1> SUFFICES ASSUME EchoInit PROVE EchoInv
  OBVIOUS
<1>1. /\ requests = <<>> /\ answers = [c \in Clients |-> <<>>] /\ srv = "recv"
      /\ num = [c \in Clients |-> 0] /\ heard = [c \in Clients |-> 0]
  BY DEF EchoInit
<1>2. cli \in [Clients -> {"send", "recv", "gone"}]
  BY DEF EchoInit
<1>3. EchoTypeOK
  <2>1. 0 \in 0..MaxNum
    BY EchoAssumption
  <2> QED
    BY <1>1, <1>2, <2>1 DEF EchoTypeOK
<1>4. Len(requests) = 0
  BY <1>1
<1> QED
  BY <1>1, <1>3, <1>4 DEF EchoInv, OneRequest, Asked, Served

\* Every step keeps at most one number of each client on its way.
LEMMA EchoKept == EchoInv /\ [EchoNext]_echovars => EchoInv'
<1> SUFFICES ASSUME EchoInv, [EchoNext]_echovars PROVE EchoInv'
  OBVIOUS
<1>t. /\ cli \in [Clients -> {"send", "recv", "gone"}] /\ srv \in {"recv", "send", "spins", "gone"}
      /\ num \in [Clients -> 0..MaxNum] /\ heard \in [Clients -> 0..MaxNum]
      /\ requests \in Seq(Clients \X (1..MaxNum)) /\ answers \in [Clients -> Seq(1..MaxNum)]
  BY DEF EchoInv, EchoTypeOK
<1>m. MaxNum \in Nat
  BY EchoAssumption
<1>o. OneRequest
  BY DEF EchoInv
<1>a. ASSUME requests' = requests PROVE \A c : Asked(c)' <=> Asked(c)
  BY <1>a DEF Asked
<1>1. ASSUME NEW c \in Clients, Send(c) PROVE EchoInv'
  <2>0. /\ cli[c] = "send" /\ num[c] < MaxNum /\ UNCHANGED <<echoprog, heard, answers, srv, job>>
        /\ \/ cli' = [cli EXCEPT ![c] = "gone"] /\ UNCHANGED <<num, requests>>
           \/ /\ cli' = [cli EXCEPT ![c] = "recv"] /\ num' = [num EXCEPT ![c] = @ + 1]
              /\ requests' = Append(requests, <<c, num[c] + 1>>) \/ UNCHANGED requests
    BY <1>1 DEF Send
  <2>n. ~Asked(c) /\ ~Served(c) /\ answers[c] = <<>>
    BY <1>o, <2>0 DEF OneRequest
  <2>f. \A k \in 1..Len(requests) : requests[k][1] \in Clients \ {c}
    <3>1. \A k \in 1..Len(requests) : requests[k] \in Clients \X (1..MaxNum)
      BY <1>t
    <3>2. \A k \in 1..Len(requests) : requests[k][1] # c
      BY <2>n DEF Asked
    <3> QED
      BY <3>1, <3>2
  <2>1. CASE cli' = [cli EXCEPT ![c] = "gone"] /\ UNCHANGED <<num, requests>>
    <3>1. OneRequest'
      BY <1>t, <1>o, <1>a, <2>0, <2>1 DEF OneRequest, Served
    <3> QED
      BY <1>t, <2>0, <2>1, <3>1 DEF EchoInv, EchoTypeOK
  <2>2. ASSUME cli' = [cli EXCEPT ![c] = "recv"], num' = [num EXCEPT ![c] = num[c] + 1]
        PROVE  /\ num' \in [Clients -> 0..MaxNum] /\ cli' \in [Clients -> {"send", "recv", "gone"}]
               /\ num[c] + 1 \in 1..MaxNum /\ num'[c] = num[c] + 1
               /\ \A b \in Clients \ {c} : num'[b] = num[b] /\ cli'[b] = cli[b]
               /\ cli'[c] = "recv"
    BY <1>t, <1>m, <2>0, <2>2
  <2>3. CASE cli' = [cli EXCEPT ![c] = "recv"] /\ num' = [num EXCEPT ![c] = @ + 1] /\ UNCHANGED requests
    <3>1. OneRequest'
      BY <1>t, <1>o, <1>a, <2>0, <2>n, <2>f, <2>2, <2>3 DEF OneRequest, Served
    <3> QED
      BY <1>t, <2>0, <2>2, <2>3, <3>1 DEF EchoInv, EchoTypeOK
  <2>4. CASE /\ cli' = [cli EXCEPT ![c] = "recv"] /\ num' = [num EXCEPT ![c] = @ + 1]
             /\ requests' = Append(requests, <<c, num[c] + 1>>)
    <3> DEFINE e == <<c, num[c] + 1>>
    <3>1. e \in Clients \X (1..MaxNum) /\ e[1] = c /\ e[2] = num'[c]
      BY <2>2, <2>4
    <3>2. requests' = Append(requests, e)
      BY <2>4
    <3> HIDE DEF e
    <3>3. /\ requests' \in Seq(Clients \X (1..MaxNum))
          /\ 1..Len(requests') = (1..Len(requests)) \cup {Len(requests) + 1}
          /\ Len(requests) + 1 \notin 1..Len(requests)
          /\ requests'[Len(requests) + 1] = e /\ \A k \in 1..Len(requests) : requests'[k] = requests[k]
      BY <1>t, <3>1, <3>2, RequestsGrow
    <3>4. \A b \in Clients : Asked(b)' => b = c \/ Asked(b)
      BY <3>1, <3>3 DEF Asked
    <3>5. \A j, k \in 1..Len(requests') : requests'[j][1] = requests'[k][1] => j = k
      <4> SUFFICES ASSUME NEW j \in 1..Len(requests'), NEW k \in 1..Len(requests'),
                          requests'[j][1] = requests'[k][1]
                   PROVE  j = k
        OBVIOUS
      <4>1. CASE j \in 1..Len(requests) /\ k \in 1..Len(requests)
        BY <1>o, <3>3, <4>1, Zenon DEF OneRequest
      <4>2. CASE j = Len(requests) + 1 /\ k \in 1..Len(requests)
        BY <2>f, <3>1, <3>3, <4>2, Zenon
      <4>3. CASE k = Len(requests) + 1 /\ j \in 1..Len(requests)
        BY <2>f, <3>1, <3>3, <4>3, Zenon
      <4> QED
        BY <3>3, <4>1, <4>2, <4>3, Zenon
    <3>6. \A k \in 1..Len(requests') : requests'[k][2] = num'[requests'[k][1]]
      BY <1>o, <2>2, <2>4, <2>f, <3>1, <3>3 DEF OneRequest
    <3>7. OneRequest'
      BY <1>t, <1>o, <2>0, <2>n, <2>2, <2>4, <3>4, <3>5, <3>6 DEF OneRequest, Served
    <3> QED
      BY <1>t, <2>0, <2>2, <2>4, <3>3, <3>7 DEF EchoInv, EchoTypeOK
  <2> QED
    BY <2>0, <2>1, <2>3, <2>4
<1>2. ASSUME NEW c \in Clients, Recv(c) PROVE EchoInv'
  <2>0. /\ answers[c] # <<>> /\ heard' = [heard EXCEPT ![c] = Head(answers[c])]
        /\ answers' = [answers EXCEPT ![c] = Tail(answers[c])]
        /\ cli' = [cli EXCEPT ![c] = "send"] /\ UNCHANGED <<num, requests, srv, job>>
    BY <1>2 DEF Recv
  <2>1. answers[c] = <<num[c]>>
    BY <1>o, <2>0 DEF OneRequest
  <2>2. Head(answers[c]) = num[c] /\ Tail(answers[c]) = <<>>
    BY <2>1
  <2>3. answers' \in [Clients -> Seq(1..MaxNum)] /\ heard' \in [Clients -> 0..MaxNum]
        /\ cli' \in [Clients -> {"send", "recv", "gone"}]
    BY <1>t, <2>0, <2>2
  <2>4. ~Asked(c) /\ ~Served(c)
    BY <1>o, <2>0 DEF OneRequest
  <2>5. OneRequest'
    BY <1>t, <1>o, <1>a, <2>0, <2>2, <2>4 DEF OneRequest, Served
  <2> QED
    BY <1>t, <2>0, <2>3, <2>5 DEF EchoInv, EchoTypeOK
<1>3. ASSUME NEW c \in Clients, RecvEnd(c) \/ KillClient(c) PROVE EchoInv'
  <2>0. cli' = [cli EXCEPT ![c] = "gone"] /\ UNCHANGED <<num, heard, requests, answers, srv, job>>
    BY <1>3 DEF RecvEnd, KillClient
  <2>1. OneRequest'
    BY <1>t, <1>o, <1>a, <2>0 DEF OneRequest, Served
  <2> QED
    BY <1>t, <2>0, <2>1 DEF EchoInv, EchoTypeOK
<1>4. CASE SrvRecv
  <2>0. /\ srv = "recv" /\ srv' = "send" /\ requests # <<>> /\ job' = Head(requests)
        /\ requests' = Tail(requests) /\ UNCHANGED <<cli, num, heard, answers>>
    BY <1>4 DEF SrvRecv
  <2>1. /\ requests' \in Seq(Clients \X (1..MaxNum)) /\ Head(requests) \in Clients \X (1..MaxNum)
        /\ 1 \in 1..Len(requests) /\ Head(requests) = requests[1]
        /\ \A k \in 1..Len(requests') :
             k + 1 \in 1..Len(requests) /\ k + 1 # 1 /\ requests'[k] = requests[k + 1]
    BY <1>t, <2>0, RequestsShrink
  <2>2. job' \in Clients \X (1..MaxNum) /\ job'[2] = num[job'[1]] /\ Asked(job'[1])
    BY <1>o, <2>0, <2>1 DEF OneRequest, Asked
  <2>3. \A b : Asked(b)' => Asked(b) /\ b # job'[1]
    BY <1>o, <2>0, <2>1 DEF OneRequest, Asked
  <2>4. \A j, k \in 1..Len(requests') : requests'[j][1] = requests'[k][1] => j = k
    <3> SUFFICES ASSUME NEW j \in 1..Len(requests'), NEW k \in 1..Len(requests'),
                        requests'[j][1] = requests'[k][1]
                 PROVE  j = k
      OBVIOUS
    <3>1. j + 1 \in 1..Len(requests) /\ k + 1 \in 1..Len(requests)
      BY <2>1, Zenon
    <3>2. requests[j + 1][1] = requests[k + 1][1]
      BY <2>1, Zenon
    <3>3. j + 1 = k + 1
      BY <1>o, <3>1, <3>2, Zenon DEF OneRequest
    <3> QED
      BY <3>3
  <2>5. \A k \in 1..Len(requests') : requests'[k][2] = num[requests'[k][1]]
    BY <1>o, <2>1 DEF OneRequest
  <2>6. OneRequest'
    BY <1>t, <1>o, <2>0, <2>2, <2>3, <2>4, <2>5 DEF OneRequest, Served
  <2> QED
    BY <1>t, <2>0, <2>1, <2>6 DEF EchoInv, EchoTypeOK
<1>5. CASE SrvSend
  <2>0. /\ srv = "send" /\ srv' \in {"recv", "gone"} /\ UNCHANGED <<cli, num, heard, requests, job>>
        /\ answers' = [answers EXCEPT ![job[1]] = Append(answers[job[1]], job[2])] \/ UNCHANGED answers
    BY <1>5 DEF SrvSend
  <2>1. PICK c \in Clients : c = job[1]
    BY <1>o, <2>0 DEF OneRequest
  <2>2. Served(c) /\ answers[c] = <<>> /\ ~Asked(c) /\ job[2] = num[c] /\ job[2] \in 1..MaxNum
    BY <1>o, <2>0, <2>1 DEF OneRequest, Served
  <2>3. cli[c] # "send"
    BY <1>o, <2>2 DEF OneRequest
  <2>4. CASE UNCHANGED answers
    <3>1. OneRequest'
      BY <1>t, <1>o, <1>a, <2>0, <2>4 DEF OneRequest, Served
    <3> QED
      BY <1>t, <2>0, <2>4, <3>1 DEF EchoInv, EchoTypeOK
  <2>5. CASE answers' = [answers EXCEPT ![c] = Append(answers[c], job[2])]
    <3>1. Append(answers[c], job[2]) = <<num[c]>> /\ <<num[c]>> \in Seq(1..MaxNum)
      BY <2>2
    <3>2. answers' \in [Clients -> Seq(1..MaxNum)]
      BY <1>t, <2>5, <3>1
    <3>3. OneRequest'
      BY <1>t, <1>o, <1>a, <2>0, <2>2, <2>3, <2>5, <3>1 DEF OneRequest, Served
    <3> QED
      BY <1>t, <2>0, <3>2, <3>3 DEF EchoInv, EchoTypeOK
  <2> QED
    BY <2>0, <2>1, <2>4, <2>5
<1>6. CASE SrvEnd \/ KillServer
  <2>0. srv' \in {"gone", "spins"} /\ UNCHANGED <<cli, num, heard, requests, answers, job>>
    BY <1>6 DEF SrvEnd, KillServer
  <2>1. OneRequest'
    BY <1>t, <1>o, <1>a, <2>0 DEF OneRequest, Served
  <2> QED
    BY <1>t, <2>0, <2>1 DEF EchoInv, EchoTypeOK
<1>7. CASE UNCHANGED echovars
  <2>0. UNCHANGED <<cli, num, heard, requests, answers, srv, job>>
    BY <1>7 DEF echovars
  <2>1. OneRequest'
    BY <1>t, <1>o, <1>a, <2>0 DEF OneRequest, Served
  <2> QED
    BY <1>t, <2>0, <2>1 DEF EchoInv, EchoTypeOK
<1> QED
  BY <1>1, <1>2, <1>3, <1>4, <1>5, <1>6, <1>7 DEF EchoNext, Server, Client

\* What a client hears is the echo of what it has sent.
LEMMA EchoesOwn == EchoInv => AnswersAreOwn
<1> SUFFICES ASSUME EchoInv, NEW c \in Clients
             PROVE  /\ cli[c] = "send" => heard[c] = num[c]
                    /\ \A k \in 1..Len(answers[c]) : answers[c][k] = num[c]
  BY DEF AnswersAreOwn
<1>1. answers[c] = <<>> \/ answers[c] = <<num[c]>>
  BY DEF EchoInv, OneRequest
<1>2. \A k \in 1..Len(answers[c]) : answers[c][k] = num[c]
  BY <1>1
<1> QED
  BY <1>2 DEF EchoInv, OneRequest

-----------------------------------------------------------------------------
(* The broadcast *)

\* A datagram that is on its way ends with its zero.
Terminated == flying # 0 => bytes = Text(flying) + 1
CastInv == BroadcastTypeOK /\ Terminated /\ NothingLeftOverShows

\* At first nothing is shown.
LEMMA CastStart == BroadcastInit => CastInv
BY BroadcastAssumption DEF BroadcastInit, CastInv, BroadcastTypeOK, Terminated, NothingLeftOverShows

\* What is received either has the zero in it, or fills the buffer up to the zero there.
LEMMA CastKept == CastInv /\ [BroadcastNext]_castvars => CastInv'
<1> SUFFICES ASSUME CastInv, [BroadcastNext]_castvars PROVE CastInv'
  OBVIOUS
<1>0. BroadcastTypeOK /\ Terminated /\ NothingLeftOverShows /\ Prefix \in Nat /\ MaxDigits \in Nat \ {0} /\ BufSize \in Nat
  BY BroadcastAssumption DEF CastInv
<1> USE DEF CastInv, BroadcastTypeOK, Terminated, NothingLeftOverShows, Text
<1>1. CASE SendTo
  BY <1>0, <1>1 DEF SendTo
<1>2. CASE RecvFrom
  BY <1>0, <1>2 DEF RecvFrom
<1>3. CASE UNCHANGED castvars
  BY <1>0, <1>3 DEF castvars
<1> QED
  BY <1>1, <1>2, <1>3 DEF BroadcastNext

-----------------------------------------------------------------------------
(* What is in the pipes *)

Piece == 0..(Pieces + Lines)

\* Concatenation under a name of its own, which the provers do not look into.
Joined(a, b) == a \o b

\* What has come out of a pipe and what is still in it is what went in.
DataInv ==
  /\ content \in [Pipes -> Seq(Piece)] /\ over \in [Pipes -> BOOLEAN]
  /\ sent \in [Pipes -> Seq(Piece)] /\ got \in [Pipes -> Seq(Piece)]
  /\ \A x \in Pipes : sent[x] = Joined(got[x], content[x])

\* Three sequences can be put together in either order.
LEMMA Regroup ==
  ASSUME NEW S, NEW a \in Seq(S), NEW b \in Seq(S), NEW c \in Seq(S)
  PROVE  Joined(Joined(a, b), c) = Joined(a, Joined(b, c))
  BY ConcatAssociative DEF Joined

\* With the first k of c, what came out (g) becomes f, and r is what is left; both together are as before.
Splits(g, c, k, f, r) ==
  /\ f = Joined(g, SubSeq(c, 1, k)) /\ r = SubSeq(c, k + 1, Len(c)) /\ Len(r) <= Len(c)
  /\ Joined(g, c) = Joined(f, r)
  /\ \E n \in Len(g) + 1 .. Len(Joined(g, c)) : f = SubSeq(Joined(g, c), 1, n)

\* Taking the first k pieces splits what went in at another place.
LEMMA TakeSplits ==
  ASSUME NEW g \in Seq(Piece), NEW c \in Seq(Piece), NEW l \in Nat, l = Len(c), NEW k \in 1..l
  PROVE  \E f, r \in Seq(Piece) : Splits(g, c, k, f, r)
<1>1. /\ SubSeq(c, 1, k) \in Seq(Piece) /\ Len(SubSeq(c, 1, k)) = k
      /\ SubSeq(c, k + 1, l) \in Seq(Piece) /\ Len(SubSeq(c, k + 1, l)) <= l
  <2>1. \A j \in 1..l : c[j] \in Piece
    BY ElementOfSeq
  <2>2. /\ SubSeq(c, 1, k) \in Seq(Piece) /\ Len(SubSeq(c, 1, k)) = IF 1 <= k THEN k - 1 + 1 ELSE 0
    <3>1. \A j \in 1..k : c[j] \in Piece
      BY <2>1
    <3> QED
      BY <3>1, SubSeqProperties
  <2>3. /\ SubSeq(c, k + 1, l) \in Seq(Piece)
        /\ Len(SubSeq(c, k + 1, l)) = IF k + 1 <= l THEN l - (k + 1) + 1 ELSE 0
    <3>1. \A j \in k + 1..l : c[j] \in Piece
      BY <2>1
    <3>2. k + 1 \in Int /\ l \in Int
      OBVIOUS
    <3> QED
      BY <3>1, <3>2, SubSeqProperties
  <2> QED
    BY <2>2, <2>3
<1>2. SubSeq(c, 1, k) \o SubSeq(c, k + 1, l) = c
  <2>1. SubSeq(c, 1, k) \o SubSeq(c, k + 1, l) = SubSeq(c, 1, l)
    BY ConcatAdjacentSubSeq
  <2> QED
    BY <2>1, SubSeqFull
<1> DEFINE front == SubSeq(c, 1, k)
           rest == SubSeq(c, k + 1, l)
           all == g \o front
<1>3. all \in Seq(Piece) /\ Len(all) = Len(g) + k
  BY <1>1, ConcatProperties
<1>4. g \o c = all \o rest
  <2>1. front \in Seq(Piece) /\ rest \in Seq(Piece) /\ front \o rest = c
    BY <1>1, <1>2
  <2> HIDE DEF front, rest
  <2>2. Joined(Joined(g, front), rest) = Joined(g, Joined(front, rest))
    BY <2>1, Regroup
  <2>3. Joined(front, rest) = c
    BY <2>1 DEF Joined
  <2>4. Joined(g, c) = Joined(Joined(g, front), rest)
    BY <2>2, <2>3
  <2> QED
    BY <2>4 DEF all, Joined
<1>5. Len(g \o c) = Len(g) + l
  BY ConcatProperties
<1>6. all = SubSeq(g \o c, 1, Len(all))
  <2>1. Len(all) \in 1..Len(all) /\ 1 \in 1..Len(all) + 1
    <3>1. PICK m \in Nat : m = Len(g)
      BY LenProperties
    <3> QED
      BY <1>3, <3>1
  <2>2. SubSeq(all \o rest, 1, Len(all)) = SubSeq(all, 1, Len(all))
    <3> HIDE DEF all, rest
    <3> QED
      BY <1>1, <1>3, <2>1, SubSeqOfConcat1 DEF rest
  <2>3. SubSeq(all, 1, Len(all)) = all
    <3> HIDE DEF all
    <3> QED
      BY <1>3, SubSeqFull
  <2> QED
    BY <1>4, <2>2, <2>3
<1>7. Len(all) \in Len(g) + 1 .. Len(g \o c)
  <2>1. PICK m \in Nat : m = Len(g)
    BY LenProperties
  <2> QED
    BY <1>3, <1>5, <2>1
<1>8. g \o c = Joined(g, c) /\ all = Joined(g, front) /\ all \o rest = Joined(all, rest)
  BY DEF Joined
<1>9. rest \in Seq(Piece) /\ Len(rest) <= l
  BY <1>1
<1> HIDE DEF rest
<1>10. Joined(g, c) = Joined(all, rest) /\ all = SubSeq(Joined(g, c), 1, Len(all))
      /\ Len(all) \in Len(g) + 1 .. Len(Joined(g, c))
  BY <1>4, <1>6, <1>7, <1>8
<1> HIDE DEF all, front
<1> QED
  BY <1>3, <1>8, <1>9, <1>10 DEF rest, front, Splits

\* A piece goes in at the end.
LEMMA PutData ==
  ASSUME DataInv, NEW x \in Pipes, Put(x), Len(sent[x]) < Pieces \/ Len(sent[x]) < Lines
  PROVE  /\ DataInv'
         /\ \E m \in Piece : sent' = [sent EXCEPT ![x] = Append(sent[x], m)]
<1>0. Pieces \in Nat /\ Lines \in Nat
  BY PipesAssumption, ProcessesAssumption DEF C!ChatAssumption
<1>1. /\ content' = [content EXCEPT ![x] = Append(content[x], Len(sent[x]))]
      /\ sent' = [sent EXCEPT ![x] = Append(sent[x], Len(sent[x]))] /\ UNCHANGED <<got, over>>
  BY DEF Put
<1>2. PICK m \in Piece : m = Len(sent[x])
  <2>1. PICK l \in Nat : l = Len(sent[x])
    BY LenProperties DEF DataInv
  <2> QED
    BY <1>0, <2>1 DEF Piece
<1>3. Append(content[x], m) \in Seq(Piece) /\ Append(sent[x], m) \in Seq(Piece)
  BY AppendProperties DEF DataInv
<1>4. Append(sent[x], m) = Joined(got[x], Append(content[x], m))
  <2>0. PICK g \in Seq(Piece), c \in Seq(Piece) : g = got[x] /\ c = content[x]
    BY DEF DataInv
  <2>1. sent[x] = Joined(g, c) /\ sent[x] \in Seq(Piece)
    BY <2>0 DEF DataInv
  <2>2. PICK t \in Seq(Piece) : Append(c, m) = Joined(c, t) /\ Append(sent[x], m) = Joined(sent[x], t)
    <3>1. <<m>> \in Seq(Piece)
      OBVIOUS
    <3> QED
      BY <2>1, <3>1, AppendIsConcat DEF Joined
  <2>3. Joined(Joined(g, c), t) = Joined(g, Joined(c, t))
    BY Regroup
  <2> QED
    BY <2>0, <2>1, <2>2, <2>3
<1>5. DataInv'
  BY <1>1, <1>2, <1>3, <1>4 DEF DataInv
<1> QED
  BY <1>1, <1>2, <1>5

\* Pieces come out at the front.
LEMMA TakeData ==
  ASSUME DataInv, NEW x \in Pipes, Take(x)
  PROVE  /\ DataInv'
         /\ \E n \in Len(got[x]) + 1 .. Len(sent[x]) : got' = [got EXCEPT ![x] = SubSeq(sent[x], 1, n)]
         /\ Len(content'[x]) <= Len(content[x]) /\ \A y \in Pipes \ {x} : content'[y] = content[y]
<1>0. PICK g \in Seq(Piece), c \in Seq(Piece) : g = got[x] /\ c = content[x]
  BY DEF DataInv
<1>l. PICK l \in Nat : l = Len(c)
  BY LenProperties
<1>1. PICK k \in 1..l :
        /\ got' = [got EXCEPT ![x] = g \o SubSeq(c, 1, k)]
        /\ content' = [content EXCEPT ![x] = SubSeq(c, k + 1, l)]
        /\ UNCHANGED <<sent, over>>
  BY <1>0, <1>l DEF Take
<1>r. PICK front, rest \in Seq(Piece) : Splits(g, c, k, front, rest)
  BY <1>l, TakeSplits
<1>2. /\ front = Joined(g, SubSeq(c, 1, k)) /\ rest = SubSeq(c, k + 1, l) /\ Len(rest) <= l
      /\ Joined(g, c) = Joined(front, rest)
      /\ \E n \in Len(g) + 1 .. Len(Joined(g, c)) : front = SubSeq(Joined(g, c), 1, n)
  BY <1>l, <1>r DEF Splits
<1>3. got' = [got EXCEPT ![x] = front] /\ content' = [content EXCEPT ![x] = rest]
  BY <1>1, <1>2 DEF Joined
<1>s. sent[x] = Joined(g, c) /\ sent[x] = Joined(front, rest)
  BY <1>0, <1>2 DEF DataInv
<1>4. DataInv'
  <2>1. sent' = sent /\ sent \in [Pipes -> Seq(Piece)]
    BY <1>1 DEF DataInv
  <2>2. /\ got' \in [Pipes -> Seq(Piece)] /\ content' \in [Pipes -> Seq(Piece)]
        /\ over' \in [Pipes -> BOOLEAN]
    <3>1. over' = over
      BY <1>1
    <3> QED
      BY <1>3, <3>1 DEF DataInv
  <2>3. got'[x] = front /\ content'[x] = rest
    BY <1>3 DEF DataInv
  <2>4. \A y \in Pipes \ {x} : got'[y] = got[y] /\ content'[y] = content[y]
    BY <1>3 DEF DataInv
  <2>5. \A y \in Pipes : sent'[y] = Joined(got'[y], content'[y])
    BY <1>s, <2>1, <2>3, <2>4 DEF DataInv
  <2> QED
    BY <2>1, <2>2, <2>5 DEF DataInv
<1>5. \E n \in Len(g) + 1 .. Len(sent[x]) : front = SubSeq(sent[x], 1, n)
  BY <1>2, <1>s
<1>6. \E n \in Len(got[x]) + 1 .. Len(sent[x]) : got' = [got EXCEPT ![x] = SubSeq(sent[x], 1, n)]
  BY <1>0, <1>3, <1>5
<1>7. content'[x] = rest /\ \A y \in Pipes \ {x} : content'[y] = content[y]
  BY <1>3 DEF DataInv
<1>8. Len(content'[x]) <= Len(content[x])
  BY <1>0, <1>l, <1>2, <1>7
<1> QED
  BY <1>4, <1>6, <1>7, <1>8

\* What the abstract channel allows when its senders are gone (g) and when they are not.
IdealMove(x, g) ==
  \/ UNCHANGED <<sent, got, over>>
  \/ /\ ~g /\ UNCHANGED <<got, over>>
     /\ \E m \in Piece : sent' = [sent EXCEPT ![x] = Append(sent[x], m)]
  \/ /\ UNCHANGED <<sent, over>>
     /\ \E n \in Len(got[x]) + 1 .. Len(sent[x]) : got' = [got EXCEPT ![x] = SubSeq(sent[x], 1, n)]
  \/ /\ g /\ got[x] = sent[x] /\ UNCHANGED <<sent, got>>
     /\ over' = [over EXCEPT ![x] = TRUE]

\* At an end everything has been read.
LEMMA EndData ==
  ASSUME DataInv, NEW x \in Pipes, content[x] = <<>>, UNCHANGED <<content, sent, got>>,
         over' = [over EXCEPT ![x] = TRUE]
  PROVE  DataInv' /\ got[x] = sent[x]
<1>1. got[x] \o <<>> = got[x]
  BY ConcatEmptySeq DEF DataInv
<1> QED
  BY <1>1 DEF DataInv, Joined

-----------------------------------------------------------------------------
(* Pipes and the FIFO: pipe.c, noblock.c, ps_aux_grep_xx.c, write.c and read.c *)

\* The writer holds the write end from open or fork on, and a reader that reads has a writer.
WriterHolds ==
  /\ pp["writer"] \in {"close", "opening", "loop"} => "writer" \in writers["pipe"]
  /\ pp["reader"] \in {"close", "loop"} => pp["writer"] \in {"close", "loop", "ended"}
PipesInv ==
  /\ PipesTypeOK /\ WriterHolds
  /\ readers \in [Pipes -> SUBSET Both] /\ writers \in [Pipes -> SUBSET Both]

\* Every step is one of an ideal channel, and keeps who holds what.
LEMMA PipesKept ==
  ASSUME DataInv, PipesInv, PipesNext
  PROVE  /\ DataInv' /\ PipesInv' /\ IdealMove("pipe", pp["writer"] = "ended")
         /\ pp["writer"] = "ended" => pp'["writer"] = "ended"
<1>0. /\ pp \in [Both -> {"mkfifo", "open", "opening", "close", "loop", "ended"}]
      /\ readers \in [Pipes -> SUBSET Both] /\ writers \in [Pipes -> SUBSET Both]
      /\ Len(content["pipe"]) <= Capacity /\ WriterHolds
      /\ "pipe" \in Pipes /\ Both = {"writer", "reader"} /\ Capacity \in Nat
  BY PipesAssumption DEF PipesInv, PipesTypeOK, Pipes, Both
<1> DEFINE Good == /\ DataInv' /\ PipesInv' /\ IdealMove("pipe", pp["writer"] = "ended")
                   /\ pp["writer"] = "ended" => pp'["writer"] = "ended"
<1>g. ASSUME DataInv', WriterHolds', Len(content'["pipe"]) <= Capacity,
             pp' \in [Both -> {"mkfifo", "open", "opening", "close", "loop", "ended"}],
             readers' \in [Pipes -> SUBSET Both], writers' \in [Pipes -> SUBSET Both],
             IdealMove("pipe", pp["writer"] = "ended"), pp["writer"] = "ended" => pp'["writer"] = "ended"
      PROVE  Good
  BY <1>g DEF PipesInv, PipesTypeOK
<1>q. ASSUME UNCHANGED pieces
      PROVE  DataInv' /\ IdealMove("pipe", pp["writer"] = "ended") /\ Len(content'["pipe"]) <= Capacity
  BY <1>0, <1>q DEF DataInv, IdealMove, pieces
<1>1. ASSUME NEW p \in Both, CloseUnused(p) PROVE Good
  <2>1. pp[p] = "close" /\ pp' = [pp EXCEPT ![p] = "loop"] /\ UNCHANGED pieces
    BY <1>1 DEF CloseUnused, Goes
  <2>2. CASE p = "reader"
    <3>1. writers' = [writers EXCEPT !["pipe"] = writers["pipe"] \ {p}] /\ readers' = readers
      BY <1>1, <2>2 DEF CloseUnused
    <3>2. WriterHolds'
      BY <1>0, <2>1, <2>2, <3>1 DEF WriterHolds
    <3> QED
      BY <1>0, <1>g, <1>q, <2>1, <2>2, <3>1, <3>2
  <2>3. CASE p = "writer"
    <3>1. readers' = [readers EXCEPT !["pipe"] = readers["pipe"] \ {p}] /\ writers' = writers
      BY <1>1, <2>3 DEF CloseUnused
    <3>2. WriterHolds'
      BY <1>0, <2>1, <2>3, <3>1 DEF WriterHolds
    <3> QED
      BY <1>0, <1>g, <1>q, <2>1, <2>3, <3>1, <3>2
  <2> QED
    BY <1>0, <2>2, <2>3
<1>2. CASE Mkfifo
  <2>1. pp["writer"] = "mkfifo" /\ pp' = [pp EXCEPT !["writer"] = "open"] /\ UNCHANGED <<pieces, readers, writers>>
    BY <1>2 DEF Mkfifo, Goes, kvars, pieces
  <2>2. WriterHolds'
    BY <1>0, <2>1 DEF WriterHolds
  <2> QED
    BY <1>0, <1>g, <1>q, <2>1, <2>2
<1>3. ASSUME NEW p \in Both, Open(p) PROVE Good
  <2>1. /\ pp[p] = "open" /\ UNCHANGED pieces
        /\ pp' = IF pp[Other(p)] = "opening" THEN [q \in Both |-> "loop"] ELSE [pp EXCEPT ![p] = "opening"]
    BY <1>3 DEF Open
  <2>2. CASE p = "reader"
    <3>1. readers' = [readers EXCEPT !["pipe"] = {p}] /\ writers' = writers /\ Other(p) = "writer"
      BY <1>3, <2>2 DEF Open, Other
    <3>2. CASE pp["writer"] = "opening"
      <4>1. pp' = [q \in Both |-> "loop"]
        BY <2>1, <3>1, <3>2
      <4>2. WriterHolds'
        BY <1>0, <3>1, <3>2, <4>1 DEF WriterHolds
      <4> QED
        BY <1>0, <1>g, <1>q, <2>1, <2>2, <3>1, <3>2, <4>1, <4>2
    <3>3. CASE pp["writer"] # "opening"
      <4>1. pp' = [pp EXCEPT ![p] = "opening"]
        BY <2>1, <3>1, <3>3
      <4>2. WriterHolds'
        BY <1>0, <2>2, <3>1, <3>3, <4>1 DEF WriterHolds
      <4> QED
        BY <1>0, <1>g, <1>q, <2>1, <2>2, <3>1, <4>1, <4>2
    <3> QED
      BY <3>2, <3>3
  <2>3. CASE p = "writer"
    <3>1. writers' = [writers EXCEPT !["pipe"] = {p}] /\ readers' = readers /\ Other(p) = "reader"
      BY <1>3, <2>3 DEF Open, Other
    <3>2. CASE pp["reader"] = "opening"
      <4>1. pp' = [q \in Both |-> "loop"]
        BY <2>1, <3>1, <3>2
      <4>2. WriterHolds'
        BY <1>0, <2>3, <3>1, <4>1 DEF WriterHolds
      <4> QED
        BY <1>0, <1>g, <1>q, <2>1, <2>3, <3>1, <4>1, <4>2
    <3>3. CASE pp["reader"] # "opening"
      <4>1. pp' = [pp EXCEPT ![p] = "opening"]
        BY <2>1, <3>1, <3>3
      <4>2. WriterHolds'
        BY <1>0, <2>1, <2>3, <3>1, <3>3, <4>1 DEF WriterHolds
      <4> QED
        BY <1>0, <1>g, <1>q, <2>1, <2>3, <3>1, <4>1, <4>2
    <3> QED
      BY <3>2, <3>3
  <2> QED
    BY <1>0, <2>2, <2>3
<1>e. ASSUME NEW p \in Both, pp[p] # "ended", End(p), DataInv', IdealMove("pipe", pp["writer"] = "ended")
      PROVE  Good
  <2>1. /\ pp' = [pp EXCEPT ![p] = "ended"] /\ content' = content
        /\ readers' = [x \in Pipes |-> readers[x] \ {p}] /\ writers' = [x \in Pipes |-> writers[x] \ {p}]
    BY <1>e DEF End, Goes, Drop
  <2>2. WriterHolds'
    BY <1>0, <2>1 DEF WriterHolds
  <2> QED
    BY <1>0, <1>e, <1>g, <2>1, <2>2
<1>d. ASSUME NEW p \in Both, End(p), UNCHANGED over PROVE DataInv' /\ IdealMove("pipe", pp["writer"] = "ended")
  BY <1>d DEF End, DataInv, IdealMove
<1>4. CASE OpenFails
  BY <1>0, <1>4, <1>d, <1>e DEF OpenFails
<1>5. CASE Write
  <2>1. /\ pp["writer"] = "loop" /\ Len(sent["pipe"]) < Pieces /\ Put("pipe")
        /\ Len(content["pipe"]) < Capacity /\ UNCHANGED <<pp, readers, writers, got, over>>
        /\ content' = [content EXCEPT !["pipe"] = Append(content["pipe"], Len(sent["pipe"]))]
    BY <1>5 DEF Write, Put, pipevars, ends
  <2>2. DataInv' /\ \E m \in Piece : sent' = [sent EXCEPT !["pipe"] = Append(sent["pipe"], m)]
    BY <1>0, <2>1, PutData
  <2>3. IdealMove("pipe", pp["writer"] = "ended")
    BY <2>1, <2>2 DEF IdealMove
  <2>4. Len(content'["pipe"]) <= Capacity
    <3>1. content["pipe"] \in Seq(Piece) /\ content'["pipe"] = Append(content["pipe"], Len(sent["pipe"]))
          /\ content'["pipe"] \in Seq(Piece)
      BY <1>0, <2>1, <2>2 DEF DataInv
    <3>2. Len(content'["pipe"]) = Len(content["pipe"]) + 1
      BY <3>1
    <3>3. PICK l \in Nat : l = Len(content["pipe"])
      BY <3>1, LenProperties
    <3> QED
      BY <1>0, <2>1, <3>2, <3>3
  <2>5. WriterHolds'
    BY <1>0, <2>1 DEF WriterHolds
  <2> QED
    BY <1>0, <1>g, <2>1, <2>2, <2>3, <2>4, <2>5
<1>6. CASE WriteToNobody \/ WriterReturns
  BY <1>0, <1>6, <1>d, <1>e DEF WriteToNobody, WriterReturns
<1>7. CASE Read
  <2>1. UNCHANGED <<pp, readers, writers, sent, over>> /\ Take("pipe")
    BY <1>7 DEF Read, Take, pipevars, ends
  <2>2. /\ DataInv' /\ Len(content'["pipe"]) <= Len(content["pipe"])
        /\ \E n \in Len(got["pipe"]) + 1 .. Len(sent["pipe"]) :
             got' = [got EXCEPT !["pipe"] = SubSeq(sent["pipe"], 1, n)]
    BY <1>0, <2>1, TakeData
  <2>3. IdealMove("pipe", pp["writer"] = "ended")
    BY <2>1, <2>2 DEF IdealMove
  <2>4. Len(content'["pipe"]) <= Capacity
    <3>1. PICK l \in Nat : l = Len(content["pipe"])
      BY <1>0, LenProperties DEF DataInv
    <3>2. PICK m \in Nat : m = Len(content'["pipe"])
      BY <1>0, <2>2, LenProperties DEF DataInv
    <3> QED
      BY <1>0, <2>2, <3>1, <3>2
  <2>5. WriterHolds'
    BY <1>0, <2>1 DEF WriterHolds
  <2> QED
    BY <1>0, <1>g, <2>1, <2>2, <2>3, <2>4, <2>5
<1>8. CASE ReadEnd
  <2>1. /\ pp["reader"] = "loop" /\ content["pipe"] = <<>> /\ writers["pipe"] = {} /\ End("reader")
        /\ over' = [over EXCEPT !["pipe"] = TRUE] /\ UNCHANGED <<content, sent, got>>
    BY <1>8 DEF ReadEnd, AtEnd, End
  <2>2. pp["writer"] = "ended"
    BY <1>0, <2>1 DEF WriterHolds
  <2>3. DataInv' /\ got["pipe"] = sent["pipe"]
    BY <1>0, <2>1, EndData
  <2>4. IdealMove("pipe", pp["writer"] = "ended")
    BY <2>1, <2>2, <2>3 DEF IdealMove
  <2> QED
    BY <1>0, <1>e, <2>1, <2>3, <2>4
<1>9. ASSUME NEW p \in Both, Kill(p) PROVE Good
  BY <1>9, <1>d, <1>e DEF Kill
<1> QED
  BY <1>0, <1>1, <1>2, <1>3, <1>4, <1>5, <1>6, <1>7, <1>8, <1>9 DEF PipesNext, Writer, Reader

-----------------------------------------------------------------------------
(* The chat: aChat.c and bChat.c *)

First == {"access aFifo", "mkfifo aFifo", "access bFifo", "mkfifo bFifo"}
Second == {"open second", "opening second", "fork", "forked"}
Roles == {"writer", "reader"}

\* User u has opened the FIFO that he writes to.
Holds(u) ==
  at[u] \in (IF u = "a" THEN Second \cup {"opening first"} ELSE {"opening second", "fork", "forked"})

\* Who holds what: the users pass aFifo together and then bFifo, unless one has left; and each
\* process that lives holds the FIFO its user writes to.
ChatInv ==
  /\ C!ChatTypeOK
  /\ at \in [C!Users -> First \cup Second \cup {"open first", "opening first", "exited"}]
  /\ readers \in [Pipes -> SUBSET C!Talkers] /\ writers \in [Pipes -> SUBSET C!Talkers]
  /\ \A u \in C!Users, r \in Roles : at[u] # "forked" => proc[<<u, r>>] = "none"
  /\ \A u, v \in C!Users : at[u] \in Second => at[v] \in Second \cup {"exited"}
  /\ \A u, v \in C!Users : at[u] \in {"fork", "forked"} => at[v] \in {"fork", "forked", "exited"}
  /\ \A u \in C!Users, r \in Roles :
       Holds(u) /\ proc[<<u, r>>] # "ended" => <<u, r>> \in writers[C!Speaks(u)]

\* The chat uses the same pipes.
LEMMA ChatUses ==
  /\ C!Users = {"a", "b"} /\ C!Talkers = C!Users \X Roles /\ C!Pipes = Pipes
  /\ C!pieces = pieces /\ C!ends = ends /\ C!kvars = kvars /\ C!chatvars = chatvars
  /\ \A u : C!Mine(u) = {u} \X Roles
  /\ \A u \in C!Users : C!Speaks(u) \in Pipes /\ C!Hears(u) \in Pipes
  /\ \A x : (C!Put(x) <=> Put(x)) /\ (C!Take(x) <=> Take(x)) /\ (C!AtEnd(x) <=> AtEnd(x))
  /\ \A S : C!Drop(S) <=> Drop(S)
<1>1. C!Pipes = Pipes /\ C!pieces = pieces /\ C!ends = ends /\ C!kvars = kvars /\ C!chatvars = chatvars
  BY Zenon DEF C!Pipes, Pipes, C!pieces, pieces, C!ends, ends, C!kvars, kvars, C!chatvars, chatvars
<1>2. /\ \A x : (C!Put(x) <=> Put(x)) /\ (C!Take(x) <=> Take(x)) /\ (C!AtEnd(x) <=> AtEnd(x))
      /\ \A S : C!Drop(S) <=> Drop(S)
  <2>1. \A x : C!Put(x) <=> Put(x)
    BY <1>1, Zenon DEF C!Put, Put, C!ends, ends
  <2>2. \A x : C!Take(x) <=> Take(x)
    BY <1>1, Zenon DEF C!Take, Take, C!ends, ends
  <2>3. \A x : C!AtEnd(x) <=> AtEnd(x)
    BY Zenon DEF C!AtEnd, AtEnd
  <2>4. \A S : C!Drop(S) <=> Drop(S)
    BY Zenon DEF C!Drop, Drop, C!Pipes, Pipes
  <2> QED
    BY <2>1, <2>2, <2>3, <2>4, Zenon
<1>3. /\ C!Users = {"a", "b"} /\ C!Talkers = C!Users \X Roles
      /\ \A u : C!Mine(u) = {u} \X Roles
  BY Zenon DEF C!Users, C!Talkers, C!Mine, Roles
<1>4. \A u \in C!Users : C!Speaks(u) \in Pipes /\ C!Hears(u) \in Pipes
  BY <1>3 DEF C!Speaks, C!Hears, Pipes
<1> QED
  BY <1>1, <1>2, <1>3, <1>4

\* User v is waiting inside open for what u opens.
Meets(u, v) == at[v] \in {"opening first", "opening second"} /\ C!Opens(v) = C!Opens(u)

\* Who opens a FIFO meets the other user there, and both go on, or begins to wait.
LEMMA OpenMeets ==
  ASSUME NEW u \in C!Users, NEW v \in C!Users, v # u, C!Users = {u, v}, C!Open(u)
  PROVE  /\ at' = [w \in C!Users |-> at'[w]]
         /\ Meets(u, v) => at'[u] = C!After(u) /\ at'[v] = C!After(v)
         /\ ~Meets(u, v) => at'[v] = at[v] /\ at'[u] = IF at[u] = "open first" THEN "opening first" ELSE "opening second"
         /\ Meets(u, v) /\ at[u] = "open first" => at[v] = "opening first" /\ at'[u] = "open second" /\ at'[v] = "open second"
         /\ Meets(u, v) /\ at[u] = "open second" => at[v] = "opening second" /\ at'[u] = "fork" /\ at'[v] = "fork"
<1> DEFINE waiting == {z \in C!Users \ {u} : at[z] \in {"opening first", "opening second"}
                                              /\ C!Opens(z) = C!Opens(u)}
<1>1. /\ at[u] \in {"open first", "open second"}
      /\ at' = [w \in C!Users |->
                  IF w \in waiting \/ (w = u /\ waiting # {}) THEN C!After(w)
                  ELSE IF w # u THEN at[w]
                  ELSE IF at[u] = "open first" THEN "opening first" ELSE "opening second"]
  BY Zenon DEF C!Open
<1>2. waiting = IF Meets(u, v) THEN {v} ELSE {}
  BY DEF Meets
<1>3. u \notin waiting
  OBVIOUS
<1>4. \A w \in C!Users :
        at'[w] = IF w \in waiting \/ (w = u /\ waiting # {}) THEN C!After(w)
                 ELSE IF w # u THEN at[w]
                 ELSE IF at[u] = "open first" THEN "opening first" ELSE "opening second"
  BY <1>1
<1>5. at' = [w \in C!Users |-> at'[w]]
  BY <1>1
<1> HIDE DEF waiting
<1>6. Meets(u, v) => at'[u] = C!After(u) /\ at'[v] = C!After(v)
  BY <1>2, <1>3, <1>4
<1>7. ~Meets(u, v) => at'[v] = at[v] /\ at'[u] = IF at[u] = "open first" THEN "opening first" ELSE "opening second"
  BY <1>2, <1>3, <1>4
<1>8. Meets(u, v) /\ at[u] = "open first" => at[v] = "opening first" /\ at'[u] = "open second" /\ at'[v] = "open second"
  BY <1>6 DEF Meets, C!Opens, C!After
<1>9. Meets(u, v) /\ at[u] = "open second" => at[v] = "opening second" /\ at'[u] = "fork" /\ at'[v] = "fork"
  BY <1>6 DEF Meets, C!Opens, C!After
<1> QED
  BY <1>5, <1>6, <1>7, <1>8, <1>9

\* Every step is one of an ideal channel, and keeps who holds what.
LEMMA ChatKept ==
  ASSUME DataInv, ChatInv, C!ChatNext
  PROVE  /\ DataInv' /\ ChatInv' /\ (\E u \in C!Users : IdealMove(C!Speaks(u), C!Gone(u)))
         /\ \A u \in C!Users : C!Gone(u) => C!Gone(u)'
<1>0. /\ proc \in [C!Talkers -> {"none", "loop", "spins", "ended"}] /\ exists \subseteq {"aFifo", "bFifo"}
      /\ at \in [C!Users -> First \cup Second \cup {"open first", "opening first", "exited"}]
      /\ readers \in [Pipes -> SUBSET C!Talkers] /\ writers \in [Pipes -> SUBSET C!Talkers]
  BY DEF ChatInv, C!ChatTypeOK
<1>n. \A u \in C!Users, r \in Roles : at[u] # "forked" => proc[<<u, r>>] = "none"
  BY DEF ChatInv
<1>m. /\ \A u, v \in C!Users : at[u] \in Second => at[v] \in Second \cup {"exited"}
      /\ \A u, v \in C!Users : at[u] \in {"fork", "forked"} => at[v] \in {"fork", "forked", "exited"}
  BY DEF ChatInv
<1>h. \A u \in C!Users, r \in Roles :
        Holds(u) /\ proc[<<u, r>>] # "ended" => <<u, r>> \in writers[C!Speaks(u)]
  BY DEF ChatInv
<1>u. /\ C!Users = {"a", "b"} /\ C!Talkers = C!Users \X Roles
      /\ (\A u : C!Mine(u) = {u} \X Roles) /\ \A u \in C!Users : C!Speaks(u) \in Pipes
  BY ChatUses
<1> DEFINE Good == /\ DataInv' /\ ChatInv' /\ (\E u \in C!Users : IdealMove(C!Speaks(u), C!Gone(u)))
                   /\ \A u \in C!Users : C!Gone(u) => C!Gone(u)'
<1>q. ASSUME UNCHANGED pieces PROVE DataInv' /\ \E u \in C!Users : IdealMove(C!Speaks(u), C!Gone(u))
  BY <1>u, <1>q DEF DataInv, IdealMove, pieces
<1>g. ASSUME at' \in [C!Users -> First \cup Second \cup {"open first", "opening first", "exited"}],
             proc' \in [C!Talkers -> {"none", "loop", "spins", "ended"}], exists' \subseteq {"aFifo", "bFifo"},
             readers' \in [Pipes -> SUBSET C!Talkers], writers' \in [Pipes -> SUBSET C!Talkers],
             \A u \in C!Users, r \in Roles : at'[u] # "forked" => proc'[<<u, r>>] = "none",
             \A u, v \in C!Users : at'[u] \in Second => at'[v] \in Second \cup {"exited"},
             \A u, v \in C!Users : at'[u] \in {"fork", "forked"} => at'[v] \in {"fork", "forked", "exited"},
             \A u \in C!Users, r \in Roles :
               Holds(u)' /\ proc'[<<u, r>>] # "ended" => <<u, r>> \in writers'[C!Speaks(u)]
      PROVE  ChatInv'
  <2>1. \A x \in Pipes : readers'[x] \subseteq C!Talkers /\ writers'[x] \subseteq C!Talkers
    BY <1>g
  <2>2. C!ChatTypeOK'
    BY <1>g, <2>1, ChatUses DEF C!ChatTypeOK
  <2>3. \A u : C!Speaks(u)' = C!Speaks(u)
    BY DEF C!Speaks
  <2> QED
    BY <1>g, <2>2, <2>3 DEF ChatInv
<1>a. ASSUME NEW u \in C!Users, at[u] \in First, UNCHANGED <<proc, readers, writers, pieces>>,
             NEW s \in First \cup {"open first"}, at' = [at EXCEPT ![u] = s], exists' \subseteq {"aFifo", "bFifo"}
      PROVE  Good
  <2>1. \A v \in C!Users : at[v] \notin Second /\ at'[v] \notin Second
    BY <1>0, <1>m, <1>a DEF First, Second
  <2>2. \A v \in C!Users : Holds(v)' => Holds(v)
    BY <1>0, <1>a, <2>1 DEF Holds, First, Second
  <2>3. ChatInv'
    <3>1. \A w \in C!Users, r \in Roles : at'[w] # "forked" => proc'[<<w, r>>] = "none"
      BY <1>0, <1>n, <1>a, <2>1 DEF Second
    <3>2. at' \in [C!Users -> First \cup Second \cup {"open first", "opening first", "exited"}]
      BY <1>0, <1>a
    <3>3. \A v \in C!Users : at'[v] \notin {"fork", "forked"}
      BY <2>1 DEF Second
    <3> QED
      BY <1>0, <1>h, <1>a, <1>g, <2>1, <2>2, <3>1, <3>2, <3>3
  <2>4. \A v \in C!Users : C!Gone(v) => C!Gone(v)'
    BY <1>0, <1>a DEF C!Gone, C!Mine, First
  <2> QED
    BY <1>a, <1>q, <2>3, <2>4
<1>l. ASSUME NEW u \in C!Users, at[u] # "forked", C!Leaves(u), UNCHANGED <<proc, pieces>>,
             exists' \subseteq {"aFifo", "bFifo"}
      PROVE  Good
  <2>1. /\ at' = [at EXCEPT ![u] = "exited"]
        /\ readers' = [x \in Pipes |-> readers[x] \ ({u} \X Roles)]
        /\ writers' = [x \in Pipes |-> writers[x] \ ({u} \X Roles)]
    BY <1>l, <1>u, Zenon DEF C!Leaves, C!Drop, C!Pipes, Pipes
  <2>2. \A v \in C!Users \ {u}, r \in Roles : <<v, r>> \notin {u} \X Roles
    OBVIOUS
  <2>3. ChatInv'
    <3>1. \A w \in C!Users : Holds(w)' => w # u /\ Holds(w)
      BY <1>0, <1>u, <2>1 DEF Holds, Second
    <3>2. \A v \in C!Users, r \in Roles :
            Holds(v)' /\ proc'[<<v, r>>] # "ended" => <<v, r>> \in writers'[C!Speaks(v)]
      BY <1>0, <1>h, <1>u, <1>l, <2>1, <2>2, <3>1
    <3>3. readers' \in [Pipes -> SUBSET C!Talkers] /\ writers' \in [Pipes -> SUBSET C!Talkers]
      BY <1>0, <2>1
    <3>4. at' \in [C!Users -> First \cup Second \cup {"open first", "opening first", "exited"}]
      BY <1>0, <2>1
    <3>5. \A w \in C!Users, r \in Roles : at'[w] # "forked" => proc'[<<w, r>>] = "none"
      BY <1>0, <1>n, <1>l, <2>1
    <3>6. "exited" \notin Second
      BY DEF Second
    <3> QED
      BY <1>0, <1>m, <1>l, <1>g, <2>1, <3>2, <3>3, <3>4, <3>5, <3>6
  <2>4. \A v \in C!Users : C!Gone(v) => C!Gone(v)'
    BY <1>0, <1>l, <2>1 DEF C!Gone, C!Mine
  <2> QED
    BY <1>l, <1>q, <2>3, <2>4
<1>p. ASSUME NEW p \in C!Talkers, proc[p] \in {"loop", "spins"}, NEW s \in {"spins", "ended"},
             proc' = [proc EXCEPT ![p] = s], UNCHANGED <<at, exists>>,
             readers' \in [Pipes -> SUBSET C!Talkers], writers' \in [Pipes -> SUBSET C!Talkers],
             \A x \in Pipes : writers[x] \ {q \in {p} : s = "ended"} \subseteq writers'[x]
      PROVE  ChatInv' /\ \A v \in C!Users : C!Gone(v) => C!Gone(v)'
  <2>1. PICK u \in C!Users, r \in Roles : p = <<u, r>>
    BY <1>u
  <2>2. at[u] = "forked"
    BY <1>n, <1>p, <2>1
  <2>3. ChatInv'
    <3>1. \A v \in C!Users : Holds(v)' <=> Holds(v)
      BY <1>p DEF Holds
    <3>2. \A v \in C!Users, k \in Roles :
            proc'[<<v, k>>] = IF <<v, k>> = p THEN s ELSE proc[<<v, k>>]
      BY <1>0, <1>u, <1>p
    <3>3. \A v \in C!Users, k \in Roles :
            Holds(v)' /\ proc'[<<v, k>>] # "ended" => <<v, k>> \in writers'[C!Speaks(v)]
      BY <1>h, <1>u, <1>p, <3>1, <3>2
    <3>4. \A w \in C!Users, k \in Roles : at'[w] # "forked" => proc'[<<w, k>>] = "none"
      BY <1>n, <1>p, <2>1, <2>2, <3>2
    <3>5. proc' \in [C!Talkers -> {"none", "loop", "spins", "ended"}]
      BY <1>0, <1>p
    <3> QED
      BY <1>0, <1>m, <1>p, <1>g, <3>3, <3>4, <3>5
  <2>4. \A v \in C!Users : C!Gone(v) => C!Gone(v)'
    BY <1>0, <1>u, <1>p DEF C!Gone
  <2> QED
    BY <2>3, <2>4
<1>e. ASSUME NEW p \in C!Talkers, proc[p] \in {"loop", "spins"}, C!ProcEnds(p)
      PROVE  ChatInv' /\ \A v \in C!Users : C!Gone(v) => C!Gone(v)'
  <2>1. /\ proc' = [proc EXCEPT ![p] = "ended"] /\ UNCHANGED <<at, exists>>
        /\ readers' = [x \in Pipes |-> readers[x] \ {p}] /\ writers' = [x \in Pipes |-> writers[x] \ {p}]
    BY <1>e, ChatUses, Zenon DEF C!ProcEnds, Drop
  <2>2. readers' \in [Pipes -> SUBSET C!Talkers] /\ writers' \in [Pipes -> SUBSET C!Talkers]
    BY <1>0, <2>1
  <2>3. \A x \in Pipes : writers[x] \ {q \in {p} : "ended" = "ended"} \subseteq writers'[x]
    BY <1>0, <2>1
  <2> QED
    BY <1>e, <1>p, <2>1, <2>2, <2>3
<1>d. ASSUME NEW p \in C!Talkers, C!ProcEnds(p), UNCHANGED over
      PROVE  DataInv' /\ \E u \in C!Users : IdealMove(C!Speaks(u), C!Gone(u))
  <2>1. UNCHANGED pieces
    BY <1>d DEF C!ProcEnds, pieces
  <2> QED
    BY <1>q, <2>1
<1>1. ASSUME NEW u \in C!Users, NEW x \in {"aFifo", "bFifo"}, C!Access(u, x) PROVE Good
  <2>1. /\ at[u] = (IF x = "aFifo" THEN "access aFifo" ELSE "access bFifo")
        /\ UNCHANGED <<proc, exists, readers, writers, pieces>>
        /\ \/ at' = [at EXCEPT ![u] = C!After(u)]
           \/ at' = [at EXCEPT ![u] = IF x = "aFifo" THEN "mkfifo aFifo" ELSE "mkfifo bFifo"]
    BY <1>1, Zenon DEF C!Access, C!GoesOn, C!kvars, pieces
  <2>2. at[u] \in First /\ C!After(u) \in First \cup {"open first"}
    BY <2>1 DEF C!After, First
  <2>3. PICK s \in First \cup {"open first"} : at' = [at EXCEPT ![u] = s]
    BY <2>1, <2>2 DEF First
  <2> QED
    BY <1>0, <1>a, <2>1, <2>2, <2>3
<1>2. ASSUME NEW u \in C!Users, NEW x \in {"aFifo", "bFifo"}, C!Mkfifo(u, x) PROVE Good
  <2>1. /\ at[u] = (IF x = "aFifo" THEN "mkfifo aFifo" ELSE "mkfifo bFifo")
        /\ UNCHANGED <<proc, pieces>> /\ exists' = exists \cup {x}
        /\ \/ C!Leaves(u)
           \/ at' = [at EXCEPT ![u] = C!After(u)] /\ UNCHANGED <<readers, writers>>
    BY <1>2, Zenon DEF C!Mkfifo, C!GoesOn, C!ends, C!pieces, pieces
  <2>2. at[u] \in First /\ at[u] # "forked" /\ C!After(u) \in First \cup {"open first"}
    BY <2>1 DEF C!After, First
  <2> QED
    BY <1>0, <1>a, <1>l, <2>1, <2>2
<1>3. ASSUME NEW u \in C!Users, C!Open(u) PROVE Good
  <2>0. PICK v \in C!Users : v # u /\ C!Users = {u, v}
    BY <1>u
  <2>1. /\ at[u] \in {"open first", "open second"} /\ UNCHANGED <<proc, exists, pieces>>
        /\ IF C!Opens(u) = C!Speaks(u)
           THEN writers' = [writers EXCEPT ![C!Opens(u)] = writers[C!Opens(u)] \cup C!Mine(u)] /\ readers' = readers
           ELSE readers' = [readers EXCEPT ![C!Opens(u)] = readers[C!Opens(u)] \cup C!Mine(u)] /\ writers' = writers
    BY <1>3, Zenon DEF C!Open, C!pieces, pieces
  <2>2. at' = [w \in C!Users |-> at'[w]]
    BY <1>3, <2>0, OpenMeets
  <2>3. /\ Meets(u, v) => at'[u] = C!After(u) /\ at'[v] = C!After(v)
        /\ ~Meets(u, v) => at'[v] = at[v] /\ at'[u] = IF at[u] = "open first" THEN "opening first" ELSE "opening second"
    BY <1>3, <2>0, OpenMeets
  <2>4. C!Opens(u) = (IF at[u] = "open first" THEN "aFifo" ELSE "bFifo") /\ C!Opens(u) \in Pipes
    BY <2>1 DEF C!Opens, Pipes
  <2>5. /\ Meets(u, v) /\ at[u] = "open first" => at[v] = "opening first" /\ at'[u] = "open second" /\ at'[v] = "open second"
        /\ Meets(u, v) /\ at[u] = "open second" => at[v] = "opening second" /\ at'[u] = "fork" /\ at'[v] = "fork"
    BY <1>3, <2>0, OpenMeets
  <2>6. \A w \in C!Users : Holds(w)' => Holds(w) \/ (w = u /\ C!Opens(u) = C!Speaks(u))
    BY <1>u, <2>0, <2>1, <2>3, <2>4, <2>5 DEF Holds, Second, C!Speaks
  <2>7. /\ readers' \in [Pipes -> SUBSET C!Talkers] /\ writers' \in [Pipes -> SUBSET C!Talkers]
        /\ (\A x \in Pipes : writers[x] \subseteq writers'[x])
        /\ C!Opens(u) = C!Speaks(u) => {u} \X Roles \subseteq writers'[C!Speaks(u)]
    <3>1. C!Mine(u) = {u} \X Roles /\ C!Mine(u) \subseteq C!Talkers
      BY <1>u
    <3>2. CASE C!Opens(u) = C!Speaks(u)
      <4>1. writers' = [writers EXCEPT ![C!Opens(u)] = writers[C!Opens(u)] \cup C!Mine(u)] /\ readers' = readers
        BY <2>1, <3>2
      <4> QED
        BY <1>0, <2>4, <3>1, <3>2, <4>1
    <3>3. CASE C!Opens(u) # C!Speaks(u)
      <4>1. readers' = [readers EXCEPT ![C!Opens(u)] = readers[C!Opens(u)] \cup C!Mine(u)] /\ writers' = writers
        BY <2>1, <3>3
      <4> QED
        BY <1>0, <2>4, <3>1, <3>3, <4>1
    <3> QED
      BY <3>2, <3>3
  <2>8. \A w \in C!Users, r \in Roles :
          Holds(w)' /\ proc'[<<w, r>>] # "ended" => <<w, r>> \in writers'[C!Speaks(w)]
    BY <1>h, <1>u, <2>1, <2>6, <2>7
  <2>9. /\ at' \in [C!Users -> First \cup Second \cup {"open first", "opening first", "exited"}]
        /\ \A w \in C!Users : at'[w] = "forked" <=> at[w] = "forked"
    <3>1. DOMAIN at' = C!Users /\ at' = [w \in C!Users |-> at'[w]]
      BY <2>2
    <3>2. \A w \in C!Users : at'[w] \in First \cup Second \cup {"open first", "opening first", "exited"}
      BY <1>0, <2>0, <2>1, <2>3, <2>5 DEF Second
    <3>3. \A w \in C!Users : at'[w] = "forked" <=> at[w] = "forked"
      BY <2>0, <2>1, <2>3, <2>5
    <3> QED
      BY <3>1, <3>2, <3>3
  <2>10. /\ \A y, z \in C!Users : at'[y] \in Second => at'[z] \in Second \cup {"exited"}
         /\ \A y, z \in C!Users : at'[y] \in {"fork", "forked"} => at'[z] \in {"fork", "forked", "exited"}
    BY <1>m, <2>0, <2>1, <2>3, <2>5 DEF Second
  <2>11. ChatInv'
    BY <1>0, <1>n, <1>g, <2>1, <2>7, <2>8, <2>9, <2>10
  <2>12. \A w \in C!Users : C!Gone(w) => C!Gone(w)'
    BY <2>0, <2>1, <2>3, <2>5 DEF C!Gone, C!Mine
  <2> QED
    BY <1>q, <2>1, <2>11, <2>12
<1>4. ASSUME NEW u \in C!Users, C!Fork(u) PROVE Good
  <2>1. PICK ok \in BOOLEAN :
        /\ proc' = [p \in C!Talkers |-> IF p \notin C!Mine(u) THEN proc[p] ELSE IF ok THEN "loop"
                                        ELSE IF p[2] = "writer" THEN "spins" ELSE "ended"]
        /\ IF ok THEN UNCHANGED ends ELSE Drop({<<u, "reader">>})
    BY <1>4, Zenon DEF C!Fork, C!Drop, Drop, C!Pipes, Pipes, C!ends, ends
  <2>2. at[u] = "fork" /\ at' = [at EXCEPT ![u] = "forked"] /\ UNCHANGED <<exists, pieces>>
    BY <1>4, Zenon DEF C!Fork, C!pieces, pieces
  <2>3. /\ \A v \in C!Users \ {u}, r \in Roles : proc'[<<v, r>>] = proc[<<v, r>>]
        /\ proc' \in [C!Talkers -> {"none", "loop", "spins", "ended"}]
        /\ ok \/ proc'[<<u, "reader">>] = "ended"
    BY <1>0, <1>u, <2>1 DEF Roles
  <2>4. /\ readers' \in [Pipes -> SUBSET C!Talkers] /\ writers' \in [Pipes -> SUBSET C!Talkers]
        /\ \A x \in Pipes : writers[x] \ {p \in {<<u, "reader">>} : ~ok} \subseteq writers'[x]
    <3>1. CASE ok
      BY <1>0, <2>1, <3>1 DEF ends
    <3>2. CASE ~ok
      <4>1. /\ readers' = [x \in Pipes |-> readers[x] \ {<<u, "reader">>}]
            /\ writers' = [x \in Pipes |-> writers[x] \ {<<u, "reader">>}]
        BY <2>1, <3>2 DEF Drop
      <4> QED
        BY <1>0, <3>2, <4>1
    <3> QED
      BY <3>1, <3>2
  <2>5. \A w \in C!Users : Holds(w)' => Holds(w)
    BY <1>0, <1>u, <2>2 DEF Holds, Second
  <2>6. proc[<<u, "writer">>] = "none" /\ proc[<<u, "reader">>] = "none"
    BY <1>n, <2>2 DEF Roles
  <2>7. \A w \in C!Users, r \in Roles :
          Holds(w)' /\ proc'[<<w, r>>] # "ended" => <<w, r>> \in writers'[C!Speaks(w)]
    <3> SUFFICES ASSUME NEW w \in C!Users, NEW r \in Roles, Holds(w), proc'[<<w, r>>] # "ended"
                 PROVE  <<w, r>> \in writers'[C!Speaks(w)]
      BY <2>5
    <3>1. proc[<<w, r>>] # "ended"
      BY <2>3, <2>6 DEF Roles
    <3>2. <<w, r>> \in writers[C!Speaks(w)] /\ C!Speaks(w) \in Pipes
      BY <1>h, <1>u, <3>1
    <3>3. ok \/ <<w, r>> # <<u, "reader">>
      BY <2>3
    <3> QED
      BY <2>4, <3>2, <3>3
  <2>8. ChatInv'
    <3>1. at' \in [C!Users -> First \cup Second \cup {"open first", "opening first", "exited"}]
      BY <1>0, <2>2 DEF Second
    <3>2. \A w \in C!Users, r \in Roles : at'[w] # "forked" => proc'[<<w, r>>] = "none"
      <4>1. \A w \in C!Users \ {u} : at'[w] = at[w]
        BY <1>0, <2>2
      <4>2. at'[u] = "forked"
        BY <1>0, <2>2
      <4> QED
        BY <1>n, <2>3, <4>1, <4>2
    <3>3. /\ \A y, z \in C!Users : at'[y] \in Second => at'[z] \in Second \cup {"exited"}
          /\ \A y, z \in C!Users : at'[y] \in {"fork", "forked"} => at'[z] \in {"fork", "forked", "exited"}
      BY <1>0, <1>m, <2>2 DEF Second
    <3> QED
      BY <1>0, <1>g, <2>2, <2>3, <2>4, <2>7, <3>1, <3>2, <3>3
  <2>9. \A w \in C!Users : C!Gone(w) => C!Gone(w)'
    <3>1. <<u, "writer">> \in {u} \X Roles
      BY DEF Roles
    <3>2. ~C!Gone(u)
      BY <1>u, <2>2, <2>6, <3>1 DEF C!Gone
    <3>3. \A w \in C!Users \ {u} : C!Gone(w) => C!Gone(w)'
      <4> SUFFICES ASSUME NEW w \in C!Users \ {u}, C!Gone(w) PROVE C!Gone(w)'
        OBVIOUS
      <4>1. at'[w] = at[w]
        BY <1>0, <2>2
      <4>2. \A p \in {w} \X Roles : \E r \in Roles : p = <<w, r>>
        OBVIOUS
      <4>3. \A p \in {w} \X Roles : proc'[p] = proc[p]
        BY <2>3, <4>2
      <4>4. C!Mine(w) = {w} \X Roles /\ C!Mine(w)' = {w} \X Roles
        BY DEF C!Mine, Roles
      <4> QED
        BY <4>1, <4>3, <4>4 DEF C!Gone
    <3> QED
      BY <3>2, <3>3
  <2> QED
    BY <1>q, <2>2, <2>8, <2>9
<1>5. ASSUME NEW u \in C!Users, C!Say(u) PROVE Good
  <2>1. /\ proc[<<u, "writer">>] = "loop" /\ Len(sent[C!Speaks(u)]) < Lines /\ Put(C!Speaks(u))
        /\ UNCHANGED <<at, proc, exists, readers, writers, got, over>>
    BY <1>5, Zenon DEF C!Say, C!chatvars, C!Put, Put, C!ends, ends
  <2>2. DataInv' /\ \E m \in Piece : sent' = [sent EXCEPT ![C!Speaks(u)] = Append(sent[C!Speaks(u)], m)]
    BY <1>u, <2>1, PutData
  <2>3. ~C!Gone(u)
    <3>1. <<u, "writer">> \in {u} \X Roles
      BY DEF Roles
    <3>2. at[u] = "forked"
      BY <1>n, <2>1 DEF Roles
    <3> QED
      BY <1>u, <2>1, <3>1, <3>2 DEF C!Gone
  <2>4. IdealMove(C!Speaks(u), C!Gone(u))
    BY <2>1, <2>2, <2>3 DEF IdealMove
  <2>5. ChatInv' /\ \A v \in C!Users : C!Gone(v) => C!Gone(v)'
    BY <2>1 DEF ChatInv, C!ChatTypeOK, Holds, C!Gone, C!Speaks, C!Mine
  <2> QED
    BY <2>2, <2>4, <2>5
<1>6. ASSUME NEW u \in C!Users, C!SayToNobody(u) PROVE Good
  <2>1. <<u, "writer">> \in C!Talkers
    BY <1>u DEF Roles
  <2> QED
    BY <1>6, <1>d, <1>e, <2>1 DEF C!SayToNobody
<1>7. ASSUME NEW u \in C!Users, C!NoMoreInput(u) PROVE Good
  <2>1. /\ proc[<<u, "writer">>] = "loop" /\ proc' = [proc EXCEPT ![<<u, "writer">>] = "spins"]
        /\ UNCHANGED <<at, exists, readers, writers, pieces>>
    BY <1>7, Zenon DEF C!NoMoreInput, C!kvars, pieces
  <2>2. <<u, "writer">> \in C!Talkers
    BY <1>u DEF Roles
  <2>3. ChatInv' /\ \A v \in C!Users : C!Gone(v) => C!Gone(v)'
    BY <1>0, <1>p, <2>1, <2>2
  <2> QED
    BY <1>q, <2>1, <2>3
<1>8. ASSUME NEW u \in C!Users, C!Hear(u) PROVE Good
  <2>0. PICK v \in C!Users : C!Hears(u) = C!Speaks(v)
    BY <1>u DEF C!Hears, C!Speaks
  <2>1. Take(C!Speaks(v)) /\ UNCHANGED <<at, proc, exists, readers, writers, sent, over>>
    BY <1>8, <2>0, Zenon DEF C!Hear, C!chatvars, C!Take, Take, C!ends, ends
  <2>2. /\ DataInv'
        /\ \E n \in Len(got[C!Speaks(v)]) + 1 .. Len(sent[C!Speaks(v)]) :
             got' = [got EXCEPT ![C!Speaks(v)] = SubSeq(sent[C!Speaks(v)], 1, n)]
    BY <1>u, <2>1, TakeData
  <2>3. IdealMove(C!Speaks(v), C!Gone(v))
    BY <2>1, <2>2 DEF IdealMove
  <2>4. ChatInv' /\ \A w \in C!Users : C!Gone(w) => C!Gone(w)'
    BY <2>1 DEF ChatInv, C!ChatTypeOK, Holds, C!Gone, C!Speaks, C!Mine
  <2> QED
    BY <2>2, <2>3, <2>4
<1>9. ASSUME NEW u \in C!Users, C!HearEnd(u) PROVE Good
  <2>0. PICK v \in C!Users : C!Hears(u) = C!Speaks(v)
    BY <1>u DEF C!Hears, C!Speaks
  <2>1. /\ proc[<<u, "reader">>] = "loop" /\ content[C!Speaks(v)] = <<>> /\ writers[C!Speaks(v)] = {}
        /\ C!ProcEnds(<<u, "reader">>) /\ UNCHANGED <<content, sent, got>>
        /\ over' = [over EXCEPT ![C!Speaks(v)] = TRUE]
    BY <1>9, <2>0, ChatUses DEF C!HearEnd, AtEnd, C!ProcEnds
  <2>2. at[v] \in {"fork", "forked", "exited"}
    BY <1>n, <1>m, <2>1 DEF Roles
  <2>3. C!Gone(v)
    <3>1. CASE at[v] = "exited"
      BY <3>1 DEF C!Gone
    <3>2. CASE at[v] \in {"fork", "forked"}
      <4>1. Holds(v)
        BY <3>2 DEF Holds, Second
      <4>2. \A r \in Roles : proc[<<v, r>>] = "ended"
        BY <1>h, <2>1, <4>1
      <4> QED
        BY <1>u, <4>2 DEF C!Gone
    <3> QED
      BY <2>2, <3>1, <3>2
  <2>4. DataInv' /\ got[C!Speaks(v)] = sent[C!Speaks(v)]
    BY <1>u, <2>1, EndData
  <2>5. IdealMove(C!Speaks(v), C!Gone(v))
    BY <2>1, <2>3, <2>4 DEF IdealMove
  <2>6. <<u, "reader">> \in C!Talkers
    BY <1>u DEF Roles
  <2> QED
    BY <1>e, <2>1, <2>4, <2>5, <2>6
<1>10. ASSUME NEW p \in C!Talkers, C!KillChat(p) PROVE Good
  <2>1. CASE proc[p] \in {"loop", "spins"} /\ C!ProcEnds(p) /\ UNCHANGED over
    BY <1>10, <1>d, <1>e, <2>1
  <2>2. CASE at[p[1]] \notin {"forked", "exited"} /\ C!Leaves(p[1]) /\ UNCHANGED <<proc, exists, pieces>>
    <3>1. p[1] \in C!Users
      BY <1>u, <1>10
    <3> QED
      BY <1>0, <1>l, <2>2, <3>1
  <2> QED
    BY <1>10, <2>1, <2>2, Zenon DEF C!KillChat, C!pieces, pieces
<1> QED
  BY <1>1, <1>2, <1>3, <1>4, <1>5, <1>6, <1>7, <1>8, <1>9, <1>10 DEF C!ChatNext, C!Setup, C!Listen

-----------------------------------------------------------------------------
(* All channels, and what they promise *)

\* What has been written is what was read and what is still there, and the programs of the
\* medium that runs keep their own invariants.
ChannelsInv ==
  /\ medium \in {"pipes", "chat", "echo", "broadcast"}
  /\ DataInv /\ EchoInv /\ CastInv
  /\ Over("pipes") => PipesInv
  /\ Over("chat") => ChatInv
  /\ ~Over("chat") => \A u \in C!Users : ~C!Gone(u)

\* At first the pipes are empty.
LEMMA NothingThere ==
  ASSUME content = [x \in Pipes |-> <<>>], sent = [x \in Pipes |-> <<>>], got = [x \in Pipes |-> <<>>],
         over = [x \in Pipes |-> FALSE]
  PROVE  DataInv
<1>1. <<>> \in Seq(Piece) /\ <<>> \o <<>> = <<>>
  BY ConcatEmptySeq
<1> QED
  BY <1>1 DEF DataInv, Joined

\* pipe.c, ps, and the FIFO begin with the ends they have.
LEMMA PipesStart == PipesInit => DataInv /\ PipesInv
<1> SUFFICES ASSUME PipesInit PROVE DataInv /\ PipesInv
  OBVIOUS
<1>1. DataInv /\ content["pipe"] = <<>>
  BY NothingThere DEF PipesInit, KernelInit, Pipes
<1>2. PICK h : /\ readers = h /\ writers = h
               /\ h = [x \in Pipes |-> IF x = "pipe" /\ pipeprog # "fifo" THEN Both ELSE {}]
  BY DEF PipesInit
<1>3. pp = [p \in Both |-> IF pipeprog # "fifo" THEN "close" ELSE IF p = "writer" THEN "mkfifo" ELSE "open"]
  BY DEF PipesInit
<1>4. readers \in [Pipes -> SUBSET Both] /\ writers \in [Pipes -> SUBSET Both]
  BY <1>2
<1>5. pp \in [Both -> {"mkfifo", "open", "opening", "close", "loop", "ended"}]
  BY <1>3
<1>6. WriterHolds
  BY <1>2, <1>3 DEF WriterHolds, Both, Pipes
<1>7. Len(content["pipe"]) <= Capacity
  BY <1>1, PipesAssumption
<1> QED
  BY <1>1, <1>4, <1>5, <1>6, <1>7 DEF PipesInv, PipesTypeOK

\* The users of the chat begin with access, and nobody has opened anything.
LEMMA ChatStart == C!ChatInit => DataInv /\ ChatInv
<1> SUFFICES ASSUME C!ChatInit PROVE DataInv /\ ChatInv
  OBVIOUS
<1>1. DataInv
  BY NothingThere DEF C!ChatInit, C!KernelInit, C!Pipes, Pipes
<1>2. /\ readers = [x \in Pipes |-> {}] /\ writers = [x \in Pipes |-> {}]
      /\ at = [u \in C!Users |-> "access aFifo"] /\ proc = [p \in C!Talkers |-> "none"]
      /\ exists \subseteq {"aFifo", "bFifo"}
  BY DEF C!ChatInit, C!Pipes, Pipes
<1>3. \A u \in C!Users, r \in Roles : <<u, r>> \in C!Talkers
  BY ChatUses
<1>4. \A u \in C!Users : ~Holds(u)
  BY <1>2 DEF Holds, Second
<1>5. C!ChatTypeOK
  BY <1>2, ChatUses DEF C!ChatTypeOK
<1>6. /\ at \in [C!Users -> First \cup Second \cup {"open first", "opening first", "exited"}]
      /\ \A u \in C!Users : at[u] \notin Second /\ at[u] \notin {"fork", "forked"}
  BY <1>2 DEF First, Second
<1>7. readers \in [Pipes -> SUBSET C!Talkers] /\ writers \in [Pipes -> SUBSET C!Talkers]
  BY <1>2
<1> QED
  BY <1>1, <1>2, <1>3, <1>4, <1>5, <1>6, <1>7 DEF ChatInv

\* Who has not come to fork is not gone.
LEMMA NobodyGone ==
  ASSUME at = [u \in C!Users |-> "access aFifo"], proc = [p \in C!Talkers |-> "none"]
  PROVE  \A u \in C!Users : ~C!Gone(u)
<1> SUFFICES ASSUME NEW u \in C!Users PROVE ~C!Gone(u)
  OBVIOUS
<1>1. <<u, "writer">> \in C!Mine(u) /\ <<u, "writer">> \in C!Talkers
  BY ChatUses DEF Roles
<1> QED
  BY <1>1 DEF C!Gone

\* Whichever medium runs, its programs begin well.
LEMMA ChannelsStart == ChannelsInit => ChannelsInv
<1> SUFFICES ASSUME ChannelsInit PROVE ChannelsInv
  OBVIOUS
<1>1. medium \in {"pipes", "chat", "echo", "broadcast"} /\ EchoInv /\ CastInv
  BY EchoStart, CastStart, Zenon DEF ChannelsInit
<1>2. \A u \in C!Users : ~C!Gone(u)
  BY NobodyGone, Zenon DEF ChannelsInit
<1>3. CASE Over("pipes")
  <2>1. DataInv /\ PipesInv /\ ~Over("chat")
    BY <1>3, PipesStart DEF ChannelsInit, Over
  <2> QED
    BY <1>1, <1>2, <2>1 DEF ChannelsInv
<1>4. CASE ~Over("pipes")
  <2>1. DataInv /\ ChatInv
    BY <1>4, ChatStart, Zenon DEF ChannelsInit
  <2> QED
    BY <1>1, <1>2, <1>4, <2>1 DEF ChannelsInv
<1> QED
  BY <1>3, <1>4

\* Per pipe: its senders are gone, for good.
SendersGone == [x \in Pipes |-> CASE x = "pipe" -> Over("pipes") /\ pp["writer"] = "ended"
                                  [] x = "aFifo" -> C!Gone("a")
                                  [] x = "bFifo" -> C!Gone("b")]

\* One name for each.
LEMMA WhoIsGone ==
  /\ SendersGone["pipe"] <=> Over("pipes") /\ pp["writer"] = "ended"
  /\ \A u \in C!Users : SendersGone[C!Speaks(u)] <=> C!Gone(u)
  /\ Pipes = {"pipe"} \cup {C!Speaks(u) : u \in C!Users}
<1>1. C!Users = {"a", "b"} /\ C!Speaks("a") = "aFifo" /\ C!Speaks("b") = "bFifo"
  BY ChatUses DEF C!Speaks
<1>2. SendersGone["aFifo"] = C!Gone("a")
  BY DEF SendersGone, Pipes
<1>3. SendersGone["bFifo"] = C!Gone("b")
  BY DEF SendersGone, Pipes
<1>4. SendersGone["pipe"] = (Over("pipes") /\ pp["writer"] = "ended")
  BY DEF SendersGone, Pipes
<1> QED
  BY <1>1, <1>2, <1>3, <1>4 DEF Pipes

\* A step of a pipe is a step of the ideal channel while no sender that was gone comes back.
LEMMA IdealStep ==
  ASSUME NEW x \in Pipes, IdealMove(x, SendersGone[x]), \A y \in Pipes : SendersGone[y] => SendersGone'[y]
  PROVE  Ideal!ChannelNext
<1>1. Ideal!SendersGo
  BY Zenon DEF Ideal!SendersGo, SendersGone
<1>2. ASSUME ~SendersGone[x], UNCHANGED <<got, over>>, \E m \in Piece : sent' = [sent EXCEPT ![x] = Append(sent[x], m)]
      PROVE  Ideal!SendPiece(x)
  BY <1>2, Zenon DEF Ideal!SendPiece, SendersGone, Piece
<1>3. ASSUME UNCHANGED <<sent, over>>,
             \E n \in Len(got[x]) + 1 .. Len(sent[x]) : got' = [got EXCEPT ![x] = SubSeq(sent[x], 1, n)]
      PROVE  Ideal!ReceivePieces(x)
  BY <1>3, Zenon DEF Ideal!ReceivePieces
<1>4. ASSUME SendersGone[x], got[x] = sent[x], UNCHANGED <<sent, got>>, over' = [over EXCEPT ![x] = TRUE]
      PROVE  Ideal!SeeEnd(x)
  BY <1>4, Zenon DEF Ideal!SeeEnd, SendersGone
<1> QED
  BY <1>1, <1>2, <1>3, <1>4, Zenon DEF Ideal!ChannelNext, IdealMove

\* Every step of a channel is one of the ideal channel, and keeps the invariants.
LEMMA ChannelsKept ==
  ASSUME ChannelsInv, [ChannelsNext]_chvars
  PROVE  ChannelsInv' /\ [Ideal!ChannelNext]_<<sent, got, SendersGone, over>>
<1>0. /\ medium \in {"pipes", "chat", "echo", "broadcast"} /\ DataInv /\ EchoInv /\ CastInv
      /\ (Over("pipes") => PipesInv) /\ (Over("chat") => ChatInv)
      /\ ~Over("chat") => \A u \in C!Users : ~C!Gone(u)
  BY DEF ChannelsInv
<1>m. medium' = medium /\ \A m : Over(m)' <=> Over(m)
  BY Zenon DEF ChannelsNext, chvars, PipesStep, ChatStep, EchoStep, CastStep, Over
<1>c. ASSUME UNCHANGED chatvars PROVE \A u : C!Gone(u)' <=> C!Gone(u)
  BY <1>c, Zenon DEF chatvars, C!Gone, C!Mine
<1>e. ASSUME UNCHANGED echovars PROVE EchoInv'
  BY <1>0, <1>e, EchoKept
<1>b. ASSUME UNCHANGED castvars PROVE CastInv'
  BY <1>0, <1>b, CastKept
<1>k. ASSUME UNCHANGED <<kvars, pipevars, chatvars>>
      PROVE  /\ DataInv' /\ (Over("pipes") => PipesInv') /\ (Over("chat") => ChatInv')
             /\ UNCHANGED <<sent, got, SendersGone, over>>
  <2>1. UNCHANGED <<content, readers, writers, sent, got, over, pp, at, proc, exists>>
    BY <1>k, Zenon DEF kvars, pipevars, chatvars
  <2>2. DataInv'
    BY <1>0, <2>1, Zenon DEF DataInv
  <2>3. Over("pipes") => PipesInv'
    BY <1>0, <2>1, Zenon DEF PipesInv, PipesTypeOK, WriterHolds
  <2>4. Over("chat") => ChatInv'
    BY <1>0, <2>1, Zenon DEF ChatInv, C!ChatTypeOK, Holds
  <2>5. SendersGone' = SendersGone
    <3>1. /\ C!Gone("a")' = C!Gone("a") /\ C!Gone("b")' = C!Gone("b")
          /\ (Over("pipes") /\ pp["writer"] = "ended")' = (Over("pipes") /\ pp["writer"] = "ended")
      BY <1>m, <2>1, Zenon DEF Over, C!Gone, C!Mine
    <3>2. \A x \in Pipes : SendersGone'[x] = SendersGone[x]
      BY <3>1 DEF SendersGone, Pipes
    <3> QED
      BY <3>2 DEF SendersGone
  <2> QED
    BY <2>1, <2>2, <2>3, <2>4, <2>5
<1>1. CASE PipesStep(PipesNext)
  <2>1. Over("pipes") /\ PipesNext /\ UNCHANGED chatvars /\ EchoInv' /\ CastInv' /\ ~Over("chat")
    BY <1>1, <1>e, <1>b DEF PipesStep, Over
  <2>2. /\ DataInv' /\ PipesInv' /\ IdealMove("pipe", pp["writer"] = "ended")
        /\ pp["writer"] = "ended" => pp'["writer"] = "ended"
    BY <1>0, <2>1, PipesKept
  <2>3. \A u \in C!Users : ~C!Gone(u) /\ ~C!Gone(u)'
    BY <1>0, <1>c, <2>1
  <2>4. ChannelsInv'
    BY <1>0, <1>m, <2>1, <2>2, <2>3 DEF ChannelsInv
  <2>5. IdealMove("pipe", SendersGone["pipe"])
    BY <2>1, <2>2, WhoIsGone DEF IdealMove
  <2>6. \A y \in Pipes : SendersGone[y] => SendersGone'[y]
    <3>1. \A u \in C!Users : ~SendersGone[C!Speaks(u)]
      BY <2>3, WhoIsGone
    <3>2. SendersGone["pipe"] => SendersGone'["pipe"]
      <4>1. SendersGone'["pipe"] <=> Over("pipes")' /\ pp'["writer"] = "ended"
        BY DEF SendersGone, Pipes
      <4> QED
        BY <1>m, <2>1, <2>2, <4>1, WhoIsGone
    <3> QED
      BY <3>1, <3>2, WhoIsGone
  <2>7. "pipe" \in Pipes
    BY DEF Pipes
  <2> QED
    BY <2>4, <2>5, <2>6, <2>7, IdealStep
<1>2. CASE ChatStep(C!ChatNext)
  <2>1. Over("chat") /\ C!ChatNext /\ EchoInv' /\ CastInv' /\ ~Over("pipes")
    BY <1>2, <1>e, <1>b DEF ChatStep, Over
  <2>2. /\ DataInv' /\ ChatInv' /\ (\E u \in C!Users : IdealMove(C!Speaks(u), C!Gone(u)))
        /\ \A u \in C!Users : C!Gone(u) => C!Gone(u)'
    BY <1>0, <2>1, ChatKept
  <2>3. ChannelsInv'
    BY <1>0, <1>m, <2>1, <2>2 DEF ChannelsInv
  <2>4. PICK u \in C!Users : IdealMove(C!Speaks(u), SendersGone[C!Speaks(u)])
    BY <2>2, WhoIsGone DEF IdealMove
  <2>5. \A y \in Pipes : SendersGone[y] => SendersGone'[y]
    <3>1. ~SendersGone["pipe"]
      BY <2>1, WhoIsGone
    <3>2. /\ SendersGone["aFifo"] = C!Gone("a") /\ SendersGone["bFifo"] = C!Gone("b")
          /\ SendersGone'["aFifo"] = C!Gone("a")' /\ SendersGone'["bFifo"] = C!Gone("b")'
      BY DEF SendersGone, Pipes
    <3>3. /\ C!Gone("a") => C!Gone("a")'
          /\ C!Gone("b") => C!Gone("b")'
      BY <2>2, ChatUses
    <3> QED
      BY <3>1, <3>2, <3>3 DEF Pipes
  <2>6. C!Speaks(u) \in Pipes
    BY ChatUses
  <2> QED
    BY <2>3, <2>4, <2>5, <2>6, IdealStep
<1>3. CASE EchoStep(EchoNext) \/ CastStep(BroadcastNext) \/ UNCHANGED chvars
  <2>1. UNCHANGED <<kvars, pipevars, chatvars>>
    BY <1>3, Zenon DEF EchoStep, CastStep, chvars
  <2>2. EchoInv' /\ CastInv'
    BY <1>0, <1>3, <1>e, <1>b, EchoKept, CastKept, Zenon DEF EchoStep, CastStep, chvars
  <2>3. ChannelsInv'
    BY <1>0, <1>m, <1>c, <1>k, <2>1, <2>2, Zenon DEF ChannelsInv
  <2> QED
    BY <1>k, <2>1, <2>3
<1> QED
  BY <1>1, <1>2, <1>3 DEF ChannelsNext

-----------------------------------------------------------------------------
(* Nobody is left waiting *)

\* Who has ended holds no write end, and a reader of a pipe has closed its own.
EndsGiven ==
  /\ pp["writer"] = "ended" => "writer" \notin writers["pipe"]
  /\ pp["reader"] # "close" => "reader" \notin writers["pipe"]

\* Only living processes of a user hold the write end of the FIFO that he writes to.
WritersLive ==
  \A u \in C!Users : \A p \in writers[C!Speaks(u)] : p \in {u} \X Roles /\ proc[p] # "ended" /\ at[u] # "exited"

WaitInv ==
  /\ Over("pipes") => EndsGiven
  /\ Over("chat") => C!OpensDoNotCross /\ WritersLive

\* At first nobody has ended, and nobody has opened a FIFO.
LEMMA WaitStart == ChannelsInit => WaitInv
<1>1. ASSUME PipesInit PROVE EndsGiven
  <2>1. /\ pp = [p \in Both |-> IF pipeprog # "fifo" THEN "close" ELSE IF p = "writer" THEN "mkfifo" ELSE "open"]
        /\ pipeprog = "fifo" => writers["pipe"] = {}
    BY <1>1 DEF PipesInit, Pipes
  <2> QED
    BY <2>1 DEF EndsGiven, Both
<1>2. ASSUME C!ChatInit PROVE C!OpensDoNotCross /\ WritersLive
  <2>1. writers = [x \in Pipes |-> {}] /\ at = [u \in C!Users |-> "access aFifo"]
    BY <1>2, ChatUses DEF C!ChatInit
  <2> QED
    BY <2>1, ChatUses DEF C!OpensDoNotCross, WritersLive
<1> QED
  BY <1>1, <1>2 DEF ChannelsInit, WaitInv, Over

\* A process of a pipe gives up what it does not use, and everything when it ends.
LEMMA EndsStep == ASSUME PipesInv, EndsGiven, PipesNext PROVE EndsGiven'
<1>0. /\ pp \in [Both -> {"mkfifo", "open", "opening", "close", "loop", "ended"}]
      /\ writers \in [Pipes -> SUBSET Both] /\ "pipe" \in Pipes /\ Both = {"writer", "reader"}
  BY DEF PipesInv, PipesTypeOK, Pipes, Both
<1>1. ASSUME NEW p \in Both, CloseUnused(p) PROVE EndsGiven'
  BY <1>0, <1>1 DEF CloseUnused, Goes, EndsGiven
<1>2. CASE Mkfifo
  BY <1>0, <1>2 DEF Mkfifo, Goes, kvars, EndsGiven
<1>3. ASSUME NEW p \in Both, Open(p) PROVE EndsGiven'
  <2>1. pp' = IF pp[Other(p)] = "opening" THEN [q \in Both |-> "loop"] ELSE [pp EXCEPT ![p] = "opening"]
    BY <1>3 DEF Open
  <2>2. CASE p = "writer"
    BY <1>0, <1>3, <2>1, <2>2 DEF Open, EndsGiven
  <2>3. CASE p = "reader"
    BY <1>0, <1>3, <2>1, <2>3 DEF Open, Other, EndsGiven
  <2> QED
    BY <1>0, <2>2, <2>3
<1>4. ASSUME NEW p \in Both, End(p) PROVE EndsGiven'
  <2>1. pp' = [pp EXCEPT ![p] = "ended"] /\ writers'["pipe"] = writers["pipe"] \ {p}
    BY <1>0, <1>4 DEF End, Goes, Drop
  <2> QED
    BY <1>0, <2>1 DEF EndsGiven
<1>5. CASE UNCHANGED <<pp, writers>>
  BY <1>5 DEF EndsGiven
<1> QED
  BY <1>0, <1>1, <1>2, <1>3, <1>4, <1>5
  DEF PipesNext, Writer, Reader, OpenFails, WriteToNobody, WriterReturns, ReadEnd, Kill, Write, Read, Put, Take,
      ends, pipevars

\* The users of the chat open the FIFOs in one order, and a process that ends gives up its ends.
LEMMA ChatEnds ==
  ASSUME ChatInv, C!OpensDoNotCross, WritersLive, C!ChatNext
  PROVE  C!OpensDoNotCross' /\ WritersLive'
<1> DEFINE Opening == {"opening first", "opening second"}
           Good == C!OpensDoNotCross' /\ WritersLive'
<1>0. /\ proc \in [C!Talkers -> {"none", "loop", "spins", "ended"}]
      /\ at \in [C!Users -> First \cup Second \cup {"open first", "opening first", "exited"}]
      /\ writers \in [Pipes -> SUBSET C!Talkers]
      /\ \A u \in C!Users, r \in Roles : at[u] # "forked" => proc[<<u, r>>] = "none"
      /\ \A u, v \in C!Users : at[u] \in Second => at[v] \in Second \cup {"exited"}
  BY DEF ChatInv, C!ChatTypeOK
<1>u. /\ C!Users = {"a", "b"} /\ C!Talkers = C!Users \X Roles /\ C!Speaks("a") = "aFifo" /\ C!Speaks("b") = "bFifo"
      /\ (\A u : C!Mine(u) = {u} \X Roles) /\ \A u \in C!Users : C!Speaks(u) \in Pipes /\ C!Speaks(u)' = C!Speaks(u)
  BY ChatUses DEF C!Speaks
<1>c. ASSUME \A u \in C!Users : at'[u] \in Opening => at[u] \in Opening PROVE C!OpensDoNotCross'
  BY <1>c, <1>u DEF C!OpensDoNotCross
<1>w. ASSUME \A u \in C!Users : at'[u] = "exited" => at[u] = "exited" \/ writers'[C!Speaks(u)] \cap ({u} \X Roles) = {},
             \A u \in C!Users : writers'[C!Speaks(u)] \subseteq writers[C!Speaks(u)],
             \A u \in C!Users : \A p \in writers'[C!Speaks(u)] : proc'[p] = "ended" => proc[p] = "ended"
      PROVE  WritersLive'
  BY <1>w, <1>u DEF WritersLive
<1>a. ASSUME NEW u \in C!Users, NEW s \in First \cup {"open first"}, at' = [at EXCEPT ![u] = s],
             UNCHANGED <<proc, writers>>
      PROVE  Good
  BY <1>0, <1>a, <1>c, <1>w DEF First
<1>l. ASSUME NEW u \in C!Users, C!Leaves(u), UNCHANGED proc PROVE Good
  <2>1. at' = [at EXCEPT ![u] = "exited"] /\ writers' = [x \in Pipes |-> writers[x] \ ({u} \X Roles)]
    BY <1>l, <1>u, Zenon DEF C!Leaves, C!Drop, C!Pipes, Pipes
  <2> QED
    BY <1>0, <1>l, <1>c, <1>w, <1>u, <2>1
<1>p. ASSUME NEW p \in C!Talkers, C!ProcEnds(p) PROVE Good
  <2>1. /\ proc' = [proc EXCEPT ![p] = "ended"] /\ at' = at
        /\ writers' = [x \in Pipes |-> writers[x] \ {p}]
    BY <1>p, ChatUses, Zenon DEF C!ProcEnds, Drop
  <2> QED
    BY <1>0, <1>c, <1>w, <1>u, <2>1
<1>1. ASSUME NEW u \in C!Users, NEW x \in {"aFifo", "bFifo"}, C!Access(u, x) PROVE Good
  <2>1. /\ at[u] = (IF x = "aFifo" THEN "access aFifo" ELSE "access bFifo")
        /\ UNCHANGED <<proc, writers>>
        /\ \/ at' = [at EXCEPT ![u] = C!After(u)]
           \/ at' = [at EXCEPT ![u] = IF x = "aFifo" THEN "mkfifo aFifo" ELSE "mkfifo bFifo"]
    BY <1>1, Zenon DEF C!Access, C!GoesOn, C!kvars
  <2>2. C!After(u) \in First \cup {"open first"}
    BY <2>1 DEF C!After, First
  <2>3. PICK s \in First \cup {"open first"} : at' = [at EXCEPT ![u] = s]
    BY <2>1, <2>2 DEF First
  <2> QED
    BY <1>a, <2>1, <2>3
<1>2. ASSUME NEW u \in C!Users, NEW x \in {"aFifo", "bFifo"}, C!Mkfifo(u, x) PROVE Good
  <2>1. /\ at[u] = (IF x = "aFifo" THEN "mkfifo aFifo" ELSE "mkfifo bFifo") /\ proc' = proc
        /\ C!Leaves(u) \/ (at' = [at EXCEPT ![u] = C!After(u)] /\ writers' = writers)
    BY <1>2, Zenon DEF C!Mkfifo, C!GoesOn, C!ends
  <2>2. C!After(u) \in First \cup {"open first"}
    BY <2>1 DEF C!After, First
  <2> QED
    BY <1>a, <1>l, <2>1, <2>2
<1>3. ASSUME NEW u \in C!Users, C!Open(u) PROVE Good
  <2>0. PICK v \in C!Users : v # u /\ C!Users = {u, v}
    BY <1>u
  <2>1. /\ at[u] \in {"open first", "open second"} /\ proc' = proc
        /\ \/ writers' = writers
           \/ /\ C!Opens(u) = C!Speaks(u)
              /\ writers' = [writers EXCEPT ![C!Opens(u)] = writers[C!Opens(u)] \cup ({u} \X Roles)]
    BY <1>3, <1>u, Zenon DEF C!Open
  <2>w. ASSUME at'[u] # "exited", at'[v] = "exited" => at[v] = "exited" PROVE WritersLive'
    <3> SUFFICES ASSUME NEW w \in C!Users, NEW p \in writers'[C!Speaks(w)]
                 PROVE  p \in {w} \X Roles /\ proc'[p] # "ended" /\ at'[w] # "exited"
      BY <1>u DEF WritersLive
    <3>1. CASE p \in writers[C!Speaks(w)]
      BY <2>0, <2>1, <2>w, <3>1 DEF WritersLive
    <3>2. CASE p \notin writers[C!Speaks(w)]
      <4>0. /\ C!Opens(u) = C!Speaks(u)
            /\ writers' = [writers EXCEPT ![C!Speaks(u)] = writers[C!Speaks(u)] \cup ({u} \X Roles)]
        BY <2>1, <3>2
      <4>1. w = u /\ p \in {u} \X Roles
        <5>1. C!Speaks(w) = C!Speaks(u) /\ p \in {u} \X Roles
          BY <1>0, <1>u, <3>2, <4>0
        <5> QED
          BY <1>u, <5>1
      <4>2. proc[p] = "none"
        <5>1. PICK r \in Roles : p = <<u, r>>
          BY <4>1
        <5>2. at[u] # "forked"
          BY <2>1
        <5> QED
          BY <1>0, <5>1, <5>2
      <4> QED
        BY <2>1, <2>w, <4>1, <4>2
    <3> QED
      BY <3>1, <3>2
  <2>2. CASE Meets(u, v)
    <3>1. at'[u] \in {"open second", "fork"} /\ at'[v] \in {"open second", "fork"} /\ at[v] # "exited"
      BY <1>3, <2>0, <2>1, <2>2, OpenMeets DEF Meets
    <3>2. C!OpensDoNotCross'
      BY <2>0, <3>1 DEF C!OpensDoNotCross
    <3> QED
      BY <2>w, <3>1, <3>2
  <2>3. CASE ~Meets(u, v)
    <3>1. at'[v] = at[v] /\ at'[u] \in Opening
      BY <1>3, <2>0, <2>3, OpenMeets
    <3>2. at[v] \notin Opening
      <4>1. at[v] = "opening first" => at[u] # "open second"
        BY <1>0 DEF Second
      <4>2. at[v] = "opening second" => at[u] # "open first"
        BY <1>0 DEF Second
      <4> QED
        BY <2>1, <2>3, <4>1, <4>2 DEF Meets, C!Opens
    <3>3. C!OpensDoNotCross'
      BY <2>0, <3>1, <3>2 DEF C!OpensDoNotCross
    <3> QED
      BY <2>w, <3>1, <3>3
  <2> QED
    BY <2>2, <2>3
<1>4. ASSUME NEW u \in C!Users, C!Fork(u) PROVE Good
  <2>1. PICK ok \in BOOLEAN :
        /\ proc' = [p \in C!Talkers |-> IF p \notin C!Mine(u) THEN proc[p] ELSE IF ok THEN "loop"
                                        ELSE IF p[2] = "writer" THEN "spins" ELSE "ended"]
        /\ IF ok THEN writers' = writers ELSE writers' = [x \in Pipes |-> writers[x] \ {<<u, "reader">>}]
    BY <1>4, Zenon DEF C!Fork, C!Drop, C!Pipes, Pipes, C!ends
  <2>2. at' = [at EXCEPT ![u] = "forked"]
    BY <1>4 DEF C!Fork
  <2>3. ASSUME NEW p \in C!Talkers, proc'[p] = "ended" PROVE proc[p] = "ended" \/ (~ok /\ p = <<u, "reader">>)
    <3>1. PICK v \in C!Users, r \in Roles : p = <<v, r>>
      BY <1>u
    <3>2. CASE v = u
      BY <1>u, <2>1, <2>3, <3>1, <3>2 DEF Roles
    <3>3. CASE v # u
      BY <1>u, <2>1, <2>3, <3>1, <3>3
    <3> QED
      BY <3>2, <3>3
  <2>4. \A v \in C!Users : writers'[C!Speaks(v)] \subseteq writers[C!Speaks(v)] \ {p \in {<<u, "reader">>} : ~ok}
    <3>1. CASE ok
      BY <2>1, <3>1
    <3>2. CASE ~ok
      <4>1. \A x \in Pipes : writers'[x] = writers[x] \ {<<u, "reader">>}
        BY <2>1, <3>2
      <4> QED
        BY <1>u, <4>1
    <3> QED
      BY <3>1, <3>2
  <2>5. \A v \in C!Users : writers[C!Speaks(v)] \subseteq C!Talkers
    BY <1>0, <1>u
  <2>6. \A v \in C!Users : \A p \in writers'[C!Speaks(v)] : proc'[p] = "ended" => proc[p] = "ended"
    BY <2>3, <2>4, <2>5
  <2>7. \A v \in C!Users : at'[v] = at[v] \/ at'[v] = "forked"
    BY <1>0, <2>2
  <2> QED
    BY <1>c, <1>w, <2>4, <2>6, <2>7
<1>5. CASE UNCHANGED <<at, proc, writers>>
  BY <1>5, <1>c, <1>w
<1>6. ASSUME NEW u \in C!Users, C!NoMoreInput(u) PROVE Good
  <2>1. proc' = [proc EXCEPT ![<<u, "writer">>] = "spins"] /\ UNCHANGED <<at, writers>>
    BY <1>6, Zenon DEF C!NoMoreInput, C!kvars
  <2>2. \A v \in C!Users : \A p \in writers[C!Speaks(v)] : proc'[p] = "ended" => proc[p] = "ended"
    BY <1>0, <1>u, <2>1
  <2>3. \A v \in C!Users : at'[v] = at[v] /\ writers'[C!Speaks(v)] = writers[C!Speaks(v)]
    BY <2>1
  <2>4. \A v \in C!Users : writers'[C!Speaks(v)] \subseteq writers[C!Speaks(v)]
    BY <2>3
  <2>5. \A v \in C!Users : \A p \in writers'[C!Speaks(v)] : proc'[p] = "ended" => proc[p] = "ended"
    BY <2>2, <2>3
  <2> QED
    BY <1>c, <1>w, <2>3, <2>4, <2>5
<1>7. ASSUME NEW p \in C!Talkers, C!KillChat(p) PROVE Good
  <2>1. p[1] \in C!Users
    BY <1>u, <1>7
  <2> QED
    BY <1>7, <1>l, <1>p, <2>1 DEF C!KillChat
<1>8. \A u \in C!Users, r \in Roles : <<u, r>> \in C!Talkers
  BY <1>u
<1>9. ASSUME NEW u \in C!Users, C!Say(u) \/ C!Hear(u) PROVE Good
  <2>1. UNCHANGED <<at, proc, writers>>
    BY <1>9, Zenon DEF C!Say, C!Hear, C!Put, C!Take, C!chatvars, C!ends
  <2> QED
    BY <1>5, <2>1
<1>10. ASSUME NEW u \in C!Users, C!SayToNobody(u) \/ C!HearEnd(u) PROVE Good
  BY <1>10, <1>p, <1>8 DEF C!SayToNobody, C!HearEnd, Roles
<1> QED
  BY <1>1, <1>2, <1>3, <1>4, <1>6, <1>7, <1>9, <1>10, Zenon DEF C!ChatNext, C!Setup, C!Listen

\* Every step of a channel keeps the ends where they belong.
LEMMA WaitKept ==
  ASSUME ChannelsInv, WaitInv, [ChannelsNext]_chvars
  PROVE  WaitInv'
<1>0. (Over("pipes") => PipesInv /\ EndsGiven) /\ (Over("chat") => ChatInv /\ C!OpensDoNotCross /\ WritersLive)
  BY DEF ChannelsInv, WaitInv
<1>1. CASE PipesStep(PipesNext)
  BY <1>0, <1>1, EndsStep DEF PipesStep, WaitInv, Over
<1>2. CASE ChatStep(C!ChatNext)
  BY <1>0, <1>2, ChatEnds DEF ChatStep, WaitInv, Over
<1>3. CASE EchoStep(EchoNext) \/ CastStep(BroadcastNext) \/ UNCHANGED chvars
  <2>1. UNCHANGED <<medium, writers, pp, at, proc>>
    BY <1>3, Zenon DEF EchoStep, CastStep, chvars, kvars, pipevars, chatvars
  <2> QED
    BY <1>0, <2>1, Zenon DEF WaitInv, Over, EndsGiven, WritersLive, C!OpensDoNotCross, C!Speaks
<1> QED
  BY <1>1, <1>2, <1>3 DEF ChannelsNext

-----------------------------------------------------------------------------
(* All programs *)

\* The invariants of all groups, together.
MCInv ==
  /\ CInv /\ NoZombieForgotten /\ AllCollected
  /\ SigInv /\ MapInv
  /\ ShmInv /\ NoSegmentLeftBehind
  /\ ChannelsInv /\ WaitInv

\* Each group keeps its own.
LEMMA EachKeepsItsOwn == MCInv /\ [MCNext]_allvars => MCInv'
<1> SUFFICES ASSUME MCInv, [MCNext]_allvars PROVE MCInv'
  OBVIOUS
<1>1. /\ [ChildrenNext]_cvars /\ [Sig!SignalsNext]_svars /\ [Map!MappedNext]_mvars
      /\ [ShmNext]_shvars /\ [ChannelsNext]_chvars
  BY GroupSteps
<1>2. CInv' /\ NoZombieForgotten' /\ AllCollected'
  BY <1>1, ChildrenKept, ForgetStep, CollectedStep DEF MCInv
<1>3. SigInv' /\ MapInv'
  BY <1>1, SignalsKept, MappedKept DEF MCInv
<1>4. ShmInv' /\ NoSegmentLeftBehind'
  BY <1>1, ShmKept, KeeperStep DEF MCInv
<1>5. ChannelsInv' /\ WaitInv'
  BY <1>1, ChannelsKept, WaitKept DEF MCInv
<1> QED
  BY <1>2, <1>3, <1>4, <1>5 DEF MCInv

\* The strengthened invariant of the whole: it holds in every reachable state, whichever
\* group of programs runs.
THEOREM ProcessesInvariant == MCSpec => []MCInv
<1>1. MCInit => MCInv
  <2> SUFFICES ASSUME MCInit PROVE MCInv
    OBVIOUS
  <2>1. Init /\ Sig!SignalsInit /\ Map!MappedInit /\ ShmInit /\ ChannelsInit
    BY GroupInits
  <2>2. NoZombieForgotten /\ AllCollected
    BY <2>1 DEF Init, NoZombieForgotten, AllCollected, Zombies
  <2> QED
    BY <2>1, <2>2, ChildrenStart, SignalsStart, MappedStart, ShmStart, ChannelsStart, WaitStart
    DEF MCInv
<1> QED
  BY <1>1, EachKeepsItsOwn, PTL DEF MCSpec

\* No signal is forgotten, though the pending ones merge: sigchild.c collects each dead child,
\* what was sent to sigprocmask.c ends it, and no timer kills a program that handles SIGALRM.
THEOREM SignalsAreNotForgotten == MCSpec => []NoSignalIsForgotten
<1>1. MCInv => NoSignalIsForgotten
  <2> SUFFICES ASSUME MCInv PROVE NoSignalIsForgotten
    OBVIOUS
  <2>1. ChildrenTypeOK /\ NoZombieForgotten /\ SigInv
    BY DEF MCInv, CInv
  <2>2. Sig!SignalsTypeOK /\ NoneLost /\ (ended = "ALRM" => ~Handles)
    BY <2>1 DEF SigInv
  <2>3. sigprog \in DOMAIN Sig!Statements
    BY <2>2 DEF Sig!SignalsTypeOK
  <2>4. ended = "ALRM" => ~(\E i \in 1..Len(Sig!Statements[sigprog]) : Sig!Statements[sigprog][i] = "catch")
    BY <2>2, <2>3, OthersCatchNothing, Zenon
  <2>5. Sig!SignalsAreKept
    BY <2>2, <2>4, Zenon DEF NoneLost, Sig!SignalsAreKept
  <2> QED
    BY <2>1, <2>2, <2>5 DEF NoSignalIsForgotten
<1> QED
  BY <1>1, ProcessesInvariant, PTL

\* A parent that waits returns after its children, unless it is wait.c or waitpid.c and its last
\* fork failed.
THEOREM NobodyIsLeft == MCSpec => []ParentsLeaveNobody
<1>1. MCInv => ParentsLeaveNobody
  BY DEF MCInv, ParentsLeaveNobody
<1> QED
  BY <1>1, ProcessesInvariant, PTL

\* The parent of mmap-p2c-ipc.c prints what its child has written, whole; a shared memory segment
\* that exists has a process that has yet to remove it or was killed; and none goes from under
\* a process that has it attached.
THEOREM MemoryIsSound == MCSpec => []SharedMemoryIsSound
<1>1. MCInv => SharedMemoryIsSound
  <2> SUFFICES ASSUME MCInv PROVE SharedMemoryIsSound
    OBVIOUS
  <2>1. Map!MappedTypeOK /\ OneAfterTheOther
    BY DEF MCInv, MapInv
  <2>2. ASSUME mprog = "p2c", ~cut, rpc = "read", rat = Cells PROVE buf = Map!Text(text)
    <3>1. \A k \in 1..Cells : buf[k] = text
      BY <2>1, <2>2 DEF OneAfterTheOther
    <3>2. buf \in [1..Cells -> 0..MaxTexts]
      BY <2>1 DEF Map!MappedTypeOK
    <3> QED
      BY <3>1, <3>2 DEF Map!Text
  <2>3. Map!ReadsAreWhole
    BY <2>2 DEF Map!ReadsAreWhole
  <2> QED
    BY <2>1, <2>3 DEF MCInv, ShmInv, SharedMemoryIsSound
<1> QED
  BY <1>1, ProcessesInvariant, PTL

\* An echo goes to the client that sent the number, in its round, for any number of clients of the
\* UDP server; the broadcast client prints characters of the newest datagram only, for any size
\* and contents of its buffer; and the types of all channels are kept.
THEOREM MessagesStayApart == MCSpec => []MessagesAreNotMixed
<1>1. MCInv => MessagesAreNotMixed
  <2> SUFFICES ASSUME MCInv PROVE MessagesAreNotMixed
    OBVIOUS
  <2>1. ChannelsInv
    BY DEF MCInv
  <2>2. AnswersAreOwn /\ EchoTypeOK /\ BroadcastTypeOK /\ NothingLeftOverShows
    BY <2>1, EchoesOwn DEF ChannelsInv, EchoInv, CastInv
  <2>3. (Over("pipes") => PipesTypeOK) /\ (Over("chat") => C!ChatTypeOK)
    BY <2>1 DEF ChannelsInv, PipesInv, ChatInv
  <2> QED
    BY <2>2, <2>3 DEF MessagesAreNotMixed, ChannelsTypeOK
<1> QED
  BY <1>1, ProcessesInvariant, PTL

\* Nobody is left waiting: a reader whose writer is gone has something to read or sees the end,
\* as nobody else, nor the reader itself, holds a write end; and the two chat programs are never
\* both inside open, each for a FIFO that the other has yet to open.
THEOREM ReadersAreNotLeft == MCSpec => []NobodyIsLeftWaiting
<1>1. ASSUME MCInv PROVE NobodyIsLeftWaiting
  <2>1. /\ Over("pipes") => PipesInv /\ EndsGiven
        /\ Over("chat") => C!OpensDoNotCross /\ WritersLive
    BY <1>1 DEF MCInv, ChannelsInv, WaitInv
  <2>2. ASSUME PipesInv, EndsGiven PROVE ReaderIsNotLeftWaiting
    <3> SUFFICES ASSUME pp["writer"] = "ended", pp["reader"] = "loop", content["pipe"] = <<>>
                 PROVE  writers["pipe"] = {}
      BY DEF ReaderIsNotLeftWaiting, AtEnd
    <3>1. writers["pipe"] \subseteq {"writer", "reader"}
      BY <2>2 DEF PipesInv, Both, Pipes
    <3>2. "writer" \notin writers["pipe"] /\ "reader" \notin writers["pipe"]
      BY <2>2 DEF EndsGiven
    <3> QED
      BY <3>1, <3>2
  <2>3. ASSUME WritersLive PROVE C!ReadersAreNotLeftWaiting
    <3> SUFFICES ASSUME NEW u \in C!Users, NEW v \in C!Users, u # v, C!Gone(v), content[C!Hears(u)] = <<>>
                 PROVE  writers[C!Hears(u)] = {}
      BY ChatUses DEF C!ReadersAreNotLeftWaiting, AtEnd
    <3>1. C!Hears(u) = C!Speaks(v)
      BY ChatUses DEF C!Hears, C!Speaks
    <3>2. ASSUME NEW p \in writers[C!Speaks(v)] PROVE FALSE
      <4>1. p \in C!Mine(v) /\ proc[p] # "ended" /\ at[v] # "exited"
        BY <2>3, <3>2, ChatUses DEF WritersLive
      <4> QED
        BY <4>1 DEF C!Gone
    <3> QED
      BY <3>1, <3>2
  <2> QED
    BY <2>1, <2>2, <2>3 DEF NobodyIsLeftWaiting
<1> QED
  BY <1>1, ProcessesInvariant, PTL

\* Every pipe and FIFO is a channel (refinement): nothing is lost, nothing overtakes, and a
\* reader that stops at the end has read everything, and every process that wrote is gone.
THEOREM PipesImplementChannels == MCSpec => PipesAreChannels
<1>1. MCInit => Ideal!ChannelInit
  <2> SUFFICES ASSUME MCInit PROVE Ideal!ChannelInit
    OBVIOUS
  <2>1. ChannelsInit
    BY GroupInits
  <2>2. KernelInit
    BY <2>1, Zenon DEF ChannelsInit, PipesInit, C!ChatInit, C!KernelInit, KernelInit, C!Pipes, Pipes
  <2>3. \A x \in Pipes : SendersGone[x] = FALSE
    <3>1. \A u \in C!Users : ~C!Gone(u)
      BY <2>1, NobodyGone, Zenon DEF ChannelsInit
    <3>2. pp["writer"] # "ended"
      BY <2>1 DEF ChannelsInit, PipesInit, Both
    <3>3. C!Gone("a") = FALSE /\ C!Gone("b") = FALSE /\ (Over("pipes") /\ pp["writer"] = "ended") = FALSE
      <4>1. ~C!Gone("a") /\ ~C!Gone("b")
        BY <3>1, ChatUses
      <4>2. C!Gone("a") = FALSE /\ C!Gone("b") = FALSE
        BY <4>1, Zenon DEF C!Gone
      <4> QED
        BY <3>2, <4>2
    <3> QED
      BY <3>3 DEF SendersGone, Pipes
  <2>4. SendersGone = [x \in Pipes |-> FALSE]
    BY <2>3 DEF SendersGone
  <2> QED
    BY <2>2, <2>4, Zenon DEF Ideal!ChannelInit, KernelInit, SendersGone
<1>2. MCInv /\ [MCNext]_allvars => [Ideal!ChannelNext]_<<sent, got, SendersGone, over>>
  BY GroupSteps, ChannelsKept DEF MCInv
<1> QED
  BY <1>1, <1>2, ProcessesInvariant, PTL DEF MCSpec, PipesAreChannels, Ideal!ChannelSpec, SendersGone
=============================================================================
