---------------------------- MODULE MC_Processes ----------------------------
(***************************************************************************)
(* The programs about processes: three children and their ends, timers and *)
(* blocked signals, mapped memory, three users of a shared memory segment, *)
(* and the channels.  Which group runs is chosen in the initial state, and *)
(* within it which program.  Operators without a prefix are those of       *)
(* Channels, Children and ShmSegments.                                     *)
(***************************************************************************)
EXTENDS Channels, Children, ShmSegments

CONSTANTS Rounds, Cells, MaxTexts

MCProcs == 1..3
MCSegments == 1..3
MCClients == 1..2

VARIABLES
  group,
  sigprog, todo, timer, caught, inside, mask, due, rounds, keys, ended,
  mprog, mem, text, wpc, wat, rpc, rat, buf, kid, cut

Sig == INSTANCE Signals WITH num <- rounds, sent <- keys
Map == INSTANCE MappedFile WITH child <- kid

ASSUME ProcessesAssumption == C!ChatAssumption /\ Sig!SignalsAssumption /\ Map!MappedAssumption

svars == <<sigprog, todo, timer, caught, inside, mask, due, rounds, keys, ended>>
mvars == <<mprog, mem, text, wpc, wat, rpc, rat, buf, kid, cut>>
others == <<group, cvars, svars, mvars, shvars>>
allvars == <<chvars, others>>

Running(g) == group = g

\* The groups that do not run keep one initial state.
MCInit ==
  /\ group \in {"children", "signals", "mapped", "segments", "channels"}
  /\ Init /\ (Running("children") \/ program = "wait")
  /\ Sig!SignalsInit /\ (Running("signals") \/ sigprog = "alarm")
  /\ Map!MappedInit /\ (Running("mapped") \/ (mprog = "contact" /\ wpc = "scanf" /\ rpc = "read"))
  /\ ShmInit /\ (Running("segments") \/ \A p \in MCProcs : role[p] = "writer")
  /\ ChannelsInit /\ (Running("channels") \/ (medium = "broadcast" /\ castprog = "broadcast" /\ len = 0))

ChildrenStep(A) == Running("children") /\ A /\ UNCHANGED <<group, svars, mvars, shvars, chvars>>
SignalsStep(A) == Running("signals") /\ A /\ UNCHANGED <<group, cvars, mvars, shvars, chvars>>
MappedStep(A) == Running("mapped") /\ A /\ UNCHANGED <<group, cvars, svars, shvars, chvars>>
SegmentsStep(A) == Running("segments") /\ A /\ UNCHANGED <<group, cvars, svars, mvars, chvars>>
ChannelsStep(A) == Running("channels") /\ A /\ UNCHANGED others

MCNext ==
  \/ ChildrenStep(ChildrenNext)
  \/ SignalsStep(Sig!SignalsNext)
  \/ MappedStep(Map!MappedNext)
  \/ SegmentsStep(ShmNext)
  \/ ChannelsStep(ChannelsNext)

\* The kernel schedules every process, and its clock runs.  Users owe nothing: they need
\* not press a key, type, close standard input or kill a process, which is how the children
\* of wait.c and waitpid.c end.  ps may take any time, and clients need not send again.
MCSpec ==
  /\ MCInit /\ [][MCNext]_allvars
  /\ WF_allvars(ChildrenStep(Parent))
  /\ WF_allvars(ChildrenStep(WorkDone))
  /\ WF_allvars(SignalsStep(Sig!Main))
  /\ WF_allvars(SignalsStep(Sig!Expire))
  /\ WF_allvars(SignalsStep(Sig!Delivery))
  /\ WF_allvars(MappedStep(Map!MappedWrite))
  /\ WF_allvars(MappedStep(Map!MappedRead))
  /\ WF_allvars(ChannelsStep(PipesStep(Writer)))
  /\ WF_allvars(ChannelsStep(PipesStep(Reader)))
  /\ WF_allvars(ChannelsStep(EchoStep(Server)))
  /\ \A c \in Clients : WF_allvars(ChannelsStep(EchoStep(Client(c))))
  /\ \A u \in C!Users :
       /\ WF_allvars(ChannelsStep(ChatStep(C!Setup(u))))
       /\ WF_allvars(ChannelsStep(ChatStep(C!Listen(u))))

-----------------------------------------------------------------------------
\* No signal is forgotten, though the pending ones merge: sigchild.c collects each dead
\* child, sigprocmask.c acts on each key that was pressed (see Children, Signals).
NoSignalIsForgotten ==
  /\ Running("children") => ChildrenTypeOK /\ NoZombieForgotten
  /\ Running("signals") => Sig!SignalsTypeOK /\ Sig!SignalsAreKept

\* A parent that waits returns after its children, those of wait.c and waitpid.c unless their
\* last fork failed (see Children).
ParentsLeaveNobody == Running("children") => AllCollected

\* mmap-p2c-ipc.c prints what its child wrote, whole, and a shared memory segment that exists
\* has a process that has yet to remove it or was killed; none goes while it is attached (see
\* MappedFile, ShmSegments).
SharedMemoryIsSound ==
  /\ Running("mapped") => Map!MappedTypeOK /\ Map!ReadsAreWhole
  /\ Running("segments") => ShmTypeOK /\ NoSegmentLeftBehind /\ AttachedStays

\* Zombies go and waiting parents return, signals take effect, and the text in a mapped
\* file reaches its reader if there is one (see Children, Signals, MappedFile).
EveryoneIsServed ==
  /\ Running("children") => ZombiesGo /\ ParentsReturn
  /\ Running("signals") => Sig!SignalsTakeEffect
  /\ Running("mapped") => Map!TextArrives
=============================================================================
