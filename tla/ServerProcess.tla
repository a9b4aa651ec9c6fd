--------------------------- MODULE ServerProcess ----------------------------
(***************************************************************************)
(* concurent_socket/server_process.c: the parent accepts connections and   *)
(* forks a child for each, which echoes what the client sends.  A SIGCHLD  *)
(* handler, installed without SA_RESTART, reaps the children.              *)
(***************************************************************************)
EXTENDS EchoClients, FiniteSets

CONSTANTS
  MaxFds,      \* how many descriptors the parent can have for connections
  ForkMayFail  \* fork can meet the system's limit on processes

VARIABLES
  ppc,         \* the parent: "loop", "accepting" (inside accept), "fork", "exited"
  new,         \* cfd: the connection accepted and not yet handed to a child
  held,        \* the connections whose descriptor the parent has open
  sigPending,  \* SIGCHLD is pending; further ones merge with it
  inHandler,   \* recycleChild is running
  interrupted, \* the signal interrupted accept
  kpc          \* per connection: next step of its child, "zombie" or "reaped"

parent == <<ppc, new, held, inHandler, interrupted>>
server == <<parent, sigPending, kpc>>
vars == <<net, server>>

Init ==
  /\ NetInit
  /\ ppc = "loop" /\ new = {} /\ held = {}
  /\ sigPending = FALSE /\ inHandler = FALSE /\ interrupted = FALSE
  /\ kpc = [c \in Conns |-> "none"]

Zombies == {c \in Conns : kpc[c] = "zombie"}

-----------------------------------------------------------------------------
(* The parent *)

EnterAccept ==
  /\ ppc = "loop" /\ ~inHandler
  /\ ppc' = "accepting"
  /\ UNCHANGED <<net, new, held, sigPending, inHandler, interrupted, kpc>>

Accept ==
  /\ ppc = "accepting" /\ ~inHandler /\ backlog # <<>> /\ Cardinality(held) < MaxFds
  /\ new' = {Head(backlog)}
  /\ held' = held \cup new'
  /\ TakeConnection
  /\ ppc' = "fork"
  /\ UNCHANGED <<sigPending, inHandler, interrupted, kpc>>

\* No descriptor is left: err ends the parent.
AcceptFails ==
  /\ ppc = "accepting" /\ ~inHandler /\ backlog # <<>> /\ Cardinality(held) >= MaxFds
  /\ ppc' = "exited"
  /\ UNCHANGED <<net, new, held, sigPending, inHandler, interrupted, kpc>>

\* The parent goes back to accept without closing cfd.
Fork ==
  /\ ppc = "fork" /\ ~inHandler
  /\ kpc' = [c \in Conns |-> IF c \in new THEN "read" ELSE kpc[c]]
  /\ ppc' = "loop" /\ new' = {}
  /\ UNCHANGED <<net, held, sigPending, inHandler, interrupted>>

ForkFails ==
  /\ ForkMayFail /\ ppc = "fork" /\ ~inHandler
  /\ ppc' = "exited"
  /\ UNCHANGED <<net, new, held, sigPending, inHandler, interrupted, kpc>>

\* The signal is delivered.  An accept that has a connection to return returns it first.
HandlerStarts ==
  /\ ppc # "exited" /\ sigPending /\ ~inHandler
  /\ ~(ppc = "accepting" /\ backlog # <<>>)
  /\ sigPending' = FALSE
  /\ inHandler' = TRUE
  /\ interrupted' = (ppc = "accepting")
  /\ UNCHANGED <<net, ppc, new, held, kpc>>

\* Mutant of HandlerReaps: waitpid once instead of in a loop.
HandlerReapsOne ==
  /\ inHandler
  /\ \E c \in Zombies : kpc' = [kpc EXCEPT ![c] = "reaped"]
  /\ inHandler' = FALSE
  /\ UNCHANGED <<net, ppc, new, held, sigPending, interrupted>>

HandlerReaps ==
  /\ inHandler
  /\ \E c \in Zombies : kpc' = [kpc EXCEPT ![c] = "reaped"]
  /\ UNCHANGED <<net, ppc, new, held, sigPending, inHandler, interrupted>>

\* waitpid returns 0 or -1.  An interrupted accept then returns -1 (EINTR) and err ends
\* the parent.
HandlerEnds ==
  /\ inHandler /\ Zombies = {}
  /\ inHandler' = FALSE
  /\ ppc' = IF interrupted THEN "exited" ELSE ppc
  /\ interrupted' = FALSE
  /\ UNCHANGED <<net, new, held, sigPending, kpc>>

-----------------------------------------------------------------------------
(* The child for connection c *)

Goto(c, l) == kpc' = [kpc EXCEPT ![c] = l]

ChildRead(c) ==
  /\ kpc[c] = "read"
  /\ TakePiece(c)
  /\ Goto(c, "write")
  /\ UNCHANGED <<parent, sigPending>>

\* Mutant of ChildWrite: the loop is left after the first answer.
ChildWritesOnce(c) ==
  /\ kpc[c] = "write"
  /\ Answer(c)
  /\ Goto(c, "exit")
  /\ UNCHANGED <<parent, sigPending>>

ChildWrite(c) ==
  /\ kpc[c] = "write"
  /\ Answer(c)
  /\ Goto(c, "read")
  /\ UNCHANGED <<parent, sigPending>>

\* read returns 0, or fails and err ends the child.
ChildReadsEnd(c) ==
  /\ kpc[c] = "read" /\ (AtEnd(c) \/ IsReset(c))
  /\ Goto(c, "exit")
  /\ UNCHANGED <<net, parent, sigPending>>

\* exit.  The parent is told; without a parent, init reaps the child.
ChildExits(c) ==
  /\ kpc[c] = "exit"
  /\ IF ppc = "exited" THEN Goto(c, "reaped") /\ UNCHANGED sigPending
     ELSE Goto(c, "zombie") /\ sigPending' = TRUE
  /\ UNCHANGED <<net, parent>>

-----------------------------------------------------------------------------
Parent ==
  \/ EnterAccept \/ Accept \/ AcceptFails \/ Fork \/ ForkFails
  \/ HandlerStarts \/ HandlerReaps \/ HandlerEnds
Child(c) == ChildRead(c) \/ ChildWrite(c) \/ ChildReadsEnd(c) \/ ChildExits(c)

Next == (Clients(1) /\ UNCHANGED server) \/ Parent \/ \E c \in Conns : Child(c)
Spec == Init /\ [][Next]_vars

ServerTypeOK ==
  /\ NetTypeOK
  /\ ppc \in {"loop", "accepting", "fork", "exited"}
  /\ new \subseteq Conns /\ held \subseteq Conns
  /\ sigPending \in BOOLEAN /\ inHandler \in BOOLEAN /\ interrupted \in BOOLEAN
  /\ kpc \in [Conns -> {"none", "read", "write", "exit", "zombie", "reaped"}]

\* No zombie is forgotten: although pending SIGCHLDs merge and SIGCHLD is blocked in
\* the handler, a dead child is followed by a run of the handler that will see it.
NoZombieForgotten == (Zombies # {} /\ ppc # "exited") => sigPending \/ inHandler
=============================================================================
