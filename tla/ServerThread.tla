---------------------------- MODULE ServerThread ----------------------------
(***************************************************************************)
(* concurent_socket/server_thread.c: main accepts connections, looks for a *)
(* free element of sockInfos and starts a detached thread that echoes what *)
(* the client sends.  The thread reads its descriptor from sockInfos every *)
(* time it uses it.                                                        *)
(***************************************************************************)
EXTENDS EchoClients

CONSTANTS
  Fds,     \* the descriptors accept can return
  Max,     \* the length of sockInfos
  NoFd,    \* -1
  NoConn   \* a descriptor that is not open

ASSUME ServerThreadAssumption == Fds \subseteq Nat /\ NoFd \notin Fds /\ NoConn \notin Conns /\ Max \in Nat \ {0}

VARIABLES
  running, \* the process exists
  open,    \* the connection behind each descriptor
  fd,      \* sockInfos[i].fd
  mpc, cfd, i, \* main: next step, the connection accepted, the index (and pInfo) of the search
  wpc,     \* per connection: next step of the thread started for it
  pInfo    \* per connection: the element its thread was given

server == <<running, open, fd, mpc, cfd, i, wpc, pInfo>>
vars == <<net, server>>

Infos == 0..(Max - 1)

Init ==
  /\ NetInit
  /\ running = TRUE
  /\ open = [d \in Fds |-> NoConn]
  /\ fd = [k \in Infos |-> NoFd]
  /\ mpc = "accept" /\ cfd = NoFd /\ i = 0
  /\ wpc = [c \in Conns |-> "none"]
  /\ pInfo = [c \in Conns |-> 0]

-----------------------------------------------------------------------------
(* main *)

Free == {d \in Fds : open[d] = NoConn}

Accept ==
  /\ running /\ mpc = "accept" /\ backlog # <<>> /\ Free # {}
  /\ cfd' = CHOOSE d \in Free : \A e \in Free : d <= e
  /\ open' = [open EXCEPT ![cfd'] = Head(backlog)]
  /\ TakeConnection
  /\ mpc' = "find" /\ i' = 0
  /\ UNCHANGED <<running, fd, wpc, pInfo>>

\* No descriptor is left: serr ends the process.
AcceptFails ==
  /\ running /\ mpc = "accept" /\ backlog # <<>> /\ Free = {}
  /\ running' = FALSE
  /\ UNCHANGED <<net, open, fd, mpc, cfd, i, wpc, pInfo>>

\* Mutant of Find: the element is taken without a look at its fd.
FindAnything ==
  /\ running /\ mpc = "find"
  /\ mpc' = "store"
  /\ UNCHANGED <<net, running, open, fd, cfd, i, wpc, pInfo>>

\* Mutant of Find: the search ends at the last element, free or not.
FindTakesLast ==
  /\ running /\ mpc = "find"
  /\ IF fd[i] = NoFd \/ i = Max - 1 THEN mpc' = "store" /\ UNCHANGED i
     ELSE i' = i + 1 /\ UNCHANGED mpc
  /\ UNCHANGED <<net, running, open, fd, cfd, wpc, pInfo>>

\* One round of the search.  At the last element main sleeps and looks at it again.
Find ==
  /\ running /\ mpc = "find"
  /\ IF fd[i] = NoFd THEN mpc' = "store" /\ UNCHANGED i
     ELSE i' = (IF i = Max - 1 THEN i ELSE i + 1) /\ UNCHANGED mpc
  /\ UNCHANGED <<net, running, open, fd, cfd, wpc, pInfo>>

Store ==
  /\ running /\ mpc = "store"
  /\ fd' = [fd EXCEPT ![i] = cfd]
  /\ mpc' = "create"
  /\ UNCHANGED <<net, running, open, cfd, i, wpc, pInfo>>

\* pthread_create and pthread_detach, after which the thread for the connection is at l.
Start(l) ==
  /\ running /\ mpc = "create"
  /\ wpc' = [wpc EXCEPT ![open[cfd]] = l]
  /\ pInfo' = [pInfo EXCEPT ![open[cfd]] = i]
  /\ mpc' = "accept" /\ cfd' = NoFd
  /\ UNCHANGED <<net, open, fd, i>>

Create == Start("read") /\ UNCHANGED running

\* pthread_create fails, which main does not look at: nobody serves the client, its descriptor
\* and its element stay taken, and pthread_detach of a tid that names no thread may crash.
CreateFails == Start("failed") /\ running' \in BOOLEAN

-----------------------------------------------------------------------------
(* working: the thread started for connection c *)

Fd(c) == fd[pInfo[c]]
Goto(c, l) == wpc' = [wpc EXCEPT ![c] = l]

WorkerRead(c) ==
  /\ running /\ wpc[c] = "read"
  /\ TakePiece(open[Fd(c)])
  /\ Goto(c, "write")
  /\ UNCHANGED <<running, open, fd, mpc, cfd, i, pInfo>>

WorkerReadsEnd(c) ==
  /\ running /\ wpc[c] = "read" /\ AtEnd(open[Fd(c)])
  /\ Goto(c, "close")
  /\ UNCHANGED <<net, running, open, fd, mpc, cfd, i, pInfo>>

\* read fails: serr ends the whole process.
WorkerReadFails(c) ==
  /\ running /\ wpc[c] = "read" /\ IsReset(open[Fd(c)])
  /\ running' = FALSE
  /\ UNCHANGED <<net, open, fd, mpc, cfd, i, wpc, pInfo>>

WorkerWrite(c) ==
  /\ running /\ wpc[c] = "write"
  /\ Answer(open[Fd(c)])
  /\ Goto(c, "read")
  /\ UNCHANGED <<running, open, fd, mpc, cfd, i, pInfo>>

\* close and return.  pInfo->fd keeps the number of the closed descriptor.
WorkerClose(c) ==
  /\ running /\ wpc[c] = "close"
  /\ open' = [open EXCEPT ![Fd(c)] = NoConn]
  /\ Goto(c, "done")
  /\ UNCHANGED <<net, running, fd, mpc, cfd, i, pInfo>>

-----------------------------------------------------------------------------
Main == Accept \/ AcceptFails \/ Find \/ Store \/ Create \/ CreateFails
Worker(c) ==
  WorkerRead(c) \/ WorkerReadsEnd(c) \/ WorkerReadFails(c) \/ WorkerWrite(c) \/ WorkerClose(c)

Next == (Clients(1) /\ UNCHANGED server) \/ Main \/ \E c \in Conns : Worker(c)
Spec == Init /\ [][Next]_vars

Working(c) == wpc[c] \in {"read", "write", "close"}
\* The element pInfo[c] and the descriptor in it are those of connection c.
Holds(c) == Working(c) \/ wpc[c] = "failed"

ServerTypeOK ==
  /\ NetTypeOK
  /\ running \in BOOLEAN
  /\ open \in [Fds -> Conns \cup {NoConn}]
  /\ fd \in [Infos -> Fds \cup {NoFd}]
  /\ mpc \in {"accept", "find", "store", "create"} /\ cfd \in Fds \cup {NoFd} /\ i \in Infos
  /\ wpc \in [Conns -> {"none", "read", "write", "close", "done", "failed"}] /\ pInfo \in [Conns -> Infos]

\* A thread always talks to the client it was started for, although it shares
\* sockInfos with main and descriptors are reused.
ServesItsClient == \A c \in Conns : Holds(c) => Fd(c) # NoFd /\ open[Fd(c)] = c

\* Every open descriptor is with main, on its way to a thread, or with exactly one
\* thread or the one that could not be started, and none of them holds a closed one.
DescriptorsAreOwned ==
  \A d \in Fds :
    open[d] # NoConn <=>
      \/ mpc \in {"find", "store", "create"} /\ cfd = d
      \/ \E c \in Conns : Holds(c) /\ Fd(c) = d

\* What server_thread.c:99 says of the search: it waits if none is left, that is, while
\* each of the Max elements belongs to a connection that is still open.
WaitsOnlyWhenFull ==
  (running /\ mpc = "find" /\ i = Max - 1 /\ fd[i] # NoFd) =>
    \A k \in Infos : \E c \in Conns : Holds(c) /\ pInfo[c] = k
=============================================================================
