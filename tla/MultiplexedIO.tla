--------------------------- MODULE MultiplexedIO ----------------------------
(***************************************************************************)
(* What the single-threaded echo servers of NetCode/IO have in common: the *)
(* descriptors, when the kernel calls one ready, and the calls on them.    *)
(* The loop of each server waits (pc = "wait"), accepts ("accept") and     *)
(* serves one descriptor after the other ("scan", "read", "write").        *)
(***************************************************************************)
EXTENDS EchoClients

CONSTANTS
  Lfd,     \* the listening descriptor
  Fds,     \* the descriptors accept can return
  NoConn   \* a descriptor that is not open

ASSUME DescriptorsAssumption ==
  Lfd \in Nat /\ Fds \subseteq Nat /\ (\A d \in Fds : d > Lfd) /\ NoConn \notin Conns

VARIABLES
  running, \* the server process exists
  open,    \* the connection behind each descriptor
  pc, i    \* the next step of the loop, the descriptor or element it is at

loop == <<running, open, pc, i>>

LoopInit ==
  /\ NetInit
  /\ running = TRUE
  /\ open = [d \in Fds |-> NoConn]
  /\ pc = "wait" /\ i = Lfd

OpenFds == {d \in Fds : open[d] # NoConn}

Least(S) == CHOOSE d \in S : \A e \in S : d <= e

Free == Fds \ OpenFds

Readable(d) ==
  IF d = Lfd THEN backlog # <<>>
  ELSE d \in OpenFds /\ (input[open[d]] > 0 \/ peer[open[d]] # "up")

\* accept takes the connection that has waited longest and the lowest free descriptor.
AcceptConnection ==
  /\ backlog # <<>> /\ Free # {}
  /\ open' = [open EXCEPT ![Least(Free)] = Head(backlog)]
  /\ TakeConnection

\* accept returns -1: every descriptor is in use.
AcceptReturnsError == backlog # <<>> /\ Free = {}

\* read returns 0, and the descriptor is closed.
ReadAndClose(d) ==
  /\ AtEnd(open[d])
  /\ open' = [open EXCEPT ![d] = NoConn]
  /\ UNCHANGED net

\* write on a connection that has been reset raises SIGPIPE, which ends the process.
WriteAnswer(d) ==
  IF peer[open[d]] = "broken" THEN running' = FALSE /\ UNCHANGED net
  ELSE Answer(open[d]) /\ UNCHANGED running

Exit == running' = FALSE /\ UNCHANGED <<net, open, pc, i>>

LoopTypeOK ==
  /\ NetTypeOK
  /\ running \in BOOLEAN
  /\ open \in [Fds -> Conns \cup {NoConn}]
  /\ pc \in {"wait", "accept", "scan", "read", "write"}
=============================================================================
