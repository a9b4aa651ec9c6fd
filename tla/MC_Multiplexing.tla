--------------------------- MODULE MC_Multiplexing --------------------------
(***************************************************************************)
(* The four single-threaded servers with three clients and two or three    *)
(* descriptors, so that descriptors are reused and run out.  Which server  *)
(* runs is chosen in the initial state.  The clients of epoll send a line  *)
(* of one or two pieces, the others a line that one read takes.            *)
(***************************************************************************)
EXTENDS MultiplexedIO, Integers, FiniteSets

CONSTANTS
  NoFd,
  MaxGarbage  \* bound on the elements whose uninitialised revents has POLLIN

MCFds == {4, 5}
MCConns == 1..3

\* The process has as many descriptors as its limit lets it, from lfd + 1 on.
ASSUME MultiplexingAssumption ==
  NoFd \notin Fds /\ MaxGarbage \in Nat /\ \E last \in Fds : Fds = Lfd + 1 .. last

VARIABLES program, readsset, temp, maxfd, fds, revents, nfds, edge, rdlist, epevs

Select == INSTANCE SelectServer
Poll == INSTANCE PollServer
Epoll == INSTANCE EpollServer

svars == <<readsset, temp, maxfd>>
pvars == <<fds, revents, nfds>>
evars == <<edge, rdlist, epevs>>
allvars == <<program, net, loop, svars, pvars, evars>>

Running(p) == program = p

MCInit ==
  /\ program \in {"select", "poll", "epoll"}
  /\ LoopInit
  /\ Select!SelectInit
  /\ Poll!PollInit
  /\ Cardinality({k \in Poll!Slots : revents[k]}) <= (IF Running("poll") THEN MaxGarbage ELSE 0)
  /\ Epoll!EpollInit /\ (program # "epoll" => ~edge)

Server ==
  /\ UNCHANGED program
  /\ \/ Running("select") /\ Select!SelectStep /\ UNCHANGED <<pvars, evars>>
     \/ Running("poll") /\ Poll!PollStep /\ UNCHANGED <<svars, evars>>
     \/ Running("epoll") /\ Epoll!EpollStep /\ UNCHANGED <<svars, pvars>>

Users ==
  /\ UNCHANGED <<program, svars, pvars>>
  /\ IF Running("epoll") THEN Epoll!EpollClients(2) ELSE Clients(1) /\ UNCHANGED <<loop, evars>>

MCNext == Server \/ Users

\* The kernel schedules the server.  The clients owe nothing.
MCSpec == MCInit /\ [][MCNext]_allvars /\ WF_allvars(Server)
EdgeSpec == MCSpec /\ Running("epoll") /\ edge = TRUE

-----------------------------------------------------------------------------
LoopsTypeOK ==
  /\ LoopTypeOK
  /\ Select!SelectTypeOK /\ Poll!PollTypeOK /\ Epoll!EpollTypeOK

\* select.c and poll.c keep book of the open descriptors (see SelectServer, PollServer), in
\* a state in which every variable has its type.
TablesMatchKernel ==
  /\ LoopsTypeOK
  /\ Running("select") => Select!SelectWatchesOpen
  /\ Running("poll") => Poll!PollSlotsAreDescriptors

\* select.c and epoll_LT.c never wait in accept or read: what the kernel has reported still
\* holds when the loop gets there.  And epoll_ET.c overlooks no input, although it is told of
\* it once (see SelectServer, EpollServer).
ReportsStayTrue ==
  /\ Running("select") => Select!SelectNeverWaits
  /\ Running("epoll") => Epoll!LevelNeverWaits /\ Epoll!EdgeIsNotLost

\* A client that select.c, poll.c or epoll_LT.c has accepted gets an answer to each
\* message, unless it dies, the server exits, or poll does not look at its element.
Accepted(c) == \E d \in OpenFds : open[d] = c
Overlooked(c) == Running("poll") /\ ~Poll!Watched(c)
EveryClientIsAnswered ==
  \A c \in Conns :
    (~(Running("epoll") /\ edge) /\ Accepted(c) /\ cpc[c] = "read") ~>
      (reply[c] \/ cpc[c] # "read" \/ ~running \/ Overlooked(c))

\* What the call at the head of the loop reports at once; where that is nothing, the server sleeps
\* until a client does something.
Reported ==
  CASE Running("select") -> {d \in readsset : d <= maxfd /\ Readable(d)}
    [] Running("poll") ->
         {d \in {Lfd} : nfds >= 0 /\ Readable(d)}
           \cup {fds[k] : k \in {j \in Poll!Slots \ Poll!Empty : j <= nfds /\ Readable(fds[j])}}
    [] OTHER -> Epoll!Ready
Asleep == running /\ pc = "wait" /\ Reported = {}

\* No server goes to sleep on work: nobody waits to be accepted, all that came from an accepted
\* client is read, and its end too, which epoll_ET.c leaves.  Only poll.c sleeps on the elements,
\* the first included, that nfds leaves out.
SleepsOnlyWhenServed ==
  Asleep =>
    /\ backlog = <<>> \/ (Running("poll") /\ nfds = -1)
    /\ \A c \in Conns : Accepted(c) /\ ~Overlooked(c) => input[c] = 0 /\ (edge \/ peer[c] = "up")

\* What epoll_ET.c:87 says, that read is set to not block, is there for: the server
\* reads what an accepted client has sent, whatever the other clients do.
EdgeReadsEveryClient ==
  \A c \in Conns : (Accepted(c) /\ input[c] > 0) ~> (input[c] = 0 \/ ~running)
=============================================================================
