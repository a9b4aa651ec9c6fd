----------------------------- MODULE EpollServer ----------------------------
(***************************************************************************)
(* NetCode/IO/_epoll/epoll_LT.c and epoll_ET.c.  epoll watches the open    *)
(* descriptors.  The server reads five bytes at a time: level-triggered,   *)
(* one piece per event; edge-triggered, until read returns 0 or -1.  The   *)
(* descriptors stay blocking: epoll_ET.c sets O_NONBLOCK with F_SETFD.     *)
(***************************************************************************)
EXTENDS MultiplexedIO

VARIABLES
  edge,   \* epoll_ET.c, not epoll_LT.c
  rdlist, \* edge-triggered: the connections' descriptors on the ready list
  epevs   \* the result of epoll_wait, less the events the loop has come to

evars == <<edge, rdlist, epevs>>

EpollInit == edge \in BOOLEAN /\ rdlist = {} /\ epevs = {}

\* Where something arrives, or has arrived before the descriptor is added, an
\* edge-triggered descriptor goes to the ready list.
Arrival(d) ==
  /\ open'[d] # NoConn
  /\ \/ input'[open'[d]] > input[open'[d]]
     \/ peer'[open'[d]] # peer[open'[d]]
     \/ open[d] = NoConn /\ (input[open'[d]] > 0 \/ peer[open'[d]] # "up")

Notified == IF edge THEN {d \in Fds : Arrival(d)} ELSE {}

EpollClients(maxPieces) ==
  /\ Clients(maxPieces)
  /\ UNCHANGED <<loop, edge, epevs>>
  /\ rdlist' = rdlist \cup Notified

Ready == {d \in {Lfd} \cup (IF edge THEN rdlist ELSE OpenFds) : Readable(d)}

\* epoll_wait.  What an edge-triggered descriptor has is reported once.
EpollWaitReturns ==
  /\ running /\ pc = "wait" /\ Ready # {}
  /\ epevs' = Ready
  /\ rdlist' = {}
  /\ pc' = "scan"
  /\ UNCHANGED <<net, running, open, i, edge>>

\* The loop has come to the end of epevs.
EpollBatchEnds ==
  /\ running /\ pc = "scan" /\ epevs = {}
  /\ pc' = "wait"
  /\ UNCHANGED <<net, running, open, i, evars>>

\* accept, and EPOLL_CTL_ADD.
EpollAccept ==
  /\ running /\ pc = "scan" /\ Lfd \in epevs
  /\ AcceptConnection
  /\ epevs' = epevs \ {Lfd}
  /\ rdlist' = rdlist \cup Notified
  /\ UNCHANGED <<running, pc, i, edge>>

EpollAcceptFails ==
  /\ running /\ pc = "scan" /\ Lfd \in epevs /\ AcceptReturnsError
  /\ Exit
  /\ UNCHANGED evars

\* The next event of epevs, which the kernel has put there in any order.
EpollNext ==
  /\ running /\ pc = "scan"
  /\ \E d \in epevs \ {Lfd} : i' = d /\ epevs' = epevs \ {d}
  /\ pc' = "read"
  /\ UNCHANGED <<net, running, open, edge, rdlist>>

EpollRead ==
  /\ running /\ pc = "read"
  /\ TakePiece(open[i])
  /\ pc' = "write"
  /\ UNCHANGED <<running, open, i, evars>>

\* Mutant of EpollWrite: the loop reads once per event in both programs.
EpollWritesOnce ==
  /\ running /\ pc = "write"
  /\ WriteAnswer(i)
  /\ UNCHANGED <<open, i, edge, epevs>>
  /\ rdlist' = rdlist \cup Notified
  /\ pc' = "scan"

EpollWrite ==
  /\ running /\ pc = "write"
  /\ WriteAnswer(i)
  /\ UNCHANGED <<open, i, edge, epevs>>
  /\ rdlist' = rdlist \cup Notified
  /\ pc' = IF edge THEN "read" ELSE "scan"

\* read returns 0.  epoll_LT.c closes the descriptor, which also ends the watch (its
\* EPOLL_CTL_DEL comes too late and fails); epoll_ET.c keeps it.
EpollReadEnd ==
  /\ running /\ pc = "read"
  /\ IF edge THEN AtEnd(open[i]) /\ UNCHANGED <<net, open>> ELSE ReadAndClose(i)
  /\ pc' = "scan"
  /\ UNCHANGED <<running, i, evars>>

\* read returns -1: epoll_LT.c exits; epoll_ET.c assigns EAGAIN to errno and goes on.
EpollReadFails ==
  /\ running /\ pc = "read" /\ IsReset(open[i])
  /\ IF edge THEN pc' = "scan" /\ UNCHANGED <<net, running, open, i>> ELSE Exit
  /\ UNCHANGED evars

EpollStep ==
  \/ EpollWaitReturns \/ EpollBatchEnds \/ EpollAccept \/ EpollAcceptFails
  \/ EpollNext \/ EpollRead \/ EpollWrite \/ EpollReadEnd \/ EpollReadFails

EpollTypeOK ==
  /\ edge \in BOOLEAN
  /\ rdlist \subseteq Fds /\ epevs \subseteq Fds \cup {Lfd}

\* Level-triggered, an event stays true until the loop gets there: no descriptor in
\* epevs has been closed or reused since, and neither accept nor read waits.
LevelNeverWaits ==
  ~edge => (\A d \in epevs : Readable(d)) /\ (pc = "read" => Readable(i))

\* Edge-triggered, nothing is overlooked: what a connection has sent is read by the
\* loop now, or its descriptor is reported or on the ready list.
EdgeIsNotLost ==
  edge => \A d \in OpenFds :
            input[open[d]] > 0 => d \in rdlist \cup epevs \/ (pc \in {"read", "write"} /\ i = d)
=============================================================================
