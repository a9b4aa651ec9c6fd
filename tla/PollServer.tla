----------------------------- MODULE PollServer -----------------------------
(***************************************************************************)
(* NetCode/IO/_poll/poll.c: an array of descriptors that are watched, the  *)
(* first element for the listening descriptor, and nfds, the index of the  *)
(* last element that poll looks at.                                        *)
(***************************************************************************)
EXTENDS MultiplexedIO, Integers

CONSTANT NoFd   \* -1

VARIABLES
  fds,     \* fds[k].fd
  revents, \* whether fds[k].revents has POLLIN
  nfds

pvars == <<fds, revents, nfds>>

\* Elements that can come into use: nfds is never more than a descriptor.
Slots == 1..(CHOOSE d \in Fds : \A e \in Fds : e <= d)

\* main initialises fd and events, and not revents.
PollInit ==
  /\ fds = [k \in Slots |-> NoFd]
  /\ revents \in [Slots -> BOOLEAN]
  /\ nfds = 0

\* poll(fds, nfds + 1, -1).  It sets revents of every element that it looks at.
PollReturns ==
  LET ready == {k \in Slots : k <= nfds /\ fds[k] # NoFd /\ Readable(fds[k])}
      accepts == nfds >= 0 /\ Readable(Lfd)
  IN /\ running /\ pc = "wait"
     /\ accepts \/ ready # {}
     /\ revents' = [k \in Slots |-> IF k <= nfds THEN k \in ready ELSE revents[k]]
     /\ pc' = IF accepts THEN "accept" ELSE "scan"
     /\ i' = 1
     /\ UNCHANGED <<net, running, open, fds, nfds>>

Empty == {k \in Slots : fds[k] = NoFd}

\* nfds = cfd > cfd ? nfds : cfd, that is, cfd.
PollAccept ==
  LET cfd == Least(Free)
  IN /\ running /\ pc = "accept"
     /\ AcceptConnection
     /\ fds' = [fds EXCEPT ![Least(Empty)] = cfd]
     /\ nfds' = cfd
     /\ pc' = "scan"
     /\ UNCHANGED <<running, i, revents>>

\* cfd is -1, and so is nfds: poll will watch nothing.
PollAcceptFails ==
  /\ running /\ pc = "accept" /\ AcceptReturnsError
  /\ nfds' = -1
  /\ pc' = "scan"
  /\ UNCHANGED <<net, running, open, i, fds, revents>>

Reported == {k \in Slots : i <= k /\ k <= nfds /\ revents[k]}

\* for (i = 1; i <= nfds; i++) if (fds[i].revents & POLLIN)
PollScan ==
  /\ running /\ pc = "scan"
  /\ IF Reported = {} THEN pc' = "wait" /\ UNCHANGED i
     ELSE pc' = "read" /\ i' = Least(Reported)
  /\ UNCHANGED <<net, running, open, pvars>>

PollRead ==
  /\ running /\ pc = "read" /\ fds[i] # NoFd
  /\ TakePiece(open[fds[i]])
  /\ pc' = "write"
  /\ UNCHANGED <<running, open, i, pvars>>

PollWrite ==
  /\ running /\ pc = "write"
  /\ WriteAnswer(fds[i])
  /\ pc' = "scan" /\ i' = i + 1
  /\ UNCHANGED <<open, pvars>>

\* Mutant of PollReadEnd: the element keeps the descriptor.
PollReadEndKeepsFd ==
  /\ running /\ pc = "read" /\ fds[i] # NoFd
  /\ ReadAndClose(fds[i])
  /\ pc' = "scan" /\ i' = i + 1
  /\ UNCHANGED <<running, pvars>>

PollReadEnd ==
  /\ running /\ pc = "read" /\ fds[i] # NoFd
  /\ ReadAndClose(fds[i])
  /\ fds' = [fds EXCEPT ![i] = NoFd]
  /\ pc' = "scan" /\ i' = i + 1
  /\ UNCHANGED <<running, revents, nfds>>

\* syserr: the connection is reset, or revents was never set and there is no descriptor.
PollReadFails ==
  /\ running /\ pc = "read"
  /\ IF fds[i] = NoFd THEN TRUE ELSE IsReset(open[fds[i]])
  /\ Exit
  /\ UNCHANGED pvars

PollStep ==
  \/ PollReturns \/ PollAccept \/ PollAcceptFails \/ PollScan
  \/ PollRead \/ PollWrite \/ PollReadEnd \/ PollReadFails

PollTypeOK ==
  /\ fds \in [Slots -> Fds \cup {NoFd}]
  /\ revents \in [Slots -> BOOLEAN]
  /\ nfds \in Fds \cup {0, -1}

\* The array and the kernel agree on the open descriptors, and the first empty element
\* and the lowest free descriptor go in step: element k is for descriptor lfd + k.
\* So what nfds, a descriptor, leaves out are the elements after the newest one + lfd.
PollSlotsAreDescriptors ==
  /\ {fds[k] : k \in Slots \ Empty} = OpenFds
  /\ \A k \in Slots \ Empty : fds[k] = Lfd + k

\* Whether poll looks at the element of connection c.
Watched(c) == \E k \in Slots \ Empty : k <= nfds /\ open[fds[k]] = c
=============================================================================
