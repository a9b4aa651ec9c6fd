---------------------------- MODULE SelectServer ----------------------------
(***************************************************************************)
(* NetCode/IO/_select/select.c: one set of descriptors that are watched,   *)
(* and a copy that select reduces to those that are ready.                 *)
(***************************************************************************)
EXTENDS MultiplexedIO

VARIABLES
  readsset, \* the descriptors that are watched
  temp,     \* the result of select, less the descriptors the loop has come to
  maxfd

svars == <<readsset, temp, maxfd>>

SelectInit == readsset = {Lfd} /\ temp = {} /\ maxfd = Lfd

\* select looks at the descriptors up to maxfd, and returns when one is ready.
SelectReturns ==
  /\ running /\ pc = "wait"
  /\ temp' = {d \in readsset : d <= maxfd /\ Readable(d)}
  /\ temp' # {}
  /\ pc' = IF Lfd \in temp' THEN "accept" ELSE "scan"
  /\ UNCHANGED <<net, running, open, i, readsset, maxfd>>

\* Mutant of SelectAccept: maxfd becomes the newest descriptor, not the highest.
SelectAcceptNewest ==
  /\ running /\ pc = "accept"
  /\ AcceptConnection
  /\ readsset' = readsset \cup {Least(Free)}
  /\ maxfd' = Least(Free)
  /\ temp' = temp \ {Lfd}
  /\ pc' = "scan"
  /\ UNCHANGED <<running, i>>

SelectAccept ==
  /\ running /\ pc = "accept"
  /\ AcceptConnection
  /\ readsset' = readsset \cup {Least(Free)}
  /\ maxfd' = IF maxfd > Least(Free) THEN maxfd ELSE Least(Free)
  /\ temp' = temp \ {Lfd}
  /\ pc' = "scan"
  /\ UNCHANGED <<running, i>>

\* FD_SET(-1): undefined.  A checked build aborts; an unchecked one sets the bit of a
\* descriptor that is open and watched already, since all are.
SelectAcceptFails ==
  /\ running /\ pc = "accept" /\ AcceptReturnsError
  /\ running' \in BOOLEAN
  /\ temp' = temp \ {Lfd}
  /\ pc' = "scan"
  /\ UNCHANGED <<net, open, i, readsset, maxfd>>

\* Mutant of SelectScan: the loop looks at readsset instead of temp.
SelectScanAll ==
  /\ running /\ pc = "scan"
  /\ IF temp = {} THEN pc' = "wait" /\ UNCHANGED <<i, temp>>
     ELSE /\ i' = Least(readsset \ {Lfd})
          /\ temp' = {}
          /\ pc' = "read"
  /\ UNCHANGED <<net, running, open, readsset, maxfd>>

\* for (i = lfd + 1; i <= maxfd; i++) if (FD_ISSET(i, &temp))
SelectScan ==
  /\ running /\ pc = "scan"
  /\ IF temp = {} THEN pc' = "wait" /\ UNCHANGED <<i, temp>>
     ELSE /\ i' = Least(temp)
          /\ temp' = temp \ {i'}
          /\ pc' = "read"
  /\ UNCHANGED <<net, running, open, readsset, maxfd>>

SelectRead ==
  /\ running /\ pc = "read"
  /\ TakePiece(open[i])
  /\ pc' = "write"
  /\ UNCHANGED <<running, open, i, svars>>

SelectWrite ==
  /\ running /\ pc = "write"
  /\ WriteAnswer(i)
  /\ pc' = "scan"
  /\ UNCHANGED <<open, i, svars>>

SelectReadEnd ==
  /\ running /\ pc = "read"
  /\ ReadAndClose(i)
  /\ readsset' = readsset \ {i}
  /\ pc' = "scan"
  /\ UNCHANGED <<running, i, temp, maxfd>>

\* syserr: a client that resets its connection ends the server.
SelectReadFails ==
  /\ running /\ pc = "read" /\ IsReset(open[i])
  /\ Exit
  /\ UNCHANGED svars

SelectStep ==
  \/ SelectReturns \/ SelectAccept \/ SelectAcceptFails \/ SelectScan
  \/ SelectRead \/ SelectWrite \/ SelectReadEnd \/ SelectReadFails

SelectTypeOK ==
  /\ readsset \subseteq Fds \cup {Lfd} /\ temp \subseteq Fds \cup {Lfd}
  /\ maxfd \in Fds \cup {Lfd}

\* select watches exactly the open descriptors: its set is that of the kernel, and
\* maxfd leaves none of them out, although descriptors are closed and reused.
SelectWatchesOpen == readsset = OpenFds \cup {Lfd} /\ \A d \in OpenFds : d <= maxfd

\* What select has reported stays true until the loop gets there, although the server
\* accepts, serves and closes other descriptors first: neither accept nor read waits.
SelectNeverWaits ==
  /\ \A d \in temp : Readable(d)
  /\ pc = "read" => Readable(i)
=============================================================================
