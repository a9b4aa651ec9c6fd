----------------------------- MODULE WorkQueue -----------------------------
(***************************************************************************)
(* What a thread pool promises its clients: a FIFO queue of requests with  *)
(* a capacity, from which every worker takes one request at a time.        *)
(* ThreadPool.tla is shown to implement this specification, and            *)
(* WebServer.tla uses its operators as the pool between the event loop and *)
(* the workers.                                                            *)
(***************************************************************************)
EXTENDS Naturals, Sequences

CONSTANTS
  Requests,   \* what the clients append
  Workers,    \* the threads that serve requests
  Capacity    \* the largest number of requests that can wait

VARIABLES
  queue,      \* the requests that wait, oldest first
  serving,    \* serving[w]: <<r>> while worker w is busy with r, else <<>>
  refused     \* how many requests were turned away

qvars == <<queue, serving, refused>>

QueueInit ==
  /\ queue = <<>>
  /\ serving = [w \in Workers |-> <<>>]
  /\ refused = 0

HasRoom == Len(queue) < Capacity

\* A request is accepted: it waits behind every request accepted before it.
Put(r) ==
  /\ HasRoom
  /\ queue' = Append(queue, r)
  /\ UNCHANGED <<serving, refused>>

\* A request is turned away, which a queue with room never does.
Refuse ==
  /\ ~HasRoom
  /\ refused' = refused + 1
  /\ UNCHANGED <<queue, serving>>

\* An idle worker takes the oldest request.
Get(w) ==
  /\ serving[w] = <<>>
  /\ queue # <<>>
  /\ serving' = [serving EXCEPT ![w] = <<Head(queue)>>]
  /\ queue' = Tail(queue)
  /\ UNCHANGED refused

Done(w) ==
  /\ serving[w] # <<>>
  /\ serving' = [serving EXCEPT ![w] = <<>>]
  /\ UNCHANGED <<queue, refused>>

QueueNext ==
  \/ \E r \in Requests : Put(r)
  \/ Refuse
  \/ \E w \in Workers : Get(w) \/ Done(w)

QueueSpec == QueueInit /\ [][QueueNext]_qvars
=============================================================================
