---------------------------- MODULE EchoClients -----------------------------
(***************************************************************************)
(* The client.c of concurent_socket and of IO/_select, _poll and _epoll,   *)
(* and the TCP connections between the clients and a server: a client      *)
(* sends a message, waits for an answer and starts over, until somebody    *)
(* kills it.  A message is counted in pieces, the reads a server needs.    *)
(***************************************************************************)
EXTENDS Naturals, Sequences

CONSTANTS
  Conns,    \* the connections, one per client
  MaxSends  \* bound on the messages sent

ASSUME ClientsAssumption == Conns \subseteq Nat /\ MaxSends \in Nat

VARIABLES
  backlog,  \* connections that wait for accept, in order
  cpc,      \* per client: "new", "write", "read", "closed"
  input,    \* pieces on their way to the server
  reply,    \* an answer is on its way to the client
  peer,     \* what the server's kernel knows of the client: "up", "fin", "rst", or
            \* "broken" once it has answered a client that is gone
  sends     \* messages sent so far

net == <<backlog, cpc, input, reply, peer, sends>>

NetInit ==
  /\ backlog = <<>>
  /\ cpc = [c \in Conns |-> "new"]
  /\ input = [c \in Conns |-> 0]
  /\ reply = [c \in Conns |-> FALSE]
  /\ peer = [c \in Conns |-> "up"]
  /\ sends = 0

\* The clients are alike, so they are numbered in the order in which they connect.
ClientConnects(c) ==
  /\ cpc[c] = "new" /\ \A b \in Conns : b < c => cpc[b] # "new"
  /\ cpc' = [cpc EXCEPT ![c] = "write"]
  /\ backlog' = Append(backlog, c)
  /\ UNCHANGED <<input, reply, peer, sends>>

ClientWrites(c, pieces) ==
  /\ cpc[c] = "write" /\ sends < MaxSends
  /\ cpc' = [cpc EXCEPT ![c] = "read"]
  /\ input' = [input EXCEPT ![c] = @ + pieces]
  /\ sends' = sends + 1
  /\ UNCHANGED <<backlog, reply, peer>>

ClientReads(c) ==
  /\ cpc[c] = "read" /\ reply[c]
  /\ reply' = [reply EXCEPT ![c] = FALSE]
  /\ cpc' = [cpc EXCEPT ![c] = "write"]
  /\ UNCHANGED <<backlog, input, peer, sends>>

\* The user stops the client.  Its kernel sends FIN, or RST where an answer is unread.
ClientDies(c) ==
  /\ cpc[c] \in {"write", "read"}
  /\ cpc' = [cpc EXCEPT ![c] = "closed"]
  /\ peer' = [peer EXCEPT ![c] = IF reply[c] THEN "rst" ELSE "fin"]
  /\ UNCHANGED <<backlog, input, reply, sends>>

Clients(maxPieces) ==
  \E c \in Conns :
    \/ ClientConnects(c) \/ ClientReads(c) \/ ClientDies(c)
    \/ \E pieces \in 1..maxPieces : ClientWrites(c, pieces)

-----------------------------------------------------------------------------
(* What a read and a write of the server find *)

TakePiece(c) ==
  /\ input[c] > 0
  /\ input' = [input EXCEPT ![c] = @ - 1]
  /\ UNCHANGED <<backlog, cpc, reply, peer, sends>>

\* Where both are false and no piece has arrived, a read waits.
AtEnd(c) == input[c] = 0 /\ peer[c] \in {"fin", "broken"}
IsReset(c) == input[c] = 0 /\ peer[c] = "rst"

\* A client that is gone answers an answer with RST, which arrives before the next
\* call of the server or later.
Answer(c) ==
  /\ reply' = [reply EXCEPT ![c] = peer[c] = "up"]
  /\ \E state \in IF peer[c] = "up" THEN {"up"} ELSE {peer[c], "broken"} :
       peer' = [peer EXCEPT ![c] = state]
  /\ UNCHANGED <<backlog, cpc, input, sends>>

TakeConnection ==
  /\ backlog' = Tail(backlog)
  /\ UNCHANGED <<cpc, input, reply, peer, sends>>

NetTypeOK ==
  /\ backlog \in Seq(Conns)
  /\ cpc \in [Conns -> {"new", "write", "read", "closed"}]
  /\ input \in [Conns -> Nat] /\ reply \in [Conns -> BOOLEAN]
  /\ peer \in [Conns -> {"up", "fin", "rst", "broken"}]
  /\ sends \in Nat
=============================================================================
