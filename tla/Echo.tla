-------------------------------- MODULE Echo --------------------------------
(***************************************************************************)
(* Clients that send a number and wait for its echo: local_socket (one     *)
(* connection), epoll_timer/server.cpp (one connection, and a server that  *)
(* does not notice its end), and the UDP server with any number of         *)
(* clients, whose datagrams may be lost.                                   *)
(***************************************************************************)
EXTENDS Naturals, Sequences

CONSTANTS
  Clients,
  MaxNum        \* bound on the rounds of a client

ASSUME EchoAssumption == Clients # {} /\ MaxNum \in Nat

VARIABLES
  echoprog,     \* "local", "timer" or "udp"
  cli,          \* per client: "send", "recv", or "gone"
  num,          \* per client: the numbers it has sent
  heard,        \* per client: the last answer it printed
  requests,     \* what is on its way to the server: <<client, number>>
  answers,      \* per client: what is on its way to it
  srv,          \* the server: "recv", "send", "spins" or "gone"
  job           \* the request it has received, with its client_addr

echovars == <<echoprog, cli, num, heard, requests, answers, srv, job>>

\* The servers on a connection accept one client; the UDP server answers all of them.
EchoInit ==
  /\ echoprog \in {"local", "timer", "udp"}
  /\ IF echoprog = "udp" THEN cli = [c \in Clients |-> "send"]
     ELSE \E first \in Clients : cli = [c \in Clients |-> IF c = first THEN "send" ELSE "gone"]
  /\ num = [c \in Clients |-> 0] /\ heard = [c \in Clients |-> 0]
  /\ requests = <<>> /\ answers = [c \in Clients |-> <<>>]
  /\ srv = "recv" /\ job = <<>>

\* send, or sendto.  A datagram may be lost, and is if there is no server.  On a connection
\* SIGPIPE ends the client if the server is gone.
Send(c) ==
  /\ cli[c] = "send" /\ num[c] < MaxNum
  /\ IF echoprog # "udp" /\ srv = "gone"
     THEN cli' = [cli EXCEPT ![c] = "gone"] /\ UNCHANGED <<num, requests>>
     ELSE /\ cli' = [cli EXCEPT ![c] = "recv"]
          /\ num' = [num EXCEPT ![c] = @ + 1]
          /\ \/ requests' = Append(requests, <<c, num[c] + 1>>) /\ srv # "gone"
             \/ UNCHANGED requests /\ echoprog = "udp"
  /\ UNCHANGED <<echoprog, heard, answers, srv, job>>

\* recv, or recvfrom, which for UDP waits for ever if the datagram or its answer was lost.
Recv(c) ==
  /\ cli[c] = "recv" /\ answers[c] # <<>>
  /\ heard' = [heard EXCEPT ![c] = Head(answers[c])]
  /\ answers' = [answers EXCEPT ![c] = Tail(@)]
  /\ cli' = [cli EXCEPT ![c] = "send"]
  /\ UNCHANGED <<echoprog, num, requests, srv, job>>

\* recv returns 0: server closed.
RecvEnd(c) ==
  /\ cli[c] = "recv" /\ answers[c] = <<>> /\ srv = "gone" /\ echoprog # "udp"
  /\ cli' = [cli EXCEPT ![c] = "gone"]
  /\ UNCHANGED <<echoprog, num, heard, requests, answers, srv, job>>

KillClient(c) ==
  /\ cli[c] # "gone"
  /\ cli' = [cli EXCEPT ![c] = "gone"]
  /\ UNCHANGED <<echoprog, num, heard, requests, answers, srv, job>>

-----------------------------------------------------------------------------
SrvRecv ==
  /\ srv = "recv" /\ requests # <<>>
  /\ job' = Head(requests) /\ requests' = Tail(requests)
  /\ srv' = "send"
  /\ UNCHANGED <<echoprog, cli, num, heard, answers>>

\* Mutant of SrvSend: the answer goes to the client that spoke last.
SrvSendToLast ==
  /\ srv = "send"
  /\ LET to == IF requests # <<>> THEN requests[Len(requests)][1] ELSE job[1]
     IN answers' = [answers EXCEPT ![to] = Append(@, job[2])]
  /\ srv' = "recv"
  /\ UNCHANGED <<echoprog, cli, num, heard, requests, job>>

\* send, or sendto(client_addr).  On a connection SIGPIPE ends the server if the client is
\* gone; a datagram may be lost.
SrvSend ==
  /\ srv = "send"
  /\ LET c == job[1] IN
       \/ /\ cli[c] # "gone"
          /\ answers' = [answers EXCEPT ![c] = Append(@, job[2])]
          /\ srv' = "recv"
       \/ /\ echoprog = "udp" \/ cli[c] = "gone"
          /\ srv' \in (IF echoprog = "udp" THEN {"recv"} ELSE {"recv", "gone"})
          /\ UNCHANGED answers
  /\ UNCHANGED <<echoprog, cli, num, heard, requests, job>>

\* recv returns 0: local_socket ends, epoll_timer goes on reading nothing and writing nothing.
\* If the connection was reset, its read returns -1 and SIGPIPE may end it at one of the writes.
SrvEnd ==
  /\ srv = "recv" /\ requests = <<>> /\ echoprog # "udp" /\ \A c \in Clients : cli[c] = "gone"
  /\ srv' \in (IF echoprog = "local" THEN {"gone"} ELSE {"spins", "gone"})
  /\ UNCHANGED <<echoprog, cli, num, heard, requests, answers, job>>

KillServer ==
  /\ srv # "gone"
  /\ srv' = "gone"
  /\ UNCHANGED <<echoprog, cli, num, heard, requests, answers, job>>

Server == SrvRecv \/ SrvSend \/ SrvEnd
Client(c) == Recv(c) \/ RecvEnd(c)
EchoNext ==
  \/ Server \/ KillServer
  \/ \E c \in Clients : Client(c) \/ Send(c) \/ KillClient(c)

EchoTypeOK ==
  /\ cli \in [Clients -> {"send", "recv", "gone"}] /\ srv \in {"recv", "send", "spins", "gone"}
  /\ num \in [Clients -> 0..MaxNum] /\ heard \in [Clients -> 0..MaxNum]
  /\ requests \in Seq(Clients \X (1..MaxNum)) /\ answers \in [Clients -> Seq(1..MaxNum)]

\* The echo a client prints is that of the number it has just sent, although the server
\* serves all UDP clients in turn on one socket: never another client's, never an old one.
AnswersAreOwn ==
  \A c \in Clients :
    /\ cli[c] = "send" => heard[c] = num[c]
    /\ \A i \in 1..Len(answers[c]) : answers[c][i] = num[c]

\* On a connection nobody waits for ever for a process that is gone: each waiting client
\* gets its answer or notices the end, and so does the server of local_socket.
NobodyWaitsForever ==
  /\ \A c \in Clients : (echoprog # "udp" /\ cli[c] = "recv") ~> (cli[c] # "recv")
  /\ (echoprog = "local" /\ \A c \in Clients : cli[c] = "gone") ~> (srv = "gone")
=============================================================================
