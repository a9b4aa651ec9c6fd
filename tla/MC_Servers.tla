----------------------------- MODULE MC_Servers -----------------------------
(***************************************************************************)
(* The two concurrent servers with three clients.  server_thread has two   *)
(* elements in sockInfos and two descriptors, so that elements run out,    *)
(* descriptors run out and descriptors are reused; server_process may hold *)
(* two descriptors.  Which server runs is chosen in the initial state.     *)
(* Operators without a prefix are those of server_thread.                  *)
(***************************************************************************)
EXTENDS ServerThread, FiniteSets

CONSTANTS MaxFds, ForkMayFail

ASSUME ServersAssumption == MaxFds \in Nat

MCFds == {4, 5}
MCConns == 1..3

VARIABLES program, ppc, new, held, sigPending, inHandler, interrupted, kpc

Process == INSTANCE ServerProcess

processServer == <<ppc, new, held, sigPending, inHandler, interrupted, kpc>>
allvars == <<vars, processServer, program>>

Running(p) == program = p

MCInit ==
  /\ program \in {"server_thread", "server_process"}
  /\ Init
  /\ Process!Init

MCNext ==
  \/ Running("server_thread") /\ Next /\ UNCHANGED <<processServer, program>>
  \/ Running("server_process") /\ Process!Next /\ UNCHANGED <<server, program>>

\* The kernel schedules the server's threads and processes and delivers signals, and
\* client.c reads what arrives.  No client has to connect, to send or to die.
MCSpec ==
  /\ MCInit /\ [][MCNext]_allvars
  /\ WF_allvars(Running("server_thread") /\ Main /\ UNCHANGED <<processServer, program>>)
  /\ WF_allvars(Running("server_process") /\ Process!Parent /\ UNCHANGED <<server, program>>)
  /\ \A c \in Conns :
       /\ WF_allvars(Running("server_thread") /\ Worker(c) /\ UNCHANGED <<processServer, program>>)
       /\ WF_allvars(Running("server_process") /\ Process!Child(c) /\ UNCHANGED <<server, program>>)

\* The violation run looks at server_thread alone.
ThreadSpec == MCInit /\ Running("server_thread") /\ [][MCNext]_allvars

-----------------------------------------------------------------------------
\* server_thread serves each client on its own descriptor, and neither leaks descriptors nor
\* uses closed ones (see ServerThread), in a state in which every variable has its type.
ThreadServesItsClient ==
  ServerTypeOK /\ (Running("server_thread") => ServesItsClient /\ DescriptorsAreOwned)

\* server_process forgets no dead child (see ServerProcess).
ProcessForgetsNoZombie ==
  Process!ServerTypeOK /\ (Running("server_process") => Process!NoZombieForgotten)

\* Neither server gives back all that it takes for a client: working leaves its element of
\* sockInfos taken, and the parent of a child never closes cfd.  So in its whole life a server
\* starts, or tries to start, no more threads or children than it has elements or descriptors,
\* whoever has left.
Begun == {c \in Conns : (IF Running("server_thread") THEN wpc[c] ELSE kpc[c]) # "none"}
ClientsPerLifeAreLimited ==
  Cardinality(Begun) <= IF Running("server_thread") THEN Max ELSE MaxFds

\* A client that has a thread or a child of its own gets an answer to each message,
\* unless it dies or the process that serves it does.  In server_process that is one
\* child: the client is served even where the parent has exited.
Served(c) == IF Running("server_thread") THEN Working(c) ELSE kpc[c] \in {"read", "write", "exit"}
EveryMessageIsAnswered ==
  \A c \in Conns : (Served(c) /\ cpc[c] = "read") ~> (reply[c] \/ cpc[c] # "read" \/ ~running)

\* What server_thread.c:99 says of the search of main: it waits only while every
\* element of sockInfos belongs to a connection that is still open.
ThreadWaitsOnlyWhenFull == WaitsOnlyWhenFull
=============================================================================
