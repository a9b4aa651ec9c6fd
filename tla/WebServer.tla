----------------------------- MODULE WebServer ------------------------------
(***************************************************************************)
(* FIN_project/Abandoned_webserver: the event loop of main.cpp, the life   *)
(* of an http_connection and the workers of the thread pool, as a          *)
(* simulated Proactor.  The main thread accepts, reads and writes; a       *)
(* worker parses what was read and re-arms the connection in epoll.        *)
(*                                                                         *)
(* The pool is the abstract work queue that ThreadPool.tla implements.     *)
(* The kernel's sockets and epoll are external and modelled as far as the  *)
(* program sees them.  What the parser decides is a parameter (Verdicts).  *)
(***************************************************************************)
EXTENDS Integers, Sequences, FiniteSets

CONSTANTS
  ListenFd,      \* listenfd
  Fds,           \* the descriptors accept can return
  Workers,       \* the threads of the pool
  MaxFd,         \* MAX_FD: the length of users, and the limit on m_user_count
  QueueCapacity, \* how many requests the pool lets wait: m_max_requests + 1
  BufferSize,    \* READ_BUFFER_SIZE, in the chunks a client sends
  Verdicts,      \* what process_read may return: "NO_REQUEST", "ANSWER"
  MaxConnects,   \* bound on the connections clients open
  MaxSends,      \* bound on the chunks clients send
  NoFd           \* -1

ASSUME FdsAssumption ==
  /\ Fds \subseteq Nat /\ IsFiniteSet(Fds)
  /\ ListenFd \in Nat \ Fds /\ NoFd \notin Nat

ASSUME SizesAssumption ==
  /\ IsFiniteSet(Workers)
  /\ MaxFd \in Nat /\ QueueCapacity \in Nat \ {0, 1} /\ BufferSize \in Nat \ {0}
  /\ Verdicts \subseteq {"NO_REQUEST", "ANSWER"}
  /\ MaxConnects \in Nat /\ MaxSends \in Nat

VARIABLES
  \* kernel
  backlog,       \* connections that wait for accept
  listenTrig,    \* the listening socket is on epoll's ready list
  input,         \* chunks in a socket's receive buffer
  hup,           \* the peer has closed or reset the connection
  reg,           \* how a socket is registered with epoll
  trig,          \* the socket is on epoll's ready list
  connects, sends, \* counters for the bounds
  \* main thread
  events,        \* the events of the last epoll_wait still to be handled
  running,       \* FALSE once main has indexed users out of its bounds
  m_sockfd, m_read_idx, \* fields of users[fd]
  m_user_count,
  \* pool
  queue, serving, refused,
  verdict,       \* per worker: what process_read returned, or "none"
  dropped        \* history: sockets main was told of and put down for good

kernel == <<backlog, listenTrig, input, hup, reg, trig, connects, sends>>
slots == <<m_sockfd, m_read_idx, m_user_count>>
pool == <<queue, serving, refused, verdict>>
vars == <<kernel, events, running, slots, pool, dropped>>

\* The pool: a request is users + fd, hence the descriptor.
Pool == INSTANCE WorkQueue WITH Requests <- Fds, Capacity <- QueueCapacity

(***************************************************************************)
(* How a connection is registered:                                         *)
(*   "none"  not in the epoll set (and the descriptor is closed)           *)
(*   "edge"  EPOLLIN | EPOLLRDHUP | EPOLLET, by addfd                      *)
(*   "in"    EPOLLIN | EPOLLONESHOT | EPOLLRDHUP, by modfd                 *)
(*   "out"   EPOLLOUT | EPOLLONESHOT | EPOLLRDHUP, by modfd                *)
(*   "off"   a one-shot registration whose event has been delivered        *)
(***************************************************************************)
Registrations == {"none", "edge", "in", "out", "off"}

IsOpen(fd) == reg[fd] # "none"

\* What the m_sockfd of a slot may hold: a descriptor of any connection, none, or any
\* other number, for which 0 stands.
AnyFd == Fds \cup {0, NoFd}

\* The constructor of http_connection is empty, so a slot that was never used holds anything.
Init ==
  /\ backlog = 0 /\ listenTrig = FALSE
  /\ input = [fd \in Fds |-> 0]
  /\ hup = [fd \in Fds |-> FALSE]
  /\ reg = [fd \in Fds |-> "none"]
  /\ trig = [fd \in Fds |-> FALSE]
  /\ connects = 0 /\ sends = 0
  /\ events = {} /\ running = TRUE
  /\ m_sockfd \in [Fds -> AnyFd]
  /\ m_read_idx \in [Fds -> {0, BufferSize}]
  /\ m_user_count = 0
  /\ Pool!QueueInit
  /\ verdict = [w \in Workers |-> "none"]
  /\ dropped = {}

-----------------------------------------------------------------------------
(* The clients and the kernel *)

ClientConnects ==
  /\ connects < MaxConnects
  /\ connects' = connects + 1
  /\ backlog' = backlog + 1
  /\ listenTrig' = TRUE
  /\ UNCHANGED <<input, hup, reg, trig, sends, events, running, slots, pool, dropped>>

ClientSends(fd) ==
  /\ IsOpen(fd) /\ ~hup[fd] /\ sends < MaxSends
  /\ sends' = sends + 1
  /\ input' = [input EXCEPT ![fd] = @ + 1]
  /\ trig' = [trig EXCEPT ![fd] = @ \/ reg[fd] \in {"edge", "in"}]
  /\ UNCHANGED <<backlog, listenTrig, hup, reg, connects, events, running, slots, pool, dropped>>

ClientHangsUp(fd) ==
  /\ IsOpen(fd) /\ ~hup[fd]
  /\ hup' = [hup EXCEPT ![fd] = TRUE]
  /\ trig' = [trig EXCEPT ![fd] = @ \/ reg[fd] # "off"]
  /\ UNCHANGED <<backlog, listenTrig, input, reg, connects, sends, events, running, slots, pool,
                 dropped>>

\* What epoll reports of a socket registered as r, in the order main tests it.
Report(fd, r) ==
  IF r \notin {"none", "off"} /\ hup[fd] THEN "hup"
  ELSE IF r \in {"edge", "in"} /\ input[fd] > 0 THEN "in"
  ELSE IF r = "out" THEN "out" ELSE "nothing"

-----------------------------------------------------------------------------
(* The event loop of main *)

\* epoll_wait hands over all there is on the ready list.  An edge-triggered socket
\* leaves the list and a one-shot registration is disabled.
EpollWait ==
  LET ready == {fd \in Fds : trig[fd] /\ Report(fd, reg[fd]) # "nothing"}
      listening == IF listenTrig /\ backlog > 0 THEN {ListenFd} ELSE {}
  IN  /\ running /\ events = {} /\ ready \cup listening # {}
      /\ events' = {[fd |-> fd, kind |-> Report(fd, reg[fd])] : fd \in ready}
                     \cup {[fd |-> fd, kind |-> "accept"] : fd \in listening}
      /\ listenTrig' = FALSE
      /\ trig' = [fd \in Fds |-> FALSE]
      /\ reg' = [fd \in Fds |-> IF fd \in ready /\ reg[fd] \in {"in", "out"} THEN "off" ELSE reg[fd]]
      /\ UNCHANGED <<backlog, input, hup, connects, sends, running, slots, pool, dropped>>

\* Take one event of this kind from the batch.
Handle(fd, kind) ==
  /\ running
  /\ [fd |-> fd, kind |-> kind] \in events
  /\ events' = events \ {[fd |-> fd, kind |-> kind]}

\* users[fd].init(fd, client_addr), with addfd: EPOLLONESHOT is or-ed into the
\* event and the result discarded, so the socket is registered without it.
InitConnection(fd) ==
  /\ m_sockfd' = [m_sockfd EXCEPT ![fd] = fd]
  /\ reg' = [reg EXCEPT ![fd] = "edge"]
  /\ m_user_count' = m_user_count + 1
  /\ m_read_idx' = [m_read_idx EXCEPT ![fd] = 0]
  /\ dropped' = dropped \ {fd}

\* removefd: the socket leaves the epoll set and is closed, with what it holds.
RemoveFd(sock) ==
  /\ reg' = [reg EXCEPT ![sock] = "none"]
  /\ trig' = [trig EXCEPT ![sock] = FALSE]
  /\ input' = [input EXCEPT ![sock] = 0]
  /\ hup' = [hup EXCEPT ![sock] = FALSE]

\* Mutant of CloseConn: m_sockfd keeps the closed descriptor.
CloseConnKeepsFd(fd) ==
  IF m_sockfd[fd] # NoFd
  THEN RemoveFd(m_sockfd[fd]) /\ m_user_count' = m_user_count - 1 /\ UNCHANGED m_sockfd
  ELSE UNCHANGED <<reg, trig, input, hup, m_sockfd, m_user_count>>

\* users[fd].close_conn(), by main only.  It is one step: of what it writes a worker reads
\* m_sockfd alone, for a modfd that has no effect on the closed descriptor or on -1.
CloseConn(fd) ==
  IF m_sockfd[fd] # NoFd
  THEN /\ RemoveFd(m_sockfd[fd])
       /\ m_sockfd' = [m_sockfd EXCEPT ![fd] = NoFd]
       /\ m_user_count' = m_user_count - 1
  ELSE UNCHANGED <<reg, trig, input, hup, m_sockfd, m_user_count>>

\* accept, once per event, although the listening socket is edge triggered.  Without a free
\* descriptor it fails and leaves the connection where it is.  Main tests m_user_count first;
\* else it indexes users with what accept returned, -1 and a descriptor past the end included.
Accept ==
  LET free == {fd \in Fds : ~IsOpen(fd)}
      connfd == CHOOSE fd \in free : \A other \in free : fd <= other
  IN  /\ Handle(ListenFd, "accept")
      /\ backlog' = IF free = {} THEN backlog ELSE backlog - 1
      /\ IF m_user_count >= MaxFd
         THEN UNCHANGED <<reg, running, slots, dropped>>
         ELSE IF free = {} \/ connfd >= MaxFd
              THEN running' = FALSE /\ UNCHANGED <<reg, slots, dropped>>
              ELSE InitConnection(connfd) /\ UNCHANGED running
      /\ UNCHANGED <<listenTrig, input, hup, trig, connects, sends, pool>>

HandleHangUp(fd) ==
  /\ Handle(fd, "hup")
  /\ CloseConn(fd)
  /\ UNCHANGED <<backlog, listenTrig, connects, sends, running, m_read_idx, pool, dropped>>

\* read() meets a full buffer or the end of the stream and returns false.
ReadFails(fd) == m_read_idx[fd] >= BufferSize \/ hup[fd]

\* Mutant of HandleReadFailure: what read() returns is ignored.
HandleReadFailureIgnored(fd) ==
  /\ Handle(fd, "in") /\ ReadFails(fd)
  /\ UNCHANGED <<kernel, running, slots, pool, dropped>>

HandleReadFailure(fd) ==
  /\ Handle(fd, "in") /\ ReadFails(fd)
  /\ CloseConn(fd)
  /\ UNCHANGED <<backlog, listenTrig, connects, sends, running, m_read_idx, pool, dropped>>

\* Mutant of HandleRead: one recv instead of a loop until EAGAIN.
HandleReadOnce(fd) ==
  /\ Handle(fd, "in") /\ ~ReadFails(fd)
  /\ m_read_idx' = [m_read_idx EXCEPT ![fd] = @ + 1]
  /\ input' = [input EXCEPT ![fd] = @ - 1]
  /\ \/ Pool!Put(fd) /\ UNCHANGED dropped
     \/ Pool!Refuse /\ dropped' = dropped \cup {fd}
  /\ UNCHANGED <<backlog, listenTrig, hup, reg, trig, connects, sends, running, m_sockfd,
                 m_user_count, verdict>>

\* Mutant of HandleRead: only the first input of a connection goes to the pool.
HandleReadAppendsOnce(fd) ==
  /\ Handle(fd, "in") /\ ~ReadFails(fd)
  /\ m_read_idx' = [m_read_idx EXCEPT ![fd] = @ + input[fd]]
  /\ input' = [input EXCEPT ![fd] = 0]
  /\ IF m_read_idx[fd] > 0 THEN UNCHANGED <<queue, serving, refused, dropped>>
     ELSE \/ Pool!Put(fd) /\ UNCHANGED dropped
          \/ Pool!Refuse /\ dropped' = dropped \cup {fd}
  /\ UNCHANGED <<backlog, listenTrig, hup, reg, trig, connects, sends, running, m_sockfd,
                 m_user_count, verdict>>

\* read() drains the socket, and the connection goes to the pool.  What append
\* returns is ignored.
HandleRead(fd) ==
  /\ Handle(fd, "in") /\ ~ReadFails(fd)
  /\ m_read_idx' = [m_read_idx EXCEPT ![fd] = @ + input[fd]]
  /\ input' = [input EXCEPT ![fd] = 0]
  /\ \/ Pool!Put(fd) /\ UNCHANGED dropped
     \/ Pool!Refuse /\ dropped' = dropped \cup {fd}
  /\ UNCHANGED <<backlog, listenTrig, hup, reg, trig, connects, sends, running, m_sockfd,
                 m_user_count, verdict>>

\* write() returns true, so main neither closes the connection nor re-arms it.
HandleWrite(fd) ==
  /\ Handle(fd, "out")
  /\ dropped' = dropped \cup {fd}
  /\ UNCHANGED <<kernel, running, slots, pool>>

-----------------------------------------------------------------------------
(* A worker: http_connection::process *)

Take(w) ==
  /\ Pool!Get(w)
  /\ UNCHANGED <<kernel, events, running, slots, verdict, dropped>>

ProcessRead(w) ==
  /\ serving[w] # <<>> /\ verdict[w] = "none"
  /\ \E v \in Verdicts : verdict' = [verdict EXCEPT ![w] = v]
  /\ UNCHANGED <<kernel, events, running, slots, queue, serving, refused, dropped>>

\* modfd(m_epollfd, users[fd].m_sockfd, ...): no effect on a closed connection; on an
\* open one the socket goes to the ready list if there is something to report.
ModFd(fd, r) ==
  LET sock == m_sockfd[fd]
  IN  IF sock # NoFd
      THEN /\ reg' = [reg EXCEPT ![sock] = r]
           /\ trig' = [trig EXCEPT ![sock] = Report(sock, r) # "nothing"]
           /\ dropped' = dropped \ {sock}
      ELSE UNCHANGED <<reg, trig, dropped>>

\* process_write returns true for every verdict process_read can return, so the
\* close_conn in process is never called.
ProcessEnds(w) ==
  /\ verdict[w] # "none"
  /\ ModFd(Head(serving[w]), IF verdict[w] = "NO_REQUEST" THEN "in" ELSE "out")
  /\ verdict' = [verdict EXCEPT ![w] = "none"]
  /\ Pool!Done(w)
  /\ UNCHANGED <<backlog, listenTrig, input, hup, connects, sends, events, running, slots>>

-----------------------------------------------------------------------------
Clients == ClientConnects \/ \E fd \in Fds : ClientSends(fd) \/ ClientHangsUp(fd)

Main ==
  \/ EpollWait \/ Accept
  \/ \E fd \in Fds : HandleHangUp(fd) \/ HandleReadFailure(fd) \/ HandleRead(fd) \/ HandleWrite(fd)

Worker(w) == Take(w) \/ ProcessRead(w) \/ ProcessEnds(w)

Next == Clients \/ Main \/ \E w \in Workers : Worker(w)

Spec == Init /\ [][Next]_vars

\* The kernel schedules the main thread and the workers; the clients owe nothing.
FairSpec == Spec /\ WF_vars(Main) /\ \A w \in Workers : WF_vars(Worker(w))

-----------------------------------------------------------------------------
(* Properties *)

\* Every variable keeps its type.
TypeOK ==
  /\ backlog \in Nat /\ listenTrig \in BOOLEAN
  /\ input \in [Fds -> Nat] /\ hup \in [Fds -> BOOLEAN]
  /\ reg \in [Fds -> Registrations] /\ trig \in [Fds -> BOOLEAN]
  /\ connects \in Nat /\ sends \in Nat
  /\ events \subseteq [fd : Fds, kind : {"hup", "in", "out"}] \cup [fd : {ListenFd}, kind : {"accept"}]
  /\ running \in BOOLEAN
  /\ m_sockfd \in [Fds -> AnyFd] /\ m_read_idx \in [Fds -> Nat]
  /\ m_user_count \in Int
  /\ queue \in Seq(Fds) /\ serving \in [Workers -> {<<>>} \cup {<<fd>> : fd \in Fds}]
  /\ refused \in Nat
  /\ verdict \in [Workers -> Verdicts \cup {"none"}]
  /\ dropped \subseteq Fds

\* The pool holds users + fd.
InPool(fd) ==
  \/ \E i \in 1..Len(queue) : queue[i] = fd
  \/ \E w \in Workers : serving[w] = <<fd>>

Delivered(fd) == \E e \in events : e.fd = fd

\* The slot of an open descriptor holds that descriptor.
OpenHasSlot == \A fd \in Fds : IsOpen(fd) => m_sockfd[fd] = fd

\* Main works through events of descriptors that are still open.
DeliveredIsOpen == \A fd \in Fds : Delivered(fd) => IsOpen(fd)

\* A slot the pool still holds after its connection was closed says so.
StaleIsMarked == \A fd \in Fds : InPool(fd) /\ ~IsOpen(fd) => m_sockfd[fd] = NoFd

UsersAreCounted == m_user_count = Cardinality({fd \in Fds : IsOpen(fd)})

\* Whoever reaches a connection through users[fd], main with an event or a worker with a
\* request that may be older than the connection, finds in m_sockfd the descriptor epoll
\* watches, or -1 when there is none: no one closes or re-arms somebody else's descriptor.
\* m_user_count, which both init and close_conn change, counts the open connections.
SlotsMatchKernel == OpenHasSlot /\ DeliveredIsOpen /\ StaleIsMarked /\ UsersAreCounted

\* The same in a state in which every variable has its type.
SlotsAreSound == TypeOK /\ SlotsMatchKernel

\* A connection whose one-shot event has been delivered is in somebody's hands, in
\* the batch main works through or in the pool, until a worker re-arms it: nobody
\* drops it between the event and modfd, except main when append refuses it or when
\* it has written the answer.
OneShotIsOwned ==
  \A fd \in Fds : reg[fd] = "off" => Delivered(fd) \/ InPool(fd) \/ fd \in dropped

\* What the comment in addfd (http_connection.cpp:26) promises: EPOLLONESHOT makes
\* sure that one descriptor is handled by one thread only.
OneWorkerPerConnection ==
  \A v, w \in Workers : serving[v] = serving[w] /\ serving[v] # <<>> => v = w

\* Input is never overlooked: whenever a watched connection has something to report,
\* epoll has it on the ready list, main has it in the batch, or a worker is yet to
\* re-arm it.
NoMissedEdge ==
  \A fd \in Fds :
    Report(fd, reg[fd]) # "nothing" => trig[fd] \/ Delivered(fd)

\* Nothing is ready for epoll_wait, main has no event left, and the pool has no request.
Idle ==
  /\ events = {} /\ queue = <<>> /\ \A w \in Workers : serving[w] = <<>>
  /\ \A fd \in Fds : trig[fd] => Report(fd, reg[fd]) = "nothing"

\* The server is never idle over work: then every connection that has sent something, has hung
\* up or has an answer to come is one that main was told of and put down for good.
IdleLeavesNoWork ==
  Idle => \A fd \in Fds : IsOpen(fd) /\ (input[fd] > 0 \/ hup[fd] \/ reg[fd] = "out") => fd \in dropped

\* Input that has arrived is read, or the connection is closed, unless main has
\* dropped the connection or stopped.
InputIsRead ==
  \A fd \in Fds :
    (IsOpen(fd) /\ input[fd] > 0) ~> (input[fd] = 0 \/ ~IsOpen(fd) \/ fd \in dropped \/ ~running)

=============================================================================
