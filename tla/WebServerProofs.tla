--------------------------- MODULE WebServerProofs --------------------------
(***************************************************************************)
(* Proofs about the event loop of the web server and its workers, for any  *)
(* descriptors, any number of workers, connections and chunks, any sizes   *)
(* and whatever the parser decides.                                        *)
(***************************************************************************)
EXTENDS WebServer, FiniteSetTheorems, WellFoundedInduction, TLAPS

\* A worker has a verdict only while it serves a connection.
VerdictsAreAboutWork == \A w \in Workers : verdict[w] # "none" => serving[w] # <<>>

\* An accept event stands for a connection that waits.
AcceptHasClient ==
  (\E e \in events : e.kind = "accept") => backlog > 0

\* Nothing is left behind on a closed descriptor for the next connection that gets it.
ClosedIsClean == \A fd \in Fds : reg[fd] = "none" => input[fd] = 0 /\ ~hup[fd]

\* epoll has a socket that waits to write on its ready list, as it can write at once.
OutIsReady == \A fd \in Fds : reg[fd] = "out" => trig[fd]

\* Main is told of a socket at most once per batch, and what it is told of a socket that it
\* will not read or close is not all there is: anything new is on the ready list.
OneEventPerFd == \A e, f \in events : e.fd = f.fd => e = f
AnswerLeavesNothing ==
  \A fd \in Fds : [fd |-> fd, kind |-> "out"] \in events =>
    (Report(fd, reg[fd]) # "nothing" => trig[fd])

WInv ==
  /\ TypeOK /\ SlotsMatchKernel /\ OneShotIsOwned /\ NoMissedEdge
  /\ VerdictsAreAboutWork /\ AcceptHasClient /\ ClosedIsClean /\ OutIsReady
  /\ OneEventPerFd /\ AnswerLeavesNothing

-----------------------------------------------------------------------------
(* Descriptors *)

\* Of any descriptors one is the lowest: what accept returns exists.
LEMMA LeastNat ==
  ASSUME NEW S \in SUBSET Nat, S # {}
  PROVE  \E m \in S : \A n \in S : m <= n
<1> DEFINE T == {0..n : n \in S}
<1>1. T \subseteq FiniteSubsetsOf(Nat) /\ T # {}
  <2>1. \A n \in S : 0..n \in SUBSET Nat /\ IsFiniteSet(0..n)
    BY FS_Interval
  <2> QED
    BY <2>1 DEF FiniteSubsetsOf
<1>2. IsWellFoundedOn(StrictSubsetOrdering(Nat), FiniteSubsetsOf(Nat))
  BY FS_StrictSubsetOrderingWellFounded
<1>3. PICK x \in T : \A y \in T : ~(<<y, x>> \in StrictSubsetOrdering(Nat))
  <2> HIDE DEF T
  <2> QED
    BY <1>1, <1>2, WFMin
<1>4. PICK m \in S : x = 0..m
  BY DEF T
<1>5. ASSUME NEW n \in S, n < m PROVE FALSE
  <2>1. 0..n \subseteq 0..m /\ 0..n # 0..m
    <3>1. m \in 0..m /\ m \notin 0..n
      BY <1>5
    <3>2. 0..n \subseteq 0..m
      BY <1>5
    <3> QED
      BY <3>1, <3>2
  <2>2. <<0..n, 0..m>> \in StrictSubsetOrdering(Nat)
    BY <2>1 DEF StrictSubsetOrdering
  <2> QED
    BY <1>3, <1>4, <2>2
<1> QED
  BY <1>5

Open == {fd \in Fds : IsOpen(fd)}

\* There are finitely many open descriptors, so m_user_count, which counts them, is a number.
LEMMA OpenIsFinite == IsFiniteSet(Open) /\ Cardinality(Open) \in Nat
BY FdsAssumption, FS_Subset, FS_CardinalityType DEF Open

\* accept makes the open descriptors one more.
LEMMA OpenOneMore ==
  ASSUME TypeOK, NEW fd \in Fds, reg[fd] = "none",
         NEW r, r # "none", reg' = [reg EXCEPT ![fd] = r]
  PROVE  Cardinality(Open') = Cardinality(Open) + 1
<1>1. Open' = Open \cup {fd} /\ fd \notin Open
  BY DEF Open, IsOpen, TypeOK
<1> QED
  BY <1>1, OpenIsFinite, FS_AddElement

\* Closing a descriptor makes them one less.
LEMMA OpenOneLess ==
  ASSUME TypeOK, NEW fd \in Fds, reg[fd] # "none", reg' = [reg EXCEPT ![fd] = "none"]
  PROVE  Cardinality(Open') = Cardinality(Open) - 1
<1>1. Open' = Open \ {fd} /\ fd \in Open
  BY DEF Open, IsOpen, TypeOK
<1> QED
  BY <1>1, OpenIsFinite, FS_RemoveElement

\* Where the same descriptors stay open, users and m_user_count need not change, as long as
\* main and the pool learn of open descriptors only.
LEMMA SlotsStay ==
  ASSUME SlotsMatchKernel, UNCHANGED <<m_sockfd, m_user_count>>,
         \A fd \in Fds : /\ IsOpen(fd)' <=> IsOpen(fd)
                         /\ Delivered(fd)' => IsOpen(fd)
                         /\ InPool(fd)' => InPool(fd) \/ IsOpen(fd)
  PROVE  SlotsMatchKernel'
<1>1. Open' = Open
  BY DEF Open
<1>2. UsersAreCounted'
  BY <1>1 DEF SlotsMatchKernel, UsersAreCounted, Open
<1>3. OpenHasSlot' /\ DeliveredIsOpen' /\ StaleIsMarked'
  BY DEF SlotsMatchKernel, OpenHasSlot, DeliveredIsOpen, StaleIsMarked
<1> QED
  BY <1>2, <1>3 DEF SlotsMatchKernel

\* An event that is handled was delivered.  It leaves the batch, nothing joins it, and it was
\* the only one of its descriptor.
LEMMA HandleLeaves ==
  ASSUME NEW fd, NEW kind, Handle(fd, kind)
  PROVE  /\ Delivered(fd) /\ events' \subseteq events
         /\ \A d : Delivered(d)' => Delivered(d)
         /\ OneEventPerFd => ~Delivered(fd)'
BY DEF Handle, Delivered, OneEventPerFd

\* What the pool holds after a step it held before, or was given.
LEMMA PoolGains ==
  ASSUME TypeOK, NEW fd \in Fds, InPool(fd)',
         \/ \E r \in Fds : Pool!Put(r) /\ r # fd
         \/ Pool!Refuse
         \/ \E w \in Workers : Pool!Get(w) \/ Pool!Done(w)
         \/ UNCHANGED <<queue, serving>>
  PROVE  InPool(fd)
<1>t. queue \in Seq(Fds) /\ serving \in [Workers -> {<<>>} \cup {<<d>> : d \in Fds}]
  BY DEF TypeOK
<1>1. ASSUME NEW r \in Fds, Pool!Put(r), r # fd PROVE InPool(fd)
  BY <1>1, <1>t DEF Pool!Put, InPool
<1>2. CASE Pool!Refuse \/ UNCHANGED <<queue, serving>>
  BY <1>2 DEF Pool!Refuse, InPool
<1>3. ASSUME NEW w \in Workers, Pool!Get(w) PROVE InPool(fd)
  <2>1. queue # <<>> /\ queue' = Tail(queue) /\ serving' = [serving EXCEPT ![w] = <<Head(queue)>>]
    BY <1>3 DEF Pool!Get
  <2>2. ASSUME NEW i \in 1..Len(queue'), queue'[i] = fd PROVE InPool(fd)
    <3>1. i + 1 \in 1..Len(queue) /\ queue[i + 1] = fd
      BY <1>t, <2>1, <2>2
    <3> QED
      BY <3>1 DEF InPool
  <2>3. ASSUME NEW v \in Workers, serving'[v] = <<fd>> PROVE InPool(fd)
    <3>1. CASE v = w
      <4>1. 1 \in 1..Len(queue) /\ queue[1] = fd
        BY <1>t, <2>1, <2>3, <3>1
      <4> QED
        BY <4>1 DEF InPool
    <3>2. CASE v # w
      BY <1>t, <2>1, <2>3, <3>2 DEF InPool
    <3> QED
      BY <3>1, <3>2
  <2> QED
    BY <2>2, <2>3 DEF InPool
<1>4. ASSUME NEW w \in Workers, Pool!Done(w) PROVE InPool(fd)
  BY <1>4, <1>t DEF Pool!Done, InPool
<1> QED
  BY <1>1, <1>2, <1>3, <1>4

-----------------------------------------------------------------------------
(* users[fd] agrees with the kernel *)

\* Where main calls close_conn, for an event of fd, the slot holds fd, which is closed.
LEMMA CloseConnFrees ==
  ASSUME SlotsMatchKernel, NEW fd \in Fds, Delivered(fd), CloseConn(fd)
  PROVE  /\ reg[fd] # "none" /\ RemoveFd(fd)
         /\ m_sockfd' = [m_sockfd EXCEPT ![fd] = NoFd]
         /\ m_user_count' = m_user_count - 1
<1>1. IsOpen(fd) /\ m_sockfd[fd] = fd
  BY DEF SlotsMatchKernel, DeliveredIsOpen, OpenHasSlot
<1>2. fd # NoFd
  BY FdsAssumption
<1> QED
  BY <1>1, <1>2 DEF CloseConn, IsOpen

\* A worker re-arms the descriptor of its slot, where it is open, and otherwise nothing.
LEMMA ModFdCases ==
  ASSUME SlotsMatchKernel, NEW fd \in Fds, NEW r, InPool(fd), ModFd(fd, r)
  PROVE  \/ reg[fd] = "none" /\ UNCHANGED <<reg, trig, dropped>>
         \/ /\ reg[fd] # "none" /\ reg' = [reg EXCEPT ![fd] = r]
            /\ trig' = [trig EXCEPT ![fd] = Report(fd, r) # "nothing"]
            /\ dropped' = dropped \ {fd}
<1>1. CASE IsOpen(fd)
  <2>1. m_sockfd[fd] = fd /\ fd # NoFd
    BY <1>1, FdsAssumption DEF SlotsMatchKernel, OpenHasSlot
  <2> QED
    BY <1>1, <2>1 DEF ModFd, IsOpen
<1>2. CASE ~IsOpen(fd)
  <2>1. m_sockfd[fd] = NoFd
    BY <1>2 DEF SlotsMatchKernel, StaleIsMarked
  <2> QED
    BY <1>2, <2>1 DEF ModFd, IsOpen
<1> QED
  BY <1>1, <1>2

\* close_conn frees the descriptor and the slot, and counts one user less.
LEMMA CloseConnSlots ==
  ASSUME TypeOK, SlotsMatchKernel, OneEventPerFd, NEW fd \in Fds, NEW kind, Handle(fd, kind),
         CloseConn(fd), UNCHANGED <<queue, serving>>
  PROVE  SlotsMatchKernel'
<1>1. /\ reg[fd] # "none" /\ reg' = [reg EXCEPT ![fd] = "none"]
      /\ m_sockfd' = [m_sockfd EXCEPT ![fd] = NoFd] /\ m_user_count' = m_user_count - 1
  BY CloseConnFrees, HandleLeaves DEF RemoveFd
<1>t. reg \in [Fds -> Registrations] /\ m_sockfd \in [Fds -> AnyFd]
  BY DEF TypeOK
<1>2. UsersAreCounted'
  BY <1>1, OpenOneLess DEF SlotsMatchKernel, UsersAreCounted, Open
<1>3. \A d \in Fds : IsOpen(d)' <=> IsOpen(d) /\ d # fd
  BY <1>1, <1>t DEF IsOpen
<1>4. OpenHasSlot'
  BY <1>1, <1>3, <1>t DEF SlotsMatchKernel, OpenHasSlot
<1>5. DeliveredIsOpen'
  BY <1>3, HandleLeaves DEF SlotsMatchKernel, DeliveredIsOpen
<1>6. StaleIsMarked'
  BY <1>1, <1>3, <1>t DEF SlotsMatchKernel, StaleIsMarked, InPool
<1> QED
  BY <1>2, <1>4, <1>5, <1>6 DEF SlotsMatchKernel

\* init fills the slot of a descriptor that was free, and counts one user more.
LEMMA InitConnectionSlots ==
  ASSUME TypeOK, SlotsMatchKernel, NEW fd \in Fds, ~IsOpen(fd), InitConnection(fd),
         \A d : Delivered(d)' => Delivered(d), UNCHANGED <<queue, serving>>
  PROVE  SlotsMatchKernel'
<1>1. /\ reg[fd] = "none" /\ reg' = [reg EXCEPT ![fd] = "edge"]
      /\ m_sockfd' = [m_sockfd EXCEPT ![fd] = fd] /\ m_user_count' = m_user_count + 1
  BY DEF IsOpen, InitConnection
<1>t. reg \in [Fds -> Registrations] /\ m_sockfd \in [Fds -> AnyFd]
  BY DEF TypeOK
<1>2. UsersAreCounted'
  BY <1>1, OpenOneMore DEF SlotsMatchKernel, UsersAreCounted, Open
<1>3. \A d \in Fds : IsOpen(d)' <=> IsOpen(d) \/ d = fd
  BY <1>1, <1>t DEF IsOpen
<1>4. OpenHasSlot' /\ DeliveredIsOpen'
  BY <1>1, <1>3, <1>t DEF SlotsMatchKernel, OpenHasSlot, DeliveredIsOpen
<1>5. StaleIsMarked'
  BY <1>1, <1>3, <1>t DEF SlotsMatchKernel, StaleIsMarked, InPool
<1> QED
  BY <1>2, <1>4, <1>5 DEF SlotsMatchKernel

\* What accept does to the slots: it fills the slot of a descriptor that was free, or none.
LEMMA AcceptCases ==
  ASSUME Accept
  PROVE  \/ UNCHANGED <<reg, slots, dropped>>
         \/ \E fd \in Fds : ~IsOpen(fd) /\ InitConnection(fd)
<1> DEFINE free == {fd \in Fds : ~IsOpen(fd)}
           connfd == CHOOSE fd \in free : \A other \in free : fd <= other
<1>1. CASE free = {}
  BY <1>1 DEF Accept
<1>2. CASE free # {}
  <2>1. connfd \in free
    <3>1. \E fd \in free : \A other \in free : fd <= other
      BY <1>2, LeastNat, FdsAssumption
    <3> QED
      BY <3>1
  <2> QED
    BY <1>2, <2>1 DEF Accept
<1> QED
  BY <1>1, <1>2

\* Every step keeps users in step with the kernel.
LEMMA SlotsStep ==
  ASSUME TypeOK, SlotsMatchKernel, VerdictsAreAboutWork, OneEventPerFd, [Next]_vars
  PROVE  SlotsMatchKernel'
<1>0. \A fd \in Fds : Delivered(fd) => IsOpen(fd)
  BY DEF SlotsMatchKernel, DeliveredIsOpen
<1>1. CASE Clients
  <2>1. UNCHANGED <<reg, events, queue, serving, m_sockfd, m_user_count>>
    BY <1>1 DEF Clients, ClientConnects, ClientSends, ClientHangsUp, slots, pool
  <2> QED
    BY <1>0, <2>1, SlotsStay DEF IsOpen, Delivered, InPool
<1>2. CASE EpollWait
  <2>1. \A fd \in Fds : IsOpen(fd)' <=> IsOpen(fd)
    BY <1>2 DEF EpollWait, IsOpen
  <2>2. ASSUME NEW fd \in Fds, Delivered(fd)' PROVE IsOpen(fd)
    BY <1>2, <2>2, FdsAssumption DEF EpollWait, Delivered, Report, IsOpen
  <2>3. UNCHANGED <<queue, serving, m_sockfd, m_user_count>>
    BY <1>2 DEF EpollWait, slots, pool
  <2> QED
    BY <2>1, <2>2, <2>3, SlotsStay DEF InPool
<1>3. CASE Accept
  <2>1. UNCHANGED <<queue, serving>> /\ \A d : Delivered(d)' => Delivered(d)
    BY <1>3, HandleLeaves DEF Accept, pool
  <2>2. CASE UNCHANGED <<reg, slots, dropped>>
    BY <1>0, <2>1, <2>2, SlotsStay DEF slots, IsOpen, InPool
  <2>3. ASSUME NEW fd \in Fds, ~IsOpen(fd), InitConnection(fd) PROVE SlotsMatchKernel'
    BY <2>1, <2>3, InitConnectionSlots
  <2> QED
    BY <1>3, <2>2, <2>3, AcceptCases
<1>4. ASSUME NEW fd \in Fds, HandleHangUp(fd) PROVE SlotsMatchKernel'
  BY <1>4, CloseConnSlots DEF HandleHangUp, pool
<1>5. ASSUME NEW fd \in Fds, HandleReadFailure(fd) PROVE SlotsMatchKernel'
  BY <1>5, CloseConnSlots DEF HandleReadFailure, pool
<1>6. ASSUME NEW fd \in Fds, HandleRead(fd) PROVE SlotsMatchKernel'
  <2>1. IsOpen(fd) /\ \A d : Delivered(d)' => Delivered(d)
    BY <1>0, <1>6, HandleLeaves DEF HandleRead
  <2>2. ASSUME NEW d \in Fds, InPool(d)', d # fd PROVE InPool(d)
    BY <1>6, <2>2, PoolGains DEF HandleRead
  <2>3. UNCHANGED <<reg, m_sockfd, m_user_count>>
    BY <1>6 DEF HandleRead
  <2> QED
    BY <1>0, <2>1, <2>2, <2>3, SlotsStay DEF IsOpen
<1>7. ASSUME NEW fd \in Fds, HandleWrite(fd) PROVE SlotsMatchKernel'
  <2>1. \A d : Delivered(d)' => Delivered(d)
    BY <1>7, HandleLeaves DEF HandleWrite
  <2>2. UNCHANGED <<reg, queue, serving, m_sockfd, m_user_count>>
    BY <1>7 DEF HandleWrite, kernel, slots, pool
  <2> QED
    BY <1>0, <2>1, <2>2, SlotsStay DEF IsOpen, InPool
<1>8. ASSUME NEW w \in Workers, Take(w) \/ ProcessRead(w) PROVE SlotsMatchKernel'
  <2>1. UNCHANGED <<reg, events, m_sockfd, m_user_count>>
    BY <1>8 DEF Take, ProcessRead, kernel, slots
  <2>2. \A d \in Fds : InPool(d)' => InPool(d)
    BY <1>8, PoolGains DEF Take, ProcessRead
  <2> QED
    BY <1>0, <2>1, <2>2, SlotsStay DEF IsOpen, Delivered
<1>9. ASSUME NEW w \in Workers, ProcessEnds(w) PROVE SlotsMatchKernel'
  <2>1. PICK fd \in Fds : serving[w] = <<fd>>
    BY <1>9 DEF ProcessEnds, VerdictsAreAboutWork, TypeOK
  <2>2. PICK r \in {"in", "out"} : ModFd(fd, r)
    BY <1>9, <2>1 DEF ProcessEnds
  <2>c. \/ UNCHANGED <<reg, trig, dropped>>
        \/ /\ reg[fd] # "none" /\ reg' = [reg EXCEPT ![fd] = r]
           /\ trig' = [trig EXCEPT ![fd] = Report(fd, r) # "nothing"]
           /\ dropped' = dropped \ {fd}
    <3>1. InPool(fd)
      BY <2>1 DEF InPool
    <3> QED
      BY <2>2, <3>1, ModFdCases
  <2>3. \A d \in Fds : IsOpen(d)' <=> IsOpen(d)
    <3>1. reg \in [Fds -> Registrations]
      BY DEF TypeOK
    <3> QED
      BY <2>c, <3>1 DEF IsOpen
  <2>4. \A d \in Fds : InPool(d)' => InPool(d)
    BY <1>9, PoolGains DEF ProcessEnds
  <2>5. UNCHANGED <<events, m_sockfd, m_user_count>>
    BY <1>9 DEF ProcessEnds, slots
  <2> QED
    BY <1>0, <2>3, <2>4, <2>5, SlotsStay DEF Delivered
<1>10. CASE UNCHANGED vars
  BY <1>0, <1>10, SlotsStay DEF vars, kernel, slots, pool, IsOpen, Delivered, InPool
<1> QED
  BY <1>1, <1>2, <1>3, <1>4, <1>5, <1>6, <1>7, <1>8, <1>9, <1>10 DEF Next, Main, Worker

-----------------------------------------------------------------------------
(* Types *)

\* What main and the pool work on: each event is about a socket, each request a descriptor.
Batch == [fd : Fds, kind : {"hup", "in", "out"}] \cup [fd : {ListenFd}, kind : {"accept"}]

\* close_conn leaves nothing in the receive buffer of the descriptor, and keeps its types.
LEMMA CloseConnTypes ==
  ASSUME TypeOK, SlotsMatchKernel, NEW fd \in Fds, Delivered(fd), CloseConn(fd)
  PROVE  /\ input' \in [Fds -> Nat] /\ hup' \in [Fds -> BOOLEAN]
         /\ reg' \in [Fds -> Registrations] /\ trig' \in [Fds -> BOOLEAN]
         /\ m_sockfd' \in [Fds -> AnyFd]
<1>1. /\ input \in [Fds -> Nat] /\ hup \in [Fds -> BOOLEAN] /\ trig \in [Fds -> BOOLEAN]
      /\ reg \in [Fds -> Registrations] /\ m_sockfd \in [Fds -> AnyFd]
  BY DEF TypeOK
<1>2. RemoveFd(fd) /\ m_sockfd' = [m_sockfd EXCEPT ![fd] = NoFd]
  BY CloseConnFrees
<1> QED
  BY <1>1, <1>2 DEF RemoveFd, Registrations, AnyFd

\* Every step keeps the types.
LEMMA TypeStep ==
  ASSUME TypeOK, SlotsMatchKernel, VerdictsAreAboutWork, AcceptHasClient, [Next]_vars, SlotsMatchKernel'
  PROVE  TypeOK'
<1>0. m_user_count' \in Int
  <2>1. IsFiniteSet(Open') /\ m_user_count' = Cardinality(Open')
    BY FdsAssumption, FS_Subset DEF Open, SlotsMatchKernel, UsersAreCounted
  <2> QED
    BY <2>1, FS_CardinalityType
<1> USE <1>0 DEF TypeOK
<1>1. CASE Clients
  <2>1. CASE ClientConnects
    BY <2>1 DEF ClientConnects, slots, pool
  <2>2. ASSUME NEW fd \in Fds, ClientSends(fd) PROVE TypeOK'
    BY <2>2 DEF ClientSends, slots, pool
  <2>3. ASSUME NEW fd \in Fds, ClientHangsUp(fd) PROVE TypeOK'
    BY <2>3 DEF ClientHangsUp, slots, pool
  <2> QED
    BY <1>1, <2>1, <2>2, <2>3 DEF Clients
<1>2. CASE EpollWait
  <2>1. events' \subseteq Batch
    BY <1>2 DEF EpollWait, Report, Batch
  <2>2. reg' \in [Fds -> Registrations] /\ trig' \in [Fds -> BOOLEAN] /\ listenTrig' \in BOOLEAN
    BY <1>2 DEF EpollWait, Registrations
  <2> QED
    BY <1>2, <2>1, <2>2 DEF EpollWait, Batch, slots, pool
<1>3. CASE Accept
  <2>1. backlog' \in Nat
    BY <1>3 DEF Accept, Handle, AcceptHasClient
  <2>2. events' \subseteq Batch
    BY <1>3 DEF Accept, Handle, Batch
  <2>3. running' \in BOOLEAN
    BY <1>3 DEF Accept
  <2>4. /\ reg' \in [Fds -> Registrations] /\ dropped' \subseteq Fds
        /\ m_sockfd' \in [Fds -> AnyFd] /\ m_read_idx' \in [Fds -> Nat]
    <3>1. CASE UNCHANGED <<reg, slots, dropped>>
      BY <3>1 DEF slots
    <3>2. ASSUME NEW fd \in Fds, InitConnection(fd) PROVE <2>4!:
      BY <3>2 DEF InitConnection, Registrations, AnyFd
    <3> QED
      BY <1>3, <3>1, <3>2, AcceptCases
  <2> QED
    BY <1>3, <2>1, <2>2, <2>3, <2>4 DEF Accept, Batch, pool
<1>4. ASSUME NEW fd \in Fds, HandleHangUp(fd) PROVE TypeOK'
  <2>1. Delivered(fd)
    BY <1>4, HandleLeaves DEF HandleHangUp
  <2> QED
    BY <1>4, <2>1, CloseConnTypes DEF HandleHangUp, Handle, pool
<1>5. ASSUME NEW fd \in Fds, HandleReadFailure(fd) PROVE TypeOK'
  <2>1. Delivered(fd)
    BY <1>5, HandleLeaves DEF HandleReadFailure
  <2> QED
    BY <1>5, <2>1, CloseConnTypes DEF HandleReadFailure, Handle, pool
<1>6. ASSUME NEW fd \in Fds, HandleRead(fd) PROVE TypeOK'
  <2>1. queue' \in Seq(Fds) /\ refused' \in Nat /\ dropped' \subseteq Fds /\ serving' = serving
    <3>1. queue \in Seq(Fds) /\ refused \in Nat /\ dropped \subseteq Fds
      OBVIOUS
    <3> HIDE DEF TypeOK
    <3>2. CASE Pool!Put(fd) /\ UNCHANGED dropped
      BY <3>1, <3>2 DEF Pool!Put
    <3>3. CASE Pool!Refuse /\ dropped' = dropped \cup {fd}
      BY <3>1, <3>3 DEF Pool!Refuse
    <3> QED
      BY <1>6, <3>2, <3>3 DEF HandleRead
  <2>2. events' \subseteq Batch
    BY <1>6 DEF HandleRead, Handle, Batch
  <2>3. input' \in [Fds -> Nat] /\ m_read_idx' \in [Fds -> Nat]
    BY <1>6 DEF HandleRead
  <2> QED
    BY <1>6, <2>1, <2>2, <2>3 DEF HandleRead, Batch
<1>7. ASSUME NEW fd \in Fds, HandleWrite(fd) PROVE TypeOK'
  BY <1>7 DEF HandleWrite, Handle, kernel, slots, pool
<1>8. ASSUME NEW w \in Workers, Take(w) PROVE TypeOK'
  BY <1>8 DEF Take, Pool!Get, kernel, slots
<1>9. ASSUME NEW w \in Workers, ProcessRead(w) PROVE TypeOK'
  BY <1>9 DEF ProcessRead, kernel, slots
<1>10. ASSUME NEW w \in Workers, ProcessEnds(w) PROVE TypeOK'
  <2>1. PICK fd \in Fds : serving[w] = <<fd>>
    BY <1>10 DEF ProcessEnds, VerdictsAreAboutWork
  <2>2. PICK r \in {"in", "out"} : ModFd(fd, r)
    BY <1>10, <2>1 DEF ProcessEnds
  <2>c. \/ UNCHANGED <<reg, trig, dropped>>
        \/ /\ reg[fd] # "none" /\ reg' = [reg EXCEPT ![fd] = r]
           /\ trig' = [trig EXCEPT ![fd] = Report(fd, r) # "nothing"]
           /\ dropped' = dropped \ {fd}
    <3>1. InPool(fd)
      BY <2>1 DEF InPool
    <3> QED
      BY <2>2, <3>1, ModFdCases
  <2>3. reg' \in [Fds -> Registrations] /\ trig' \in [Fds -> BOOLEAN] /\ dropped' \subseteq Fds
    BY <2>c DEF Registrations
  <2> QED
    BY <1>10, <2>3 DEF ProcessEnds, Pool!Done, slots
<1>11. CASE UNCHANGED vars
  BY <1>11 DEF vars, kernel, slots, pool
<1> QED
  BY <1>1, <1>2, <1>3, <1>4, <1>5, <1>6, <1>7, <1>8, <1>9, <1>10, <1>11 DEF Next, Main, Worker

-----------------------------------------------------------------------------
(* The batch and the verdicts *)

\* An event that is handled leaves the batch, and no other does.
LEMMA WorkStep ==
  ASSUME WInv, [Next]_vars
  PROVE  VerdictsAreAboutWork' /\ AcceptHasClient' /\ OneEventPerFd'
<1>0. TypeOK /\ VerdictsAreAboutWork /\ AcceptHasClient /\ OneEventPerFd
  BY DEF WInv
<1>t. /\ verdict \in [Workers -> Verdicts \cup {"none"}] /\ events \subseteq Batch /\ backlog \in Nat
      /\ serving \in [Workers -> {<<>>} \cup {<<fd>> : fd \in Fds}]
  BY <1>0 DEF TypeOK, Batch
<1>1. VerdictsAreAboutWork'
  <2>1. CASE UNCHANGED <<serving, verdict>>
    BY <1>0, <2>1 DEF VerdictsAreAboutWork
  <2>2. ASSUME NEW fd \in Fds, HandleRead(fd) PROVE VerdictsAreAboutWork'
    BY <1>0, <2>2 DEF HandleRead, Pool!Put, Pool!Refuse, VerdictsAreAboutWork
  <2>3. ASSUME NEW w \in Workers, Take(w) PROVE VerdictsAreAboutWork'
    BY <1>0, <1>t, <2>3 DEF Take, Pool!Get, VerdictsAreAboutWork
  <2>4. ASSUME NEW w \in Workers, ProcessRead(w) PROVE VerdictsAreAboutWork'
    BY <1>0, <1>t, <2>4 DEF ProcessRead, VerdictsAreAboutWork
  <2>5. ASSUME NEW w \in Workers, ProcessEnds(w) PROVE VerdictsAreAboutWork'
    BY <1>0, <1>t, <2>5 DEF ProcessEnds, Pool!Done, VerdictsAreAboutWork
  <2>6. CASE EpollWait \/ Accept \/ Clients \/ UNCHANGED vars
    BY <2>1, <2>6 DEF EpollWait, Accept, Clients, ClientConnects, ClientSends, ClientHangsUp, vars, pool
  <2>7. ASSUME NEW fd \in Fds, HandleHangUp(fd) \/ HandleReadFailure(fd) \/ HandleWrite(fd)
        PROVE  VerdictsAreAboutWork'
    BY <2>1, <2>7 DEF HandleHangUp, HandleReadFailure, HandleWrite, pool
  <2> QED
    BY <2>2, <2>3, <2>4, <2>5, <2>6, <2>7 DEF Next, Main, Worker
<1>2. CASE EpollWait
  <2>1. OneEventPerFd'
    BY <1>2, FdsAssumption DEF EpollWait, OneEventPerFd
  <2>2. AcceptHasClient'
    BY <1>2 DEF EpollWait, AcceptHasClient, Report
  <2> QED
    BY <1>1, <2>1, <2>2
<1>3. CASE Accept
  <2>1. events' = events \ {[fd |-> ListenFd, kind |-> "accept"]}
    BY <1>3 DEF Accept, Handle
  <2>2. \A e \in events' : e.kind # "accept"
    BY <1>t, <2>1 DEF Batch
  <2> QED
    BY <1>0, <1>1, <2>1, <2>2 DEF AcceptHasClient, OneEventPerFd
<1>4. ASSUME events' \subseteq events, backlog' \in {backlog, backlog + 1} PROVE AcceptHasClient' /\ OneEventPerFd'
  BY <1>0, <1>t, <1>4 DEF AcceptHasClient, OneEventPerFd
<1>5. CASE Clients
  BY <1>1, <1>4, <1>5, <1>t DEF Clients, ClientConnects, ClientSends, ClientHangsUp
<1>6. ASSUME NEW fd \in Fds,
             HandleHangUp(fd) \/ HandleReadFailure(fd) \/ HandleRead(fd) \/ HandleWrite(fd)
      PROVE  events' \subseteq events /\ backlog' = backlog
  BY <1>6 DEF HandleHangUp, HandleReadFailure, HandleRead, HandleWrite, Handle, kernel
<1>7. ASSUME NEW w \in Workers, Worker(w) PROVE events' = events /\ backlog' = backlog
  BY <1>7 DEF Worker, Take, ProcessRead, ProcessEnds, kernel
<1>8. CASE UNCHANGED vars
  BY <1>1, <1>4, <1>8, <1>t DEF vars, kernel
<1> QED
  BY <1>1, <1>2, <1>3, <1>4, <1>5, <1>6, <1>7, <1>8, <1>t DEF Next, Main

-----------------------------------------------------------------------------
(* epoll *)

\* A socket that is closed is clean, and one that may write is ready, after every step.
LEMMA KernelStep ==
  ASSUME WInv, [Next]_vars
  PROVE  ClosedIsClean' /\ OutIsReady'
<1>0. ClosedIsClean /\ OutIsReady /\ SlotsMatchKernel /\ VerdictsAreAboutWork
  BY DEF WInv
<1>t. /\ input \in [Fds -> Nat] /\ hup \in [Fds -> BOOLEAN]
      /\ reg \in [Fds -> Registrations] /\ trig \in [Fds -> BOOLEAN]
      /\ serving \in [Workers -> {<<>>} \cup {<<fd>> : fd \in Fds}]
  BY DEF TypeOK, WInv
<1> USE <1>0 DEF ClosedIsClean, OutIsReady
<1>1. CASE UNCHANGED <<input, hup, reg, trig>>
  BY <1>1
<1>2. ASSUME NEW fd \in Fds, ClientSends(fd) \/ ClientHangsUp(fd) PROVE ClosedIsClean' /\ OutIsReady'
  BY <1>2, <1>t DEF ClientSends, ClientHangsUp, IsOpen
<1>3. CASE EpollWait
  BY <1>3, <1>t DEF EpollWait, Report
<1>4. CASE Accept
  <2>1. UNCHANGED <<input, hup, trig>>
    BY <1>4 DEF Accept
  <2>2. ASSUME NEW fd \in Fds, InitConnection(fd) PROVE ClosedIsClean' /\ OutIsReady'
    BY <1>t, <2>1, <2>2 DEF InitConnection
  <2> QED
    BY <1>1, <1>4, <2>1, <2>2, AcceptCases
<1>5. ASSUME NEW fd \in Fds, Delivered(fd), CloseConn(fd) PROVE ClosedIsClean' /\ OutIsReady'
  <2>1. RemoveFd(fd)
    BY <1>5, CloseConnFrees
  <2> QED
    BY <1>t, <2>1 DEF RemoveFd
<1>6. ASSUME NEW fd \in Fds, HandleRead(fd) PROVE ClosedIsClean' /\ OutIsReady'
  BY <1>6, <1>t DEF HandleRead
<1>7. ASSUME NEW w \in Workers, ProcessEnds(w) PROVE ClosedIsClean' /\ OutIsReady'
  <2>1. PICK fd \in Fds : serving[w] = <<fd>>
    BY <1>7, <1>t DEF ProcessEnds, VerdictsAreAboutWork
  <2>2. PICK r \in {"in", "out"} : ModFd(fd, r)
    BY <1>7, <2>1 DEF ProcessEnds
  <2>c. \/ UNCHANGED <<reg, trig, dropped>>
        \/ /\ reg[fd] # "none" /\ reg' = [reg EXCEPT ![fd] = r]
           /\ trig' = [trig EXCEPT ![fd] = Report(fd, r) # "nothing"]
           /\ dropped' = dropped \ {fd}
    <3>1. InPool(fd)
      BY <2>1 DEF InPool
    <3> QED
      BY <1>0, <2>2, <3>1, ModFdCases
  <2>3. UNCHANGED <<input, hup>>
    BY <1>7 DEF ProcessEnds
  <2> QED
    BY <1>1, <1>t, <2>c, <2>3 DEF Report
<1>8. CASE ClientConnects \/ UNCHANGED vars
  BY <1>1, <1>8 DEF ClientConnects, vars, kernel
<1>9. ASSUME NEW fd \in Fds, HandleHangUp(fd) \/ HandleReadFailure(fd) PROVE Delivered(fd) /\ CloseConn(fd)
  BY <1>9, HandleLeaves DEF HandleHangUp, HandleReadFailure
<1>10. ASSUME NEW fd \in Fds, HandleWrite(fd) PROVE UNCHANGED <<input, hup, reg, trig>>
  BY <1>10 DEF HandleWrite, kernel
<1>11. ASSUME NEW w \in Workers, Take(w) \/ ProcessRead(w) PROVE UNCHANGED <<input, hup, reg, trig>>
  BY <1>11 DEF Take, ProcessRead, kernel
<1> QED
  BY <1>1, <1>2, <1>3, <1>4, <1>5, <1>6, <1>7, <1>8, <1>9, <1>10, <1>11 DEF Next, Clients, Main, Worker

\* What epoll has to report is on the ready list or in the batch, after every step.  An answer
\* that main is told of, and does not look behind, hides nothing.
LEMMA EdgeStep ==
  ASSUME WInv, [Next]_vars
  PROVE  NoMissedEdge' /\ AnswerLeavesNothing'
<1>0. /\ NoMissedEdge /\ AnswerLeavesNothing /\ ClosedIsClean /\ OutIsReady
      /\ OneEventPerFd /\ SlotsMatchKernel /\ VerdictsAreAboutWork
  BY DEF WInv
<1>t. /\ input \in [Fds -> Nat] /\ hup \in [Fds -> BOOLEAN]
      /\ reg \in [Fds -> Registrations] /\ trig \in [Fds -> BOOLEAN]
      /\ serving \in [Workers -> {<<>>} \cup {<<fd>> : fd \in Fds}]
      /\ events \subseteq Batch
  BY DEF TypeOK, WInv, Batch
<1>1. CASE UNCHANGED <<input, hup, reg, trig, events>>
  BY <1>0, <1>1 DEF NoMissedEdge, AnswerLeavesNothing, Report, Delivered
<1>2. ASSUME NEW fd \in Fds, ClientSends(fd) \/ ClientHangsUp(fd) PROVE NoMissedEdge' /\ AnswerLeavesNothing'
  <2>1. /\ UNCHANGED <<reg, events>>
        /\ \A d \in Fds \ {fd} : Report(d, reg[d])' = Report(d, reg[d]) /\ trig'[d] = trig[d]
    <3>1. CASE ClientSends(fd)
      BY <1>t, <3>1 DEF ClientSends, Report
    <3>2. CASE ClientHangsUp(fd)
      BY <1>t, <3>2 DEF ClientHangsUp, Report
    <3> QED
      BY <1>2, <3>1, <3>2
  <2>2. Report(fd, reg[fd])' # "nothing" => trig'[fd]
    <3>1. CASE ClientSends(fd)
      <4>1. /\ ~hup[fd] /\ hup' = hup /\ reg' = reg
            /\ trig'[fd] = (trig[fd] \/ reg[fd] \in {"edge", "in"})
        BY <1>t, <3>1 DEF ClientSends
      <4>2. reg[fd] = "out" => trig[fd]
        BY <1>0 DEF OutIsReady
      <4> QED
        BY <4>1, <4>2 DEF Report
    <3>2. CASE ClientHangsUp(fd)
      <4>1. ~hup[fd] /\ input' = input /\ reg' = reg /\ trig'[fd] = (trig[fd] \/ reg[fd] # "off")
        BY <1>t, <3>2 DEF ClientHangsUp
      <4> QED
        BY <4>1 DEF Report
    <3> QED
      BY <1>2, <3>1, <3>2
  <2> QED
    BY <1>0, <2>1, <2>2 DEF NoMissedEdge, AnswerLeavesNothing, Delivered
<1>3. CASE EpollWait
  <2> DEFINE ready == {fd \in Fds : trig[fd] /\ Report(fd, reg[fd]) # "nothing"}
             listening == IF listenTrig /\ backlog > 0 THEN {ListenFd} ELSE {}
  <2>1. /\ events = {} /\ UNCHANGED <<input, hup>>
        /\ events' = {[fd |-> fd, kind |-> Report(fd, reg[fd])] : fd \in ready}
                       \cup {[fd |-> fd, kind |-> "accept"] : fd \in listening}
        /\ reg' = [fd \in Fds |-> IF fd \in ready /\ reg[fd] \in {"in", "out"} THEN "off" ELSE reg[fd]]
    BY <1>3 DEF EpollWait
  <2>2. ASSUME NEW fd \in Fds, Report(fd, reg[fd])' # "nothing" PROVE Delivered(fd)'
    <3>1. reg'[fd] = reg[fd] /\ Report(fd, reg[fd]) # "nothing"
      BY <2>1, <2>2, <1>t DEF Report
    <3>2. fd \in ready
      BY <3>1, <2>1, <1>0 DEF NoMissedEdge, Delivered
    <3>3. [fd |-> fd, kind |-> Report(fd, reg[fd])] \in events'
      BY <2>1, <3>2
    <3> QED
      BY <3>3 DEF Delivered
  <2>3. ASSUME NEW fd \in Fds, [fd |-> fd, kind |-> "out"] \in events' PROVE Report(fd, reg[fd])' = "nothing"
    <3>1. fd \in ready /\ Report(fd, reg[fd]) = "out"
      BY <2>1, <2>3, FdsAssumption
    <3> QED
      BY <2>1, <3>1, <1>t DEF Report
  <2> QED
    BY <2>2, <2>3 DEF NoMissedEdge, AnswerLeavesNothing
<1>4. CASE Accept
  <2>1. UNCHANGED <<input, hup, trig>> /\ events' \subseteq events
    BY <1>4 DEF Accept, Handle
  <2>2. \A fd \in Fds : Delivered(fd) => Delivered(fd)'
    BY <1>4, FdsAssumption DEF Accept, Handle, Delivered
  <2>3. CASE UNCHANGED reg
    BY <1>0, <2>1, <2>2, <2>3 DEF NoMissedEdge, AnswerLeavesNothing, Report
  <2>4. ASSUME NEW fd \in Fds, ~IsOpen(fd), InitConnection(fd) PROVE NoMissedEdge' /\ AnswerLeavesNothing'
    BY <1>0, <1>t, <2>1, <2>2, <2>4
       DEF InitConnection, IsOpen, ClosedIsClean, NoMissedEdge, AnswerLeavesNothing, Report
  <2> QED
    BY <1>4, <2>3, <2>4, AcceptCases
<1>5. ASSUME NEW fd \in Fds, NEW kind, Handle(fd, kind) PROVE
        /\ \A d \in Fds \ {fd} : Delivered(d) => Delivered(d)'
        /\ events' \subseteq events /\ ~Delivered(fd)'
  BY <1>0, <1>5 DEF Handle, Delivered, OneEventPerFd
<1>6. ASSUME NEW fd \in Fds, HandleHangUp(fd) \/ HandleReadFailure(fd) PROVE NoMissedEdge' /\ AnswerLeavesNothing'
  <2>1. /\ \A d \in Fds \ {fd} : Delivered(d) => Delivered(d)'
        /\ events' \subseteq events /\ RemoveFd(fd)
    BY <1>0, <1>5, <1>6, HandleLeaves, CloseConnFrees DEF HandleHangUp, HandleReadFailure
  <2>2. reg'[fd] = "none"
    BY <1>t, <2>1 DEF RemoveFd
  <2>3. \A d \in Fds \ {fd} : UNCHANGED <<input[d], hup[d], reg[d], trig[d]>>
    BY <1>t, <2>1 DEF RemoveFd
  <2> QED
    BY <1>0, <2>1, <2>2, <2>3 DEF NoMissedEdge, AnswerLeavesNothing, Report
<1>7. ASSUME NEW fd \in Fds, HandleRead(fd) PROVE NoMissedEdge' /\ AnswerLeavesNothing'
  <2>1. /\ \A d \in Fds \ {fd} : Delivered(d) => Delivered(d)'
        /\ events' \subseteq events
    BY <1>5, <1>7 DEF HandleRead
  <2>2. UNCHANGED <<hup, reg, trig>> /\ ~hup[fd] /\ input' = [input EXCEPT ![fd] = 0]
    BY <1>7 DEF HandleRead, ReadFails
  <2> QED
    BY <1>0, <1>t, <2>1, <2>2 DEF NoMissedEdge, AnswerLeavesNothing, Report, OutIsReady
<1>8. ASSUME NEW fd \in Fds, HandleWrite(fd) PROVE NoMissedEdge' /\ AnswerLeavesNothing'
  <2>1. /\ \A d \in Fds \ {fd} : Delivered(d) => Delivered(d)'
        /\ events' \subseteq events
        /\ [fd |-> fd, kind |-> "out"] \in events
    BY <1>5, <1>8 DEF HandleWrite, Handle
  <2>2. UNCHANGED <<input, hup, reg, trig>>
    BY <1>8 DEF HandleWrite, kernel
  <2> QED
    BY <1>0, <2>1, <2>2 DEF NoMissedEdge, AnswerLeavesNothing, Report
<1>9. ASSUME NEW w \in Workers, ProcessEnds(w) PROVE NoMissedEdge' /\ AnswerLeavesNothing'
  <2>1. PICK fd \in Fds : serving[w] = <<fd>>
    BY <1>0, <1>9, <1>t DEF ProcessEnds, VerdictsAreAboutWork
  <2>2. PICK r \in {"in", "out"} : ModFd(fd, r)
    BY <1>9, <2>1 DEF ProcessEnds
  <2>3. UNCHANGED <<input, hup, events>>
    BY <1>9 DEF ProcessEnds
  <2>c. \/ UNCHANGED <<reg, trig>>
        \/ reg' = [reg EXCEPT ![fd] = r] /\ trig' = [trig EXCEPT ![fd] = Report(fd, r) # "nothing"]
    BY <1>0, <2>1, <2>2, ModFdCases DEF InPool
  <2>4. \A d \in Fds \ {fd} : Report(d, reg[d])' = Report(d, reg[d]) /\ trig'[d] = trig[d]
    BY <1>t, <2>c, <2>3 DEF Report
  <2>5. \/ Report(fd, reg[fd])' = Report(fd, reg[fd]) /\ trig'[fd] = trig[fd]
        \/ Report(fd, reg[fd])' # "nothing" => trig'[fd]
    <3>1. CASE UNCHANGED <<reg, trig>>
      BY <2>3, <3>1 DEF Report
    <3>2. CASE reg' = [reg EXCEPT ![fd] = r] /\ trig' = [trig EXCEPT ![fd] = Report(fd, r) # "nothing"]
      <4>1. reg'[fd] = r /\ trig'[fd] = (Report(fd, r) # "nothing")
        BY <1>t, <3>2
      <4> QED
        BY <2>3, <4>1 DEF Report
    <3> QED
      BY <2>c, <3>1, <3>2
  <2> QED
    BY <1>0, <2>3, <2>4, <2>5 DEF NoMissedEdge, AnswerLeavesNothing, Delivered
<1>10. CASE ClientConnects \/ UNCHANGED vars
  BY <1>1, <1>10 DEF ClientConnects, vars, kernel
<1>11. ASSUME NEW w \in Workers, Take(w) \/ ProcessRead(w) PROVE UNCHANGED <<input, hup, reg, trig, events>>
  BY <1>11 DEF Take, ProcessRead, kernel
<1> QED
  BY <1>1, <1>2, <1>3, <1>4, <1>6, <1>7, <1>8, <1>9, <1>10, <1>11 DEF Next, Clients, Main, Worker

-----------------------------------------------------------------------------
(* One-shot events *)

\* What the pool holds stays in it, except for what its worker is done with.
LEMMA PoolKeeps ==
  ASSUME TypeOK, NEW fd \in Fds, InPool(fd),
         \/ \E r \in Fds : Pool!Put(r)
         \/ Pool!Refuse
         \/ \E w \in Workers : Pool!Get(w) \/ (Pool!Done(w) /\ serving[w] # <<fd>>)
         \/ UNCHANGED <<queue, serving>>
  PROVE  InPool(fd)'
<1>t. queue \in Seq(Fds) /\ serving \in [Workers -> {<<>>} \cup {<<d>> : d \in Fds}]
  BY DEF TypeOK
<1>1. ASSUME NEW r \in Fds, Pool!Put(r) PROVE InPool(fd)'
  BY <1>1, <1>t DEF Pool!Put, InPool
<1>2. CASE Pool!Refuse \/ UNCHANGED <<queue, serving>>
  BY <1>2 DEF Pool!Refuse, InPool
<1>3. ASSUME NEW w \in Workers, Pool!Get(w) PROVE InPool(fd)'
  <2>1. CASE \E v \in Workers : serving[v] = <<fd>>
    BY <1>3, <1>t, <2>1 DEF Pool!Get, InPool
  <2>2. CASE Head(queue) = fd
    BY <1>3, <1>t, <2>2 DEF Pool!Get, InPool
  <2>3. ASSUME NEW i \in 2..Len(queue), queue[i] = fd PROVE InPool(fd)'
    <3>1. queue' = Tail(queue) /\ queue # <<>>
      BY <1>3 DEF Pool!Get
    <3>2. i - 1 \in 1..Len(queue') /\ queue'[i - 1] = fd
      BY <1>t, <2>3, <3>1
    <3> QED
      BY <3>2 DEF InPool
  <2>4. \/ \E v \in Workers : serving[v] = <<fd>>
        \/ \E i \in 1..Len(queue) : queue[i] = fd
    BY DEF InPool
  <2> QED
    BY <1>t, <2>1, <2>2, <2>3, <2>4
<1>4. ASSUME NEW w \in Workers, Pool!Done(w), serving[w] # <<fd>> PROVE InPool(fd)'
  BY <1>4, <1>t DEF Pool!Done, InPool
<1> QED
  BY <1>1, <1>2, <1>3, <1>4

\* A socket whose one-shot event was delivered stays in somebody's hands at every step.
LEMMA OneShotStep ==
  ASSUME WInv, [Next]_vars
  PROVE  OneShotIsOwned'
<1>0. TypeOK /\ OneShotIsOwned /\ SlotsMatchKernel /\ VerdictsAreAboutWork
  BY DEF WInv
<1>t. /\ reg \in [Fds -> Registrations] /\ queue \in Seq(Fds) /\ dropped \subseteq Fds
      /\ serving \in [Workers -> {<<>>} \cup {<<fd>> : fd \in Fds}]
  BY <1>0 DEF TypeOK
<1>1. ASSUME UNCHANGED <<queue, serving, dropped>>, NEW S \in SUBSET Fds,
             \A fd \in Fds \ S : UNCHANGED reg[fd] /\ (Delivered(fd) => Delivered(fd)'),
             \A fd \in S : reg'[fd] # "off"
      PROVE  OneShotIsOwned'
  BY <1>0, <1>1 DEF OneShotIsOwned, InPool
<1>2. ASSUME NEW fd \in Fds, NEW kind, Handle(fd, kind)
      PROVE  \A d \in Fds \ {fd} : Delivered(d) => Delivered(d)'
  BY <1>2 DEF Handle, Delivered
<1>3. CASE Clients \/ UNCHANGED vars
  <2>1. UNCHANGED <<events, reg, queue, serving, dropped>>
    BY <1>3 DEF Clients, ClientConnects, ClientSends, ClientHangsUp, vars, kernel, pool
  <2> QED
    BY <1>0, <2>1 DEF OneShotIsOwned, InPool, Delivered
<1>4. CASE EpollWait
  <2> DEFINE ready == {fd \in Fds : trig[fd] /\ Report(fd, reg[fd]) # "nothing"}
             listening == IF listenTrig /\ backlog > 0 THEN {ListenFd} ELSE {}
  <2>1. /\ events = {} /\ UNCHANGED <<queue, serving, dropped>>
        /\ events' = {[fd |-> fd, kind |-> Report(fd, reg[fd])] : fd \in ready}
                       \cup {[fd |-> fd, kind |-> "accept"] : fd \in listening}
        /\ reg' = [fd \in Fds |-> IF fd \in ready /\ reg[fd] \in {"in", "out"} THEN "off" ELSE reg[fd]]
    BY <1>4 DEF EpollWait, pool
  <2>2. ASSUME NEW fd \in ready PROVE Delivered(fd)'
    <3>1. [fd |-> fd, kind |-> Report(fd, reg[fd])] \in events'
      BY <2>1
    <3> QED
      BY <3>1 DEF Delivered
  <2>3. ASSUME NEW fd \in Fds, reg'[fd] = "off" PROVE (Delivered(fd) \/ InPool(fd) \/ fd \in dropped)'
    <3>1. CASE fd \in ready
      BY <2>2, <3>1
    <3>2. CASE fd \notin ready
      BY <1>0, <2>1, <2>3, <3>2 DEF OneShotIsOwned, InPool, Delivered
    <3> QED
      BY <3>1, <3>2
  <2> QED
    BY <2>3 DEF OneShotIsOwned
<1>5. CASE Accept
  <2>1. UNCHANGED <<queue, serving>> /\ \A fd \in Fds : Delivered(fd) => Delivered(fd)'
    BY <1>5, FdsAssumption DEF Accept, Handle, Delivered, pool
  <2>2. CASE UNCHANGED <<reg, slots, dropped>>
    BY <1>0, <2>1, <2>2 DEF OneShotIsOwned, InPool
  <2>3. ASSUME NEW fd \in Fds, InitConnection(fd) PROVE OneShotIsOwned'
    BY <1>0, <1>t, <2>1, <2>3 DEF OneShotIsOwned, InPool, InitConnection
  <2> QED
    BY <1>5, <2>2, <2>3, AcceptCases
<1>6. ASSUME NEW fd \in Fds, HandleHangUp(fd) \/ HandleReadFailure(fd) PROVE OneShotIsOwned'
  <2>1. /\ RemoveFd(fd) /\ UNCHANGED <<queue, serving, dropped>>
        /\ \A d \in Fds \ {fd} : Delivered(d) => Delivered(d)'
    BY <1>0, <1>2, <1>6, HandleLeaves, CloseConnFrees DEF HandleHangUp, HandleReadFailure, pool
  <2>2. reg'[fd] = "none" /\ \A d \in Fds \ {fd} : UNCHANGED reg[d]
    BY <1>t, <2>1 DEF RemoveFd
  <2> QED
    BY <1>0, <2>1, <2>2 DEF OneShotIsOwned, InPool
<1>7. ASSUME NEW fd \in Fds, HandleRead(fd) PROVE OneShotIsOwned'
  <2>1. reg' = reg /\ \A d \in Fds \ {fd} : Delivered(d) => Delivered(d)'
    BY <1>2, <1>7 DEF HandleRead
  <2>2. CASE Pool!Put(fd) /\ UNCHANGED dropped
    <3>1. queue' = Append(queue, fd)
      BY <2>2 DEF Pool!Put
    <3>2. Len(queue) + 1 \in 1..Len(queue') /\ queue'[Len(queue) + 1] = fd
      BY <1>t, <3>1
    <3>3. InPool(fd)'
      BY <3>2 DEF InPool
    <3>4. \A d \in Fds : InPool(d) => InPool(d)'
      BY <1>0, <2>2, PoolKeeps
    <3> QED
      BY <1>0, <2>1, <2>2, <3>3, <3>4 DEF OneShotIsOwned
  <2>3. CASE Pool!Refuse /\ dropped' = dropped \cup {fd}
    BY <1>0, <2>1, <2>3, PoolKeeps DEF OneShotIsOwned
  <2> QED
    BY <1>7, <2>2, <2>3 DEF HandleRead
<1>8. ASSUME NEW fd \in Fds, HandleWrite(fd) PROVE OneShotIsOwned'
  <2>1. /\ reg' = reg /\ dropped' = dropped \cup {fd} /\ UNCHANGED <<queue, serving>>
        /\ \A d \in Fds \ {fd} : Delivered(d) => Delivered(d)'
    BY <1>2, <1>8 DEF HandleWrite, kernel, pool
  <2> QED
    BY <1>0, <2>1 DEF OneShotIsOwned, InPool
<1>9. ASSUME NEW w \in Workers, Take(w) \/ ProcessRead(w) PROVE OneShotIsOwned'
  <2>1. UNCHANGED <<reg, dropped, events>>
    BY <1>9 DEF Take, ProcessRead, kernel
  <2>2. \A d \in Fds : InPool(d) => InPool(d)'
    BY <1>0, <1>9, PoolKeeps DEF Take, ProcessRead
  <2> QED
    BY <1>0, <2>1, <2>2 DEF OneShotIsOwned, Delivered
<1>10. ASSUME NEW w \in Workers, ProcessEnds(w) PROVE OneShotIsOwned'
  <2>1. PICK fd \in Fds : serving[w] = <<fd>>
    BY <1>0, <1>10, <1>t DEF ProcessEnds, VerdictsAreAboutWork
  <2>2. PICK r \in {"in", "out"} : ModFd(fd, r)
    BY <1>10, <2>1 DEF ProcessEnds
  <2>3. Pool!Done(w) /\ events' = events
    BY <1>10 DEF ProcessEnds
  <2>4. \A d \in Fds \ {fd} : InPool(d) => InPool(d)'
    <3>1. \A d \in Fds \ {fd} : serving[w] # <<d>>
      BY <2>1
    <3> QED
      BY <1>0, <2>3, <3>1, PoolKeeps
  <2>5. reg'[fd] # "off" /\ \A d \in Fds \ {fd} : UNCHANGED reg[d] /\ (d \in dropped => d \in dropped')
    BY <1>0, <1>t, <2>1, <2>2, ModFdCases DEF InPool
  <2> QED
    BY <1>0, <2>3, <2>4, <2>5 DEF OneShotIsOwned, Delivered
<1> QED
  BY <1>3, <1>4, <1>5, <1>6, <1>7, <1>8, <1>9, <1>10 DEF Next, Main, Worker

-----------------------------------------------------------------------------
(* The theorems *)

\* The invariant holds at first and after every step.
LEMMA WInvInit == Init => WInv
<1> SUFFICES ASSUME Init PROVE WInv
  OBVIOUS
<1> USE DEF Init
<1>1. TypeOK
  <2>1. queue \in Seq(Fds) /\ serving \in [Workers -> {<<>>} \cup {<<fd>> : fd \in Fds}] /\ refused \in Nat
    BY DEF Pool!QueueInit
  <2>2. /\ reg \in [Fds -> Registrations] /\ trig \in [Fds -> BOOLEAN]
        /\ input \in [Fds -> Nat] /\ hup \in [Fds -> BOOLEAN]
    BY DEF Registrations
  <2>3. /\ m_sockfd \in [Fds -> AnyFd] /\ m_read_idx \in [Fds -> Nat]
        /\ verdict \in [Workers -> Verdicts \cup {"none"}]
    BY SizesAssumption
  <2>4. backlog \in Nat /\ connects \in Nat /\ sends \in Nat /\ m_user_count \in Int
    OBVIOUS
  <2>5. listenTrig \in BOOLEAN /\ running \in BOOLEAN
    BY Zenon
  <2>6. events = {} /\ dropped = {}
    BY Zenon
  <2> HIDE DEF Init
  <2> QED
    BY <2>1, <2>2, <2>3, <2>4, <2>5, <2>6 DEF TypeOK
<1>2. SlotsMatchKernel
  <2>1. \A fd \in Fds : ~IsOpen(fd)
    BY DEF IsOpen
  <2>2. {fd \in Fds : IsOpen(fd)} = {}
    BY <2>1
  <2>3. UsersAreCounted
    BY <2>2, FS_EmptySet DEF UsersAreCounted
  <2>4. \A fd \in Fds : ~InPool(fd) /\ ~Delivered(fd)
    BY DEF InPool, Delivered, Pool!QueueInit
  <2> QED
    BY <2>1, <2>3, <2>4 DEF SlotsMatchKernel, OpenHasSlot, DeliveredIsOpen, StaleIsMarked
<1>3. OneShotIsOwned /\ NoMissedEdge /\ ClosedIsClean /\ OutIsReady /\ AnswerLeavesNothing
  BY DEF OneShotIsOwned, NoMissedEdge, ClosedIsClean, OutIsReady, AnswerLeavesNothing, Report
<1>4. VerdictsAreAboutWork /\ AcceptHasClient /\ OneEventPerFd
  BY DEF VerdictsAreAboutWork, AcceptHasClient, OneEventPerFd
<1> QED
  BY <1>1, <1>2, <1>3, <1>4 DEF WInv

\* See WInvInit.
LEMMA WInvStep == WInv /\ [Next]_vars => WInv'
<1> SUFFICES ASSUME WInv, [Next]_vars PROVE WInv'
  OBVIOUS
<1>1. TypeOK /\ SlotsMatchKernel /\ VerdictsAreAboutWork /\ AcceptHasClient /\ OneEventPerFd
  BY DEF WInv
<1>2. SlotsMatchKernel'
  BY <1>1, SlotsStep
<1>3. TypeOK'
  BY <1>1, <1>2, TypeStep
<1> QED
  BY <1>2, <1>3, WorkStep, KernelStep, EdgeStep, OneShotStep DEF WInv

\* The invariant holds of every behaviour.
THEOREM WebServerInvariant == Spec => []WInv
BY WInvInit, WInvStep, PTL DEF Spec

\* Whatever main, the workers and the clients do in which order, and whatever the slots hold
\* at first: m_sockfd is the descriptor or -1 wherever main or a worker comes to look at it,
\* every event main works on is of an open descriptor, and m_user_count is the number of open
\* connections, so it is never negative.
THEOREM UsersMatchKernel == Spec => []SlotsAreSound
<1>1. WInv => SlotsAreSound
  BY DEF WInv, SlotsAreSound
<1> QED
  BY <1>1, WebServerInvariant, PTL

\* Nobody loses a connection between its one-shot event and the modfd that re-arms it,
\* other than main where it refuses the request or has written the answer.
THEOREM OneShotsAreOwned == Spec => []OneShotIsOwned
<1>1. WInv => OneShotIsOwned
  BY DEF WInv
<1> QED
  BY <1>1, WebServerInvariant, PTL

\* The server is idle only where each connection that is owed something was put down by main.
THEOREM IdleMeansNoWork == Spec => []IdleLeavesNoWork
<1>1. WInv => IdleLeavesNoWork
  <2> SUFFICES ASSUME WInv, Idle, NEW fd \in Fds, IsOpen(fd),
                      input[fd] > 0 \/ hup[fd] \/ reg[fd] = "out"
               PROVE  fd \in dropped
    BY DEF IdleLeavesNoWork
  <2>1. ~Delivered(fd) /\ ~InPool(fd)
    <3>1. Len(queue) = 0 /\ \A w \in Workers : serving[w] # <<fd>>
      BY DEF Idle
    <3> QED
      BY <3>1 DEF Idle, Delivered, InPool
  <2>2. Report(fd, reg[fd]) = "nothing"
    BY <2>1 DEF WInv, NoMissedEdge, Idle
  <2>3. reg[fd] \in {"edge", "in", "out", "off"}
    BY DEF WInv, TypeOK, IsOpen, Registrations
  <2>4. reg[fd] = "off"
    BY <2>2, <2>3 DEF Report
  <2> QED
    BY <2>1, <2>4 DEF WInv, OneShotIsOwned
<1> QED
  BY <1>1, WebServerInvariant, PTL

\* No edge is missed: what a watched connection has to report is on epoll's ready list or
\* in the batch of main.
THEOREM NoEdgeIsMissed == Spec => []NoMissedEdge
<1>1. WInv => NoMissedEdge
  BY DEF WInv
<1> QED
  BY <1>1, WebServerInvariant, PTL
=============================================================================
