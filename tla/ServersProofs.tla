---------------------------- MODULE ServersProofs ----------------------------
(***************************************************************************)
(* Proofs about the two concurrent servers, for any clients, descriptors,  *)
(* length of sockInfos and number of messages.                             *)
(***************************************************************************)
EXTENDS MC_Servers, FiniteSetTheorems, WellFoundedInduction, TLAPS

Waits(c) == \E k \in 1..Len(backlog) : backlog[k] = c

\* A connection waits for accept once, and is then behind one descriptor, with no thread yet.
ConnectionsAreFresh ==
  /\ \A j, k \in 1..Len(backlog) : backlog[j] = backlog[k] => j = k
  /\ \A c \in Conns : Waits(c) => wpc[c] = "none" /\ \A d \in Fds : open[d] # c
  /\ \A c \in Conns : cpc[c] = "new" => ~Waits(c) /\ wpc[c] = "none" /\ \A d \in Fds : open[d] # c

\* What main has in its hands between accept and pthread_create.
MainHolds ==
  /\ mpc = "accept" => cfd = NoFd
  /\ mpc # "accept" => cfd \in Fds /\ open[cfd] \in Conns /\ wpc[open[cfd]] = "none"
  /\ mpc = "store" => fd[i] = NoFd
  /\ mpc = "create" => fd[i] = cfd

\* An element of sockInfos that was given to a thread is given to no other, even where the
\* thread has returned: its fd stays set.
ElementsAreKept ==
  /\ \A c \in Conns : wpc[c] # "none" => fd[pInfo[c]] # NoFd
  /\ \A b, c \in Conns : wpc[b] # "none" /\ wpc[c] # "none" /\ pInfo[b] = pInfo[c] => b = c
  /\ mpc = "create" => \A c \in Conns : wpc[c] # "none" => pInfo[c] # i

\* The parent has every connection open that it has accepted, and no more than it may.
ConnectionsAreKept ==
  /\ IsFiniteSet(held) /\ Cardinality(held) <= MaxFds
  /\ new \subseteq held
  /\ \A c \in Conns : kpc[c] # "none" => c \in held

ThreadInv ==
  /\ ServerTypeOK /\ ConnectionsAreFresh /\ MainHolds
  /\ ServesItsClient /\ DescriptorsAreOwned /\ ElementsAreKept

-----------------------------------------------------------------------------
(* Clients and connections *)

\* Of any descriptors one is the lowest: what accept returns exists.
LEMMA LeastNat ==
  ASSUME NEW S \in SUBSET Nat, S # {}
  PROVE  \E m \in S : \A n \in S : m <= n
<1> DEFINE T == {0..n : n \in S}
<1>1. T \subseteq FiniteSubsetsOf(Nat) /\ T # {}
  <2>1. \A n \in S : 0..n \in SUBSET Nat /\ IsFiniteSet(0..n)
    BY FS_Interval
  <2> QED
    BY <2>1 DEF FiniteSubsetsOf
<1>2. IsWellFoundedOn(StrictSubsetOrdering(Nat), FiniteSubsetsOf(Nat))
  BY FS_StrictSubsetOrderingWellFounded
<1>3. PICK x \in T : \A y \in T : ~(<<y, x>> \in StrictSubsetOrdering(Nat))
  <2> HIDE DEF T
  <2> QED
    BY <1>1, <1>2, WFMin
<1>4. PICK m \in S : x = 0..m
  BY DEF T
<1>5. ASSUME NEW n \in S, n < m PROVE FALSE
  <2>1. m \in 0..m /\ m \notin 0..n /\ 0..n \subseteq 0..m
    BY <1>5
  <2>2. <<0..n, 0..m>> \in StrictSubsetOrdering(Nat)
    BY <2>1 DEF StrictSubsetOrdering
  <2> QED
    BY <1>3, <1>4, <2>2
<1> QED
  BY <1>5

\* The clients, and what a server does on a connection, keep the types.
LEMMA NetTypes ==
  ASSUME NetTypeOK,
         \/ Clients(1) \/ UNCHANGED net
         \/ \E c \in Conns : TakePiece(c) \/ Answer(c)
         \/ backlog # <<>> /\ TakeConnection
  PROVE  NetTypeOK'
<1> USE DEF NetTypeOK
<1>1. ASSUME NEW c \in Conns, ClientConnects(c) PROVE NetTypeOK'
  BY <1>1 DEF ClientConnects
<1>2. ASSUME NEW c \in Conns, ClientReads(c) \/ ClientWrites(c, 1) PROVE NetTypeOK'
  <2>1. CASE ClientReads(c)
    BY <2>1 DEF ClientReads
  <2>2. CASE ClientWrites(c, 1)
    <3>1. input' \in [Conns -> Nat] /\ sends' \in Nat /\ UNCHANGED <<backlog, reply, peer>>
      BY <2>2 DEF ClientWrites
    <3>2. cpc' \in [Conns -> {"new", "write", "read", "closed"}]
      BY <2>2 DEF ClientWrites
    <3> QED
      BY <3>1, <3>2
  <2> QED
    BY <1>2, <2>1, <2>2
<1>3. ASSUME NEW c \in Conns, ClientDies(c) PROVE NetTypeOK'
  BY <1>3 DEF ClientDies
<1>4. ASSUME NEW c \in Conns, TakePiece(c) PROVE NetTypeOK'
  BY <1>4 DEF TakePiece
<1>5. ASSUME NEW c \in Conns, Answer(c) PROVE NetTypeOK'
  <2>1. PICK state \in {"up", "fin", "rst", "broken"} : peer' = [peer EXCEPT ![c] = state]
    BY <1>5 DEF Answer
  <2>2. reply' \in [Conns -> BOOLEAN] /\ UNCHANGED <<backlog, cpc, input, sends>>
    BY <1>5 DEF Answer
  <2> QED
    BY <2>1, <2>2
<1>6. CASE backlog # <<>> /\ TakeConnection
  BY <1>6 DEF TakeConnection
<1>7. CASE UNCHANGED net
  BY <1>7 DEF net
<1>8. \A pieces \in 1..1 : pieces = 1
  OBVIOUS
<1> QED
  BY <1>1, <1>2, <1>3, <1>4, <1>5, <1>6, <1>7, <1>8 DEF Clients

\* A step of the clients connects a new one, at the end of the backlog, or leaves the backlog.
LEMMA ClientsStep ==
  ASSUME NetTypeOK, Clients(1)
  PROVE  \/ backlog' = backlog /\ \A c \in Conns : cpc[c] # "new" => cpc'[c] # "new"
         \/ \E c \in Conns : /\ cpc[c] = "new" /\ cpc' = [cpc EXCEPT ![c] = "write"]
                             /\ backlog' = Append(backlog, c)
<1>1. PICK c \in Conns : \/ ClientConnects(c) \/ ClientReads(c) \/ ClientDies(c)
                         \/ \E pieces \in 1..1 : ClientWrites(c, pieces)
  BY DEF Clients
<1> QED
  BY <1>1 DEF NetTypeOK, ClientConnects, ClientReads, ClientDies, ClientWrites

\* Who waits when the backlog grows, and when it shrinks.
LEMMA BacklogGrows ==
  ASSUME backlog \in Seq(Conns), NEW c \in Conns, ~Waits(c), backlog' = Append(backlog, c),
         \A j, k \in 1..Len(backlog) : backlog[j] = backlog[k] => j = k
  PROVE  /\ \A j, k \in 1..Len(backlog') : backlog'[j] = backlog'[k] => j = k
         /\ \A b \in Conns : Waits(b)' => b = c \/ Waits(b)
<1>1. /\ Len(backlog') = Len(backlog) + 1 /\ Len(backlog) \in Nat
      /\ \A k \in 1..Len(backlog') : backlog'[k] = IF k = Len(backlog) + 1 THEN c ELSE backlog[k]
  OBVIOUS
<1>2. \A k \in 1..Len(backlog') : k = Len(backlog) + 1 \/ k \in 1..Len(backlog)
  BY <1>1
<1> QED
  BY <1>1, <1>2 DEF Waits

\* The first connection of the backlog is accepted, and waits no more.
LEMMA BacklogShrinks ==
  ASSUME backlog \in Seq(Conns), backlog # <<>>, backlog' = Tail(backlog),
         \A j, k \in 1..Len(backlog) : backlog[j] = backlog[k] => j = k
  PROVE  /\ \A j, k \in 1..Len(backlog') : backlog'[j] = backlog'[k] => j = k
         /\ \A b \in Conns : Waits(b)' => Waits(b)
         /\ \A b : b = Head(backlog) => b \in Conns /\ Waits(b) /\ ~Waits(b)'
<1>1. /\ Len(backlog') = Len(backlog) - 1 /\ Len(backlog) \in Nat \ {0}
      /\ \A k \in 1..Len(backlog') : backlog'[k] = backlog[k + 1]
      /\ Head(backlog) = backlog[1] /\ Head(backlog) \in Conns
  OBVIOUS
<1>2. \A k \in 1..Len(backlog') : k + 1 \in 1..Len(backlog) /\ k + 1 # 1
  BY <1>1
<1>3. \A j, k \in 1..Len(backlog') : backlog'[j] = backlog'[k] => j = k
  <2> SUFFICES ASSUME NEW j \in 1..Len(backlog'), NEW k \in 1..Len(backlog'), backlog'[j] = backlog'[k]
               PROVE  j = k
    OBVIOUS
  <2>1. j + 1 = k + 1
    BY <1>1, <1>2
  <2> QED
    BY <2>1
<1>4. 1 \in 1..Len(backlog)
  BY <1>1
<1> QED
  BY <1>1, <1>2, <1>3, <1>4 DEF Waits

-----------------------------------------------------------------------------
(* server_thread *)

\* Every step of main, of a thread and of the clients keeps the types.
LEMMA ThreadTypes ==
  ASSUME ThreadInv, Next
  PROVE  ServerTypeOK'
<1>0. ServerTypeOK /\ NetTypeOK /\ MainHolds /\ ServesItsClient
  BY DEF ThreadInv, ServerTypeOK
<1>t. /\ running \in BOOLEAN /\ open \in [Fds -> Conns \cup {NoConn}]
      /\ fd \in [Infos -> Fds \cup {NoFd}]
      /\ mpc \in {"accept", "find", "store", "create"} /\ cfd \in Fds \cup {NoFd} /\ i \in Infos
      /\ wpc \in [Conns -> {"none", "read", "write", "close", "done", "failed"}] /\ pInfo \in [Conns -> Infos]
  BY <1>0 DEF ServerTypeOK
<1>m. 0 \in Infos /\ (i # Max - 1 => i + 1 \in Infos)
  BY <1>t, ServerThreadAssumption DEF Infos
<1>1. CASE Clients(1) /\ UNCHANGED server
  BY <1>0, <1>1, NetTypes DEF ServerTypeOK, server
<1>2. CASE Accept
  <2>1. cfd' \in Free
    <3>1. Free \subseteq Nat /\ Free # {}
      BY <1>2, ServerThreadAssumption DEF Accept, Free
    <3>2. \E d \in Free : \A e \in Free : d <= e
      BY <3>1, LeastNat
    <3> QED
      BY <1>2, <3>2 DEF Accept
  <2>2. Head(backlog) \in Conns /\ backlog # <<>> /\ TakeConnection
    BY <1>0, <1>2 DEF Accept, NetTypeOK
  <2>3. open' \in [Fds -> Conns \cup {NoConn}] /\ cfd' \in Fds
    BY <1>2, <1>t, <2>1, <2>2 DEF Accept, Free
  <2>4. NetTypeOK'
    BY <1>0, <2>2, NetTypes
  <2> QED
    BY <1>2, <1>t, <1>m, <2>3, <2>4 DEF Accept, ServerTypeOK
<1>3. CASE AcceptFails
  BY <1>0, <1>3, <1>t, NetTypes DEF AcceptFails, ServerTypeOK
<1>4. CASE Find
  BY <1>0, <1>4, <1>t, <1>m, NetTypes DEF Find, ServerTypeOK
<1>5. CASE Store
  BY <1>0, <1>5, <1>t, NetTypes DEF Store, ServerTypeOK
<1>6. CASE Create \/ CreateFails
  <2>1. PICK l \in {"read", "failed"} : Start(l)
    BY <1>6 DEF Create, CreateFails
  <2>2. open[cfd] \in Conns
    BY <1>0, <2>1 DEF Start, MainHolds
  <2>3. NetTypeOK' /\ running' \in BOOLEAN
    BY <1>0, <1>6, <1>t, <2>1, NetTypes DEF Create, CreateFails, Start
  <2> QED
    BY <1>t, <2>1, <2>2, <2>3 DEF Start, ServerTypeOK
<1>7. ASSUME NEW c \in Conns, Worker(c) PROVE ServerTypeOK'
  <2>0. ASSUME Holds(c) PROVE open[Fd(c)] = c /\ Fd(c) \in Fds
    BY <1>0, <1>t, <2>0 DEF ServesItsClient, Fd
  <2>1. CASE WorkerRead(c)
    <3>1. TakePiece(c)
      BY <2>0, <2>1 DEF WorkerRead, Working, Holds
    <3> QED
      BY <1>0, <1>t, <2>1, <3>1, NetTypes DEF WorkerRead, Goto, ServerTypeOK
  <2>2. CASE WorkerReadsEnd(c)
    BY <1>0, <1>t, <2>2, NetTypes DEF WorkerReadsEnd, Goto, ServerTypeOK
  <2>3. CASE WorkerReadFails(c)
    BY <1>0, <1>t, <2>3, NetTypes DEF WorkerReadFails, ServerTypeOK
  <2>4. CASE WorkerWrite(c)
    <3>1. Answer(c)
      BY <2>0, <2>4 DEF WorkerWrite, Working, Holds
    <3> QED
      BY <1>0, <1>t, <2>4, <3>1, NetTypes DEF WorkerWrite, Goto, ServerTypeOK
  <2>5. CASE WorkerClose(c)
    BY <1>0, <1>t, <2>5, NetTypes DEF WorkerClose, Goto, ServerTypeOK
  <2> QED
    BY <1>7, <2>1, <2>2, <2>3, <2>4, <2>5 DEF Worker
<1> QED
  BY <1>1, <1>2, <1>3, <1>4, <1>5, <1>6, <1>7 DEF Next, Main

\* Each step of server_thread keeps connections, main and threads apart.
LEMMA ThreadStep ==
  ASSUME ThreadInv, Next
  PROVE  ConnectionsAreFresh' /\ MainHolds' /\ ServesItsClient' /\ DescriptorsAreOwned'
<1>0. ConnectionsAreFresh /\ MainHolds /\ ServesItsClient /\ DescriptorsAreOwned /\ NetTypeOK
  BY DEF ThreadInv, ServerTypeOK
<1>t. /\ open \in [Fds -> Conns \cup {NoConn}]
      /\ fd \in [Infos -> Fds \cup {NoFd}]
      /\ mpc \in {"accept", "find", "store", "create"} /\ cfd \in Fds \cup {NoFd} /\ i \in Infos
      /\ wpc \in [Conns -> {"none", "read", "write", "close", "done", "failed"}] /\ pInfo \in [Conns -> Infos]
      /\ backlog \in Seq(Conns) /\ cpc \in [Conns -> {"new", "write", "read", "closed"}]
      /\ NoFd \notin Fds /\ NoConn \notin Conns
  BY ServerThreadAssumption DEF ThreadInv, ServerTypeOK, NetTypeOK
<1>w. \A c \in Conns : Holds(c) => Fd(c) \in Fds /\ open[Fd(c)] = c /\ pInfo[c] \in Infos /\ fd[pInfo[c]] = Fd(c)
  BY <1>0, <1>t DEF ServesItsClient, Fd
<1>1. CASE Clients(1) /\ UNCHANGED server
  <2>1. UNCHANGED <<open, fd, mpc, cfd, i, wpc, pInfo>>
    BY <1>1 DEF server
  <2>2. MainHolds' /\ ServesItsClient' /\ DescriptorsAreOwned'
    BY <1>0, <2>1 DEF MainHolds, ServesItsClient, DescriptorsAreOwned, Working, Holds, Fd
  <2>3. ASSUME backlog' = backlog, \A c \in Conns : cpc[c] # "new" => cpc'[c] # "new"
        PROVE  ConnectionsAreFresh'
    <3>1. \A c \in Conns : Waits(c)' <=> Waits(c)
      BY <2>3 DEF Waits
    <3> QED
      BY <1>0, <2>1, <2>3, <3>1 DEF ConnectionsAreFresh
  <2>4. ASSUME NEW c \in Conns, cpc[c] = "new", cpc' = [cpc EXCEPT ![c] = "write"],
               backlog' = Append(backlog, c)
        PROVE  ConnectionsAreFresh'
    <3>1. /\ \A j, k \in 1..Len(backlog') : backlog'[j] = backlog'[k] => j = k
          /\ \A b \in Conns : Waits(b)' => b = c \/ Waits(b)
      BY <1>0, <1>t, <2>4, BacklogGrows DEF ConnectionsAreFresh
    <3> QED
      BY <1>0, <1>t, <2>1, <2>4, <3>1 DEF ConnectionsAreFresh
  <2> QED
    BY <1>0, <1>1, <2>2, <2>3, <2>4, ClientsStep
<1>2. ASSUME UNCHANGED <<backlog, cpc>>,
             \A c \in Conns : wpc'[c] = "none" <=> wpc[c] = "none",
             \A d \in Fds : open'[d] \in {open[d], NoConn}
      PROVE  ConnectionsAreFresh'
  BY <1>0, <1>2, <1>t DEF ConnectionsAreFresh, Waits
<1>3. CASE Accept
  <2>1. PICK d \in Free : cfd' = d /\ open' = [open EXCEPT ![d] = Head(backlog)]
    <3>1. Free \subseteq Nat /\ Free # {}
      BY <1>3, ServerThreadAssumption DEF Accept, Free
    <3>2. \E d \in Free : \A e \in Free : d <= e
      BY <3>1, LeastNat
    <3> QED
      BY <1>3, <3>2 DEF Accept
  <2>2. PICK c \in Conns : c = Head(backlog)
    BY <1>3, <1>t DEF Accept
  <2>3. /\ \A j, k \in 1..Len(backlog') : backlog'[j] = backlog'[k] => j = k
        /\ \A b \in Conns : Waits(b)' => Waits(b)
        /\ Waits(c) /\ ~Waits(c)'
    BY <1>0, <1>3, <1>t, <2>2, BacklogShrinks DEF ConnectionsAreFresh, Accept, TakeConnection
  <2>4. UNCHANGED <<fd, wpc, pInfo, cpc>> /\ mpc = "accept" /\ mpc' = "find"
    BY <1>3 DEF Accept, TakeConnection
  <2>5. d \in Fds /\ open[d] = NoConn /\ wpc[c] = "none" /\ \A e \in Fds : open[e] # c
    BY <1>0, <2>1, <2>3 DEF Free, ConnectionsAreFresh
  <2>6. open'[d] = c /\ \A e \in Fds \ {d} : open'[e] = open[e]
    BY <1>t, <2>1, <2>2, <2>5
  <2>7. ConnectionsAreFresh'
    BY <1>0, <1>t, <2>3, <2>4, <2>5, <2>6 DEF ConnectionsAreFresh
  <2>8. MainHolds'
    BY <2>1, <2>4, <2>5, <2>6 DEF MainHolds
  <2>9. ServesItsClient'
    BY <1>w, <1>t, <2>4, <2>5, <2>6 DEF ServesItsClient, Working, Holds, Fd
  <2>10. DescriptorsAreOwned'
    <3>1. ASSUME NEW e \in Fds, e # d PROVE
             open'[e] # NoConn <=> \/ mpc' \in {"find", "store", "create"} /\ cfd' = e
                                   \/ \E b \in Conns : Holds(b)' /\ Fd(b)' = e
      BY <1>0, <2>1, <2>4, <2>6, <3>1 DEF DescriptorsAreOwned, Working, Holds, Fd
    <3>2. open'[d] # NoConn /\ cfd' = d
      BY <1>t, <2>1, <2>6
    <3> QED
      BY <2>4, <3>1, <3>2 DEF DescriptorsAreOwned
  <2> QED
    BY <2>7, <2>8, <2>9, <2>10
<1>4. CASE AcceptFails
  BY <1>0, <1>4, <1>2
     DEF AcceptFails, net, MainHolds, ServesItsClient, DescriptorsAreOwned, Working, Holds, Fd
<1>5. CASE Find
  BY <1>0, <1>5, <1>2 DEF Find, net, MainHolds, ServesItsClient, DescriptorsAreOwned, Working, Holds, Fd
<1>6. CASE Store
  <2>1. UNCHANGED <<backlog, cpc, open, cfd, i, wpc, pInfo>> /\ fd[i] = NoFd /\ mpc = "store" /\ mpc' = "create"
        /\ fd' = [fd EXCEPT ![i] = cfd]
    BY <1>0, <1>6 DEF Store, net, MainHolds
  <2>2. ConnectionsAreFresh'
    BY <1>2, <2>1
  <2>3. MainHolds'
    BY <1>0, <1>t, <2>1 DEF MainHolds
  <2>4. ASSUME NEW c \in Conns, Holds(c) PROVE Fd(c)' = Fd(c)
    <3>1. pInfo[c] # i
      BY <1>t, <1>w, <2>1, <2>4
    <3> QED
      BY <1>t, <2>1, <3>1 DEF Fd
  <2>5. ServesItsClient' /\ DescriptorsAreOwned'
    BY <1>0, <2>1, <2>4 DEF ServesItsClient, DescriptorsAreOwned, Working, Holds
  <2> QED
    BY <2>2, <2>3, <2>5
<1>7. CASE Create \/ CreateFails
  <2>0. PICK l \in {"read", "failed"} : Start(l)
    BY <1>7 DEF Create, CreateFails
  <2>1. PICK c \in Conns : open[cfd] = c /\ wpc[c] = "none" /\ cfd \in Fds /\ fd[i] = cfd
    BY <1>0, <2>0 DEF Start, MainHolds
  <2>2. /\ UNCHANGED <<backlog, cpc, open, fd>> /\ mpc = "create" /\ mpc' = "accept" /\ cfd' = NoFd
        /\ wpc' = [wpc EXCEPT ![c] = l] /\ pInfo' = [pInfo EXCEPT ![c] = i]
    BY <2>0, <2>1 DEF Start, net
  <2>3. Holds(c)' /\ Fd(c)' = cfd /\ ~Holds(c)
    BY <1>t, <2>1, <2>2 DEF Working, Holds, Fd
  <2>4. \A b \in Conns \ {c} : (Holds(b)' <=> Holds(b)) /\ Fd(b)' = Fd(b)
    BY <1>t, <2>2 DEF Working, Holds, Fd
  <2>5. ConnectionsAreFresh'
    <3>1. ~Waits(c) /\ cpc[c] # "new"
      BY <1>0, <2>1 DEF ConnectionsAreFresh
    <3> QED
      BY <1>0, <1>t, <2>2, <3>1 DEF ConnectionsAreFresh, Waits
  <2>6. MainHolds'
    BY <2>2 DEF MainHolds
  <2>7. ServesItsClient'
    <3>1. cfd # NoFd
      BY <1>t, <2>1
    <3>2. ASSUME NEW b \in Conns, Holds(b)' PROVE Fd(b)' # NoFd /\ open'[Fd(b)'] = b
      <4>1. CASE b = c
        BY <2>1, <2>2, <2>3, <3>1, <4>1
      <4>2. CASE b # c
        BY <1>0, <2>2, <2>4, <3>2, <4>2 DEF ServesItsClient
      <4> QED
        BY <4>1, <4>2
    <3> QED
      BY <3>2 DEF ServesItsClient
  <2>8. DescriptorsAreOwned'
    <3>1. ASSUME NEW d \in Fds PROVE open'[d] # NoConn <=> \E b \in Conns : Holds(b)' /\ Fd(b)' = d
      <4>1. open[d] # NoConn <=> cfd = d \/ \E b \in Conns : Holds(b) /\ Fd(b) = d
        BY <1>0, <2>2 DEF DescriptorsAreOwned
      <4>2. (\E b \in Conns : Holds(b)' /\ Fd(b)' = d) <=> cfd = d \/ \E b \in Conns : Holds(b) /\ Fd(b) = d
        BY <2>3, <2>4
      <4> QED
        BY <2>2, <4>1, <4>2
    <3> QED
      BY <2>2, <3>1 DEF DescriptorsAreOwned
  <2> QED
    BY <2>5, <2>6, <2>7, <2>8
<1>8. ASSUME NEW c \in Conns, WorkerRead(c) \/ WorkerReadsEnd(c) \/ WorkerReadFails(c) \/ WorkerWrite(c)
      PROVE  ConnectionsAreFresh' /\ MainHolds' /\ ServesItsClient' /\ DescriptorsAreOwned'
  <2>1. UNCHANGED <<backlog, cpc, open, fd, mpc, cfd, i, pInfo>>
    BY <1>8 DEF WorkerRead, WorkerReadsEnd, WorkerReadFails, WorkerWrite, TakePiece, Answer, net
  <2>2. /\ \A b \in Conns : wpc'[b] = "none" <=> wpc[b] = "none"
        /\ \A b \in Conns : Holds(b)' <=> Holds(b)
    BY <1>8, <1>t DEF WorkerRead, WorkerReadsEnd, WorkerReadFails, WorkerWrite, Goto, Working, Holds
  <2>3. ConnectionsAreFresh'
    BY <1>2, <2>1, <2>2
  <2>4. MainHolds'
    BY <1>0, <2>1, <2>2 DEF MainHolds
  <2>5. ServesItsClient' /\ DescriptorsAreOwned'
    BY <1>0, <2>1, <2>2 DEF ServesItsClient, DescriptorsAreOwned, Fd
  <2> QED
    BY <2>3, <2>4, <2>5
<1>9. ASSUME NEW c \in Conns, WorkerClose(c)
      PROVE  ConnectionsAreFresh' /\ MainHolds' /\ ServesItsClient' /\ DescriptorsAreOwned'
  <2>1. PICK d \in Fds : d = Fd(c) /\ open[d] = c /\ open' = [open EXCEPT ![d] = NoConn]
    BY <1>9, <1>w DEF WorkerClose, Working, Holds
  <2>2. UNCHANGED <<backlog, cpc, fd, mpc, cfd, i, pInfo>> /\ wpc[c] = "close" /\ wpc' = [wpc EXCEPT ![c] = "done"]
    BY <1>9 DEF WorkerClose, Goto, net
  <2>3. ~Holds(c)' /\ \A b \in Conns \ {c} : wpc'[b] = wpc[b] /\ (Holds(b)' <=> Holds(b))
    BY <1>t, <2>2 DEF Working, Holds
  <2>4. open'[d] = NoConn /\ \A e \in Fds \ {d} : open'[e] = open[e]
    BY <1>t, <2>1
  <2>5. ConnectionsAreFresh'
    <3>1. \A b \in Conns : wpc'[b] = "none" <=> wpc[b] = "none"
      BY <1>t, <2>2
    <3> QED
      BY <1>2, <2>1, <2>2, <2>4, <3>1
  <2>6. MainHolds'
    <3>1. mpc # "accept" => cfd # d /\ open[cfd] # c
      BY <1>0, <2>1, <2>2 DEF MainHolds
    <3> QED
      BY <1>0, <2>2, <2>3, <2>4, <3>1 DEF MainHolds
  <2>7. \A b \in Conns \ {c} : Holds(b) => Fd(b) # d
    BY <1>w, <2>1
  <2>8. ServesItsClient'
    BY <1>0, <1>w, <2>2, <2>3, <2>4, <2>7 DEF ServesItsClient, Fd
  <2>9. DescriptorsAreOwned'
    <3>1. ASSUME NEW e \in Fds PROVE
            open'[e] # NoConn <=> \/ mpc' \in {"find", "store", "create"} /\ cfd' = e
                                  \/ \E b \in Conns : Holds(b)' /\ Fd(b)' = e
      <4>1. CASE e = d
        <5>1. ~(mpc \in {"find", "store", "create"} /\ cfd = d)
          BY <1>0, <2>1, <2>2 DEF MainHolds
        <5> QED
          BY <2>2, <2>3, <2>4, <2>7, <4>1, <5>1 DEF Fd
      <4>2. CASE e # d
        BY <1>0, <2>1, <2>2, <2>3, <2>4, <4>2 DEF DescriptorsAreOwned, Fd
      <4> QED
        BY <4>1, <4>2
    <3> QED
      BY <3>1 DEF DescriptorsAreOwned
  <2> QED
    BY <2>5, <2>6, <2>8, <2>9
<1> QED
  BY <1>1, <1>3, <1>4, <1>5, <1>6, <1>7, <1>8, <1>9 DEF Next, Main, Worker

\* Only store changes an element, one that is free, and only pthread_create gives one away.
LEMMA ElementsStep ==
  ASSUME ThreadInv, Next
  PROVE  ElementsAreKept'
<1>0. ElementsAreKept /\ MainHolds
  BY DEF ThreadInv
<1>t. /\ fd \in [Infos -> Fds \cup {NoFd}] /\ i \in Infos /\ NoFd \notin Fds
      /\ wpc \in [Conns -> {"none", "read", "write", "close", "done", "failed"}] /\ pInfo \in [Conns -> Infos]
  BY ServerThreadAssumption DEF ThreadInv, ServerTypeOK
<1>1. ASSUME UNCHANGED <<fd, pInfo>>, \A c \in Conns : wpc'[c] # "none" => wpc[c] # "none",
             mpc' = "create" => UNCHANGED <<mpc, i>>
      PROVE  ElementsAreKept'
  BY <1>0, <1>1 DEF ElementsAreKept
<1>2. CASE (Clients(1) /\ UNCHANGED server) \/ AcceptFails
  BY <1>1, <1>2 DEF server, AcceptFails
<1>3. CASE Accept \/ Find
  BY <1>0, <1>1, <1>3 DEF Accept, Find, MainHolds
<1>4. CASE Store
  <2>1. fd[i] = NoFd /\ cfd \in Fds /\ fd' = [fd EXCEPT ![i] = cfd] /\ UNCHANGED <<i, wpc, pInfo>>
    BY <1>0, <1>4 DEF Store, MainHolds
  <2>2. \A c \in Conns : wpc[c] # "none" => pInfo[c] # i /\ fd'[pInfo[c]] = fd[pInfo[c]]
    BY <1>0, <1>t, <2>1 DEF ElementsAreKept
  <2> QED
    BY <1>0, <2>1, <2>2 DEF ElementsAreKept
<1>5. CASE Create \/ CreateFails
  <2>0. PICK l \in {"read", "failed"} : Start(l)
    BY <1>5 DEF Create, CreateFails
  <2>1. PICK c \in Conns : open[cfd] = c /\ fd[i] = cfd /\ cfd \in Fds
    BY <1>0, <2>0 DEF Start, MainHolds
  <2>2. /\ mpc = "create" /\ mpc' = "accept" /\ UNCHANGED <<fd, i>>
        /\ wpc' = [wpc EXCEPT ![c] = l] /\ pInfo' = [pInfo EXCEPT ![c] = i]
    BY <2>0, <2>1 DEF Start
  <2>3. pInfo'[c] = i /\ \A b \in Conns \ {c} : wpc'[b] = wpc[b] /\ pInfo'[b] = pInfo[b]
    BY <1>t, <2>2
  <2>4. \A b \in Conns \ {c} : wpc'[b] # "none" => pInfo'[b] # i
    BY <1>0, <2>2, <2>3 DEF ElementsAreKept
  <2> QED
    BY <1>0, <1>t, <2>1, <2>2, <2>3, <2>4 DEF ElementsAreKept
<1>6. ASSUME NEW c \in Conns, Worker(c) PROVE ElementsAreKept'
  <2>1. UNCHANGED <<fd, pInfo, mpc, i>>
    BY <1>6 DEF Worker, WorkerRead, WorkerReadsEnd, WorkerReadFails, WorkerWrite, WorkerClose
  <2>2. wpc[c] # "none" /\ \A b \in Conns \ {c} : wpc'[b] = wpc[b]
    BY <1>6, <1>t DEF Worker, WorkerRead, WorkerReadsEnd, WorkerReadFails, WorkerWrite, WorkerClose, Goto
  <2> QED
    BY <1>1, <2>1, <2>2
<1> QED
  BY <1>2, <1>3, <1>4, <1>5, <1>6 DEF Next, Main

\* What was given to threads are different elements, so the threads ever started are at most Max.
LEMMA ThreadsAreLimited ==
  ASSUME ServerTypeOK, ElementsAreKept
  PROVE  Cardinality({c \in Conns : wpc[c] # "none"}) <= Max
<1> DEFINE Started == {c \in Conns : wpc[c] # "none"}
           element == [c \in Started |-> pInfo[c]]
<1>1. element \in Injection(Started, Infos)
  BY DEF ServerTypeOK, ElementsAreKept, Injection, IsInjective
<1>2. IsFiniteSet(Infos) /\ Cardinality(Infos) = Max
  BY FS_Interval, ServerThreadAssumption DEF Infos
<1> QED
  BY <1>1, <1>2, FS_Injection

-----------------------------------------------------------------------------
(* server_process *)

\* Every step of the parent and its children keeps the types.
LEMMA ProcessTypes ==
  ASSUME Process!ServerTypeOK, Process!Next
  PROVE  Process!ServerTypeOK'
<1>0. NetTypeOK
  BY DEF Process!ServerTypeOK, Process!NetTypeOK, NetTypeOK
<1>t. /\ ppc \in {"loop", "accepting", "fork", "exited"}
      /\ new \subseteq Conns /\ held \subseteq Conns
      /\ sigPending \in BOOLEAN /\ inHandler \in BOOLEAN /\ interrupted \in BOOLEAN
      /\ kpc \in [Conns -> {"none", "read", "write", "exit", "zombie", "reaped"}]
  BY DEF Process!ServerTypeOK
<1> DEFINE Typed == /\ ppc' \in {"loop", "accepting", "fork", "exited"}
                    /\ new' \subseteq Conns /\ held' \subseteq Conns
                    /\ sigPending' \in BOOLEAN /\ inHandler' \in BOOLEAN /\ interrupted' \in BOOLEAN
                    /\ kpc' \in [Conns -> {"none", "read", "write", "exit", "zombie", "reaped"}]
<1> SUFFICES NetTypeOK' /\ Typed
  BY DEF Process!ServerTypeOK, Process!NetTypeOK, NetTypeOK
<1>1. NetTypeOK'
  <2>1. CASE Process!Clients(1)
    <3>1. Clients(1)
      BY <2>1 DEF Process!Clients, Process!ClientConnects, Process!ClientReads, Process!ClientDies,
                  Process!ClientWrites, Clients, ClientConnects, ClientReads, ClientDies, ClientWrites
    <3> QED
      BY <1>0, <3>1, NetTypes
  <2>2. CASE Process!Accept
    BY <1>0, <2>2, NetTypes DEF Process!Accept, Process!TakeConnection, TakeConnection
  <2>3. CASE Process!Parent /\ ~Process!Accept
    BY <1>0, <2>3, NetTypes
       DEF Process!Parent, Process!EnterAccept, Process!AcceptFails, Process!Fork, Process!ForkFails,
           Process!HandlerStarts, Process!HandlerReaps, Process!HandlerEnds, Process!net, net
  <2>4. ASSUME NEW c \in Conns, Process!Child(c) PROVE NetTypeOK'
    BY <1>0, <2>4, NetTypes
       DEF Process!Child, Process!ChildRead, Process!ChildWrite, Process!ChildReadsEnd, Process!ChildExits,
           Process!TakePiece, TakePiece, Process!Answer, Answer, Process!net, net
  <2> QED
    BY <2>1, <2>2, <2>3, <2>4 DEF Process!Next
<1>2. ASSUME UNCHANGED Process!server PROVE Typed
  BY <1>t, <1>2 DEF Process!server, Process!parent
<1>3. ASSUME Process!EnterAccept \/ Process!AcceptFails \/ Process!ForkFails PROVE Typed
  BY <1>t, <1>3 DEF Process!EnterAccept, Process!AcceptFails, Process!ForkFails
<1>4. ASSUME Process!Accept PROVE Typed
  <2>1. Head(backlog) \in Conns
    BY <1>0, <1>4 DEF Process!Accept, NetTypeOK
  <2> QED
    BY <1>t, <1>4, <2>1 DEF Process!Accept
<1>5. ASSUME Process!Fork PROVE Typed
  BY <1>t, <1>5 DEF Process!Fork
<1>6. ASSUME Process!HandlerStarts PROVE Typed
  BY <1>t, <1>6 DEF Process!HandlerStarts
<1>7. ASSUME Process!HandlerReaps PROVE Typed
  BY <1>t, <1>7 DEF Process!HandlerReaps
<1>8. ASSUME Process!HandlerEnds PROVE Typed
  BY <1>t, <1>8 DEF Process!HandlerEnds
<1>9. ASSUME NEW c \in Conns, Process!Child(c) PROVE Typed
  BY <1>t, <1>9
     DEF Process!Child, Process!ChildRead, Process!ChildWrite, Process!ChildReadsEnd, Process!ChildExits,
         Process!Goto, Process!parent
<1> QED
  BY <1>1, <1>2, <1>3, <1>4, <1>5, <1>6, <1>7, <1>8, <1>9 DEF Process!Next, Process!Parent

\* A child that dies raises SIGCHLD, and the handler ends only where no zombie is left.
LEMMA ZombieStep ==
  ASSUME Process!ServerTypeOK, Process!NoZombieForgotten, Process!Next
  PROVE  Process!NoZombieForgotten'
<1>t. kpc \in [Conns -> {"none", "read", "write", "exit", "zombie", "reaped"}]
  BY DEF Process!ServerTypeOK
<1> USE DEF Process!NoZombieForgotten, Process!Zombies
<1>1. CASE UNCHANGED Process!server
  BY <1>1 DEF Process!server, Process!parent
<1>2. CASE Process!EnterAccept \/ Process!AcceptFails \/ Process!ForkFails \/ Process!Accept
  BY <1>2 DEF Process!EnterAccept, Process!AcceptFails, Process!ForkFails, Process!Accept
<1>3. CASE Process!Fork
  BY <1>3, <1>t DEF Process!Fork
<1>4. CASE Process!HandlerStarts \/ Process!HandlerReaps \/ Process!HandlerEnds
  BY <1>4, <1>t DEF Process!HandlerStarts, Process!HandlerReaps, Process!HandlerEnds
<1>5. ASSUME NEW c \in Conns, Process!Child(c) PROVE Process!NoZombieForgotten'
  BY <1>5, <1>t
     DEF Process!Child, Process!ChildRead, Process!ChildWrite, Process!ChildReadsEnd, Process!ChildExits,
         Process!Goto, Process!parent
<1> QED
  BY <1>1, <1>2, <1>3, <1>4, <1>5 DEF Process!Next, Process!Parent

\* Only accept takes a descriptor, where one is left, and nothing gives one back.
LEMMA ConnectionsStep ==
  ASSUME Process!ServerTypeOK, ConnectionsAreKept, Process!Next
  PROVE  ConnectionsAreKept'
<1>t. kpc \in [Conns -> {"none", "read", "write", "exit", "zombie", "reaped"}]
  BY DEF Process!ServerTypeOK
<1>1. ASSUME UNCHANGED <<held, new>>, \A c \in Conns : kpc'[c] # "none" => kpc[c] # "none"
      PROVE  ConnectionsAreKept'
  BY <1>1 DEF ConnectionsAreKept
<1>2. CASE Process!Clients(1) /\ UNCHANGED Process!server
  BY <1>1, <1>2 DEF Process!server, Process!parent
<1>3. CASE Process!EnterAccept \/ Process!AcceptFails \/ Process!ForkFails \/ Process!HandlerStarts
  BY <1>1, <1>3 DEF Process!EnterAccept, Process!AcceptFails, Process!ForkFails, Process!HandlerStarts
<1>4. CASE Process!HandlerReaps \/ Process!HandlerEnds
  BY <1>1, <1>4, <1>t DEF Process!HandlerReaps, Process!HandlerEnds, Process!Zombies
<1>5. CASE Process!Accept
  <2>1. new' = {Head(backlog)} /\ held' = held \cup new' /\ kpc' = kpc /\ Cardinality(held) < MaxFds
    BY <1>5, Zenon DEF Process!Accept, Process!Cardinality, Cardinality
  <2>2. IsFiniteSet(held') /\ Cardinality(held') <= Cardinality(held) + 1 /\ Cardinality(held) \in Nat
    BY <2>1, FS_AddElement, FS_CardinalityType DEF ConnectionsAreKept
  <2>3. IsFiniteSet(held') /\ Cardinality(held') \in Nat
    BY <2>2, FS_CardinalityType
  <2> QED
    BY <2>1, <2>2, <2>3, ServersAssumption DEF ConnectionsAreKept
<1>6. CASE Process!Fork
  BY <1>6, <1>t DEF Process!Fork, ConnectionsAreKept
<1>7. ASSUME NEW c \in Conns, Process!Child(c) PROVE ConnectionsAreKept'
  <2>1. UNCHANGED <<held, new>>
    BY <1>7 DEF Process!Child, Process!ChildRead, Process!ChildWrite, Process!ChildReadsEnd, Process!ChildExits, Process!parent
  <2>2. kpc[c] # "none" /\ \A b \in Conns \ {c} : kpc'[b] = kpc[b]
    BY <1>7, <1>t DEF Process!Child, Process!ChildRead, Process!ChildWrite, Process!ChildReadsEnd, Process!ChildExits, Process!Goto
  <2> QED
    BY <1>1, <2>1, <2>2
<1> QED
  BY <1>2, <1>3, <1>4, <1>5, <1>6, <1>7 DEF Process!Next, Process!Parent

-----------------------------------------------------------------------------
(* The servers side by side *)

SInv ==
  /\ ServerTypeOK /\ Process!ServerTypeOK
  /\ program \in {"server_thread", "server_process"}
  /\ Running("server_thread") => ThreadInv
  /\ Running("server_process") => Process!NoZombieForgotten /\ ConnectionsAreKept

\* Both servers start with no connection.
LEMMA SInvInit == MCInit => SInv
<1> SUFFICES ASSUME MCInit PROVE SInv
  OBVIOUS
<1>1. Init /\ Process!Init /\ program \in {"server_thread", "server_process"}
  BY DEF MCInit
<1>2. NetTypeOK
  BY <1>1, ClientsAssumption DEF Init, NetInit, NetTypeOK
<1>3. ServerTypeOK
  BY <1>1, <1>2, ServerThreadAssumption DEF Init, ServerTypeOK, Infos
<1>4. Process!ServerTypeOK
  BY <1>1, <1>2 DEF Process!Init, Process!ServerTypeOK, Process!NetTypeOK, NetTypeOK
<1>5. ConnectionsAreFresh
  BY <1>1, ServerThreadAssumption DEF Init, NetInit, ConnectionsAreFresh, Waits
<1>6. MainHolds /\ ServesItsClient /\ DescriptorsAreOwned
  BY <1>1 DEF Init, MainHolds, ServesItsClient, DescriptorsAreOwned, Working, Holds
<1>7. Process!NoZombieForgotten
  BY <1>1 DEF Process!Init, Process!NoZombieForgotten, Process!Zombies
<1>8. ElementsAreKept
  BY <1>1 DEF Init, ElementsAreKept
<1>9. ConnectionsAreKept
  BY <1>1, FS_EmptySet, ServersAssumption DEF Process!Init, ConnectionsAreKept
<1> QED
  BY <1>1, <1>3, <1>4, <1>5, <1>6, <1>7, <1>8, <1>9 DEF SInv, ThreadInv

\* Every step of the server that runs keeps the invariant; the other one does not move.
LEMMA SInvStep == SInv /\ [MCNext]_allvars => SInv'
<1> SUFFICES ASSUME SInv, [MCNext]_allvars PROVE SInv'
  OBVIOUS
<1>1. CASE Running("server_thread") /\ Next /\ UNCHANGED <<processServer, program>>
  <2>1. ThreadInv'
    BY <1>1, ThreadTypes, ThreadStep, ElementsStep DEF SInv, ThreadInv
  <2>2. Process!ServerTypeOK'
    BY <1>1, <2>1 DEF SInv, ThreadInv, ServerTypeOK, Process!ServerTypeOK, Process!NetTypeOK, NetTypeOK, processServer
  <2> QED
    BY <1>1, <2>1, <2>2 DEF SInv, ThreadInv, Running
<1>2. CASE Running("server_process") /\ Process!Next /\ UNCHANGED <<server, program>>
  <2>1. Process!ServerTypeOK' /\ Process!NoZombieForgotten' /\ ConnectionsAreKept'
    BY <1>2, ProcessTypes, ZombieStep, ConnectionsStep DEF SInv
  <2>2. ServerTypeOK'
    <3>1. NetTypeOK'
      BY <2>1 DEF Process!ServerTypeOK, Process!NetTypeOK, NetTypeOK
    <3> QED
      BY <1>2, <3>1 DEF SInv, ServerTypeOK, server
  <2> QED
    BY <1>2, <2>1, <2>2 DEF SInv, Running
<1>3. CASE UNCHANGED allvars
  <2>1. UNCHANGED <<net, server, processServer, program>>
    BY <1>3 DEF allvars, vars
  <2>2. ServerTypeOK' /\ Process!ServerTypeOK'
    BY <2>1 DEF SInv, ServerTypeOK, Process!ServerTypeOK, Process!NetTypeOK, NetTypeOK, net, server, processServer
  <2>3. Running("server_thread") => ThreadInv'
    <3>1. ThreadInv => ConnectionsAreFresh' /\ MainHolds'
      BY <2>1 DEF ThreadInv, ConnectionsAreFresh, Waits, MainHolds, net, server
    <3>2. ThreadInv => ServesItsClient' /\ DescriptorsAreOwned'
      BY <2>1 DEF ThreadInv, ServesItsClient, DescriptorsAreOwned, Working, Holds, Fd, net, server
    <3>3. ThreadInv => ElementsAreKept'
      BY <2>1 DEF ThreadInv, ElementsAreKept, server
    <3> QED
      BY <2>2, <3>1, <3>2, <3>3 DEF SInv, ThreadInv
  <2>4. Running("server_process") => Process!NoZombieForgotten' /\ ConnectionsAreKept'
    BY <2>1 DEF SInv, Process!NoZombieForgotten, Process!Zombies, ConnectionsAreKept, processServer
  <2> QED
    BY <2>1, <2>2, <2>3, <2>4 DEF SInv, Running
<1> QED
  BY <1>1, <1>2, <1>3 DEF MCNext

\* The invariant holds of every behaviour.
THEOREM ServersInvariant == MCSpec => []SInv
BY SInvInit, SInvStep, PTL DEF MCSpec

\* Every thread of server_thread talks to the client it was started for, however descriptors
\* and elements of sockInfos are reused, and main and the threads neither leak a descriptor nor
\* use a closed one.
THEOREM ThreadsServeTheirClients == MCSpec => []ThreadServesItsClient
<1>1. SInv => ThreadServesItsClient
  BY DEF SInv, ThreadInv, ThreadServesItsClient
<1> QED
  BY <1>1, ServersInvariant, PTL

\* Although SIGCHLDs merge, a dead child of server_process is followed by a run of the handler.
THEOREM NoZombieIsForgotten == MCSpec => []ProcessForgetsNoZombie
<1>1. SInv => ProcessForgetsNoZombie
  BY DEF SInv, ProcessForgetsNoZombie
<1> QED
  BY <1>1, ServersInvariant, PTL

\* server_thread starts at most Max threads and server_process at most MaxFds children in its
\* whole life, for any number of clients, because neither gives back what a client took.
THEOREM ClientsPerLife == MCSpec => []ClientsPerLifeAreLimited
<1>1. SInv => ClientsPerLifeAreLimited
  <2>1. ASSUME SInv, Running("server_thread") PROVE ClientsPerLifeAreLimited
    BY <2>1, ThreadsAreLimited DEF SInv, ThreadInv, ClientsPerLifeAreLimited, Begun
  <2>2. ASSUME SInv, ~Running("server_thread") PROVE ClientsPerLifeAreLimited
    <3>1. ConnectionsAreKept /\ Begun \subseteq held
      BY <2>2 DEF SInv, Running, ConnectionsAreKept, Begun
    <3>2. /\ IsFiniteSet(held) /\ IsFiniteSet(Begun) /\ Cardinality(Begun) <= Cardinality(held)
          /\ Cardinality(held) <= MaxFds
      BY <3>1, FS_Subset DEF ConnectionsAreKept
    <3>3. Cardinality(held) \in Nat /\ Cardinality(Begun) \in Nat
      BY <3>2, FS_CardinalityType
    <3> QED
      BY <2>2, <3>2, <3>3, ServersAssumption DEF ClientsPerLifeAreLimited
  <2> QED
    BY <2>1, <2>2
<1> QED
  BY <1>1, ServersInvariant, PTL
=============================================================================
