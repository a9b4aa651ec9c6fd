------------------------- MODULE MultiplexingProofs -------------------------
(***************************************************************************)
(* Proofs about the single-threaded servers on select, poll and epoll, for *)
(* any clients and any number of descriptors and messages.                 *)
(***************************************************************************)
EXTENDS MC_Multiplexing, FiniteSetTheorems, WellFoundedInduction, TLAPS

Waits(c) == \E k \in 1..Len(backlog) : backlog[k] = c

\* A connection waits for accept once, and is then behind one descriptor.
ConnectionsAreFresh ==
  /\ \A j, k \in 1..Len(backlog) : backlog[j] = backlog[k] => j = k
  /\ \A c \in Conns : Waits(c) => cpc[c] # "new" /\ \A d \in Fds : open[d] # c
  /\ \A c \in Conns : cpc[c] = "new" => \A d \in Fds : open[d] # c
  /\ \A d, e \in OpenFds : open[d] = open[e] => d = e

\* The clients and the kernel.
KernelInv ==
  /\ NetTypeOK
  /\ open \in [Fds -> Conns \cup {NoConn}]
  /\ ConnectionsAreFresh

\* select.c: where the loop is, and what it still has to look at.
SelectInv ==
  /\ readsset = OpenFds \cup {Lfd} /\ \A d \in OpenFds : d <= maxfd
  /\ (\A d \in temp : Readable(d)) /\ (pc = "read" => Readable(i))
  /\ pc = "accept" => Lfd \in temp
  /\ pc \in {"scan", "read", "write"} => Lfd \notin temp
  /\ pc \in {"read", "write"} => i \in OpenFds \ temp

\* poll.c: each element is for one descriptor, and holds it just while it is open.
PollInv ==
  /\ \A k \in Poll!Slots : fds[k] = IF Lfd + k \in OpenFds THEN Lfd + k ELSE NoFd
  /\ pc \in {"read", "write"} => i \in Poll!Slots
  /\ pc = "write" => fds[i] # NoFd

\* epoll_LT.c and epoll_ET.c: what has been reported is open, and is not what is served now.
EpollInv ==
  /\ pc # "accept"
  /\ pc = "wait" => epevs = {}
  /\ epevs \subseteq OpenFds \cup {Lfd}
  /\ pc \in {"read", "write"} => i \in OpenFds \ epevs
  /\ ~edge => (\A d \in epevs : Readable(d)) /\ (pc = "read" => Readable(i))
  /\ edge => \A d \in OpenFds :
               input[open[d]] > 0 => d \in rdlist \cup epevs \/ (pc \in {"read", "write"} /\ i = d)

MInv ==
  /\ program \in {"select", "poll", "epoll"}
  /\ LoopsTypeOK /\ KernelInv
  /\ Running("select") => SelectInv
  /\ Running("poll") => PollInv
  /\ Running("epoll") => EpollInv

-----------------------------------------------------------------------------
(* The kernel and the clients *)

\* The descriptors, as the assumptions describe them.
LEMMA Descriptors ==
  /\ Lfd \in Nat /\ Fds \subseteq Nat /\ Lfd \notin Fds /\ (\A d \in Fds : d > Lfd)
  /\ NoConn \notin Conns /\ NoFd \notin Fds
BY DescriptorsAssumption, MultiplexingAssumption

\* Of any descriptors one is the lowest.
LEMMA LeastNat ==
  ASSUME NEW S \in SUBSET Nat, S # {}
  PROVE  \E m \in S : \A n \in S : m <= n
<1> DEFINE T == {0..n : n \in S}
<1>1. T \subseteq FiniteSubsetsOf(Nat) /\ T # {}
  <2>1. \A n \in S : 0..n \in SUBSET Nat /\ IsFiniteSet(0..n)
    BY FS_Interval
  <2> QED
    BY <2>1 DEF FiniteSubsetsOf
<1>2. IsWellFoundedOn(StrictSubsetOrdering(Nat), FiniteSubsetsOf(Nat))
  BY FS_StrictSubsetOrderingWellFounded
<1>3. PICK x \in T : \A y \in T : ~(<<y, x>> \in StrictSubsetOrdering(Nat))
  <2> HIDE DEF T
  <2> QED
    BY <1>1, <1>2, WFMin
<1>4. PICK m \in S : x = 0..m
  BY DEF T
<1>5. ASSUME NEW n \in S, n < m PROVE FALSE
  <2>1. m \in 0..m /\ m \notin 0..n /\ 0..n \subseteq 0..m
    BY <1>5
  <2>2. <<0..n, 0..m>> \in StrictSubsetOrdering(Nat)
    BY <2>1 DEF StrictSubsetOrdering
  <2> QED
    BY <1>3, <1>4, <2>2
<1> QED
  BY <1>5

\* What Least denotes.
LEMMA LeastIsLeast ==
  ASSUME NEW S \in SUBSET Nat, S # {}
  PROVE  Least(S) \in S /\ \A n \in S : Least(S) <= n
BY LeastNat DEF Least

\* Who waits when the backlog grows, and when it shrinks.
LEMMA BacklogGrows ==
  ASSUME backlog \in Seq(Conns), NEW c \in Conns, ~Waits(c), backlog' = Append(backlog, c),
         \A j, k \in 1..Len(backlog) : backlog[j] = backlog[k] => j = k
  PROVE  /\ \A j, k \in 1..Len(backlog') : backlog'[j] = backlog'[k] => j = k
         /\ \A b \in Conns : Waits(b)' => b = c \/ Waits(b)
<1>1. /\ Len(backlog') = Len(backlog) + 1 /\ Len(backlog) \in Nat
      /\ \A k \in 1..Len(backlog') : backlog'[k] = IF k = Len(backlog) + 1 THEN c ELSE backlog[k]
  OBVIOUS
<1>2. \A k \in 1..Len(backlog') : k = Len(backlog) + 1 \/ k \in 1..Len(backlog)
  BY <1>1
<1> QED
  BY <1>1, <1>2 DEF Waits

\* The first connection of the backlog is accepted, and waits no more.
LEMMA BacklogShrinks ==
  ASSUME backlog \in Seq(Conns), backlog # <<>>, backlog' = Tail(backlog),
         \A j, k \in 1..Len(backlog) : backlog[j] = backlog[k] => j = k
  PROVE  /\ \A j, k \in 1..Len(backlog') : backlog'[j] = backlog'[k] => j = k
         /\ \A b \in Conns : Waits(b)' => Waits(b)
         /\ \A b : b = Head(backlog) => b \in Conns /\ Waits(b) /\ ~Waits(b)'
<1>1. /\ Len(backlog') = Len(backlog) - 1 /\ Len(backlog) \in Nat \ {0}
      /\ \A k \in 1..Len(backlog') : backlog'[k] = backlog[k + 1]
      /\ Head(backlog) = backlog[1] /\ Head(backlog) \in Conns
  OBVIOUS
<1>2. \A k \in 1..Len(backlog') : k + 1 \in 1..Len(backlog) /\ k + 1 # 1
  BY <1>1
<1>3. \A j, k \in 1..Len(backlog') : backlog'[j] = backlog'[k] => j = k
  <2> SUFFICES ASSUME NEW j \in 1..Len(backlog'), NEW k \in 1..Len(backlog'), backlog'[j] = backlog'[k]
               PROVE  j = k
    OBVIOUS
  <2>1. j + 1 = k + 1
    BY <1>1, <1>2
  <2> QED
    BY <2>1
<1>4. 1 \in 1..Len(backlog)
  BY <1>1
<1> QED
  BY <1>1, <1>2, <1>3, <1>4 DEF Waits

\* The clients, and what a server does on a connection, keep the types.
LEMMA NetTypes ==
  ASSUME NetTypeOK,
         \/ \E n \in {1, 2} : Clients(n)
         \/ UNCHANGED net
         \/ \E c \in Conns : TakePiece(c) \/ Answer(c)
         \/ backlog # <<>> /\ TakeConnection
  PROVE  NetTypeOK'
<1> USE DEF NetTypeOK
<1>1. ASSUME NEW c \in Conns, ClientConnects(c) PROVE NetTypeOK'
  BY <1>1 DEF ClientConnects
<1>2. ASSUME NEW c \in Conns, ClientReads(c) PROVE NetTypeOK'
  BY <1>2 DEF ClientReads
<1>3. ASSUME NEW c \in Conns, NEW n \in Nat, ClientWrites(c, n) PROVE NetTypeOK'
  <2>1. input' \in [Conns -> Nat] /\ sends' \in Nat /\ UNCHANGED <<backlog, reply, peer>>
    BY <1>3 DEF ClientWrites
  <2>2. cpc' \in [Conns -> {"new", "write", "read", "closed"}]
    BY <1>3 DEF ClientWrites
  <2> QED
    BY <2>1, <2>2
<1>4. ASSUME NEW c \in Conns, ClientDies(c) PROVE NetTypeOK'
  BY <1>4 DEF ClientDies
<1>5. ASSUME NEW c \in Conns, TakePiece(c) PROVE NetTypeOK'
  BY <1>5 DEF TakePiece
<1>6. ASSUME NEW c \in Conns, Answer(c) PROVE NetTypeOK'
  <2>1. PICK state \in {"up", "fin", "rst", "broken"} : peer' = [peer EXCEPT ![c] = state]
    BY <1>6 DEF Answer
  <2>2. reply' \in [Conns -> BOOLEAN] /\ UNCHANGED <<backlog, cpc, input, sends>>
    BY <1>6 DEF Answer
  <2> QED
    BY <2>1, <2>2
<1>7. CASE backlog # <<>> /\ TakeConnection
  BY <1>7 DEF TakeConnection
<1>8. CASE UNCHANGED net
  BY <1>8 DEF net
<1>9. \A n \in {1, 2} : 1..n \subseteq Nat
  OBVIOUS
<1> QED
  BY <1>1, <1>2, <1>3, <1>4, <1>5, <1>6, <1>7, <1>8, <1>9 DEF Clients

\* What has been ready stays ready.
Keeps(S) == \A d \in S : Readable(d) => Readable(d)'

\* A step of the clients keeps the descriptors, and takes nothing back.
LEMMA ClientsKeep ==
  ASSUME KernelInv, \E n \in {1, 2} : Clients(n), UNCHANGED open
  PROVE  /\ KernelInv' /\ OpenFds' = OpenFds /\ Keeps(Fds \cup {Lfd})
         /\ \A c \in Conns : input'[c] >= input[c]
<1>t. /\ backlog \in Seq(Conns) /\ cpc \in [Conns -> {"new", "write", "read", "closed"}]
      /\ input \in [Conns -> Nat] /\ peer \in [Conns -> {"up", "fin", "rst", "broken"}]
      /\ open \in [Fds -> Conns \cup {NoConn}] /\ open' = open
  BY DEF KernelInv, NetTypeOK
<1>f. ConnectionsAreFresh /\ NetTypeOK
  BY DEF KernelInv
<1>1. NetTypeOK' /\ OpenFds' = OpenFds
  BY <1>f, NetTypes DEF OpenFds
<1>2. PICK n \in {1, 2} : Clients(n)
  OBVIOUS
<1>3. PICK c \in Conns : \/ ClientConnects(c) \/ ClientReads(c) \/ ClientDies(c)
                         \/ \E pieces \in 1..n : ClientWrites(c, pieces)
  BY <1>2 DEF Clients
<1>4. \A b \in Conns : input'[b] >= input[b] /\ (peer[b] # "up" => peer'[b] # "up")
  <2>1. CASE ClientConnects(c) \/ ClientReads(c)
    BY <1>t, <2>1 DEF ClientConnects, ClientReads
  <2>2. CASE ClientDies(c)
    BY <1>t, <2>2 DEF ClientDies
  <2>3. ASSUME NEW pieces \in 1..n, ClientWrites(c, pieces)
        PROVE  \A b \in Conns : input'[b] >= input[b] /\ (peer[b] # "up" => peer'[b] # "up")
    <3>1. pieces \in Nat
      BY <2>3
    <3> QED
      BY <1>t, <2>3, <3>1 DEF ClientWrites
  <2> QED
    BY <1>3, <2>1, <2>2, <2>3
<1>k. ASSUME backlog # <<>> => backlog' # <<>> PROVE Keeps(Fds \cup {Lfd})
  <2> SUFFICES ASSUME NEW d \in Fds \cup {Lfd}, Readable(d) PROVE Readable(d)'
    BY DEF Keeps
  <2>1. CASE d = Lfd
    BY <1>k, <2>1 DEF Readable
  <2>2. CASE d # Lfd
    <3>1. d \in OpenFds /\ open[d] \in Conns /\ (input[open[d]] > 0 \/ peer[open[d]] # "up")
      BY <1>t, <2>2 DEF Readable, OpenFds
    <3>2. input'[open[d]] > 0 \/ peer'[open[d]] # "up"
      <4>1. input[open[d]] \in Nat /\ input'[open[d]] \in Nat
        BY <1>t, <1>1, <3>1 DEF NetTypeOK
      <4> QED
        BY <1>4, <3>1, <4>1
    <3> QED
      BY <1>t, <1>1, <2>2, <3>1, <3>2 DEF Readable
  <2> QED
    BY <2>1, <2>2
<1>5. CASE ClientConnects(c)
  <2>1. cpc[c] = "new" /\ cpc' = [cpc EXCEPT ![c] = "write"] /\ backlog' = Append(backlog, c)
    BY <1>5 DEF ClientConnects
  <2>2. ~Waits(c)
    BY <1>f, <2>1 DEF ConnectionsAreFresh
  <2>3. /\ \A j, k \in 1..Len(backlog') : backlog'[j] = backlog'[k] => j = k
        /\ \A b \in Conns : Waits(b)' => b = c \/ Waits(b)
    BY <1>f, <1>t, <2>1, <2>2, BacklogGrows DEF ConnectionsAreFresh
  <2>4. ConnectionsAreFresh'
    BY <1>f, <1>t, <1>1, <2>1, <2>3 DEF ConnectionsAreFresh
  <2>5. backlog' # <<>>
    BY <1>t, <2>1
  <2> QED
    BY <1>t, <1>1, <1>4, <1>k, <2>4, <2>5 DEF KernelInv
<1>6. CASE ~ClientConnects(c)
  <2>1. backlog' = backlog /\ \A b \in Conns : cpc'[b] = "new" => cpc[b] = "new"
    BY <1>t, <1>3, <1>6 DEF ClientReads, ClientDies, ClientWrites
  <2>2. ConnectionsAreFresh'
    <3>1. \A b \in Conns : (Waits(b)' <=> Waits(b)) /\ (cpc[b] # "new" => cpc'[b] # "new")
      BY <2>1 DEF Waits
    <3> QED
      BY <1>f, <1>t, <1>1, <2>1, <3>1 DEF ConnectionsAreFresh
  <2> QED
    BY <1>t, <1>1, <1>4, <1>k, <2>1, <2>2 DEF KernelInv
<1> QED
  BY <1>5, <1>6

\* accept opens a descriptor that was free, and touches nothing else.
LEMMA AcceptOpens ==
  ASSUME KernelInv, AcceptConnection
  PROVE  /\ KernelInv'
         /\ Least(Free) \in Fds \ OpenFds /\ (\A d \in Fds \ OpenFds : Least(Free) <= d)
         /\ OpenFds' = OpenFds \cup {Least(Free)}
         /\ (\A d \in OpenFds : open'[d] = open[d]) /\ UNCHANGED <<input, peer>>
         /\ Keeps(OpenFds)
<1>t. /\ backlog \in Seq(Conns) /\ open \in [Fds -> Conns \cup {NoConn}]
      /\ input \in [Conns -> Nat] /\ peer \in [Conns -> {"up", "fin", "rst", "broken"}]
      /\ NetTypeOK /\ ConnectionsAreFresh
  BY DEF KernelInv, NetTypeOK
<1>1. /\ backlog # <<>> /\ backlog' = Tail(backlog) /\ UNCHANGED <<cpc, input, reply, peer, sends>>
      /\ open' = [open EXCEPT ![Least(Free)] = Head(backlog)] /\ TakeConnection
  BY DEF AcceptConnection, TakeConnection
<1>2. Least(Free) \in Free /\ \A d \in Free : Least(Free) <= d
  <2>1. Free \in SUBSET Nat /\ Free # {}
    BY Descriptors DEF AcceptConnection, Free
  <2> QED
    BY <2>1, LeastIsLeast
<1>3. PICK f \in Fds : f = Least(Free) /\ f \notin OpenFds /\ open[f] = NoConn
  BY <1>2 DEF Free, OpenFds
<1>4. PICK c \in Conns : c = Head(backlog)
  BY <1>t, <1>1
<1>5. /\ \A j, k \in 1..Len(backlog') : backlog'[j] = backlog'[k] => j = k
      /\ \A b \in Conns : Waits(b)' => Waits(b)
      /\ Waits(c) /\ ~Waits(c)'
  BY <1>t, <1>1, <1>4, BacklogShrinks DEF ConnectionsAreFresh
<1>6. open'[f] = c /\ (\A d \in Fds \ {f} : open'[d] = open[d]) /\ open' \in [Fds -> Conns \cup {NoConn}]
  BY <1>t, <1>1, <1>3, <1>4
<1>7. OpenFds' = OpenFds \cup {f}
  BY <1>3, <1>4, <1>6, Descriptors DEF OpenFds
<1>8. NetTypeOK'
  BY <1>t, <1>1, NetTypes
<1>9. cpc[c] # "new" /\ \A d \in Fds : open[d] # c
  BY <1>t, <1>5 DEF ConnectionsAreFresh
<1>10. ConnectionsAreFresh'
  BY <1>t, <1>1, <1>3, <1>5, <1>6, <1>7, <1>9 DEF ConnectionsAreFresh, OpenFds
<1>11. \A d \in OpenFds : open'[d] = open[d]
  BY <1>3, <1>6 DEF OpenFds
<1>12. Keeps(OpenFds)
  BY <1>1, <1>7, <1>11, Descriptors DEF Keeps, Readable, OpenFds
<1> QED
  BY <1>1, <1>2, <1>3, <1>6, <1>7, <1>8, <1>10, <1>11, <1>12 DEF KernelInv, Free

\* A read or a write on one descriptor leaves the others as ready as they were.
LEMMA ServiceKeeps ==
  ASSUME KernelInv, NEW d \in OpenFds, TakePiece(open[d]) \/ Answer(open[d]), UNCHANGED open
  PROVE  /\ KernelInv' /\ OpenFds' = OpenFds /\ Keeps((OpenFds \ {d}) \cup {Lfd})
         /\ \A e \in OpenFds \ {d} : input'[open[e]] = input[open[e]] /\ peer'[open[e]] = peer[open[e]]
         /\ \A c \in Conns : input'[c] <= input[c]
<1>t. /\ backlog \in Seq(Conns) /\ open \in [Fds -> Conns \cup {NoConn}] /\ open' = open
      /\ input \in [Conns -> Nat] /\ peer \in [Conns -> {"up", "fin", "rst", "broken"}]
      /\ NetTypeOK /\ ConnectionsAreFresh
  BY DEF KernelInv, NetTypeOK
<1>1. PICK c \in Conns : c = open[d]
  BY <1>t DEF OpenFds
<1>2. \A e \in OpenFds \ {d} : open[e] \in Conns \ {c}
  BY <1>t, <1>1 DEF ConnectionsAreFresh, OpenFds
<1>3. NetTypeOK' /\ OpenFds' = OpenFds
  BY <1>t, <1>1, NetTypes DEF OpenFds
<1>4. UNCHANGED <<backlog, cpc>>
  BY DEF TakePiece, Answer
<1>5. (\A b \in Conns \ {c} : input'[b] = input[b] /\ peer'[b] = peer[b]) /\ \A b \in Conns : input'[b] <= input[b]
  <2>1. CASE TakePiece(c)
    BY <1>t, <2>1 DEF TakePiece
  <2>2. CASE Answer(c)
    <3>1. PICK state : peer' = [peer EXCEPT ![c] = state]
      BY <2>2 DEF Answer
    <3>2. input' = input
      BY <2>2 DEF Answer
    <3> QED
      BY <1>t, <3>1, <3>2
  <2> QED
    BY <1>1, <2>1, <2>2
<1>6. ConnectionsAreFresh'
  BY <1>t, <1>3, <1>4 DEF ConnectionsAreFresh, Waits
<1>7. \A e \in OpenFds \ {d} : input'[open[e]] = input[open[e]] /\ peer'[open[e]] = peer[open[e]]
  BY <1>2, <1>5
<1>8. Keeps((OpenFds \ {d}) \cup {Lfd})
  BY <1>t, <1>3, <1>4, <1>7, Descriptors DEF Keeps, Readable, OpenFds
<1> QED
  BY <1>t, <1>3, <1>5, <1>6, <1>7, <1>8 DEF KernelInv

\* read returns 0 on one descriptor, which is closed; the others stay.
LEMMA CloseKeeps ==
  ASSUME KernelInv, NEW d \in OpenFds, ReadAndClose(d)
  PROVE  /\ KernelInv' /\ OpenFds' = OpenFds \ {d} /\ Keeps((OpenFds \ {d}) \cup {Lfd})
         /\ \A e \in OpenFds \ {d} : open'[e] = open[e]
<1>t. /\ open \in [Fds -> Conns \cup {NoConn}] /\ NetTypeOK /\ ConnectionsAreFresh
  BY DEF KernelInv
<1>1. open' = [open EXCEPT ![d] = NoConn] /\ UNCHANGED net
  BY DEF ReadAndClose
<1>2. UNCHANGED <<backlog, cpc, input, reply, peer, sends>>
  BY <1>1 DEF net
<1>3. NetTypeOK'
  BY <1>t, <1>1, NetTypes
<1>4. d \in Fds /\ open'[d] = NoConn /\ (\A e \in Fds \ {d} : open'[e] = open[e])
  BY <1>t, <1>1 DEF OpenFds
<1>5. OpenFds' = OpenFds \ {d}
  BY <1>4 DEF OpenFds
<1>6. ConnectionsAreFresh'
  BY <1>t, <1>2, <1>4, <1>5, Descriptors DEF ConnectionsAreFresh, Waits, OpenFds
<1>7. open' \in [Fds -> Conns \cup {NoConn}]
  BY <1>t, <1>1
<1>8. Keeps((OpenFds \ {d}) \cup {Lfd})
  BY <1>2, <1>4, <1>5, Descriptors DEF Keeps, Readable, OpenFds
<1> QED
  BY <1>3, <1>4, <1>5, <1>6, <1>7, <1>8 DEF KernelInv, OpenFds
\* A step that touches neither connections nor descriptors.
LEMMA NothingHappens ==
  ASSUME KernelInv, UNCHANGED <<net, open>>
  PROVE  KernelInv' /\ OpenFds' = OpenFds /\ Keeps(Fds \cup {Lfd})
BY DEF KernelInv, NetTypeOK, ConnectionsAreFresh, Waits, Keeps, Readable, OpenFds, net

\* What a server does when it answers: it ends, or it touches only the connection it is at.
LEMMA AnswerKeeps ==
  ASSUME KernelInv, NEW d \in OpenFds, WriteAnswer(d), UNCHANGED open, running \in BOOLEAN
  PROVE  /\ KernelInv' /\ OpenFds' = OpenFds /\ Keeps((OpenFds \ {d}) \cup {Lfd})
         /\ running' \in BOOLEAN /\ \A c \in Conns : input'[c] <= input[c]
<1>1. CASE running' = FALSE /\ UNCHANGED net
  <2>1. \A c \in Conns : input[c] \in Nat /\ input'[c] = input[c]
    BY <1>1 DEF KernelInv, NetTypeOK, net
  <2>2. KernelInv' /\ OpenFds' = OpenFds /\ Keeps(Fds \cup {Lfd})
    BY <1>1, NothingHappens
  <2>3. Keeps((OpenFds \ {d}) \cup {Lfd})
    BY <2>2 DEF Keeps, OpenFds
  <2>4. \A c \in Conns : input'[c] <= input[c]
    BY <2>1
  <2> QED
    BY <1>1, <2>2, <2>3, <2>4
<1>2. CASE Answer(open[d]) /\ UNCHANGED running
  BY <1>2, ServiceKeeps
<1> QED
  BY <1>1, <1>2 DEF WriteAnswer

-----------------------------------------------------------------------------
(* select.c *)

\* What happens on the descriptors is the same in all servers.
LEMMA SelectUses ==
  /\ Select!Free = Free
  /\ \A S : Select!Least(S) = Least(S)
  /\ \A d : Select!Readable(d) <=> Readable(d)
  /\ Select!AcceptConnection <=> AcceptConnection
  /\ \A d : Select!ReadAndClose(d) <=> ReadAndClose(d)
  /\ \A d : Select!WriteAnswer(d) <=> WriteAnswer(d)
  /\ \A c : Select!TakePiece(c) <=> TakePiece(c)
  /\ Select!Exit <=> Exit
<1>1. Select!OpenFds = OpenFds /\ Select!Free = Free /\ \A S : Select!Least(S) = Least(S)
  BY Zenon DEF Select!OpenFds, OpenFds, Select!Free, Free, Select!Least, Least
<1>2. \A d : Select!Readable(d) <=> Readable(d)
  BY <1>1, Zenon DEF Select!Readable, Readable
<1>3. Select!AcceptConnection <=> AcceptConnection
  BY <1>1, Zenon DEF Select!AcceptConnection, AcceptConnection, Select!TakeConnection, TakeConnection
<1>4. \A d : Select!ReadAndClose(d) <=> ReadAndClose(d)
  BY Zenon DEF Select!ReadAndClose, ReadAndClose, Select!AtEnd, AtEnd, Select!net, net
<1>5. \A d : Select!WriteAnswer(d) <=> WriteAnswer(d)
  BY Zenon DEF Select!WriteAnswer, WriteAnswer, Select!Answer, Answer, Select!net, net
<1>6. \A c : Select!TakePiece(c) <=> TakePiece(c)
  BY Zenon DEF Select!TakePiece, TakePiece
<1>7. Select!Exit <=> Exit
  BY Zenon DEF Select!Exit, Exit, Select!net, net
<1> QED
  BY <1>1, <1>2, <1>3, <1>4, <1>5, <1>6, <1>7

SelectGood == LoopTypeOK /\ Select!SelectTypeOK /\ KernelInv /\ SelectInv

\* Every step of select.c keeps its set that of the kernel, and what it was told true.
LEMMA SelectStep ==
  ASSUME SelectGood, Select!SelectStep
  PROVE  SelectGood'
<1>k. KernelInv
  BY DEF SelectGood
<1>t. /\ running \in BOOLEAN /\ pc \in {"wait", "accept", "scan", "read", "write"}
      /\ readsset \subseteq Fds \cup {Lfd} /\ temp \subseteq Fds \cup {Lfd} /\ maxfd \in Fds \cup {Lfd}
      /\ OpenFds \subseteq Fds
  BY DEF SelectGood, LoopTypeOK, Select!SelectTypeOK, OpenFds
<1>b. /\ readsset = OpenFds \cup {Lfd} /\ (\A d \in OpenFds : d <= maxfd)
      /\ (\A d \in temp : Readable(d)) /\ (pc = "read" => Readable(i))
  BY DEF SelectGood, SelectInv
<1>p. /\ pc = "accept" => Lfd \in temp
      /\ pc \in {"scan", "read", "write"} => Lfd \notin temp
      /\ pc \in {"read", "write"} => i \in OpenFds \ temp
  BY DEF SelectGood, SelectInv
<1>o. temp \subseteq OpenFds \cup {Lfd}
  BY <1>b DEF Readable
<1>g. ASSUME KernelInv', running' \in BOOLEAN, pc' \in {"wait", "accept", "scan", "read", "write"},
             temp' \subseteq Fds \cup {Lfd}, maxfd' \in Fds \cup {Lfd}, SelectInv'
      PROVE  SelectGood'
  <2>1. OpenFds' \subseteq Fds
    BY DEF OpenFds
  <2>2. readsset' \subseteq Fds \cup {Lfd}
    BY <1>g, <2>1 DEF SelectInv
  <2> QED
    BY <1>g, <2>2 DEF SelectGood, LoopTypeOK, Select!SelectTypeOK, KernelInv
<1>1. CASE Select!SelectReturns
  <2>1. /\ UNCHANGED <<net, open, running, i, readsset, maxfd>>
        /\ temp' = {d \in readsset : d <= maxfd /\ Readable(d)}
        /\ pc' = IF Lfd \in temp' THEN "accept" ELSE "scan"
    BY <1>1, SelectUses, Zenon DEF Select!SelectReturns, Select!net, net
  <2>2. KernelInv' /\ OpenFds' = OpenFds /\ Keeps(Fds \cup {Lfd})
    BY <1>k, <2>1, NothingHappens
  <2>3. temp' \subseteq Fds \cup {Lfd} /\ \A d \in temp' : Readable(d)'
    BY <1>t, <2>1, <2>2 DEF Keeps
  <2>4. SelectInv'
    BY <1>b, <2>1, <2>2, <2>3 DEF SelectInv
  <2> QED
    BY <1>t, <1>g, <2>1, <2>2, <2>3, <2>4
<1>2. CASE Select!SelectAccept
  <2>1. /\ pc = "accept" /\ pc' = "scan" /\ AcceptConnection /\ UNCHANGED <<running, i>>
        /\ readsset' = readsset \cup {Least(Free)} /\ temp' = temp \ {Lfd}
        /\ maxfd' = IF maxfd > Least(Free) THEN maxfd ELSE Least(Free)
    BY <1>2, SelectUses, Zenon DEF Select!SelectAccept
  <2>2. PICK f \in Fds : f = Least(Free) /\ OpenFds' = OpenFds \cup {f}
    BY <1>k, <2>1, AcceptOpens
  <2>3. KernelInv' /\ Keeps(OpenFds)
    BY <1>k, <2>1, AcceptOpens
  <2>4. temp' \subseteq OpenFds /\ \A d \in temp' : Readable(d)'
    BY <1>b, <1>o, <2>1, <2>3 DEF Keeps
  <2>5. maxfd' \in Fds \cup {Lfd} /\ \A d \in OpenFds' : d <= maxfd'
    <3>1. f \in Nat /\ maxfd \in Nat /\ OpenFds \subseteq Nat
      BY <1>t, Descriptors
    <3> QED
      BY <1>t, <1>b, <2>1, <2>2, <3>1
  <2>6. SelectInv'
    BY <1>b, <2>1, <2>2, <2>4, <2>5 DEF SelectInv
  <2> QED
    BY <1>t, <1>g, <2>1, <2>3, <2>4, <2>5, <2>6
<1>3. CASE Select!SelectAcceptFails
  <2>1. /\ UNCHANGED <<net, open, i, readsset, maxfd>> /\ running' \in BOOLEAN
        /\ temp' = temp \ {Lfd} /\ pc' = "scan"
    BY <1>3, Zenon DEF Select!SelectAcceptFails, Select!net, net
  <2>2. KernelInv' /\ OpenFds' = OpenFds /\ Keeps(Fds \cup {Lfd})
    BY <1>k, <2>1, NothingHappens
  <2>3. \A d \in temp' : Readable(d)'
    BY <1>b, <1>t, <2>1, <2>2 DEF Keeps
  <2>4. SelectInv'
    BY <1>b, <2>1, <2>2, <2>3 DEF SelectInv
  <2> QED
    BY <1>t, <1>g, <2>1, <2>2, <2>4
<1>4. CASE Select!SelectScan
  <2>1. /\ UNCHANGED <<net, open, running, readsset, maxfd>> /\ pc = "scan"
        /\ IF temp = {} THEN pc' = "wait" /\ UNCHANGED <<i, temp>>
           ELSE i' = Least(temp) /\ temp' = temp \ {i'} /\ pc' = "read"
    BY <1>4, SelectUses, Zenon DEF Select!SelectScan, Select!net, net
  <2>2. KernelInv' /\ OpenFds' = OpenFds /\ Keeps(Fds \cup {Lfd})
    BY <1>k, <2>1, NothingHappens
  <2>3. temp' \subseteq temp /\ \A d \in temp : Readable(d)'
    BY <1>b, <1>t, <2>1, <2>2 DEF Keeps
  <2>4. CASE temp = {}
    <3>1. SelectInv'
      BY <1>b, <2>1, <2>2, <2>3, <2>4 DEF SelectInv
    <3> QED
      BY <1>t, <1>g, <2>1, <2>2, <2>3, <2>4, <3>1
  <2>5. CASE temp # {}
    <3>1. Least(temp) \in temp
      <4>1. temp \in SUBSET Nat
        BY <1>t, Descriptors
      <4> QED
        BY <2>5, <4>1, LeastIsLeast
    <3>2. i' \in temp /\ i' \in OpenFds /\ i' \notin temp' /\ Lfd \notin temp' /\ pc' = "read"
      BY <1>o, <1>p, <2>1, <2>5, <3>1
    <3>3. Readable(i)'
      BY <2>3, <3>2 DEF Readable
    <3>4. SelectInv'
      BY <1>b, <2>1, <2>2, <2>3, <3>2, <3>3 DEF SelectInv
    <3> QED
      BY <1>t, <1>g, <2>1, <2>2, <2>3, <3>2, <3>4
  <2> QED
    BY <2>4, <2>5
<1>5. ASSUME pc \in {"read", "write"}, UNCHANGED <<i, readsset, temp, maxfd>>, KernelInv',
             pc' \in {"scan", "write"}, running' \in BOOLEAN,
             OpenFds' = OpenFds, Keeps((OpenFds \ {i}) \cup {Lfd})
      PROVE  SelectGood'
  <2>1. temp \subseteq OpenFds \ {i}
    BY <1>5, <1>o, <1>p
  <2>2. \A d \in temp : Readable(d)'
    BY <1>b, <1>5, <2>1 DEF Keeps
  <2>3. SelectInv'
    BY <1>b, <1>p, <1>5, <2>2 DEF SelectInv
  <2> QED
    BY <1>t, <1>g, <1>5, <2>3
<1>6. CASE Select!SelectRead
  <2>1. /\ pc = "read" /\ pc' = "write" /\ UNCHANGED <<running, open, i, readsset, temp, maxfd>>
        /\ TakePiece(open[i])
    BY <1>6, SelectUses, Zenon DEF Select!SelectRead, Select!svars
  <2>2. i \in OpenFds
    BY <1>p, <2>1
  <2> QED
    BY <1>k, <1>t, <1>5, <2>1, <2>2, ServiceKeeps
<1>7. CASE Select!SelectWrite
  <2>1. /\ pc = "write" /\ pc' = "scan" /\ UNCHANGED <<open, i, readsset, temp, maxfd>> /\ WriteAnswer(i)
    BY <1>7, SelectUses, Zenon DEF Select!SelectWrite, Select!svars
  <2>2. i \in OpenFds
    BY <1>p, <2>1
  <2> QED
    BY <1>k, <1>t, <1>5, <2>1, <2>2, AnswerKeeps
<1>8. CASE Select!SelectReadEnd
  <2>1. /\ pc = "read" /\ pc' = "scan" /\ UNCHANGED <<running, i, temp, maxfd>>
        /\ readsset' = readsset \ {i} /\ ReadAndClose(i)
    BY <1>8, SelectUses, Zenon DEF Select!SelectReadEnd
  <2>2. i \in OpenFds /\ temp \subseteq OpenFds \ {i} /\ Lfd \notin temp
    BY <1>o, <1>p, <2>1
  <2>3. KernelInv' /\ OpenFds' = OpenFds \ {i} /\ Keeps((OpenFds \ {i}) \cup {Lfd})
    BY <1>k, <2>1, <2>2, CloseKeeps
  <2>4. \A d \in temp : Readable(d)'
    BY <1>b, <2>2, <2>3 DEF Keeps
  <2>5. i # Lfd
    BY <1>t, <2>2, Descriptors
  <2>6. SelectInv'
    BY <1>b, <2>1, <2>2, <2>3, <2>4, <2>5 DEF SelectInv
  <2> QED
    BY <1>t, <1>g, <2>1, <2>3, <2>6
<1>9. CASE Select!SelectReadFails
  <2>1. UNCHANGED <<net, open, pc, i, readsset, temp, maxfd>> /\ running' = FALSE
    BY <1>9, SelectUses, Zenon DEF Select!SelectReadFails, Select!svars, Exit
  <2>2. KernelInv' /\ OpenFds' = OpenFds /\ Keeps(Fds \cup {Lfd})
    BY <1>k, <2>1, NothingHappens
  <2>3. (\A d \in temp' : Readable(d)') /\ (pc' = "read" => Readable(i)')
    BY <1>b, <1>p, <1>t, <2>1, <2>2 DEF Keeps, Readable
  <2>4. SelectInv'
    BY <1>b, <1>p, <2>1, <2>2, <2>3 DEF SelectInv
  <2> QED
    BY <1>t, <1>g, <2>1, <2>2, <2>4
<1> QED
  BY <1>1, <1>2, <1>3, <1>4, <1>6, <1>7, <1>8, <1>9 DEF Select!SelectStep
-----------------------------------------------------------------------------
(* poll.c *)

\* What happens on the descriptors is the same in all servers.
LEMMA PollUses ==
  /\ Poll!Free = Free
  /\ \A S : Poll!Least(S) = Least(S)
  /\ \A d : Poll!Readable(d) <=> Readable(d)
  /\ Poll!AcceptConnection <=> AcceptConnection
  /\ \A d : Poll!ReadAndClose(d) <=> ReadAndClose(d)
  /\ \A d : Poll!WriteAnswer(d) <=> WriteAnswer(d)
  /\ \A c : Poll!TakePiece(c) <=> TakePiece(c)
  /\ Poll!Exit <=> Exit
<1>1. Poll!OpenFds = OpenFds /\ Poll!Free = Free /\ \A S : Poll!Least(S) = Least(S)
  BY Zenon DEF Poll!OpenFds, OpenFds, Poll!Free, Free, Poll!Least, Least
<1>2. \A d : Poll!Readable(d) <=> Readable(d)
  BY <1>1, Zenon DEF Poll!Readable, Readable
<1>3. Poll!AcceptConnection <=> AcceptConnection
  BY <1>1, Zenon DEF Poll!AcceptConnection, AcceptConnection, Poll!TakeConnection, TakeConnection
<1>4. \A d : Poll!ReadAndClose(d) <=> ReadAndClose(d)
  BY Zenon DEF Poll!ReadAndClose, ReadAndClose, Poll!AtEnd, AtEnd, Poll!net, net
<1>5. \A d : Poll!WriteAnswer(d) <=> WriteAnswer(d)
  BY Zenon DEF Poll!WriteAnswer, WriteAnswer, Poll!Answer, Answer, Poll!net, net
<1>6. \A c : Poll!TakePiece(c) <=> TakePiece(c)
  BY Zenon DEF Poll!TakePiece, TakePiece
<1>7. Poll!Exit <=> Exit
  BY Zenon DEF Poll!Exit, Exit, Poll!net, net
<1> QED
  BY <1>1, <1>2, <1>3, <1>4, <1>5, <1>6, <1>7

\* The elements and the descriptors, as numbers.
LEMMA PollNumbers ==
  \E last \in Nat : Fds = Lfd + 1 .. last /\ Poll!Slots = 1 .. last
<1>1. PICK last \in Fds : Fds = Lfd + 1 .. last
  BY MultiplexingAssumption
<1>2. last \in Nat /\ \A e \in Fds : e <= last
  BY <1>1, Descriptors
<1>3. (CHOOSE d \in Fds : \A e \in Fds : e <= d) = last
  <2>1. \A d \in Fds : (\A e \in Fds : e <= d) => d = last
    BY <1>1, <1>2, Descriptors
  <2> QED
    BY <1>1, <1>2, <2>1
<1> QED
  BY <1>1, <1>2, <1>3 DEF Poll!Slots

PollGood == LoopTypeOK /\ Poll!PollTypeOK /\ KernelInv /\ PollInv

\* The first empty element is the one for the lowest free descriptor.
LEMMA FirstEmpty ==
  ASSUME PollInv, Free # {}
  PROVE  \E k \in Poll!Slots :
           Least(Poll!Empty) = k /\ Least(Free) = Lfd + k /\ Least(Free) \in Fds
<1>1. PICK last \in Nat : Fds = Lfd + 1 .. last /\ Poll!Slots = 1 .. last
  BY PollNumbers
<1>2. \A k \in Poll!Slots : fds[k] = IF Lfd + k \in OpenFds THEN Lfd + k ELSE NoFd
  BY DEF PollInv
<1>3. /\ Least(Free) \in Free /\ \A d \in Free : Least(Free) <= d
      /\ Free = Fds \ OpenFds
  <2>1. Free \in SUBSET Nat
    BY Descriptors DEF Free
  <2> QED
    BY <2>1, LeastIsLeast DEF Free
<1>4. PICK f \in Fds : f = Least(Free) /\ f \notin OpenFds
  BY <1>3
<1>5. PICK k \in 1..last : f = Lfd + k
  <2>1. f - Lfd \in 1..last /\ f = Lfd + (f - Lfd)
    BY <1>1, Descriptors
  <2> QED
    BY <2>1
<1>6. k \in Poll!Empty
  BY <1>1, <1>2, <1>4, <1>5 DEF Poll!Empty
<1>7. ASSUME NEW l \in Poll!Empty PROVE k <= l
  <2>1. l \in 1..last /\ Lfd + l \notin OpenFds
    <3>1. fds[l] = NoFd /\ l \in 1..last
      BY <1>1, <1>7 DEF Poll!Empty
    <3>2. Lfd + l \in OpenFds => Lfd + l \in Fds
      BY DEF OpenFds
    <3> QED
      BY <1>1, <1>2, <3>1, <3>2, Descriptors
  <2>2. CASE Lfd + l \in Fds
    <3>1. f <= Lfd + l
      BY <1>3, <1>4, <2>1, <2>2
    <3> QED
      BY <1>5, <2>1, <3>1, Descriptors
  <2>3. CASE Lfd + l \notin Fds
    <3>1. Lfd + l > last
      BY <1>1, <2>1, <2>3, Descriptors
    <3>2. f <= last
      BY <1>1
    <3> QED
      BY <1>1, <1>5, <2>1, <3>1, <3>2, Descriptors
  <2> QED
    BY <2>2, <2>3
<1>8. Poll!Empty \in SUBSET Nat
  BY <1>1 DEF Poll!Empty
<1>9. Least(Poll!Empty) = k
  <2>1. Least(Poll!Empty) \in Poll!Empty /\ Least(Poll!Empty) <= k
    BY <1>6, <1>8, LeastIsLeast
  <2>2. k <= Least(Poll!Empty) /\ Least(Poll!Empty) \in Nat
    BY <1>7, <1>8, <2>1
  <2> QED
    BY <2>1, <2>2
<1> QED
  BY <1>1, <1>4, <1>5, <1>9

\* Every step of poll.c keeps the elements in step with the descriptors.
LEMMA PollStep ==
  ASSUME PollGood, Poll!PollStep
  PROVE  PollGood'
<1>k. KernelInv
  BY DEF PollGood
<1>n. PICK last \in Nat : Fds = Lfd + 1 .. last /\ Poll!Slots = 1 .. last
  BY PollNumbers
<1>t. /\ running \in BOOLEAN /\ pc \in {"wait", "accept", "scan", "read", "write"}
      /\ fds \in [Poll!Slots -> Fds \cup {NoFd}] /\ revents \in [Poll!Slots -> BOOLEAN]
      /\ nfds \in Fds \cup {0, -1} /\ OpenFds \subseteq Fds
  BY DEF PollGood, LoopTypeOK, Poll!PollTypeOK, OpenFds
<1>b. /\ \A k \in Poll!Slots : fds[k] = IF Lfd + k \in OpenFds THEN Lfd + k ELSE NoFd
      /\ pc \in {"read", "write"} => i \in Poll!Slots
      /\ pc = "write" => fds[i] # NoFd
  BY DEF PollGood, PollInv
<1>g. ASSUME KernelInv', running' \in BOOLEAN, pc' \in {"wait", "accept", "scan", "read", "write"},
             fds' \in [Poll!Slots -> Fds \cup {NoFd}], revents' \in [Poll!Slots -> BOOLEAN],
             nfds' \in Fds \cup {0, -1}, PollInv'
      PROVE  PollGood'
  BY <1>g DEF PollGood, LoopTypeOK, Poll!PollTypeOK, KernelInv
<1>h. ASSUME NEW k \in Poll!Slots, fds[k] # NoFd PROVE fds[k] = Lfd + k /\ fds[k] \in OpenFds
  BY <1>b, <1>h
<1>s. ASSUME UNCHANGED <<fds, revents, nfds>>, OpenFds' = OpenFds, KernelInv', running' \in BOOLEAN,
             pc' \in {"wait", "scan", "read", "write"}, pc' = "read" => i' \in Poll!Slots,
             pc' = "write" => i' \in Poll!Slots /\ fds[i'] # NoFd
      PROVE  PollGood'
  <2>1. PollInv'
    BY <1>b, <1>s DEF PollInv
  <2> QED
    BY <1>t, <1>g, <1>s, <2>1
<1>1. CASE Poll!PollReturns
  <2>1. /\ UNCHANGED <<net, open, running, fds, nfds>> /\ pc' \in {"accept", "scan"}
        /\ \E ready : revents' = [k \in Poll!Slots |-> IF k <= nfds THEN k \in ready ELSE revents[k]]
    BY <1>1 DEF Poll!PollReturns, Poll!net, net
  <2>2. KernelInv' /\ OpenFds' = OpenFds
    BY <1>k, <2>1, NothingHappens
  <2>3. revents' \in [Poll!Slots -> BOOLEAN]
    <3>1. PICK ready : revents' = [k \in Poll!Slots |-> IF k <= nfds THEN k \in ready ELSE revents[k]]
      BY <2>1
    <3>2. ASSUME NEW k \in Poll!Slots
          PROVE  (IF k <= nfds THEN k \in ready ELSE revents[k]) \in BOOLEAN
      <4>1. revents[k] \in BOOLEAN
        BY <1>t
      <4>2. (k \in ready) \in BOOLEAN
        OBVIOUS
      <4> QED
        BY <4>1, <4>2, Zenon
    <3> QED
      BY <3>1, <3>2, Zenon
  <2>4. PollInv'
    BY <1>b, <2>1, <2>2 DEF PollInv
  <2> QED
    BY <1>t, <1>g, <2>1, <2>2, <2>3, <2>4
<1>2. CASE Poll!PollAccept
  <2>1. /\ pc' = "scan" /\ AcceptConnection /\ UNCHANGED <<running, i, revents>>
        /\ fds' = [fds EXCEPT ![Least(Poll!Empty)] = Least(Free)] /\ nfds' = Least(Free)
    BY <1>2, PollUses, Zenon DEF Poll!PollAccept
  <2>2. PICK k \in Poll!Slots : Least(Poll!Empty) = k /\ Least(Free) = Lfd + k /\ Least(Free) \in Fds
    BY <2>1, FirstEmpty DEF PollGood, AcceptConnection
  <2>3. KernelInv' /\ OpenFds' = OpenFds \cup {Lfd + k}
    BY <1>k, <2>1, <2>2, AcceptOpens
  <2>4. fds' = [fds EXCEPT ![k] = Lfd + k] /\ Lfd + k \in Fds
    BY <2>1, <2>2
  <2>5. ASSUME NEW l \in Poll!Slots
        PROVE  fds'[l] = IF Lfd + l \in OpenFds' THEN Lfd + l ELSE NoFd
    <3>1. Lfd + l = Lfd + k <=> l = k
      BY <1>n, Descriptors
    <3> QED
      BY <1>b, <1>t, <2>3, <2>4, <3>1
  <2>6. PollInv'
    BY <2>1, <2>5 DEF PollInv
  <2> QED
    BY <1>t, <1>g, <2>1, <2>2, <2>3, <2>4, <2>6
<1>3. CASE Poll!PollAcceptFails
  <2>1. UNCHANGED <<net, open, running, i, fds, revents>> /\ nfds' = -1 /\ pc' = "scan"
    BY <1>3 DEF Poll!PollAcceptFails, Poll!net, net
  <2>2. KernelInv' /\ OpenFds' = OpenFds
    BY <1>k, <2>1, NothingHappens
  <2>3. PollInv'
    BY <1>b, <2>1, <2>2 DEF PollInv
  <2> QED
    BY <1>t, <1>g, <2>1, <2>2, <2>3
<1>4. CASE Poll!PollScan
  <2>1. /\ UNCHANGED <<net, open, running, fds, revents, nfds>>
        /\ IF Poll!Reported = {} THEN pc' = "wait" /\ UNCHANGED i
           ELSE pc' = "read" /\ i' = Least(Poll!Reported)
    BY <1>4, PollUses, Zenon DEF Poll!PollScan, Poll!net, net, Poll!pvars
  <2>2. KernelInv' /\ OpenFds' = OpenFds
    BY <1>k, <2>1, NothingHappens
  <2>3. Poll!Reported # {} => Least(Poll!Reported) \in Poll!Slots
    <3>1. Poll!Reported \in SUBSET Nat /\ Poll!Reported \subseteq Poll!Slots
      BY <1>n DEF Poll!Reported
    <3> QED
      BY <3>1, LeastIsLeast
  <2> QED
    BY <1>t, <1>s, <2>1, <2>2, <2>3
<1>5. CASE Poll!PollRead
  <2>1. /\ pc = "read" /\ pc' = "write" /\ UNCHANGED <<running, open, i, fds, revents, nfds>>
        /\ fds[i] # NoFd /\ TakePiece(open[fds[i]])
    BY <1>5, PollUses, Zenon DEF Poll!PollRead, Poll!pvars
  <2>2. i \in Poll!Slots /\ fds[i] \in OpenFds
    BY <1>b, <1>h, <2>1
  <2>3. KernelInv' /\ OpenFds' = OpenFds
    BY <1>k, <2>1, <2>2, ServiceKeeps
  <2> QED
    BY <1>t, <1>s, <2>1, <2>2, <2>3
<1>6. CASE Poll!PollWrite
  <2>1. /\ pc = "write" /\ pc' = "scan" /\ UNCHANGED <<open, fds, revents, nfds>> /\ WriteAnswer(fds[i])
    BY <1>6, PollUses, Zenon DEF Poll!PollWrite, Poll!pvars
  <2>2. fds[i] \in OpenFds
    BY <1>b, <1>h, <2>1
  <2>3. KernelInv' /\ OpenFds' = OpenFds /\ running' \in BOOLEAN
    BY <1>k, <1>t, <2>1, <2>2, AnswerKeeps
  <2> QED
    BY <1>s, <2>1, <2>3
<1>7. CASE Poll!PollReadEnd
  <2>1. /\ pc = "read" /\ pc' = "scan" /\ UNCHANGED <<running, revents, nfds>>
        /\ fds[i] # NoFd /\ fds' = [fds EXCEPT ![i] = NoFd] /\ ReadAndClose(fds[i])
    BY <1>7, PollUses, Zenon DEF Poll!PollReadEnd
  <2>2. i \in Poll!Slots /\ fds[i] = Lfd + i /\ fds[i] \in OpenFds
    BY <1>b, <1>h, <2>1
  <2>3. KernelInv' /\ OpenFds' = OpenFds \ {Lfd + i}
    BY <1>k, <2>1, <2>2, CloseKeeps
  <2>4. ASSUME NEW l \in Poll!Slots
        PROVE  fds'[l] = IF Lfd + l \in OpenFds' THEN Lfd + l ELSE NoFd
    <3>1. Lfd + l = Lfd + i <=> l = i
      BY <1>n, <2>2, Descriptors
    <3> QED
      BY <1>b, <1>t, <2>1, <2>3, <3>1
  <2>5. PollInv'
    BY <2>1, <2>4 DEF PollInv
  <2>6. fds' \in [Poll!Slots -> Fds \cup {NoFd}]
    BY <1>t, <2>1
  <2> QED
    BY <1>t, <1>g, <2>1, <2>3, <2>5, <2>6
<1>8. CASE Poll!PollReadFails
  <2>1. UNCHANGED <<net, open, pc, i, fds, revents, nfds>> /\ running' = FALSE /\ pc = "read"
    BY <1>8, PollUses, Zenon DEF Poll!PollReadFails, Poll!pvars, Exit
  <2>2. KernelInv' /\ OpenFds' = OpenFds
    BY <1>k, <2>1, NothingHappens
  <2> QED
    BY <1>b, <1>t, <1>s, <2>1, <2>2
<1> QED
  BY <1>1, <1>2, <1>3, <1>4, <1>5, <1>6, <1>7, <1>8 DEF Poll!PollStep
-----------------------------------------------------------------------------
(* epoll_LT.c and epoll_ET.c *)

\* What happens on the descriptors is the same in all servers.
LEMMA EpollUses ==
  /\ Epoll!Free = Free
  /\ \A S : Epoll!Least(S) = Least(S)
  /\ \A d : Epoll!Readable(d) <=> Readable(d)
  /\ Epoll!AcceptConnection <=> AcceptConnection
  /\ \A d : Epoll!ReadAndClose(d) <=> ReadAndClose(d)
  /\ \A d : Epoll!WriteAnswer(d) <=> WriteAnswer(d)
  /\ \A c : Epoll!TakePiece(c) <=> TakePiece(c)
  /\ Epoll!Exit <=> Exit
  /\ Epoll!OpenFds = OpenFds
  /\ \A c : (Epoll!AtEnd(c) <=> AtEnd(c)) /\ (Epoll!IsReset(c) <=> IsReset(c))
  /\ \A n : Epoll!Clients(n) <=> Clients(n)
<1>1. Epoll!OpenFds = OpenFds /\ Epoll!Free = Free /\ \A S : Epoll!Least(S) = Least(S)
  BY Zenon DEF Epoll!OpenFds, OpenFds, Epoll!Free, Free, Epoll!Least, Least
<1>2. \A d : Epoll!Readable(d) <=> Readable(d)
  BY <1>1, Zenon DEF Epoll!Readable, Readable
<1>3. Epoll!AcceptConnection <=> AcceptConnection
  BY <1>1, Zenon DEF Epoll!AcceptConnection, AcceptConnection, Epoll!TakeConnection, TakeConnection
<1>4. \A d : Epoll!ReadAndClose(d) <=> ReadAndClose(d)
  BY Zenon DEF Epoll!ReadAndClose, ReadAndClose, Epoll!AtEnd, AtEnd, Epoll!net, net
<1>5. \A d : Epoll!WriteAnswer(d) <=> WriteAnswer(d)
  BY Zenon DEF Epoll!WriteAnswer, WriteAnswer, Epoll!Answer, Answer, Epoll!net, net
<1>6. \A c : Epoll!TakePiece(c) <=> TakePiece(c)
  BY Zenon DEF Epoll!TakePiece, TakePiece
<1>7. Epoll!Exit <=> Exit
  BY Zenon DEF Epoll!Exit, Exit, Epoll!net, net
<1>8. \A c : (Epoll!AtEnd(c) <=> AtEnd(c)) /\ (Epoll!IsReset(c) <=> IsReset(c))
  BY Zenon DEF Epoll!AtEnd, AtEnd, Epoll!IsReset, IsReset
<1>9. \A n : Epoll!Clients(n) <=> Clients(n)
  BY Zenon DEF Epoll!Clients, Clients, Epoll!ClientConnects, ClientConnects, Epoll!ClientReads,
               ClientReads, Epoll!ClientDies, ClientDies, Epoll!ClientWrites, ClientWrites
<1> QED
  BY <1>1, <1>2, <1>3, <1>4, <1>5, <1>6, <1>7, <1>8, <1>9

EpollGood == LoopTypeOK /\ Epoll!EpollTypeOK /\ KernelInv /\ EpollInv

\* What arrives on an open descriptor puts it on the ready list of epoll_ET.c.
LEMMA ArrivalIsNotified ==
  ASSUME edge, NEW d \in Fds, open'[d] # NoConn,
         \/ input'[open'[d]] > input[open'[d]]
         \/ open[d] = NoConn /\ input[open'[d]] > 0
  PROVE  d \in Epoll!Notified
BY DEF Epoll!Notified, Epoll!Arrival

\* Every step of the clients keeps epoll informed.
LEMMA EpollUsersStep ==
  ASSUME EpollGood, Epoll!EpollClients(2)
  PROVE  EpollGood'
<1>k. KernelInv
  BY DEF EpollGood
<1>t. /\ running \in BOOLEAN /\ pc \in {"wait", "accept", "scan", "read", "write"}
      /\ edge \in BOOLEAN /\ rdlist \subseteq Fds /\ epevs \subseteq Fds \cup {Lfd}
      /\ input \in [Conns -> Nat] /\ open \in [Fds -> Conns \cup {NoConn}]
  BY DEF EpollGood, LoopTypeOK, Epoll!EpollTypeOK, NetTypeOK
<1>1. /\ Clients(2) /\ UNCHANGED <<running, open, pc, i, edge, epevs>>
      /\ rdlist' = rdlist \cup Epoll!Notified
  BY EpollUses, Zenon DEF Epoll!EpollClients, Epoll!loop
<1>2. /\ KernelInv' /\ OpenFds' = OpenFds /\ Keeps(Fds \cup {Lfd})
      /\ \A c \in Conns : input'[c] >= input[c]
  <2>1. \E n \in {1, 2} : Clients(n)
    BY <1>1
  <2> QED
    BY <1>k, <1>1, <2>1, ClientsKeep
<1>3. rdlist' \subseteq Fds
  BY <1>t, <1>1 DEF Epoll!Notified
<1>4. edge' => \A d \in OpenFds' :
        input'[open'[d]] > 0 => d \in rdlist' \cup epevs' \/ (pc' \in {"read", "write"} /\ i' = d)
  <2> SUFFICES ASSUME edge, NEW d \in OpenFds, input'[open[d]] > 0
               PROVE  d \in rdlist' \cup epevs' \/ (pc \in {"read", "write"} /\ i = d)
    BY <1>1, <1>2
  <2>0. d \in Fds /\ open[d] \in Conns /\ open[d] # NoConn /\ input[open[d]] \in Nat
    BY <1>t DEF OpenFds
  <2>1. CASE input[open[d]] > 0
    BY <1>1, <2>1 DEF EpollGood, EpollInv
  <2>2. CASE ~(input[open[d]] > 0)
    <3>1. input'[open[d]] > input[open[d]]
      BY <2>0, <2>2
    <3> QED
      BY <1>1, <2>0, <3>1, ArrivalIsNotified
  <2> QED
    BY <2>1, <2>2
<1>5. ~edge' => (\A d \in epevs' : Readable(d)') /\ (pc' = "read" => Readable(i)')
  BY <1>t, <1>1, <1>2 DEF EpollGood, EpollInv, Keeps, OpenFds
<1>6. EpollInv'
  BY <1>1, <1>2, <1>4, <1>5 DEF EpollGood, EpollInv
<1> QED
  BY <1>t, <1>1, <1>2, <1>3, <1>6 DEF EpollGood, LoopTypeOK, Epoll!EpollTypeOK, KernelInv

\* Every step of the servers on epoll keeps what was reported true, or on a list.
LEMMA EpollStep ==
  ASSUME EpollGood, Epoll!EpollStep
  PROVE  EpollGood'
<1>k. KernelInv
  BY DEF EpollGood
<1>t. /\ running \in BOOLEAN /\ pc \in {"wait", "accept", "scan", "read", "write"}
      /\ edge \in BOOLEAN /\ rdlist \subseteq Fds /\ epevs \subseteq Fds \cup {Lfd}
      /\ input \in [Conns -> Nat] /\ open \in [Fds -> Conns \cup {NoConn}] /\ OpenFds \subseteq Fds
      /\ \A d \in OpenFds : open[d] \in Conns
  BY DEF EpollGood, LoopTypeOK, Epoll!EpollTypeOK, NetTypeOK, OpenFds
<1>p. /\ pc # "accept" /\ (pc = "wait" => epevs = {}) /\ epevs \subseteq OpenFds \cup {Lfd}
      /\ pc \in {"read", "write"} => i \in OpenFds \ epevs
  BY DEF EpollGood, EpollInv
<1>l. ~edge => (\A d \in epevs : Readable(d)) /\ (pc = "read" => Readable(i))
  BY DEF EpollGood, EpollInv
<1>e. ASSUME edge, NEW d \in OpenFds, input[open[d]] > 0
      PROVE  d \in rdlist \cup epevs \/ (pc \in {"read", "write"} /\ i = d)
  BY <1>e DEF EpollGood, EpollInv
<1>n. Epoll!Notified \subseteq Fds
  BY DEF Epoll!Notified
<1>g. ASSUME KernelInv', running' \in BOOLEAN, pc' \in {"wait", "scan", "read", "write"},
             edge' = edge, rdlist' \subseteq Fds, EpollInv'
      PROVE  EpollGood'
  <2>1. epevs' \subseteq Fds \cup {Lfd}
    BY <1>g DEF EpollInv, OpenFds
  <2> QED
    BY <1>t, <1>g, <2>1 DEF EpollGood, LoopTypeOK, Epoll!EpollTypeOK, KernelInv
<1>1. CASE Epoll!EpollWaitReturns
  <2>1. /\ UNCHANGED <<net, open, running, i, edge>> /\ pc = "wait" /\ pc' = "scan" /\ rdlist' = {}
        /\ epevs' = {d \in {Lfd} \cup (IF edge THEN rdlist ELSE OpenFds) : Readable(d)}
    BY <1>1, EpollUses, Zenon DEF Epoll!EpollWaitReturns, Epoll!Ready, Epoll!net, net
  <2>2. KernelInv' /\ OpenFds' = OpenFds /\ Keeps(Fds \cup {Lfd})
    BY <1>k, <2>1, NothingHappens
  <2>3. epevs' \subseteq OpenFds' \cup {Lfd} /\ \A d \in epevs' : Readable(d)'
    BY <1>t, <2>1, <2>2 DEF Keeps, Readable
  <2>4. ASSUME edge, NEW d \in OpenFds, input[open[d]] > 0 PROVE d \in epevs'
    <3>1. d \in rdlist
      BY <1>e, <1>p, <2>1, <2>4
    <3>2. Readable(d)
      BY <1>t, <2>4, Descriptors DEF Readable
    <3> QED
      BY <2>1, <2>4, <3>1, <3>2
  <2>5. EpollInv'
    BY <2>1, <2>2, <2>3, <2>4 DEF EpollInv, net
  <2> QED
    BY <1>t, <1>g, <2>1, <2>2, <2>5
<1>2. CASE Epoll!EpollBatchEnds
  <2>1. /\ UNCHANGED <<net, open, running, i, edge, rdlist, epevs>> /\ pc = "scan" /\ pc' = "wait"
        /\ epevs = {}
    BY <1>2, Zenon DEF Epoll!EpollBatchEnds, Epoll!evars, Epoll!net, net
  <2>2. KernelInv' /\ OpenFds' = OpenFds
    BY <1>k, <2>1, NothingHappens
  <2>3. EpollInv'
    BY <1>e, <2>1, <2>2 DEF EpollInv, net
  <2> QED
    BY <1>t, <1>g, <2>1, <2>2, <2>3
<1>3. CASE Epoll!EpollAccept
  <2>1. /\ pc = "scan" /\ AcceptConnection /\ epevs' = epevs \ {Lfd}
        /\ rdlist' = rdlist \cup Epoll!Notified /\ UNCHANGED <<running, pc, i, edge>>
    BY <1>3, EpollUses, Zenon DEF Epoll!EpollAccept
  <2>2. PICK f \in Fds \ OpenFds : OpenFds' = OpenFds \cup {f}
    BY <1>k, <2>1, AcceptOpens
  <2>3. /\ KernelInv' /\ Keeps(OpenFds) /\ UNCHANGED input
        /\ \A d \in OpenFds : open'[d] = open[d]
    BY <1>k, <2>1, AcceptOpens
  <2>4. ~edge => \A d \in epevs' : Readable(d)'
    BY <1>l, <1>p, <2>1, <2>3 DEF Keeps
  <2>5. ASSUME edge, NEW d \in OpenFds', input'[open'[d]] > 0 PROVE d \in rdlist' \cup epevs'
    <3>1. CASE d \in OpenFds
      <4>1. d # Lfd
        BY <1>t, <3>1, Descriptors
      <4> QED
        BY <1>e, <2>1, <2>3, <2>5, <3>1, <4>1
    <3>2. CASE d = f
      <4>1. d \in Fds /\ open[d] = NoConn /\ open'[d] # NoConn
        BY <2>2, <2>5, <3>2 DEF OpenFds
      <4> QED
        BY <2>1, <2>3, <2>5, <4>1, ArrivalIsNotified
    <3> QED
      BY <2>2, <3>1, <3>2
  <2>6. EpollInv'
    BY <1>p, <2>1, <2>2, <2>4, <2>5 DEF EpollInv
  <2> QED
    BY <1>t, <1>n, <1>g, <2>1, <2>3, <2>6
<1>x. ASSUME UNCHANGED <<net, open, pc, i, edge, rdlist, epevs>>, running' \in BOOLEAN PROVE EpollGood'
  <2>2. KernelInv' /\ OpenFds' = OpenFds /\ Keeps(Fds \cup {Lfd})
    BY <1>k, <1>x, NothingHappens
  <2>3. ~edge => (\A d \in epevs' : Readable(d)') /\ (pc' = "read" => Readable(i)')
    BY <1>l, <1>p, <1>t, <1>x, <2>2 DEF Keeps, Readable
  <2>4. EpollInv'
    BY <1>e, <1>p, <1>x, <2>2, <2>3 DEF EpollInv, net
  <2> QED
    BY <1>p, <1>t, <1>g, <1>x, <2>2, <2>4
<1>4. CASE Epoll!EpollAcceptFails
  BY <1>4, <1>x, EpollUses DEF Epoll!EpollAcceptFails, Epoll!evars, Exit
<1>5. CASE Epoll!EpollNext
  <2>1. /\ UNCHANGED <<net, open, running, edge, rdlist>> /\ pc = "scan" /\ pc' = "read"
        /\ \E d \in epevs \ {Lfd} : i' = d /\ epevs' = epevs \ {d}
    BY <1>5 DEF Epoll!EpollNext, Epoll!net, net
  <2>2. KernelInv' /\ OpenFds' = OpenFds /\ Keeps(Fds \cup {Lfd})
    BY <1>k, <2>1, NothingHappens
  <2>3. PICK d \in epevs \ {Lfd} : i' = d /\ epevs' = epevs \ {d}
    BY <2>1
  <2>4. d \in OpenFds
    BY <1>p, <2>3
  <2>5. \A e \in Fds \cup {Lfd} : ~edge /\ e \in epevs => Readable(e)'
    BY <1>l, <2>2 DEF Keeps
  <2>6. ~edge => (\A e \in epevs' : Readable(e)') /\ Readable(i)'
    BY <1>t, <2>3, <2>5 DEF Readable
  <2>7. \A e \in OpenFds : edge /\ input[open[e]] > 0 => e \in rdlist \cup epevs
    BY <1>e, <2>1
  <2>8. EpollInv'
    BY <1>p, <2>1, <2>2, <2>3, <2>4, <2>6, <2>7 DEF EpollInv, net
  <2> QED
    BY <1>t, <1>g, <2>1, <2>2, <2>8
<1>s. ASSUME pc \in {"read", "write"}, UNCHANGED <<open, i, edge, epevs>>, KernelInv', OpenFds' = OpenFds,
             Keeps((OpenFds \ {i}) \cup {Lfd}), \A c \in Conns : input'[c] <= input[c],
             running' \in BOOLEAN, rdlist \subseteq rdlist', rdlist' \subseteq Fds,
             pc' \in (IF edge THEN {"read", "write"} ELSE {"write", "scan"})
      PROVE  EpollGood'
  <2>1. epevs \subseteq (OpenFds \ {i}) \cup {Lfd}
    BY <1>p, <1>s
  <2>2. ~edge => \A d \in epevs : Readable(d)'
    BY <1>l, <1>s, <2>1 DEF Keeps
  <2>3. ASSUME edge, NEW d \in OpenFds, input'[open[d]] > 0 PROVE d \in rdlist' \cup epevs \/ i = d
    <3>1. input[open[d]] > 0
      <4>1. input'[open[d]] <= input[open[d]] /\ input[open[d]] \in Nat /\ input'[open[d]] \in Nat
        BY <1>s, <1>t DEF KernelInv, NetTypeOK
      <4> QED
        BY <2>3, <4>1
    <3> QED
      BY <1>e, <1>s, <2>3, <3>1
  <2>4. EpollInv'
    BY <1>p, <1>s, <2>2, <2>3 DEF EpollInv
  <2> QED
    BY <1>t, <1>g, <1>s, <2>4
<1>6. CASE Epoll!EpollRead
  <2>1. /\ pc = "read" /\ pc' = "write" /\ UNCHANGED <<running, open, i, edge, rdlist, epevs>>
        /\ TakePiece(open[i])
    BY <1>6, EpollUses, Zenon DEF Epoll!EpollRead, Epoll!evars
  <2>2. i \in OpenFds
    BY <1>p, <2>1
  <2>3. /\ KernelInv' /\ OpenFds' = OpenFds /\ Keeps((OpenFds \ {i}) \cup {Lfd})
        /\ \A c \in Conns : input'[c] <= input[c]
    BY <1>k, <2>1, <2>2, ServiceKeeps
  <2> QED
    BY <1>t, <1>s, <2>1, <2>3
<1>7. CASE Epoll!EpollWrite
  <2>1. /\ pc = "write" /\ pc' = (IF edge THEN "read" ELSE "scan") /\ UNCHANGED <<open, i, edge, epevs>>
        /\ rdlist' = rdlist \cup Epoll!Notified /\ WriteAnswer(i)
    BY <1>7, EpollUses, Zenon DEF Epoll!EpollWrite
  <2>2. i \in OpenFds
    BY <1>p, <2>1
  <2>3. /\ KernelInv' /\ OpenFds' = OpenFds /\ Keeps((OpenFds \ {i}) \cup {Lfd})
        /\ running' \in BOOLEAN /\ \A c \in Conns : input'[c] <= input[c]
    BY <1>k, <1>t, <2>1, <2>2, AnswerKeeps
  <2> QED
    BY <1>t, <1>n, <1>s, <2>1, <2>3
<1>8. ASSUME edge, pc = "read", input[open[i]] = 0, pc' = "scan",
             UNCHANGED <<net, open, running, i, edge, rdlist, epevs>>
      PROVE  EpollGood'
  <2>1. KernelInv' /\ OpenFds' = OpenFds
    BY <1>k, <1>8, NothingHappens
  <2>2. \A d \in OpenFds : input[open[d]] > 0 => d \in rdlist \cup epevs
    BY <1>e, <1>8
  <2>3. EpollInv'
    BY <1>p, <1>8, <2>1, <2>2 DEF EpollInv, net
  <2> QED
    BY <1>t, <1>g, <1>8, <2>1, <2>3
<1>9. CASE Epoll!EpollReadEnd
  <2>1. /\ pc = "read" /\ pc' = "scan" /\ UNCHANGED <<running, i, edge, rdlist, epevs>>
        /\ IF edge THEN AtEnd(open[i]) /\ UNCHANGED <<net, open>> ELSE ReadAndClose(i)
    BY <1>9, EpollUses, Zenon DEF Epoll!EpollReadEnd, Epoll!evars, Epoll!net, net
  <2>2. CASE edge
    BY <1>8, <2>1, <2>2 DEF AtEnd
  <2>3. CASE ~edge
    <3>1. i \in OpenFds /\ i # Lfd /\ epevs \subseteq (OpenFds \ {i}) \cup {Lfd}
      BY <1>p, <1>t, <2>1, Descriptors
    <3>2. KernelInv' /\ OpenFds' = OpenFds \ {i} /\ Keeps((OpenFds \ {i}) \cup {Lfd})
      BY <1>k, <2>1, <2>3, <3>1, CloseKeeps
    <3>3. \A d \in epevs : Readable(d)'
      BY <1>l, <2>3, <3>1, <3>2 DEF Keeps
    <3>4. EpollInv'
      BY <2>1, <2>3, <3>1, <3>2, <3>3 DEF EpollInv
    <3> QED
      BY <1>t, <1>g, <2>1, <3>2, <3>4
  <2> QED
    BY <2>2, <2>3
<1>10. CASE Epoll!EpollReadFails
  <2>1. /\ pc = "read" /\ UNCHANGED <<edge, rdlist, epevs>> /\ IsReset(open[i])
        /\ IF edge THEN pc' = "scan" /\ UNCHANGED <<net, running, open, i>> ELSE Exit
    BY <1>10, EpollUses, Zenon DEF Epoll!EpollReadFails, Epoll!evars, Epoll!net, net
  <2>2. CASE edge
    BY <1>8, <2>1, <2>2 DEF IsReset
  <2>3. CASE ~edge
    BY <1>x, <2>1, <2>3 DEF Exit
  <2> QED
    BY <2>2, <2>3
<1> QED
  BY <1>1, <1>2, <1>3, <1>4, <1>5, <1>6, <1>7, <1>9, <1>10 DEF Epoll!EpollStep
-----------------------------------------------------------------------------
(* The program that runs *)

\* The initial states: no client, no descriptor, and the tables are empty.
LEMMA MultiplexingInit == MCInit => MInv
<1> SUFFICES ASSUME MCInit PROVE MInv
  OBVIOUS
<1>1. /\ program \in {"select", "poll", "epoll"} /\ LoopInit
      /\ readsset = {Lfd} /\ temp = {} /\ maxfd = Lfd
      /\ fds = [k \in Poll!Slots |-> NoFd] /\ revents \in [Poll!Slots -> BOOLEAN] /\ nfds = 0
      /\ edge \in BOOLEAN /\ rdlist = {} /\ epevs = {}
  BY Zenon DEF MCInit, Select!SelectInit, Poll!PollInit, Epoll!EpollInit
<1>2. NetTypeOK /\ backlog = <<>> /\ input = [c \in Conns |-> 0]
  BY <1>1 DEF LoopInit, NetInit, NetTypeOK
<1>3. LoopTypeOK /\ OpenFds = {} /\ pc = "wait"
  BY <1>1, <1>2 DEF LoopInit, LoopTypeOK, OpenFds
<1>4. KernelInv
  <2>1. open = [d \in Fds |-> NoConn]
    BY <1>1 DEF LoopInit
  <2>2. \A c \in Conns : ~Waits(c)
    <3>1. Len(backlog) = 0
      BY <1>2
    <3> QED
      BY <3>1 DEF Waits
  <2>3. \A c \in Conns, d \in Fds : open[d] # c
    BY <2>1, Descriptors
  <2> QED
    BY <1>2, <1>3, <2>1, <2>2, <2>3 DEF KernelInv, ConnectionsAreFresh
<1>5. LoopsTypeOK
  <2>1. fds \in [Poll!Slots -> Fds \cup {NoFd}]
    BY <1>1
  <2>2. Poll!PollTypeOK
    BY <1>1, <2>1 DEF Poll!PollTypeOK
  <2> QED
    BY <1>1, <1>3, <2>2 DEF LoopsTypeOK, Select!SelectTypeOK, Epoll!EpollTypeOK
<1>6. SelectInv
  BY <1>1, <1>3 DEF SelectInv
<1>7. PollInv
  BY <1>1, <1>3 DEF PollInv
<1>8. EpollInv
  BY <1>1, <1>3 DEF EpollInv
<1> QED
  BY <1>1, <1>4, <1>5, <1>6, <1>7, <1>8 DEF MInv

\* A step of the clients of select.c and of poll.c.
LEMMA UsersStep ==
  ASSUME MInv, program # "epoll", Clients(1), UNCHANGED <<program, loop, svars, pvars, evars>>
  PROVE  MInv'
<1>u. UNCHANGED <<program, running, open, pc, i, readsset, temp, maxfd, fds, revents, nfds,
                  edge, rdlist, epevs>>
  BY DEF loop, svars, pvars, evars
<1>1. KernelInv /\ LoopsTypeOK /\ program \in {"select", "poll", "epoll"}
  BY DEF MInv
<1>2. KernelInv' /\ OpenFds' = OpenFds /\ Keeps(Fds \cup {Lfd})
  BY <1>1, <1>u, ClientsKeep
<1>3. LoopsTypeOK'
  BY <1>1, <1>2, <1>u DEF LoopsTypeOK, LoopTypeOK, Select!SelectTypeOK, Poll!PollTypeOK,
                          Epoll!EpollTypeOK, KernelInv
<1>4. Running("select") => SelectInv'
  <2> SUFFICES ASSUME SelectInv PROVE SelectInv'
    BY DEF MInv
  <2>1. temp \subseteq Fds \cup {Lfd} /\ OpenFds \subseteq Fds
    BY <1>1 DEF LoopsTypeOK, Select!SelectTypeOK, OpenFds
  <2>2. (\A d \in temp : Readable(d)') /\ (pc' = "read" => Readable(i)')
    BY <1>2, <1>u, <2>1 DEF SelectInv, Keeps, Readable
  <2> QED
    BY <1>2, <1>u, <2>2 DEF SelectInv
<1>5. Running("poll") => PollInv'
  BY <1>2, <1>u DEF MInv, PollInv
<1> QED
  BY <1>1, <1>2, <1>3, <1>4, <1>5, <1>u DEF MInv, Running

\* A step of the server keeps the invariant of the program that runs, and the others' tables.
LEMMA ServerStep ==
  ASSUME MInv, Server
  PROVE  MInv'
<1>1. /\ KernelInv /\ program \in {"select", "poll", "epoll"} /\ program' = program
      /\ LoopTypeOK /\ Select!SelectTypeOK /\ Poll!PollTypeOK /\ Epoll!EpollTypeOK
  BY DEF MInv, LoopsTypeOK, Server
<1>2. CASE Running("select") /\ Select!SelectStep /\ UNCHANGED <<pvars, evars>>
  <2>1. SelectGood'
    BY <1>1, <1>2, SelectStep DEF SelectGood, MInv
  <2>2. Poll!PollTypeOK' /\ Epoll!EpollTypeOK'
    BY <1>1, <1>2 DEF Poll!PollTypeOK, Epoll!EpollTypeOK, pvars, evars
  <2> QED
    BY <1>1, <1>2, <2>1, <2>2 DEF MInv, LoopsTypeOK, SelectGood, Running
<1>3. CASE Running("poll") /\ Poll!PollStep /\ UNCHANGED <<svars, evars>>
  <2>1. PollGood'
    BY <1>1, <1>3, PollStep DEF PollGood, MInv
  <2>2. Select!SelectTypeOK' /\ Epoll!EpollTypeOK'
    BY <1>1, <1>3 DEF Select!SelectTypeOK, Epoll!EpollTypeOK, svars, evars
  <2> QED
    BY <1>1, <1>3, <2>1, <2>2 DEF MInv, LoopsTypeOK, PollGood, Running
<1>4. CASE Running("epoll") /\ Epoll!EpollStep /\ UNCHANGED <<svars, pvars>>
  <2>1. EpollGood'
    BY <1>1, <1>4, EpollStep DEF EpollGood, MInv
  <2>2. Select!SelectTypeOK' /\ Poll!PollTypeOK'
    BY <1>1, <1>4 DEF Select!SelectTypeOK, Poll!PollTypeOK, svars, pvars
  <2> QED
    BY <1>1, <1>4, <2>1, <2>2 DEF MInv, LoopsTypeOK, EpollGood, Running
<1> QED
  BY <1>2, <1>3, <1>4 DEF Server

\* Every step of the program that runs and of its clients keeps the invariant.
LEMMA MultiplexingNext == MInv /\ [MCNext]_allvars => MInv'
<1> SUFFICES ASSUME MInv, [MCNext]_allvars PROVE MInv'
  OBVIOUS
<1>1. CASE Server
  BY <1>1, ServerStep
<1>2. CASE Users /\ Running("epoll")
  <2>1. UNCHANGED <<program, svars, pvars>> /\ Epoll!EpollClients(2)
    BY <1>2 DEF Users
  <2>2. EpollGood'
    BY <1>2, <2>1, EpollUsersStep DEF EpollGood, MInv, LoopsTypeOK
  <2>3. Select!SelectTypeOK' /\ Poll!PollTypeOK'
    BY <2>1 DEF Select!SelectTypeOK, Poll!PollTypeOK, svars, pvars, MInv, LoopsTypeOK
  <2> QED
    BY <1>2, <2>1, <2>2, <2>3 DEF MInv, LoopsTypeOK, EpollGood, Running
<1>3. CASE Users /\ ~Running("epoll")
  BY <1>3, UsersStep DEF Users, Running
<1>4. CASE UNCHANGED allvars
  <2>1. UNCHANGED <<program, net, running, open, pc, i, readsset, temp, maxfd, fds, revents, nfds,
                    edge, rdlist, epevs>>
    BY <1>4 DEF allvars, loop, svars, pvars, evars
  <2>2. KernelInv' /\ OpenFds' = OpenFds /\ Keeps(Fds \cup {Lfd})
    BY <2>1, NothingHappens DEF MInv
  <2>3. LoopsTypeOK'
    BY <2>1, <2>2 DEF MInv, LoopsTypeOK, LoopTypeOK, Select!SelectTypeOK, Poll!PollTypeOK,
                      Epoll!EpollTypeOK, KernelInv
  <2>4. \A d : Readable(d)' <=> Readable(d)
    BY <2>1 DEF Readable, OpenFds, net
  <2>5. (SelectInv => SelectInv') /\ (PollInv => PollInv') /\ (EpollInv => EpollInv')
    BY <2>1, <2>2, <2>4 DEF SelectInv, PollInv, EpollInv, Readable, net
  <2> QED
    BY <2>1, <2>2, <2>3, <2>5 DEF MInv, Running
<1> QED
  BY <1>1, <1>2, <1>3, <1>4 DEF MCNext

\* The inductive invariant of the three servers.
THEOREM MultiplexingInvariant == MCSpec => []MInv
BY MultiplexingInit, MultiplexingNext, PTL DEF MCSpec

-----------------------------------------------------------------------------
(* The properties *)

\* select.c:50-95 and poll.c:69-104: the book that the server keeps of its descriptors
\* is that of the kernel, however many there are and whatever order they are reused in.
THEOREM TablesAreTheKernels == MCSpec => []TablesMatchKernel
<1>1. ASSUME MInv PROVE TablesMatchKernel
  <2>1. LoopsTypeOK
    BY <1>1 DEF MInv
  <2>2. Running("select") => Select!SelectWatchesOpen
    <3>1. Select!OpenFds = OpenFds
      BY DEF Select!OpenFds, OpenFds
    <3> QED
      BY <1>1, <3>1 DEF MInv, SelectInv, Select!SelectWatchesOpen
  <2>3. ASSUME Running("poll") PROVE Poll!PollSlotsAreDescriptors
    <3>1. Poll!OpenFds = OpenFds
      BY DEF Poll!OpenFds, OpenFds
    <3>2. \A k \in Poll!Slots : fds[k] = IF Lfd + k \in OpenFds THEN Lfd + k ELSE NoFd
      BY <1>1, <2>3 DEF MInv, PollInv
    <3>3. PICK last \in Nat : Fds = Lfd + 1 .. last /\ Poll!Slots = 1 .. last
      BY PollNumbers
    <3>4. ASSUME NEW k \in Poll!Slots \ Poll!Empty PROVE fds[k] = Lfd + k /\ Lfd + k \in OpenFds
      BY <3>2, <3>4 DEF Poll!Empty
    <3>5. ASSUME NEW d \in OpenFds PROVE \E k \in Poll!Slots \ Poll!Empty : fds[k] = d
      <4>1. d \in Fds /\ NoFd \notin Fds
        BY <3>5, Descriptors DEF OpenFds
      <4>2. PICK k \in Poll!Slots : Lfd + k = d
        <5>1. d - Lfd \in 1..last /\ Lfd + (d - Lfd) = d
          BY <3>3, <4>1, Descriptors
        <5> QED
          BY <3>3, <5>1
      <4>3. fds[k] = d /\ k \notin Poll!Empty
        BY <3>2, <3>5, <4>1, <4>2 DEF Poll!Empty
      <4> QED
        BY <4>3
    <3>6. {fds[k] : k \in Poll!Slots \ Poll!Empty} = OpenFds
      BY <3>4, <3>5, Zenon
    <3> QED
      BY <3>1, <3>4, <3>6 DEF Poll!PollSlotsAreDescriptors
  <2> QED
    BY <2>1, <2>2, <2>3 DEF TablesMatchKernel
<1> QED
  BY <1>1, MultiplexingInvariant, PTL

\* select.c:50-95 and epoll_LT.c:55-99: what the kernel has reported still holds when the
\* loop gets there, so that a server that must not wait in accept or read does not.
\* epoll_ET.c:70-112: no input is overlooked, although epoll reports it once.
THEOREM ReportsAreTrue == MCSpec => []ReportsStayTrue
<1>1. ASSUME MInv PROVE ReportsStayTrue
  <2>1. Running("select") => Select!SelectNeverWaits
    BY <1>1, SelectUses DEF MInv, SelectInv, Select!SelectNeverWaits
  <2>2. Running("epoll") => Epoll!LevelNeverWaits
    BY <1>1, EpollUses DEF MInv, EpollInv, Epoll!LevelNeverWaits
  <2>3. Running("epoll") => Epoll!EdgeIsNotLost
    <3>1. Epoll!OpenFds = OpenFds
      BY EpollUses
    <3> QED
      BY <1>1, <3>1 DEF MInv, EpollInv, Epoll!EdgeIsNotLost
  <2> QED
    BY <2>1, <2>2, <2>3 DEF ReportsStayTrue
<1> QED
  BY <1>1, MultiplexingInvariant, PTL

\* An open descriptor with nothing to report has nothing to read, and its client is there.
LEMMA NothingToRead ==
  ASSUME NetTypeOK, NEW d \in OpenFds, open[d] \in Conns, ~Readable(d)
  PROVE  input[open[d]] = 0 /\ peer[open[d]] = "up"
<1>1. d # Lfd
  BY Descriptors DEF OpenFds
<1> QED
  BY <1>1 DEF Readable, NetTypeOK

\* select.c:56, poll.c:73, epoll_LT.c:57 and epoll_ET.c:71: a server sleeps only when it has
\* accepted and served everybody, other than poll.c with the elements that nfds leaves out.
THEOREM SleepersHaveNoWork == MCSpec => []SleepsOnlyWhenServed
<1>1. ASSUME MInv, Asleep PROVE
        /\ backlog = <<>> \/ (Running("poll") /\ nfds = -1)
        /\ \A c \in Conns : Accepted(c) /\ ~Overlooked(c) => input[c] = 0 /\ (edge \/ peer[c] = "up")
  <2>0. NetTypeOK /\ pc = "wait" /\ Reported = {} /\ LoopsTypeOK
    BY <1>1 DEF MInv, LoopsTypeOK, LoopTypeOK, Asleep
  <2>1. CASE Running("select")
    <3>1. Reported = {d \in readsset : d <= maxfd /\ Readable(d)}
      BY <2>1 DEF Reported, Running
    <3>2. readsset = OpenFds \cup {Lfd} /\ \A d \in OpenFds : d <= maxfd
      BY <1>1, <2>1 DEF MInv, SelectInv
    <3>3. Lfd <= maxfd
      BY <2>0, Descriptors DEF LoopsTypeOK, Select!SelectTypeOK
    <3>4. \A d \in OpenFds \cup {Lfd} : ~Readable(d)
      BY <2>0, <3>1, <3>2, <3>3
    <3>5. backlog = <<>>
      BY <3>4 DEF Readable
    <3> QED
      BY <2>0, <3>4, <3>5, NothingToRead DEF Accepted
  <2>2. CASE Running("poll")
    <3>1. Reported = {d \in {Lfd} : nfds >= 0 /\ Readable(d)}
                       \cup {fds[k] : k \in {j \in Poll!Slots \ Poll!Empty : j <= nfds /\ Readable(fds[j])}}
      BY <2>2 DEF Reported, Running
    <3>2. backlog = <<>> \/ nfds = -1
      <4>1. nfds \in Nat \/ nfds = -1
        BY <2>0, Descriptors DEF LoopsTypeOK, Poll!PollTypeOK
      <4> QED
        BY <2>0, <3>1, <4>1 DEF Readable
    <3>3. ASSUME NEW c \in Conns, Poll!Watched(c) PROVE input[c] = 0 /\ peer[c] = "up"
      <4>1. PICK k \in Poll!Slots \ Poll!Empty : k <= nfds /\ open[fds[k]] = c
        BY <3>3 DEF Poll!Watched
      <4>2. fds[k] \in OpenFds
        BY <1>1, <2>2, <4>1 DEF MInv, PollInv, Poll!Empty
      <4>3. ~Readable(fds[k])
        BY <2>0, <3>1, <4>1
      <4> QED
        BY <2>0, <4>1, <4>2, <4>3, NothingToRead
    <3> QED
      BY <2>2, <3>2, <3>3 DEF Overlooked
  <2>3. CASE Running("epoll")
    <3>1. Reported = Epoll!Ready
      BY <2>3 DEF Reported, Running
    <3>2. Epoll!Ready = {d \in {Lfd} \cup (IF edge THEN rdlist ELSE OpenFds) : Readable(d)}
      BY EpollUses DEF Epoll!Ready
    <3>3. \A d \in {Lfd} \cup (IF edge THEN rdlist ELSE OpenFds) : ~Readable(d)
      BY <2>0, <3>1, <3>2
    <3>4. backlog = <<>>
      BY <3>3 DEF Readable
    <3>5. CASE ~edge
      BY <2>0, <3>3, <3>4, <3>5, NothingToRead DEF Accepted
    <3>6. CASE edge
      <4>1. ASSUME NEW d \in OpenFds, open[d] \in Conns PROVE input[open[d]] = 0
        <5>1. CASE d \in rdlist
          BY <2>0, <3>3, <3>6, <4>1, <5>1, NothingToRead
        <5>2. CASE d \notin rdlist
          <6>1. ~(input[open[d]] > 0)
            BY <1>1, <2>0, <2>3, <3>6, <5>2 DEF MInv, EpollInv
          <6> QED
            BY <2>0, <4>1, <6>1 DEF NetTypeOK
        <5> QED
          BY <5>1, <5>2
      <4> QED
        BY <3>4, <3>6, <4>1 DEF Accepted
    <3> QED
      BY <3>5, <3>6
  <2> QED
    BY <1>1, <2>1, <2>2, <2>3 DEF MInv, Running
<1>2. MInv => SleepsOnlyWhenServed
  BY <1>1 DEF SleepsOnlyWhenServed
<1> QED
  BY <1>2, MultiplexingInvariant, PTL
=============================================================================
