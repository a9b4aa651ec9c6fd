# Linux-Net-Code in TLA+

A verification development for the repository Linux-Net-Code: a collection of C and C++ programs
about Linux processes, threads, sockets and I/O multiplexing, and the web server
`FIN_project/Abandoned_webserver` built from them. The modules model the concurrent programs
statement by statement where statements interleave, and TLC checks them on small instances. TLAPS proves
every safety property of the passing runs, and every refinement, for all values of the constants.

Contents: 1 inventory, 2 modules and code, 3 runs, 4 fairness, 5 proofs, 6 disagreements between
code and comments, 7 what is not modelled, 8 plan.

## 1. Inventory

Programs do not call one another, except inside the web server. Each component lists its state, its
operations, what is hard, and what makes it correct.

**Thread pool** (`Abandoned_webserver/thread_pool.h`, `locker.h`). State: the list `m_workQueue`,
a mutex, a counting semaphore, `m_stop`, an array of detached threads. Operations: constructor
(creates the threads, throws when it cannot), `append`, `run`, destructor. Hard: `append` unlocks
before it posts; `run` ignores a failed wait and null requests; the destructor neither wakes nor
joins anybody. Correct when one thread at a time is in the queue, no request waits without a token
that will wake a worker, requests leave in the order of arrival, and each is served.

**Web server event loop** (`main.cpp`, `http_connection.cpp`). State: the array `users` indexed by
descriptor (`m_sockfd`, the buffers, the parser's state), `m_user_count`, the epoll registration of
each socket, the batch of events that main works through. The main thread accepts, reads and
writes; workers of the pool run `http_connection::process` and re-arm the socket with `modfd`. Hard:
edge-triggered and one-shot events, descriptors reused while a worker still has the old connection, a
pool that refuses, slots that nothing initialises. Correct when `users`, the count and the kernel agree,
and no input is overlooked by everyone.

**HTTP request parser** (`http_connection.cpp`). State: the read buffer, `m_read_idx`,
`m_checked_index`, `m_start_line`, `m_check_state`. Operations: `read`, `process_read`, which calls
`parse_line`, `parse_request_line` and `parse_headers`. Hard: a line, and even the CR LF at its end,
can arrive in several reads; a parser that clears CR and LF in place reads its own output; and main
reads into the buffer while workers parse it, two of them perhaps, without a lock. Correct when its
answer does not depend on how the input was cut nor on when it came, and its indexes stay in the data.

**Producer/consumer programs** (`Producer_Comsumer`, `pthread_condition`, `semaphore`). State: a
singly linked list, a mutex, a condition variable or two semaphores. Threads push and pop nodes that
they allocate and free. Hard: lost wakeups, tokens and nodes that change at different times.
Correct when no node is lost, freed twice or read after it is freed, and the threads never all sleep.

**Locks between threads** (`Sell_Tickeks`, `mutex`, `dead_lock`, `rwlock`). State: one counter and a
lock. Correct when each ticket is sold once, each increment counts, and every thread returns.

**Concurrent TCP servers** (`NetCode/concurent_socket`). `server_thread.c`: main and one detached
thread per client share the table `sockInfos`. `server_process.c`: one child per client and a SIGCHLD
handler that reaps. `client.c` sends, waits for the echo, and repeats. Hard: reused descriptors,
exhausted tables, merged signals, interrupted system calls, clients that die at any point.

**I/O multiplexing servers** (`NetCode/IO`). One thread per server. `select.c` keeps a set of
descriptors and the largest; `poll.c` an array and the index of its last element; `epoll_LT.c` and
`epoll_ET.c` a kernel object. Hard: what the kernel reported may be stale when the loop gets there, a
blocking call stops the service for all, edges are reported once.

**Thread life cycle examples** (`thread_Functions`). One created thread and a main that joins, detaches,
cancels it, leaves by `pthread_exit` or returns. Hard: an identifier outlives its thread. Correct when
nobody is cut off unless main returns, and a joined value is that of a thread that ended by itself.

**Signals and child processes**, **fork, wait and exit**, **daemon** (`_signal`, `_wait`, `_exit`, `_fork`,
`_Process_Thread`, `daemonP.c`). State: the parent's place, each child, the signal mask, pending signals,
timers. Parents reap in a SIGCHLD handler, wait, poll, count, or do nothing. Hard: pending signals of
one kind merge, signals arrive before a handler is installed, fork fails. Correct when no dead child is
forgotten and every waiting parent returns after its children.

**Pipes**, **named pipes and chat** (`_pipe`, `_fifo`). State: what is in the pipe and who holds which end.
Hard: `fork` copies both ends, `open` of a FIFO waits for the other side, `read` ends only when no writer is
left, two chat users start at once. Correct when nothing is lost or reordered and the end is noticed.

**Shared and mapped memory** (`mem_share`, `memory-mapped`). State: segments and who is attached to
them; mapped cells. Hard: `strcpy` here and there without a lock, removal under other users.

**UDP examples**, **local sockets**, **epoll timer experiments** (`NetCode/UDP`, `local_socket`,
`epoll_timer/server.cpp`). Send, receive the echo, repeat; a sender of broadcasts. Hard: lost datagrams,
one socket for all clients, a length taken from the content of an uninitialised buffer.

**Socket basics** and **file system call examples** have no model (section 7). `PROJECT.json` lists every
component with its files, and every hazard with its line.

## 2. Modules and code

| module | models | composition |
|---|---|---|
| `WorkQueue` | what a pool promises: a bounded FIFO, each worker busy with one request | abstract |
| `ThreadPool` | `thread_pool.h`, `locker.h` | implements `WorkQueue` |
| `ThreadPoolProofs` | theorems about `ThreadPool` | extends it |
| `WebServer` | loop of `main.cpp`, connection life, `process`, epoll | uses `WorkQueue` as the pool |
| `WebServerProofs` | theorems about `WebServer` | extends it |
| `HttpParser` | `read`, `process_read` and the parse functions | |
| `HttpParserProofs` | theorems about `HttpParser` | extends it |
| `NodeList` | the list and the statements on it | used by the next three |
| `MutexList`, `CondList`, `SemList` | the three producer/consumer programs | implement `SharedStack` |
| `SharedStack` | a bounded stack with atomic push and pop | abstract |
| `ProducerConsumerProofs` | theorems about the three programs | extends `MC_ProducerConsumer` |
| `Tickets`, `RwLock`, `LockOrder` | the lock programs | |
| `EchoClients` | the `client.c` programs and TCP | used by all servers below |
| `ServerThread`, `ServerProcess` | the two concurrent servers | |
| `ServersProofs` | theorems about both | extends `MC_Servers` |
| `MultiplexedIO` | descriptors, readiness, accept, read, write, close | used by the next three |
| `SelectServer`, `PollServer`, `EpollServer` | `select.c`, `poll.c`, `epoll_LT.c` and `epoll_ET.c` | |
| `MultiplexingProofs` | theorems about the four servers | extends `MC_Multiplexing` |
| `ThreadLife` | the thread function examples | with the locks in `MC_Locks` |
| `LocksProofs` | theorems about the lock programs and the thread examples | extends `MC_Locks` |
| `Children` | `sigchild.c`, `wait.c`, `waitpid.c`, both choruses, `zombie.c`, `orphan.c`, `fork.c`, `execl.c`, `kill.c` | |
| `Signals` | `alarm.c`, `alarm1.c`, `setitimer.c`, `sighanlder.c`, `sigaction.c`, `sigprocmask.c`, `daemonP.c` | |
| `MappedFile` | `a.c` and `b.c`, `mmap-p2c-ipc.c`, `mmap-anonymous.c` | |
| `ShmSegments` | `write_shm.c`, `read_shm.c` | |
| `PipeKernel` | ends and content of pipes and FIFOs | used by the next two |
| `Pipes` | `pipe.c`, `noblock.c`, `ps_aux_grep_xx.c`, `write.c` and `read.c` | implements `Channel` |
| `Chat` | `aChat.c`, `bChat.c` | implements `Channel` |
| `Channel` | what a pipe promises: order, and the end only after everything | abstract |
| `Echo` | `udp_client.c` and `udp_server.c`, `local_socket`, `epoll_timer/server.cpp` | |
| `Broadcast` | the broadcast and multicast pairs | |
| `Channels` | `Pipes`, `Chat`, `Echo`, `Broadcast`, and the refinement of `Channel` | composes them |
| `MC_*` | compose the programs of a group, choose one in the initial state, state what holds of the group; `MC_Processes` has the groups from `Children` on | |
| `ProcessesProofs` | theorems about all programs from `Children` on | extends `MC_Processes` |

State variables carry the names of the code (`m_workQueue`, `m_queseStat`, `sockInfos[i].fd` as `fd`,
`readsset`, `nfds`, `epevs`). Program counters are functions from threads to labels, and a label names
the next statement. A step lies between two points where another thread, a client or the kernel can
act: a call of a lock or semaphore, an access to shared memory, a system call.

Choices worth knowing:

- *ThreadPool.* A semaphore wait can return without a token (`RunWaitInterrupted`), as `run` does not
  look at its result. A constructor that throws, and a destructor under running workers, leave the pool
  `"gone"`; what a worker does with it from then on is `RunUndefined`. `m_stop` is read and written
  without synchronisation; a worker may read the old value until the step that sets it.
- *WebServer.* A request is `users + fd`, hence the descriptor. `QueueCapacity` is `m_max_requests +
  1`, which is what `ThreadPool` implements. The parser's answer is a parameter (`Verdicts`), so
  that the event loop is checked for a parser that gets somewhere; today's parser always answers
  `NO_REQUEST` (section 6). `process_write` fails only for `INTERNAL_ERROR`, which `process_read` never
  returns; so `close_conn` in `process` is unreachable and not an action. `dropped` is a history
  variable: sockets main was told of and put down for good. The constructor of `http_connection`
  is empty, so `m_sockfd` and `m_read_idx` of a slot before its first `init` hold anything; Init chooses. That nobody
  acts on such a slot is part of what `SlotsAreSound` shows (`DeliveredIsOpen`, `StaleIsMarked`). `close_conn` is one
  step: workers read only `m_sockfd` of what it writes, for an `epoll_ctl`, and no descriptor is reused inside it. The
  test of `m_user_count` against `MAX_FD` comes first, whatever `accept` has returned, as in the code.
- *HttpParser.* A chunk is a sequence of lexemes; `CR`, `LF`, `SP` and `NUL` are single characters.
  `received` is all the input so far. `read` and `process_read` are taken apart into their accesses to the
  buffer and its indexes: main receives, counts and appends at any time, and any number of workers are
  in `process_read` of the same connection, since `addfd` lets them (section 6). main's steps need no
  event here, so they come more often than epoll reports; which of them can come is `WebServer`'s subject. The
  slot may be given to a new connection under all this (`Reuse`). `raced` is a history variable: two workers have
  taken a line at the same time, or `init` ran while a request of the old connection was waiting or under way.
  **Only as long as `~raced` do the properties hold, and they say so**: two workers on one CR LF
  both execute `m_checked_index++` twice and pass `m_read_idx`, and from there on the answer depends on
  timing. `RaceNeedsLineEnd` shows how far this reaches: only input that starts with a line end lets it happen on
  a slot that is not reused. Every branch in the loop of `parse_line` returns, so a call looks at one character. The
  header state is modelled, but no input reaches it before a race (`NoRequestIsParsed`, section 5).
- *NodeList.* `Nodes` is what `malloc` can return; in the programs without a limit of their own,
  producers pause while all nodes are allocated.
- *EchoClients.* A message is counted in pieces, the reads the server needs for it. A client that dies
  sends FIN, or RST when an answer is unread; an answer to a dead client brings RST, before the
  server's next call or later, and the next write then raises SIGPIPE. Clients are alike and are
  numbered in the order in which they connect.
- *ServerThread.* `pthread_create` may fail, which main does not notice: the client keeps its descriptor
  and its element of `sockInfos` (`"failed"`), and `pthread_detach` of an identifier that names no thread may
  end the process.
- *SelectServer.* `temp` loses a descriptor when the loop gets to it, which replaces the loop index.
  `FD_SET(-1)` after a failed accept is undefined: the process aborts, or sets a bit that is set already.
- *PollServer.* `revents` is not initialised in the code: Init chooses it. An element that poll has
  not looked at keeps its value, and a wrong value leads to `read(-1)` and the end of the server.
- *EpollServer.* The epoll set is the set of open descriptors, as `close` removes a descriptor;
  `EPOLL_CTL_DEL` comes after `close` in `epoll_LT.c` and fails. `rdlist` is the kernel's ready list.
  A full piece of five bytes is passed to `strlen` without a terminator in `epoll_LT.c`; contents
  are not modelled.

- *Children.* Seven parents in one module: they share `fork`, the end of a child and the end of the
  parent, and differ in what they turn to (`ParentPart`). Children of `wait.c` and `waitpid.c` never return and
  end only when somebody kills them. A zombie whose parent has ended is collected by init.
- *Signals.* A program is the list of its statements (`Statements`). Seconds are left out. A handler
  runs on top of main (`inside`), SIGALRM is blocked meanwhile.
- *Pipes*, *Chat.* A piece is the text of one write, numbered; a read takes any number of pieces up to what
  is there. The two processes of a chat user hold one set of descriptors before the fork. After the end of
  standard input `fgets` gives nothing, and the loop writes nothing for ever (`"spins"`).
- *Echo.* A number stands for the message. A datagram may be lost on either way; it is not duplicated or
  reordered on the loopback address the programs use. *Broadcast* counts characters instead: how many the text in the
  buffer has, and how many of those are of the newest datagram. The buffer is not initialised, so Init chooses its length.
- *PipeKernel.* `got` is what `read` returned. Some programs print more than that, as they do not clear
  their buffers or end the text.
- *MappedFile.* `strcpy` copies cell by cell. The child that reads may be killed, or missing because its
  fork failed. *ShmSegments.* Identifiers are not handed out twice.

## 3. Runs

Every passing run explores its whole state space and checks a type invariant of its modules; that of
`HttpParser`, whose buffer has no bound of its own, is `BufferTypeOK` of `HttpParserProofs` and proved. Deadlock
is checked for `producer_consumer`, where threads run for ever; elsewhere clients fall silent or the
program ends.

| run | states | instance | shows |
|---|---|---|---|
| `thread_pool` | 554k | 2 clients, 2 workers, limit 2, 4 appends, 1 failed wait, null requests | `QueueIsSound` (types, mutual exclusion, bound, order), `TokensMatchRequests`, `StopIsPrompt`, `ImplementsWorkQueue`, `EveryRequestIsServed` |
| `web_server` | 485k | 2 workers, 2 descriptors, 3 connections, 3 chunks, capacity 2, any `m_sockfd` in unused slots | `SlotsAreSound`, `OneShotIsOwned`, `NoMissedEdge`, `IdleLeavesNoWork`, `InputIsRead` |
| `http_parser` | 199k | 2 workers; a request line, CR LF, CR and LF in up to 3 reads; 1 reuse of the slot; all lines of up to 6 lexemes | `IndexesInOrder`, `RaceNeedsLineEnd`, `ChunkingIsInvisible`, `RequestLineGrammar`, `ProcessReadReturns` |
| `producer_consumer` | 13k | 2 producers, 3 consumers, 4 nodes, 2 slots | `ListIsSound`, `WakeupsMatchNodes`, `SomeoneGoesOn`, `IsSharedStack`, `ConsumptionGoesOn` |
| `locks` | 69k | 3 windows, 3 tickets; 2 writers, 2 readers, 3 increments; 2 crossed locks; 6 thread programs | `EachTicketOnce`, `RwLosesNoIncrement`, `ThreadsAreNotCutOff`, `ProgramsEnd` |
| `servers` | 33k | 3 clients, 2 descriptors, 2 elements of `sockInfos`, 3 messages | `ThreadServesItsClient`, `ProcessForgetsNoZombie`, `ClientsPerLifeAreLimited`, `EveryMessageIsAnswered` |
| `multiplexing` | 291k | 3 clients, 2 descriptors, 3 messages of 1 or 2 pieces, 1 garbage `revents` | `TablesMatchKernel`, `ReportsStayTrue`, `SleepsOnlyWhenServed`, `EveryClientIsAnswered` |
| `processes` | 21k | 3 children; 2 rounds of `sigprocmask.c`; 2 cells, 2 texts; 3 users of shared memory; a pipe of 2 pieces, 3 pieces sent; 2 lines per chat user; 2 echo clients, 2 numbers each; numbers of up to 3 digits | `NoSignalIsForgotten`, `ParentsLeaveNobody`, `SharedMemoryIsSound`, `MessagesAreNotMixed`, `NobodyIsLeftWaiting`, `EveryoneIsServed`, `PipesAreChannels`, `NobodyWaitsInVain` |
| `web_server_one_worker`, `http_parser_line_open`, `server_thread_slots`, `epoll_edge_blocking` | | as above | a comment of the code that the code does not keep (section 6) |

Five of these say of a state what a liveness property promises of a behaviour, and so are within reach of a proof:
`SomeoneGoesOn` (some thread is not blocked; stronger than the deadlock check, as no thread needs a spurious
wakeup), `IdleLeavesNoWork` and `SleepsOnlyWhenServed` (a server with nothing to do has left nothing undone),
`EachTicketOnce` (its second part: where windows stop) and `NobodyIsLeftWaiting` (a reader whose writer is gone can go on, and the
two chat programs do not wait for each other in `open`).

Why the bounds are enough to make the interesting cases happen:

- *thread_pool*: four appends fill a queue of three and have one more refused. Two workers and one
  failed wait give a worker without a token next to a token without a worker.
- *web_server*: three connections on two descriptors force reuse and a failed accept; three chunks let
  an unarmed connection be appended twice, and a queue of two refuses.
- *http_parser*: three reads put CR and LF in different reads, before, between or after a worker's tests,
  and leave one for what follows; two workers and two requests race wherever the code lets them; six
  lexemes hold every request line with one lexeme too many.
- *producer_consumer*: with three consumers one can take the node whose signal woke a second while the
  third sleeps; four nodes exceed the two slots.
- *locks*: three windows and three tickets let two windows see the last ticket.
- *servers*, *multiplexing*: three clients on two descriptors make descriptors run out and be reused;
  three messages let one client come back while another waits. `poll.c`'s missed elements (section 6)
  need more connections than this, and `EveryClientIsAnswered` excludes them by name (`Overlooked`).
- *processes*: with three children two can end while the handler runs for the first, so that signals
  merge. Three pieces overfill a pipe of two. Three users of shared memory let one create a segment that the
  second removes under the third, and then a new one. Numbers of one to
  three digits and buffers of every length make broadcasts that fit, that fit without their zero, and that are cut off. Groups do not interact, so the run chooses one in its initial state.

## 4. Fairness

Liveness assumes weak fairness of program steps only: the kernel schedules each thread, grants a
free mutex or a positive semaphore to some waiter, and wakes a single-threaded server that has
something to do. Details:

- `ThreadPool`: weak fairness of each worker's steps and of an append that has the mutex. Nothing makes
  a client append, the owner destroy the pool, or a signal arrive. A request is owed service only until
  the owner destroys the pool.
- `WebServer`, `ServerThread`, `ServerProcess`, `MC_Multiplexing`: the server's threads and processes
  are fair; no client has to connect, send, read or leave.
- `MC_ProducerConsumer`: each thread of `semaphore.c` is fair, but not in getting the mutex; so
  `ConsumptionGoesOn` says that some consumer goes on, not each.
- `MC_Locks`: each window, the two threads of `deadLock1.c`, and the two threads of each thread program.
- `MC_Processes`: processes are scheduled, timers expire, signals that are not blocked are delivered. No
  user presses a key, types a line or kills a process unless he likes, children of `wait.c` need not be killed,
  `ps` need not end, and no client sends again. Lost datagrams are lost: UDP clients are owed nothing.

Strong fairness is not used: pthread mutexes promise no thread its turn.

## 5. Proofs

TLAPS checks every leaf of the eight proof modules. For every invariant that a passing run checks, and for
every refinement, a theorem states it for all values of the constants; the numbers of threads,
descriptors, clients, nodes, pieces and messages, and the bounds, are arbitrary. Each module has one inductive
invariant, a conjunction of named parts, and one lemma per group of actions that keeps it. The properties
alone are seldom inductive; the tables name what had to be added.

**Thread pool** (`ThreadPoolProofs`): any finite set of clients and any finite non-empty set of workers, any
requests, any positive `MaxRequests` (`ThreadsAssumption`, `LimitsAssumption`).

| theorem | states | inductive invariant |
|---|---|---|
| `QueueSound` | `QueueIsSound`, the next four together | |
| `TypeCorrect` | `TypeOK`, and arguments of an append under way are requests | `TypeOK /\ Arguments` |
| `MutualExclusionHolds` | one thread works on the queue | `LockOwned`: a thread between lock and unlock is `m_queueLocker`. `MutualExclusion` is not inductive, as it does not mention the lock |
| `CapacityHolds` | at most `m_max_requests + 1` requests wait | with `TypeOK`, and that the guard and the push see the same queue |
| `OrderHolds` | popped, then waiting, equals accepted | with two lemmas about appending and taking the head |
| `NoRequestStranded` | `TokensMatchRequests`: tokens in the semaphore, in an append, or with a woken worker cover the waiting requests, exactly if no wait fails | both counts at once, with the sets of threads that carry a token, whose sizes change by one per step |
| `StopHolds` | after `m_stop` each worker starts one more request at most | `StopBudget`: requests taken since, and workers past their test of `m_stop`, are together at most the number of workers |
| `PoolImplementsWorkQueue` | `ThreadPool` implements `WorkQueue` under `queue <- m_workQueue`, `serving <- Serving`, `Capacity <- MaxRequests + 1` | every step is `Put`, `Refuse`, `Get`, `Done` or a stutter |

`PoolImplementsWorkQueue` justifies that `WebServer` uses `WorkQueue` for the pool.

**Web server** (`WebServerProofs`): any finite set of descriptors other than `listenfd`, any finite set of workers,
a pool that lets at least two requests wait, any verdicts (`FdsAssumption`, `SizesAssumption`).

| theorem | states | `WInv` adds |
|---|---|---|
| `UsersMatchKernel` | `SlotsAreSound`: `SlotsMatchKernel` (an open descriptor is in its own slot, main's events are of open descriptors, a slot that the pool holds of a closed connection is -1, `m_user_count` counts the open ones) and `TypeOK` | `AcceptHasClient`: an accept event stands for a waiting connection. Lemmas count the open descriptors, one more or one less per step |
| `OneShotsAreOwned` | `OneShotIsOwned` | `VerdictsAreAboutWork`: a worker has a verdict only while it serves a connection |
| `IdleMeansNoWork` | `IdleLeavesNoWork` | nothing: it follows from `NoMissedEdge` and `OneShotIsOwned` |
| `NoEdgeIsMissed` | `NoMissedEdge` | `ClosedIsClean` (nothing is left on a descriptor for its next connection), `OutIsReady`, `OneEventPerFd` and `AnswerLeavesNothing` (what main is told of a socket it will not read) |

`LeastNat`, that each non-empty set of numbers has a least element, is proved from the well-foundedness of
finite sets under inclusion: `accept` returns the lowest free descriptor, and it exists.

**HTTP parser** (`HttpParserProofs`): any set of workers, any set of non-empty chunks, any number of reads and of reuses,
lines of any length (`ChunksAssumption`). All but the grammar hold until a race (`raced`, section 2); a stronger
statement would be false of the code.

| theorem | states | argument |
|---|---|---|
| `IndexesStayInOrder`, `ChunkingDoesNotShow` | `IndexesInOrder`, `ChunkingIsInvisible` | `HInv`: `Counted` (what main has counted is received), and before a race `Orderly`: nobody takes a line and the indexes are at the start; or one worker does, at a known place (`Takes`), on a line end that comes first in the buffer; or it has written through a null pointer (`HasCrashed`). `Answered`: what was returned fits the input |
| `OnlyLineEndsRace` | `RaceNeedsLineEnd` | a worker that takes a line before a race has found CR and LF at the start of the data |
| `NoRequestIsParsed` | whatever a client sends, `m_check_state` stays `REQUESTLINE` and the result is `NO_REQUEST` or undefined | the same invariant. It is the disagreement at `http_connection.cpp:339` (section 6), for every input |
| `GrammarOfAnyLine` | `parse_request_line` accepts, of the lines of any length over any alphabet, exactly `GET`, a target with a path, the version, one space between them | case by case over the branches of the function |
| `GrammarIsExact` | `RequestLineGrammar` | the lines and targets the run enumerates are among them |

**Producer/consumer** (`ProducerConsumerProofs`): any finite sets of producers and consumers, with at least one consumer,
any finite memory, any positive number of slots (`NodeListAssumption`, `SlotsAssumption`,
`SemThreadsAssumption`).

| theorem | states | `PInv` adds |
|---|---|---|
| `ListsAreSound` | `ListIsSound`: no node is lost, leaked, freed twice or held by two threads | `ListInv`, one for all three programs: the mutex is held by the thread inside, if one is (`OwnerIsInside`), what each local pointer is worth at each statement (`PointersFit`), a node that is allocated is on the list or in the hands of a thread (`NothingLeaks`) |
| `NoProgramStops` | `SomeoneGoesOn` | which statements belong to which program (`LabelsFit`), memory that a producer has seen is still there (`RoomForNew`). Assumes a producer, a node, and a node for each slot: otherwise `semaphore.c` ends up waiting for memory that nobody will free, where `malloc` of the code would fail |
| `WakeupsFit` | `WakeupsMatchNodes`: `CondLosesNoWakeup` and `SemCountsNodes` | for the condition variable nothing more: with `ListInv`, `NoLostWakeup` is inductive. For the semaphores `SemCounts`, equations: the length of the list is `csem` and the threads between a semaphore and the list, and both semaphores and those threads add up to `Slots` |
| `ListsImplementStack` | `IsSharedStack` (refinement) | each program pushes and pops at one statement, under the mutex |

**Locks and threads** (`LocksProofs`): any finite non-empty set of windows and at least two tickets, any writers and readers
that are not the same, any number of increments (`TicketsAssumption`, `LocksAssumption`).

| theorem | states | `LocksInv` adds |
|---|---|---|
| `TicketsSoldOnce` | `EachTicketOnce`, although `while (ticket > 0)` is read without the mutex; and windows close only when all is sold, without the mutex | `TInv`: only the owner of the mutex is between lock and unlock (`Owned`); the counter is what is not printed yet, except between printing and `ticket--` (`Counted`); what is printed counts down from the total (`InOrder`); who prints or takes a ticket has one, who has returned has left none, and the owner of the mutex is inside (`TicketsLeft`) |
| `NoIncrementIsLost` | `RwLosesNoIncrement` | `WriterIsAlone`, `OperandIsFresh`: what a writer has loaded is still `num` when it stores |
| `NoThreadIsCutOff` | `ThreadsAreNotCutOff` | `StepsLeft`, `JoinFinds`: which statements can be left, and what the join will find |
| `OnlyCrossedLocksStop` | if no worker of `deadLock1.c` can go on and one is not done, the locks are crossed | `OrderInv`: who owns which mutex at which statement |

**Concurrent servers** (`ServersProofs`): any clients, descriptors, length of `sockInfos` and number of
messages (`ClientsAssumption`, `ServerThreadAssumption`, `ServersAssumption`).

| theorem | states | `SInv` adds |
|---|---|---|
| `ThreadsServeTheirClients` | `ThreadServesItsClient`: `ServesItsClient` and `DescriptorsAreOwned` | `ConnectionsAreFresh`: a connection waits for accept once, then is behind one descriptor. `MainHolds`: what main has between accept and `pthread_create`, and that the element it fills is free |
| `ClientsPerLife` | `ClientsPerLifeAreLimited` | `ElementsAreKept`: an element that was given to a thread is given to no other, so the threads map into `sockInfos` one to one. `ConnectionsAreKept`: the parent has every connection open that it gave to a child |
| `NoZombieIsForgotten` | `ProcessForgetsNoZombie` | types only |

**Multiplexing servers** (`MultiplexingProofs`): any clients, any range of descriptors above the listening socket, any
number of messages and of bad elements in `revents` (`DescriptorsAssumption`, `MultiplexingAssumption`: the
kernel hands out the lowest free descriptor, so those that can be open are a range).

| theorem | states | `MInv` adds |
|---|---|---|
| `TablesAreTheKernels` | `TablesMatchKernel` | `SelectInv`, `PollInv`: where the loop is and what it still has to look at |
| `ReportsAreTrue` | `ReportsStayTrue` | `KernelInv`: two descriptors are never behind one connection, so serving one leaves the report on the other true. `EpollInv`: edge-triggered input is on `rdlist`, in the batch, or with the descriptor in service |
| `SleepersHaveNoWork` | `SleepsOnlyWhenServed` | nothing: it follows from the tables and `EpollInv`, by one case per server |

**Processes and their channels** (`ProcessesProofs`): any positive number of children, any users and identifiers of shared
memory, any positive capacity of a pipe, any number of pieces and lines, any clients, any buffer that
holds the longest message (the assumptions of the modules, and `ProcessesAssumption`). `GroupSteps` says that a step of the
whole is a step or a stutter of each group, so each keeps its own invariant; `MCInv` is their conjunction.

| theorem | states | invariant of the group |
|---|---|---|
| `SignalsAreNotForgotten` | `NoSignalIsForgotten` | `CInv`: `reclaim_num` is the number of children that are gone (`Counts`), which statements belong to which program, SIGCHLD blocked until `myFun` is installed (`Phases`). `SigInv`: a program with a handler installs it before its timer runs (`CaughtFirst`), a key that was sent is pending or has ended the process (`NoneLost`) |
| `NobodyIsLeft` | `ParentsLeaveNobody`: of `wait.c` and `waitpid.c` where the last fork did not fail, of the choruses always | with `CInv` |
| `MemoryIsSound` | `SharedMemoryIsSound`; a segment whose user was killed may stay | `OneAfterTheOther`: the parent reads when its child has written everything. `ShmInv`: types and `AttachedStays`; `NoSegmentLeftBehind` is inductive with them |
| `MessagesStayApart` | `MessagesAreNotMixed`: echoes are the client's own, and nothing left over shows in a broadcast | `OneRequest`: of each client one number at most is on its way, the one it sent last, and none while it is about to send. `CastInv`: a datagram on its way ends with its zero (`Terminated`), so it either brings the new end of the text or fills all of the old one |
| `ReadersAreNotLeft` | `NobodyIsLeftWaiting` | `WaitInv`: who has ended holds no write end, and the reader of a pipe has closed its own (`EndsGiven`); only living processes of a user hold the write end of his FIFO (`WritersLive`); `OpensDoNotCross` is inductive with `ChatInv` |
| `PipesImplementChannels` | `PipesAreChannels` (refinement) | `DataInv`: what was read and what is in the pipe is what was written. `WriterHolds`, `ChatInv`: each process that is not gone holds the end it writes to, so an end of file means that all senders are gone. For the chat this needs how the two users meet: they pass `aFifo` together and then `bFifo`, unless one has left |
| `ZombiesRemembered`, `NobodyLeftBehind`, `ChildrenTypes`, `SegmentsSound` | the same of `Children` and `ShmSegments` as specifications of their own, with the same two exceptions | |

Only model-checked: the liveness properties (`EveryRequestIsServed`, `InputIsRead`, `ProcessReadReturns`,
`ConsumptionGoesOn`, `ProgramsEnd`, `EveryMessageIsAnswered`, `EveryClientIsAnswered`, `EveryoneIsServed`,
`NobodyWaitsInVain`), as TLAPS handles neither fairness nor ENABLED here; and the
runs that end in a violation. That `producer_consumer` has no deadlock is proved as `NoProgramStops`, with the
conditions of each blocking call written out (`Blocked`) in place of ENABLED. No module declares a recursive operator.

What the proofs changed in the models. `Echo` had the bound `Len(requests) <= MaxNum`, which held in the run only
because it has as many clients as numbers; the type is now a sequence of numbers of clients. `HttpParser`
kept the chunks of the input apart, which no code does; it now keeps the input. `Writers` and `Readers`
of `MC_Locks` became constants. `NodeList`, `Broadcast` and the `MC` modules state assumptions that
the configurations satisfied silently.

## 6. Where code and comments disagree

Each has a run in which TLC shows it:

- `http_connection.cpp:28`: `event.events | EPOLLONESHOT` has no effect; two workers can process one
  connection at once (`OneWorkerPerConnection`).
- `http_connection.cpp:339`: `parse_line` answers `LINE_OPEN` at the first ordinary character, so no
  request is ever taken apart (`LineOpenMeansIncomplete`). And as two workers can be inside (the first item), both may
  take the CR LF of lines 321-325 and leave `m_checked_index` behind the data (`raced`).
- `server_thread.c:54`: an element of `sockInfos` is never given back (`ThreadWaitsOnlyWhenFull`).
- `epoll_ET.c:90`: `F_SETFD` for `F_SETFL`; the server waits for one client while others wait for the
  server (`EdgeReadsEveryClient`).

Others are visible in the models and have no run of their own:

- `server_process.c:70`: `sa_flags` is 0, so a SIGCHLD during accept makes it fail with EINTR, and the
  parent exits with its first dead child, although line 62 says that it waits for clients for ever
  (`ServerProcess!AcceptFails`; `EveryMessageIsAnswered` holds of the children it leaves).
- `setitimer.c:42` says "every two seconds, after three"; no handler is installed, and the first SIGALRM
  kills the program (`SignalsAreKept` allows this only without a handler).
- `write_shm.c` and `read_shm.c` remove the segment only if a key is pressed: one that is killed leaves it behind
  (`NoSegmentLeftBehind` excepts it).
- `wait.c:18` says that `wait` returns -1 when a child has ended. It returns the child, as the loop needs.
- `wait.c:45`, `waitpid.c:44` look at what the last fork returned: if only that one failed, the parent
  returns and leaves its other children (`AllCollected` excepts it).
- `MultiProcess_Chorn.cpp:67` counts to `THREAD_NUM`: after a failed fork it polls for ever
  (`ParentsReturn`). It prints `total_sum`, which only the children have changed, each in its own memory.
- `a.c:55` waits for a child that never ends: the user can send one line, not many. `b.c:56` likewise.
- `aChat.c:65`: at the end of standard input the program writes nothing in a busy loop until it is killed.
- `multicast_client.c:24` joins 127.0.0.1, which is no multicast group, and never binds its socket: it
  receives nothing.
- `broadcast_client.c:37` receives `strlen(recvBuf)` bytes into a buffer that nothing initialises: a message is cut off
  at the length of whatever the buffer held, and if that starts with a zero the client shows nothing for ever
  (`RecvFrom` with `len = 0`). What it does show is of the newest message (`NothingLeftOverShows`).
- `thread_pool.h:94` tests `size() > m_max_requests`: one request more than line 35 says can wait
  (`CapacityBound` has the `+ 1`, and the refinement holds for no smaller capacity).
- `main.cpp:142` ignores what `append` returns: a refused connection is never re-armed
  (`OneShotIsOwned` and `InputIsRead` need `dropped`). `main.cpp:152` does the same after a write.
- `main.cpp:120` accepts once per edge of the listening socket: of two clients that connect together, one
  waits until a third connects.
- `poll.c:86`, `cfd > cfd ? nfds : cfd`: `nfds` is the newest descriptor. As element `k` is always for
  descriptor `lfd + k` (`TablesMatchKernel`), poll misses the elements above the newest descriptor: with
  five clients and `lfd = 3`, when the first is replaced, the fifth is no longer served. And after a
  failed accept `nfds` is -1, and poll waits for ever.
- `epoll_ET.c:118`, `errno = EAGAIN`: every failed read counts as the end of the data, and no descriptor is
  ever closed.

## 7. What is not modelled

- Start-up (socket, bind, listen, reading of arguments): straight-line code that exits on failure.
- `parse_content`, `do_requset`, `add_response`, `process_write` of the web server: never reached, and
  partly not compilable. `locker.h`'s `Condition`: not used.
- Contents of messages, and sizes in bytes. So an overflow of the read buffer of `http_connection::read`,
  and `strlen` over an unterminated buffer, are out of sight.
- A failing `epoll_wait` other than EINTR, on which the loop of `main.cpp` ends and with it the server (lines 101-105).
- In the parser: a buffer that is full (line 97; `WebServer` has it), `m_url` and the zeros written at the
  spaces of a request line, which no step of the model looks at afterwards.
- What two workers in `process_read` do to each other beyond the steps listed: after `raced` the model goes on, but a
  step may stand for several accesses, and nothing is claimed.
- Memory models weaker than interleaving, except where a race has an action of its own.
- Socket basics (`addr_Functions`, `byteSort`), file system call examples, `core.c`, `sigset.c`, `exit.c`,
  `fpathconf.c`, `mkfifo.c`, `copy.c`, `MultiThread_Test.cpp`, `epoll_test.cpp`, `timer_test.cpp`, the start-up of
  `daemonP.c`: one call after the other by a single process, with no state to get wrong.
- One of the two directions of `a.c` and `b.c`: they are alike and share nothing.
- Duplicated and reordered datagrams: the UDP programs talk over the loopback interface.

## 8. Plan

In this order, most important first:

1. Done: thread pool with abstract queue; web server; parser; producer/consumer; locks and
   thread life; concurrent servers; multiplexing servers; children and signals; shared memory; pipes, chat and
   their abstract channel; echoes and broadcast; proofs of all their safety properties and refinements.
2. Done: the safety behind the liveness properties, as theorems: no producer/consumer program stops, the web server
   and the multiplexing servers are idle only when nothing is left to do, windows close sold out, the readers of pipes
   and of the chat are not left waiting, crossed locks are the only stop of `deadLock1.c`; and how many clients the
   concurrent servers can have in their lives.
3. Open: which states the echo programs and the parents of children can stop in, as theorems; liveness, once the
   prover handles fairness.
