\* The event loop, the workers and epoll, whatever the parser decides.  Two descriptors for
\* three clients, two workers, and a pool that lets two requests wait: descriptors are
\* reused, accept runs out of them, append refuses, and a connection can be with both workers.
CONSTANTS
  ListenFd = 3
  NoFd = NoFd
  Fds = {5, 6}
  Workers = {w1, w2}
  MaxFd = 8
  QueueCapacity = 2
  BufferSize = 2
  Verdicts = {"NO_REQUEST", "ANSWER"}
  MaxConnects = 3
  MaxSends = 3

SPECIFICATION FairSpec

INVARIANT SlotsAreSound
INVARIANT OneShotIsOwned
INVARIANT NoMissedEdge
INVARIANT IdleLeavesNoWork

PROPERTY InputIsRead

\* The clients fall silent and every thread then waits.
CHECK_DEADLOCK FALSE
