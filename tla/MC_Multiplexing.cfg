\* The servers on select, poll and epoll, with more clients than descriptors.
CONSTANTS
  Conns <- MCConns
  Fds <- MCFds
  Lfd = 3
  MaxSends = 3
  MaxGarbage = 1
  NoFd = NoFd
  NoConn = NoConn

SPECIFICATION MCSpec

INVARIANT TablesMatchKernel
INVARIANT ReportsStayTrue
INVARIANT SleepsOnlyWhenServed

PROPERTY EveryClientIsAnswered

\* The clients fall silent, or the server has exited or waits for ever.
CHECK_DEADLOCK FALSE
