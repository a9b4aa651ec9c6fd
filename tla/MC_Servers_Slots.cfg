\* server_thread waits for a slot while slots have no client.
CONSTANTS
  Conns <- MCConns
  Fds <- MCFds
  Max = 2
  MaxSends = 3
  MaxFds = 2
  ForkMayFail = TRUE
  NoFd = NoFd
  NoConn = NoConn

SPECIFICATION ThreadSpec

INVARIANT ThreadWaitsOnlyWhenFull

CHECK_DEADLOCK FALSE
