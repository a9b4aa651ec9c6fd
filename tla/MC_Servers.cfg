\* Both concurrent servers, with every limit within reach.
CONSTANTS
  Conns <- MCConns
  Fds <- MCFds
  Max = 2
  MaxSends = 3
  MaxFds = 2
  ForkMayFail = TRUE
  NoFd = NoFd
  NoConn = NoConn

SPECIFICATION MCSpec

INVARIANT ThreadServesItsClient
INVARIANT ProcessForgetsNoZombie
INVARIANT ClientsPerLifeAreLimited

PROPERTY EveryMessageIsAnswered

\* The clients fall silent, or the server has exited.
CHECK_DEADLOCK FALSE
