\* Two workers process one connection at the same time.
CONSTANTS
  ListenFd = 3
  NoFd = NoFd
  Fds = {5, 6}
  Workers = {w1, w2}
  MaxFd = 8
  QueueCapacity = 2
  BufferSize = 2
  Verdicts = {"NO_REQUEST"}
  MaxConnects = 3
  MaxSends = 4

SPECIFICATION Spec

INVARIANT OneWorkerPerConnection

\* The clients fall silent and every thread then waits.
CHECK_DEADLOCK FALSE
