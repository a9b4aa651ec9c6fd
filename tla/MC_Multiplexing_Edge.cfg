\* epoll_ET.c waits in read for one client while another has sent something.
CONSTANTS
  Conns <- MCConns
  Fds <- MCFds
  Lfd = 3
  MaxSends = 3
  MaxGarbage = 1
  NoFd = NoFd
  NoConn = NoConn

SPECIFICATION EdgeSpec

PROPERTY EdgeReadsEveryClient

CHECK_DEADLOCK FALSE
