\* Children, signals, shared memory, pipes, FIFOs, the chat, echoes and the broadcast.
CONSTANTS
  N = 3
  Rounds = 2
  Cells = 2
  MaxTexts = 2
  Procs <- MCProcs
  Segments <- MCSegments
  NoSegment = NoSegment
  Capacity = 2
  Pieces = 3
  Lines = 2
  Clients <- MCClients
  MaxNum = 2
  Prefix = 2
  MaxDigits = 3
  BufSize = 8

SPECIFICATION MCSpec

INVARIANT NoSignalIsForgotten
INVARIANT ParentsLeaveNobody
INVARIANT SharedMemoryIsSound
INVARIANT MessagesAreNotMixed
INVARIANT NobodyIsLeftWaiting

PROPERTY EveryoneIsServed
PROPERTY PipesAreChannels
PROPERTY NobodyWaitsInVain

\* Programs end, and some wait for ever.
CHECK_DEADLOCK FALSE
