\* The thread pool with every step of its life, one failed wait at most.
CONSTANTS
  p1 = p1
  p2 = p2
  w1 = w1
  w2 = w2
  r1 = r1
  Null = Null
  NoThread = NoThread
  Producers <- MCProducers
  Workers <- MCWorkers
  Requests <- MCRequests
  MaxRequests = 2
  MaxAppends = 4
  MaxInterrupts = 1

SPECIFICATION FairSpec

INVARIANT QueueIsSound
INVARIANT TokensMatchRequests
INVARIANT StopIsPrompt

PROPERTY ImplementsWorkQueue
PROPERTY EveryRequestIsServed

\* The clients stop appending and the workers then wait for ever.
CHECK_DEADLOCK FALSE
