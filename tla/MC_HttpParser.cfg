\* The request parser on every way to cut an input into reads, with two workers that main
\* does not wait for, and a slot that is used for a second connection.
CONSTANTS
  Chunks <- MCChunks
  MaxChunks = 3
  MaxReuses = 1
  Workers = {w1, w2}

SPECIFICATION FairSpec

INVARIANT IndexesInOrder
INVARIANT RaceNeedsLineEnd
INVARIANT ChunkingIsInvisible
INVARIANT RequestLineGrammar

PROPERTY ProcessReadReturns

\* The client stops sending.
CHECK_DEADLOCK FALSE
