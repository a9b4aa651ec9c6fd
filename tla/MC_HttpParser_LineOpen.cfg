\* LINE_OPEN is returned for lines that are complete.
CONSTANTS
  Chunks <- MCChunks
  MaxChunks = 3
  MaxReuses = 0
  Workers = {w1, w2}

SPECIFICATION Spec

INVARIANT LineOpenMeansIncomplete

CHECK_DEADLOCK FALSE
