\* Tickets with and without a mutex, readers and writers, crossed locks, the life of a thread.
CONSTANTS
  w1 = w1
  w2 = w2
  w3 = w3
  r1 = r1
  r2 = r2
  Windows <- MCWindows
  Writers <- MCWriters
  Readers <- MCReaders
  Total = 3
  Nobody = Nobody
  MaxWrites = 3
  NoWriter = NoWriter

SPECIFICATION MCSpec

INVARIANT EachTicketOnce
INVARIANT RwLosesNoIncrement
INVARIANT ThreadsAreNotCutOff

PROPERTY ProgramsEnd

\* deadLock.c and deadLock1.c do stop.
CHECK_DEADLOCK FALSE
