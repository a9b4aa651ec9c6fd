\* The mutex, condition variable and semaphore versions of the producer/consumer list.
CONSTANTS
  p1 = p1
  p2 = p2
  c1 = c1
  c2 = c2
  c3 = c3
  Producers <- MCProducers
  Consumers <- MCConsumers
  Nodes <- MCNodes
  Slots = 2
  Nobody = Nobody
  NoNode = NoNode

SPECIFICATION MCSpec

INVARIANT ListIsSound
INVARIANT WakeupsMatchNodes
INVARIANT SomeoneGoesOn

PROPERTY IsSharedStack
PROPERTY ConsumptionGoesOn
