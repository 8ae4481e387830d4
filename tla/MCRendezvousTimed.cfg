SPECIFICATION TimedFairSpec
CONSTANTS
  Worker = {wA, wB, wC}
  Manager = manager
  QueueLength = 8
  WorkItem = {1, 3}
  CounterMod = 2
  portMAX_DELAY = 16
  MaxLag = 1
INVARIANTS
  WaitsAreShort
  SendNeverBlocks
PROPERTIES
  ImplementsRendezvous
