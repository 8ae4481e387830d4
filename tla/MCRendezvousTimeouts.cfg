SPECIFICATION TimedSpec
CONSTANTS
  Worker = {wA, wB}
  Manager = manager
  QueueLength = 1
  WorkItem = {1, 3}
  CounterMod = 2
  portMAX_DELAY = 3
  MaxLag = 2
SYMMETRY WorkerSymmetry
INVARIANTS
  WaitingIsReceivers
  WaitersHaveBits
