SPECIFICATION FairSpec
CONSTANTS
  Worker = {wA, wB, wC}
  Manager = manager
  QueueLength = 1
  WorkItem = {1}
  CounterMod = 3
INVARIANTS
  OneItemEach
  BitsAreWaiters
  NoLostWakeup
  MarkersFollowRounds
PROPERTIES
  RoundsAdvance
  NoWorkerStarves
  ImplementsRoundCount
