CONSTANTS
  queueLen = 2
  MaxBatch = 2
  MaxMessages = 5
SPECIFICATION FairSpec
PROPERTIES ImplementsNewestWins QueuedMessageLeaves JoinReturns
CHECK_DEADLOCK FALSE
