CONSTANTS
  queueLen = 1
  MaxBatch = 1
  MaxMessages = 1
SPECIFICATION FairSpec
PROPERTY InterruptEndsGet
CHECK_DEADLOCK FALSE
