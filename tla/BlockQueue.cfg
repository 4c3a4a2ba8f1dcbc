CONSTANTS
  Items <- MCItems
  Consumers = {c1, c2, c3}
  maxSize = 3
  UT_QUEUE_MAX_LEN = 4
SPECIFICATION FairSpec
INVARIANTS SizeConsistent NoLostWakeup
PROPERTY ServedWhileAsleep
