CONSTANTS
  Users = {u1, u2}
  MaxWrites = 2
  MaxHandovers = 3
SPECIFICATION FairSpec
INVARIANTS PublishedWhole PublishedSealed OneWritePerHandover TrylockAfterCopy
PROPERTIES RealtimeHandoverPublished DestructorReturns
CHECK_DEADLOCK FALSE
