CONSTANTS
  Users = {u1}
  MaxWrites = 1
  MaxHandovers = 1
SPECIFICATION FairSpec
PROPERTY HandoverPublished
CHECK_DEADLOCK FALSE
