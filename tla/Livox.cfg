SPECIFICATION LivoxSpec
CONSTANTS
  t1 = t1
  t2 = t2
  t3 = t3
  Threads <- MCThreads
  LogPeriod = 2
  MaxCount = 4
  MaxTime = 6
  MAX_UDP_PAYLOAD = 10
  SeqRange = 4
  HEADER_SIZE = 3
  ITEM_SIZE = 2
  MaxTotal = 10
  MaxDropped = 6
  HeaderSize = 5
  PointSize = 2
  CastRange = 8
  Band = 2
  Heights = {1, 2, 8}
  MaxPoints = 6
SYMMETRY ThreadSymmetry
INVARIANTS NoCallLost OneLogPerPeriod EveryItemSentOnce LossVisible BandInNumberedOrder
