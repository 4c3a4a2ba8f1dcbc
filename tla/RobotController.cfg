SPECIFICATION FairSpec
CONSTANTS
  PdMax = 3
  PdCtrl = 2
  PdInit = 1
  Remotes <- MCRemotes
INVARIANTS PublishedCoherent CtrlAfterRamp
PROPERTIES RestiffenFromZero FallEndsCtrl StopReachesWire
