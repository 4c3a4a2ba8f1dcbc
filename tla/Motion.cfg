SPECIFICATION MotionSpec
CONSTANTS
  Motions = {"rotate", "move", "ankle", "stand"}
  Circle = 6
  control_error_yaw = 2
  Kp = 2
  OLimit = 3
  MaxTurn = 2
  Deltas <- MCDeltas
  Timeout = 1
  MaxTurned = 6
  Displacements <- MCDisplacements
  control_error = 1
  OLimitXY = 3
  MaxStep = 1
  Extent = 2
  Duration = 8
  HalfPR = 4
  HalfAB = 8
  MaxOvertake = 1
  MaxTime = 32
  MaxStates = 3
  Positions <- MCPositions
  Drift = 12
  _targetPos <- MCTargetPos
  Durations <- MCDurations
  Delay = 2
  MaxReleases = 2
INVARIANTS AngleIsTrue SuccessIsTrue MovedAsAsked MismatchNearZero TypeKnownSoon LeftActiveOnlyBlind
PROPERTIES VelocityApproaches TargetsDoNotJump
CHECK_DEADLOCK FALSE
