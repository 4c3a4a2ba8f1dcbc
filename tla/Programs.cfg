SPECIFICATION ProgramSpec
CONSTANTS
  Checked = {"subscription", "remote", "audio", "udp", "hand"}
  Workers = {w1, w2}
  Names = {a, b}
  Uploads <- MCUploads
  BUFFER_SIZE = 4
  Lacks = {0, 1}
  Throttle = 3
  MaxClients = 3
  Swing = 4
  Modes = {0, 1, 2}
  DefaultTimeout = 4
  Timeouts <- MCTimeouts
  Poll = 2
  Stable = 2
  Slack = 1
  HandlerBound = 1
  MaxAge = 8
INVARIANTS CheckedModeIsTrue StopHolds PlayedWhole ToCurrentClient RateKept
PROPERTIES NoMessageMissed EveryRequestAnswered ClientServed SweepsTheRange StopReachesHand
