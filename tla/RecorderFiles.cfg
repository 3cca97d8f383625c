CONSTANTS
  Capacity = 2
  Pts = {0, 1, 4}
  Duration = 15
  MaxTime = 35
  MaxSessions = 2
  MaxFrames = 4
SPECIFICATION FairSpec
CHECK_DEADLOCK FALSE
PROPERTIES StopReturns StopGuarantee OutputReplacedWhole
