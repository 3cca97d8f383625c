CONSTANTS
  Capacity = 1
  Pts = {0}
  Duration = 15
  MaxTime = 35
  MaxSessions = 2
  MaxFrames = 1
SPECIFICATION GuiSpec
CHECK_DEADLOCK FALSE
PROPERTIES UiNeverReverts UiProgress
