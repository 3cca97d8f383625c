CONSTANTS
  MaxQueued = 2
  Values = {0, 1}
  Unknown = none
  Delay = 2
  MaxDepth = 2
  MaxElements = 3
  MaxControl = 64
  HeadBytes = {0, 23, 24, 25, 32, 56, 64, 65, 88, 96, 97, 120, 128, 129, 152, 160, 161, 192, 244, 248}
  MaxInput = 4
  TextBytes = {65, 128, 143, 144, 159, 160, 191, 193, 194, 224, 237, 240, 244, 245}
  MaxText = 4
SPECIFICATION FairSpec
CHECK_DEADLOCK FALSE
INVARIANTS ReceptionInv StatusTruthful LastChangeWins MessagesDecoded MessagesUnderstood
PROPERTIES ReceptionProgress
