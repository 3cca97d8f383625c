CONSTANTS
  c1 = c1
  none = none
  NoConsumer = none
  Consumers = {c1}
  InitialConsumer = c1
  SwapConsumers = {}
  UsesSecurity = FALSE
  QueueLimit = 1
  MaxConnections = 1
  MaxGeneration = 1
  MaxFrames = 1
  Ageing = {"connectedAt", "trustAt", "readyAt", "pendingFormatAt", "streamingAt", "lastVideoAt", "lastActivity"}
SPECIFICATION FairSpec
CHECK_DEADLOCK FALSE
PROPERTIES StallsEnd
