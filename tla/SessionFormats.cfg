CONSTANTS
  c1 = c1
  none = none
  NoConsumer = none
  Consumers = {c1}
  InitialConsumer = c1
  SwapConsumers = {c1}
  UsesSecurity = FALSE
  QueueLimit = 1
  MaxConnections = 1
  MaxGeneration = 3
  MaxFrames = 2
  Ageing = {"lastActivity"}
SPECIFICATION Spec
CHECK_DEADLOCK FALSE
PROPERTIES GenerationNeverRegresses PopsOnlyConsumed
