CONSTANTS
  c1 = c1
  none = none
  NoConsumer = none
  Consumers = {c1}
  InitialConsumer = c1
  SwapConsumers = {}
  UsesSecurity = TRUE
  QueueLimit = 2
  MaxConnections = 2
  MaxGeneration = 1
  MaxFrames = 3
  Ageing = {"lastActivity"}
SPECIFICATION Spec
CHECK_DEADLOCK FALSE
INVARIANTS DecoderGeneration DecodableDelivery ConnectionInScope EnvelopedWhileServed
