SPECIFICATION BusFairSpec
CONSTANTS
  Kinds = {k1}
  Any = any
  Names = {n1}
  QueueSize = 2
  MaxEvents = 3
INVARIANTS
  Accounted
PROPERTIES
  ImplementsBroadcast
  EveryEventFinished
