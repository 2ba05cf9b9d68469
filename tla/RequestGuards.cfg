SPECIFICATION FairSpec
CONSTANTS
  ann = ann
  bob = bob
  board = board
  Calls = {ann, bob}
  Sockets = {board}
  KeysOf <- MCKeysOf
  Window = 3
  GatewayLimit = 2
  ConnectLimit = 1
  WindowTicks = 3
  CallLimit = 1
  Slots = 2
  Threads = 1
  Attempts = 2
  FailThreshold = 2
  Recovery = 4
INVARIANTS
  TwiceTheLimit
  WaitIsTrue
  SlotsAccounted
PROPERTIES
  CallsEnd
  Recovers
