SPECIFICATION PbSpec
CONSTANTS
  MaxTime = 2
  Clients = {1, 2}
  MaxAlive = 1
  RbSize = 2
  Requests = {"write", "read", "wrap", "nowrap", "clear", "capture", "stop", "dump"}
  Running = {TRUE}
  Deadlines = {0, 1}
  MaxPackets = 3
  MaxTools = 2
  MaxAsks = 2
  MaxKills = 1
INVARIANTS
  ReadInOrder
  OneWaiter
PROPERTIES
  RingIsQueue
  TimeoutIsTrue
  RequestAnswered
CHECK_DEADLOCK FALSE
