SPECIFICATION TrafficSpec
CONSTANTS
  Statements <- MCStatements
  MaxLost = 2
  MaxRetries = 1
  MaxFatal = 1
INVARIANTS
  ConfirmsAreAwaited
  TcpTrafficComplete
  DoneMeansSent
PROPERTIES
  TrafficEnds
CHECK_DEADLOCK FALSE
