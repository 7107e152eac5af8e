SPECIFICATION VelSpec
CONSTANTS
  Threads <- MCThreads
  Hosts <- MCHosts
  Traffic <- MCTraffic
  Script <- MCScript
  Members <- MCMembers
  Order <- MCOrder
INVARIANTS
  EndsMeet
  NobodyForgotten
  SyncTogether
PROPERTIES
  ScenarioEnds
