SPECIFICATION SockSpec
CONSTANTS
  SOCKET_MAXNUM = 4
  Fds = {0, 1, 2, 3}
  Commands = {"CONNECT", "WAIT", "SEND"}
  Protocols = {"TCP", "UDP", "ICMP", "TLS"}
  Ports = {1}
  DPorts = {1}
  Addrs = {0}
  DAddrs = {1}
  KernelOutcomes = {"ok", "noSocket", "sockoptFails", "bindFails", "connectFails", "leaks", "unresolved"}
  MaxEntries = 4
INVARIANTS
  AliveHandlesDistinct
  AliveAreServed
  CommandSocketAlive
  ChildrenDieWithParent
PROPERTIES
  ClosedForGood
  ConnectAnswersLive
CHECK_DEADLOCK FALSE
