SPECIFICATION KoidSpec
CONSTANTS
  SOCKET_MAXNUM = 4
  Fds = {0, 1, 2, 3, 4}
  Commands = {"CONNECT", "WAIT", "SEND", "RECV"}
  Protocols = {"TCP", "UDP", "ICMP"}
  Ports = {1}
  DPorts = {1}
  Addrs = {0}
  DAddrs = {1}
  KernelOutcomes = {"ok"}
  MaxEntries = 4
  MSG_MAXMSGNUM = 2
  Bodies <- MCBodies
  Timeouts = {1}
  T_SCT_MAXNUM = 1
  SocketIds <- MCIds
  MaxSec = 1
  Clients = {c1}
  WithData = {TRUE}
  StrayIds = {}
  WaitTimes = {0, 1}
  MaxMsgs = 1
INVARIANTS
  DeliveredFromWanted
  WatchedAreOpen
