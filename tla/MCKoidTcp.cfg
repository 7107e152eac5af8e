SPECIFICATION KoidFairSpec
CONSTANTS
  SOCKET_MAXNUM = 5
  Fds = {0, 1, 2, 3, 4}
  Commands = {"CONNECT", "RECV", "CLOSE"}
  Protocols = {"TCP"}
  Ports = {1}
  DPorts = {1}
  Addrs = {0}
  DAddrs = {1}
  KernelOutcomes = {"ok"}
  MaxEntries = 4
  MSG_MAXMSGNUM = 3
  Bodies <- MCBodies
  Timeouts = {1}
  T_SCT_MAXNUM = 1
  SocketIds <- MCIds
  MaxSec = 1
  Clients = {c1}
  WithData = {FALSE}
  StrayIds = {}
  WaitTimes = {1}
  MaxMsgs = 2
PROPERTIES
  RecvAnswered
  EofCloses
  ImplementsDelivery
INVARIANTS
  CleanWithoutClients
