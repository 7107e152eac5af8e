SPECIFICATION RTSysSpec
CONSTANTS
  SOCKET_MAXNUM = 5
  Fds = {0}
  Commands = {}
  Protocols = {}
  Ports = {0}
  DPorts = {0}
  Addrs = {0}
  DAddrs = {0}
  KernelOutcomes = {}
  MaxEntries = 5
  MSG_MAXMSGNUM = 1
  Bodies = {0}
  Timeouts = {0, 1}
INVARIANT CountsWaiting
