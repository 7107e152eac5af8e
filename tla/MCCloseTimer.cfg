SPECIFICATION CTSpec
CONSTANTS
  T_SCT_MAXNUM = 2
  SocketIds <- MCSocketIds
  MaxSec = 2
INVARIANTS
  CountsUsedSlots
PROPERTIES
  OnlyExpiredLeave
  EveryTimerFires
