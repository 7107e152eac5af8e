SPECIFICATION BtSpec
CONSTANTS
  Elements = {1, 2, 3, 4, 5}
  Key <- MCKey
  Hashes = {0, 5}
  Sizes = {0, 1, 2}
  MaxLen = 4
INVARIANTS
  ProbeChains
PROPERTIES
  ImplementsCltn
  OperationsMatch
