SPECIFICATION StreamSpec
CONSTANTS
  Streams = {3, 4, 5}
  FirstId = 3
  PayloadOf <- MCPayloads
  Base = 2
  Contents <- MCContents
  MaxSent = 2
  MaxStreams = 2
  MaxAttach = 2
INVARIANTS
  MessagesAreWhole
  BytesAreKept
