SPECIFICATION VeloSpec
CONSTANTS
  Commands = {1, 2, 3}
  Cancelled = {3}
  MaxOutstanding = 2
  MaxVforkFailures = 1
INVARIANTS
  WaitFindsChild
  AnsweredOnceEnded
PROPERTIES
  SingleCommandIsAnswered
CHECK_DEADLOCK FALSE
