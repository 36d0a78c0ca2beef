SPECIFICATION Spec
CONSTANTS
  Parts = 2
  Length = 2
  MaxStarts = 2
  MaxCommands = 3
  MaxFailures = 1
INVARIANTS
  PositionWasHeard
  FinishedIsEarned
  StopReportsLatest
PROPERTIES
  HeardFromWhereReported
  EndIsReported
CHECK_DEADLOCK FALSE
