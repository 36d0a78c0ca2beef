CONSTANTS
  Last = 3
  End = 1
  MaxCommands = 2
  MaxRenderings = 3
  MaxFaults = 2
  LateTurns = FALSE
SPECIFICATION OwnerSpec
INVARIANT PositionIsHeard
INVARIANT CursorIsEarned
INVARIANT AudibleHasAttempt
PROPERTY NothingAfterSave
CHECK_DEADLOCK FALSE
