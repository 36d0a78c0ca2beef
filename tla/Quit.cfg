SPECIFICATION FairQuitSpec
CONSTANTS
  MaxAttempts = 3
  MaxSaves = 2
  MaxWork = 2
INVARIANT CommittedBehindFence
INVARIANT CheckpointIsAttended
INVARIANT ExitIsClean
PROPERTY QuitIsAnswered
CHECK_DEADLOCK FALSE
