CONSTANTS
  a = a
  b = b
  c = c
  p = p
  q = q
  Files <- MCFiles
  Producers <- MCProducers
  Plan <- MCPlan
  AutoFill <- OnlyB
  Local <- OnlyC
  Tagged <- OnlyA
  Reservations <- MixedReservations
  Headroom <- MixedHeadroom
  MaxBytes = 4
  MaxTracks = 2
  MaxSize = 2
SPECIFICATION FairStagingSpec
INVARIANT DiskWithinBudget
INVARIANT ManualBeforeAutoFill
INVARIANT NothingSilentlyLost
PROPERTY StagingEnds
CHECK_DEADLOCK FALSE
