SPECIFICATION FairOperationsSpec
CONSTANTS
  o1 = o1
  o2 = o2
  d1 = d1
  Ops <- MCOps
  Devices <- OneDevice
  NoOp = NoOp
  MaxConnections = 2
INVARIANT EvidenceMatchesOutcome
INVARIANT RemovedDeviceHasNoRunning
INVARIANT CommittedQuitReachesEveryOperation
PROPERTY DetachedOperationEnds
CHECK_DEADLOCK FALSE
