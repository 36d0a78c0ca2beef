SPECIFICATION StoreSpec
CONSTANTS
  MaxVersions = 4
  MaxFaults = 3
INVARIANTS
  CrashReadsAllowed
  EvidenceSurvives
  MirrorNotAhead
PROPERTY FailureKeepsEvidence
CHECK_DEADLOCK FALSE
