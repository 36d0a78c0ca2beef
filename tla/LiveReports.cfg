CONSTANTS
  a = a
  b = b
  c = c
  Occurrences <- MCOccurrences
  Unsupported <- OnlyC
  Threshold = 1
  MaxRows = 2
  MaxPending = 1
  MaxClaims = 2
  MaxListens = 3
  MaxFaults = 1
SPECIFICATION FairReportsSpec
INVARIANT OneSubmissionPerListen
PROPERTY QueueDrains
CHECK_DEADLOCK FALSE
