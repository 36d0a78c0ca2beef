CONSTANTS
  t1 = t1
  like = like
  dislike = dislike
  MaxOps = 3
  Tracks <- OneTrack
  Values <- TwoValues
  Initially = dislike
  Rejecting = dislike
  Accepting = like
  MaxPending = 2
  MaxRows = 2
  MaxFaults = 1
SPECIFICATION FairFeedbackSpec
INVARIANT NoOvertaking
INVARIANT KnownViewIsCurrent
PROPERTY FeedbackDrains
CHECK_DEADLOCK FALSE
