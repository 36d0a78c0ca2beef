SPECIFICATION FairLaunchSpec
CONSTANTS
  NoLaunch = "none"
  Launches = {"a", "b"}
  MaxGeneration = 2
  MaxCrashes = 1
INVARIANT ReadyDaemonIsAlone
PROPERTY FencedLaunchStaysDown
PROPERTY ReadyDaemonIsFound
CHECK_DEADLOCK FALSE
