CONSTANTS
  Kinds = {"Local", "Remote"}
  Blocks = TRUE
  Calls = {"open", "continueFinished", "connect", "read", "write", "closeWrite", "close"}
  MaxBytes <- Sends
SPECIFICATION FairSpec
INVARIANTS
  SelectsOnOpenSocket
  OverMeansReleased
  EndAnnouncedOnce
PROPERTIES
  ClosedIsFinal
  LifecycleSpec
  PeerIsHeard
  CloseEndsLoop
  AwakeLoopServes
CHECK_DEADLOCK FALSE
