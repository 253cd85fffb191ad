CHECK_DEADLOCK FALSE
CONSTANTS
  Calls = {"connect", "read", "write", "closeWrite", "close"}
  MaxDatagrams = 2
SPECIFICATION FairSpec
INVARIANTS
  ClosedHasACause
PROPERTIES
  LifecycleSpec
  DatagramsAreRead
  CloseReleases
