CHECK_DEADLOCK FALSE
CONSTANTS
  Calls = {"connect", "write"}
  MaxDatagrams = 2
SPECIFICATION FairSpec
INVARIANT
  WriteHasEndpoint
