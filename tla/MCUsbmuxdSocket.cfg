CONSTANTS
  Calls = {"connect", "write", "closeWrite", "close"}
  Splits = TRUE
  MaxBytes = 1
SPECIFICATION FairSpec
INVARIANTS
  OneReader
  AnswerIsTrue
PROPERTIES
  DialSpec
  PeerIsHeard
  ClosedEndsLoop
  DialAnswered
CHECK_DEADLOCK FALSE
