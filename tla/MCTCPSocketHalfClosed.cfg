CHECK_DEADLOCK FALSE
CONSTANTS
  Kinds = {"Local"}
  Blocks = TRUE
  Calls = {"open", "continueFinished", "closeWrite"}
  MaxBytes <- SendsOnce
SPECIFICATION FairSpec
PROPERTY
  HalfClosedIsRead
