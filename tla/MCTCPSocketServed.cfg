CHECK_DEADLOCK FALSE
CONSTANTS
  Kinds = {"Remote"}
  Blocks = FALSE
  Calls = {"connect"}
  MaxBytes <- SendsOnce
SPECIFICATION FairSpec
PROPERTY
  BytesAreRead
