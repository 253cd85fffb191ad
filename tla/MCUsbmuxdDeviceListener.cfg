CONSTANTS
  Splits = TRUE
  Devices = {d1, d2}
  MaxRequests = 2
  MaxReports = 3
SPECIFICATION FairSpec
INVARIANTS
  MapFollowsReports
  AnswersFindTheirRequest
PROPERTIES
  ChangeIsNoticed
  StoppedEnds
CHECK_DEADLOCK FALSE
