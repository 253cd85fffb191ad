CHECK_DEADLOCK FALSE
CONSTANTS
  Endpoints = {ep1, ep2}
  RetryTimes = 3
  FirstFd = 3
  NoEndpoint = NoEndpoint
  MaxConnects = 2
SPECIFICATION FairSpec
INVARIANTS
  AnswerIsTrue
  OneDescriptor
PROPERTIES
  DialSpec
  DialAnswered
  LoopEnds
