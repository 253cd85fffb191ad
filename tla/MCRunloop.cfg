CONSTANTS
  Clients = {c1, c2}
  Tasks = {t1, t2}
  Thread = Thread
  Free = Free
  MaxPosts = 3
SPECIFICATION FairSpec
INVARIANTS
  NoLostWakeup
PROPERTIES
  SerialExecution
  EventLoopBehaviour
  PostedTasksBegin
  StoppedAwakeEnds
