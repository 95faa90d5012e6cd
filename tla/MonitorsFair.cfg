SPECIFICATION FairSpec
CONSTANTS
  Threads = {t1, t2, t3}
  Objects = {o1}
  NoThread = NoThread
  MaxDepth = 2
  MaxCalls = 3
PROPERTIES
  EnterReturns
  NotificationsConsumed
CHECK_DEADLOCK FALSE
