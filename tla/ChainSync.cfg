SPECIFICATION ChainSpec
CONSTANTS
  t0 = t0
  t1 = t1
  t2 = t2
  t3 = t3
  Threads = {t0, t1, t2, t3}
  Workers <- FourWorkers
  Objects = {LOCK}
  Lock = LOCK
  NoThread = NoThread
  MaxDepth = 1
PROPERTIES
  AllPhasesRun
CHECK_DEADLOCK FALSE
