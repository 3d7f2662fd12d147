SPECIFICATION FairSpec
CONSTANTS
  Threads = {t1, t2, t3}
  Guards = {g1, g2}
  None = None
  DepthBound = 2
  CallBound = 3
INVARIANTS CountsAgree NoLostWakeup
PROPERTIES ImplementsRwLock CallsReturn
CHECK_DEADLOCK FALSE
