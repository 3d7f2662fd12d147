SPECIFICATION FairSpec
CONSTANTS
  Threads = {t1, t2, t3}
  None = None
  DataLens = {2}
  CommitLen = 1
  CLOG_BUFFER_SIZE = 4
  RecordBound = 3
  FaultBound = 1
INVARIANTS BufferInv DurableOrInHand
PROPERTIES CommitsReachDisk CommitReturns
CHECK_DEADLOCK FALSE
