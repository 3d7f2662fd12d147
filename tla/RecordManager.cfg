SPECIFICATION Spec
CONSTANTS
  Threads = {t1, t2}
  Pages = {1, 2}
  record_capacity = 2
  CallBound = 6
  None = None
SYMMETRY Symmetry
INVARIANTS FreePagesComplete ScanExact OnlyScansDeadlock
CHECK_DEADLOCK FALSE
