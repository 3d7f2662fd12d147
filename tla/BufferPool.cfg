SPECIFICATION Spec
CONSTANTS
  Threads = {t1, t2}
  a = a
  b = b
  Files = {a, b}
  Frames = {f1, f2}
  Values = {0, 1}
  Zero = 0
  MAX_PAGE_NUM <- Sizes
  HoldBound = 2
  None = None
SYMMETRY Symmetry
INVARIANT PoolAgrees
PROPERTY UpdatesKept
CHECK_DEADLOCK FALSE
