SPECIFICATION Spec
CONSTANTS
  Threads = {t1, t2}
  Values = {1, 2, 3, 6, 10, 12}
  Keys <- AllKeys
  CallKeys <- AllCallKeys
  MaxRid = 3
  Ranges <- AllRanges
  Pages = {1, 2, 3, 4, 5, 6, 7, 8, 9, 10, 11, 12, 13}
  leaf_max_size = 4
  internal_max_size = 4
  Scripts <- AllScripts
  CallBound = 2
  Root = Root
  None = None
SYMMETRY Symmetry
INVARIANTS TreeValid ScanExact OnlyOpenDeadlocks
PROPERTIES ChangesUnderLatch IndexSpec
CHECK_DEADLOCK FALSE
