SPECIFICATION Spec
CONSTANTS
  Sessions = {s1, s2}
  Rids = {r1}
  Pages <- MCPages
  PageOf <- MCPageOf
  None = None
  MaxTrxId = 99
  TrxBound = 5
  ScanPaths = {"index"}
SYMMETRY MCSymmetry
INVARIANT VisibleInRange
CHECK_DEADLOCK FALSE
