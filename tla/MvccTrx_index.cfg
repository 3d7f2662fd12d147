SPECIFICATION Spec
CONSTANTS
  Sessions = {s1, s2}
  Rids = {r1, r2}
  Pages <- MCPages
  PageOf <- MCPageOf
  None = None
  MaxTrxId = 99
  TrxBound = 5
  ScanPaths = {"index"}
SYMMETRY MCSymmetry
INVARIANTS StampOwnership BeginBeforeEnd WriterExclusion EndSettlesRows
PROPERTIES CommittedIsFinal SnapshotKeeps
CHECK_DEADLOCK FALSE
