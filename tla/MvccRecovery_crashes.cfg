SPECIFICATION RSpec
CONSTANTS
  Sessions = {s1, s2}
  Rids = {r1, r2}
  Pages <- MCPages
  PageOf <- MCPageOf
  None = None
  MaxTrxId = 99
  TrxBound = 4
  ScanPaths = {"index"}
  FaultBound = 2
  LogBound = 6
SYMMETRY MCSymmetry
PROPERTIES RecoveryExact CommitSurvives
CHECK_DEADLOCK FALSE
