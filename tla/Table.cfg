SPECIFICATION Spec
CONSTANTS
  Threads = {t1, t2}
  Rids = {1, 2}
  IntFields = {"k"}
  CharFields = {"c"}
  TextFields = {"t"}
  Nullable = {"k"}
  Ints = {1}
  Texts = {"long"}
  Inexact <- SomeInexact
  Full <- SomeFull
  LongTexts = {"long"}
  Tuples <- SomeTuples
  StartIndexes <- SomeIndexes
  NewIndexes <- ToCreate
  StmtBound = 3
  FaultBound = 1
  Half = Half
  Null = Null
  Zero = Zero
  None = None
SYMMETRY Symmetry
INVARIANTS IndexesAgree ContentsRight
PROPERTY UpdateKeepsRow
CHECK_DEADLOCK FALSE
