SPECIFICATION Spec
CONSTANTS
  Names = {"t", "u", "v"}
  Sessions = {s1, s2}
  s1 = s1
  s2 = s2
  Values = {1, 2}
  Slots = {1, 2, 3}
  TrxFields <- Hidden
  Scripts <- SomeScripts
  Restarts = 2
  FaultBound = 1
  None = None
INVARIANTS ViewsResolve StartsAgain ViewsAnswer
CHECK_DEADLOCK FALSE
