SPECIFICATION FairSpec
CONSTANTS
  Clients = {c1, c2}
  Workers = {w1, w2}
  Fds = {1, 2}
  Mysql = {c2}
  Scripts <- SomeScripts
  c1 = c1
  c2 = c2
  None = None
INVARIANTS NoUseAfterFree  
 
CHECK_DEADLOCK FALSE
