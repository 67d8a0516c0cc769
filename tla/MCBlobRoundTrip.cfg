SPECIFICATION Spec
CONSTANTS
  b1 = b1
  b2 = b2
  i1 = i1
  i2 = i2
  NoBody = NoBody
  Bodies <- MCBodies
  Callers <- MCCallers
  Documents <- MCDocuments
  Parts = 2
  MaxRestarts = 0
  IOFaults = TRUE
INVARIANT PutThenGet
CHECK_DEADLOCK FALSE
