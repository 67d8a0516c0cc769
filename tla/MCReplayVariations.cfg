SPECIFICATION Spec
CONSTANTS
  o1 = o1
  r1 = r1
  r2 = r2
  r3 = r3
  r4 = r4
  c1 = c1
  c2 = c2
  NoFlow = NoFlow
  NoCall = NoCall
  FlowIds <- MCFlowIds
  Captured <- MCCaptured
  Calls <- MCCalls
  Statuses <- MCStatuses
  Profiles = {"standard"}
  MaxRetries = 1
  MaxRestarts = 0
  Prev <- Batch
  IOFaults = TRUE
SYMMETRY FreshIds
INVARIANTS
  TypeOK
  RowTellsTheAnswers
  OkRunWasRecorded
  NoFinalAnswerLeftOut
CHECK_DEADLOCK FALSE
