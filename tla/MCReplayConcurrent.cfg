SPECIFICATION Spec
CONSTANTS
  o1 = o1
  r1 = r1
  r2 = r2
  c1 = c1
  c2 = c2
  NoFlow = NoFlow
  NoCall = NoCall
  FlowIds <- MCFlowIds
  Captured <- MCCaptured
  Calls <- MCCalls
  Statuses <- MCStatuses
  Profiles = {"standard", "utls", "passthrough"}
  MaxRetries = 0
  MaxRestarts = 1
  Prev <- Unrelated
  IOFaults = FALSE
PROPERTIES
  ImplementsLedger
  StandardReplayEnds
CHECK_DEADLOCK FALSE
