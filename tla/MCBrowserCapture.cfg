SPECIFICATION Spec
CONSTANTS
  c1 = c1
  r1 = r1
  r2 = r2
  q1 = q1
  NoRun = NoRun
  Controllers <- MCControllers
  Runs <- MCRuns
  Requests <- MCRequests
  MaxHops = 2
  ChanCap = 2
  IOFaults = TRUE
INVARIANTS
  TypeOK
  OrphansComeFromLateStops
  NothingLeftPending
  PairedUnlessDropped
PROPERTIES
  EveryStopReturns
