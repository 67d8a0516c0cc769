SPECIFICATION Spec
CONSTANTS
  r1 = r1
  r2 = r2
  h1 = h1
  c1 = c1
  f1 = f1
  t1 = t1
  Missing = Missing
  Torn = Torn
  NoRoot = NoRoot
  NoLeaf = NoLeaf
  NoHost = NoHost
  NoFlow = NoFlow
  Roots <- MCRoots
  Hosts <- MCHosts
  Clients <- MCClients
  FlowIds <- MCFlowIds
  Tags <- MCTags
  LeafLife = 0
  MaxTime = 1
  MaxStarts = 2
  IOFaults = TRUE
  StoreFaults = FALSE
CHECK_DEADLOCK FALSE
INVARIANTS
  TypeOK
  LeavesComeFromTheRoot
  FilesAreTheRoot
PROPERTIES
  ForwardedIsRecorded
  ConnectIsAnswered
