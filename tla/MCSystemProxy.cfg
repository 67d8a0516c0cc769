SPECIFICATION Spec
CONSTANTS
  wifi = wifi
  wifiFile = wifiFile
  c1 = c1
  c2 = c2
  corp = corp
  home = home
  Ours = Ours
  NoServer = NoServer
  Keep = Keep
  Services = {wifi}
  Paths = {wifiFile}
  PathOf <- MCPathOf
  Servers = {corp, home}
  Callers = {c1}
  Overlap = FALSE
  IOFaults = TRUE
  MaxRestarts = 1
INVARIANTS
  TypeOK
  SavedIsTheUsers
  OursIsUndoable
PROPERTIES
  ForgetsOnlyWhatIsRestored
