SPECIFICATION Spec
CONSTANTS
  c1 = c1
  c2 = c2
  p1 = p1
  b1 = b1
  b2 = b2
  s1 = s1
  s2 = s2
  Main = Main
  NoFile = NoFile
  Empty = Empty
  NoBundle = NoBundle
  NoProfile = NoProfile
  Callers <- MCCallers
  Profiles <- MCProfiles
  Bundles <- MCBundles
  Seeds <- MCSeeds
  Settings = {"idle", "warming"}
  MaxRestarts = 1
  IOFaults = FALSE
PROPERTY VaultSaveOnlyRefers
