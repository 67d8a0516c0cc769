SPECIFICATION MCSpec
CONSTANTS
  c1 = c1
  p1 = p1
  p2 = p2
  b1 = b1
  b2 = b2
  s1 = s1
  s2 = s2
  Main = Main
  NoFile = NoFile
  Empty = Empty
  NoBundle = NoBundle
  NoProfile = NoProfile
  Callers <- MCCallers
  Profiles <- MCProfiles
  Bundles <- MCBundles
  Seeds <- MCSeeds
  Settings = {"warming"}
  Warmed = {"warming"}
  Interval = 2
  MaxTicks = 3
  MaxRestarts = 1
  IOFaults = TRUE
SYMMETRY Interchangeable
INVARIANTS
  WarmingTypeOK
  SecretsAreTheirOwn
  StrangeKeysHaveACause
PROPERTIES
  RunsAreSpaced
