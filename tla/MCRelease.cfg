\* three merges, two stopped runs, one newer toolchain
SPECIFICATION ReleaseFairSpec
CONSTANTS
  Nothing = Nothing
  FirstVersion <- First
  Merged = {"none", "patch", "major"}
  MaxMerges = 3
  MaxStops = 2
  MaxUpgrades = 1
INVARIANT OneArtifact
INVARIANT InOrder
PROPERTY ChangesShip
CHECK_DEADLOCK FALSE
