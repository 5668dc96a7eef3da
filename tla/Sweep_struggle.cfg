SPECIFICATION Spec
CONSTANTS
  MaxRoll = 3
  MaxHits = 3
  Pixels = 6
  BranchCap = 1000
  MoveData <- MoveDataMC
  MovesOf <- MovesOfMC
  Speed <- SpeedMC
  Battles <- DesyncMC
INVARIANT
  UnreproducibleIsFiltered
CHECK_DEADLOCK FALSE
