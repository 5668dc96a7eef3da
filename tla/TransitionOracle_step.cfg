CONSTANTS
  Events = 4
  x = x  y = y  z = z  b1 = b1  b2 = b2  a1 = a1
  Child <- MCChild
  Broken = Broken
  Event = {b1, b2, a1}
  Eligible = {b1}
  DamageRolls = {b1}
  Setups <- MCSetups
SPECIFICATION FairSpec
INVARIANTS TypeOK NeverDiverges DistributionExact StepContract
PROPERTY Terminates
CHECK_DEADLOCK FALSE
