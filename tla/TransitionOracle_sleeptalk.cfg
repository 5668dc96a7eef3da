CONSTANTS
  Events = 5
  x = x  y = y  z = z  b1 = b1  b2 = b2  a1 = a1
  Child <- MCChild
  Broken = Broken
  Event = {b1, b2, a1}
  Eligible = {b1}
  DamageRolls = {b1}
  Setups <- MCSleepTalk
SPECIFICATION Spec
INVARIANT DistributionExact
CHECK_DEADLOCK FALSE
