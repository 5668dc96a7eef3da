CONSTANTS
  b1 = b1  b2 = b2  b3 = b3  p = p  o = o
  NoSlot = NoSlot  WinLeaf = WinLeaf
  Bucket = {b1, b2, b3}
  Slot = {p, o}
  Masked = {p, o}
  Certificates <- MCCertificates
  RealPps <- MCRealPps
  Copiers = {p, o}
  Entering = {"player"}
  Transforms <- MCTransforms
  Imposters <- MCImposters
SPECIFICATION FairSpec
INVARIANTS TypeOK AuditNeverThrows BuiltInOrder UseIsMaximum ProfileKept
PROPERTIES AuditEnds
CHECK_DEADLOCK FALSE
