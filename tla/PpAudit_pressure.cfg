CONSTANTS
  b1 = b1  b2 = b2  b3 = b3  p = p  o = o
  NoSlot = NoSlot  WinLeaf = WinLeaf
  Bucket = {b1, b2, b3}
  Slot = {p, o}
  Masked = {p, o}
  Certificates <- MCCertificates
  RealPps <- MCRealPps
  Copiers = {o}
  Entering = {}
  Transforms <- MCNone
  Imposters = {}
SPECIFICATION Spec
INVARIANTS NeverUsedUp
CHECK_DEADLOCK FALSE
