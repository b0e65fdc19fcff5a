SPECIFICATION Spec
CONSTANTS
  size = 4
  Offers = {1, 3, 6}
  MaxFrames = 13
  MaxResets = 1
INVARIANTS
  TypeOK
  NoUnderrun
PROPERTIES
  OverlapExact
  DrainKept
CHECK_DEADLOCK FALSE
