SPECIFICATION Spec
CONSTANTS
  size = 4
  Offers = {1, 3, 6}
  MaxFrames = 13
  MaxResets = 1
INVARIANTS
  TailCovered
CHECK_DEADLOCK FALSE
