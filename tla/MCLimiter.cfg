SPECIFICATION Spec
CONSTANTS
  look = 4
  TP_TAPS = 3
  Unity = 2
  Required = {0, 1}
  Offers = {3, 5}
  MaxFrames = 7
  MaxResets = 1
INVARIANTS
  TypeOK
  WedgeMin
  NonunityExact
  Transparent
PROPERTIES
  CeilingHeld
  DrainKept
CHECK_DEADLOCK FALSE
