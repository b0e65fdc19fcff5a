SPECIFICATION FairSpec
CONSTANTS
  HS = 3
  MaxInput = 10
  MaxNeed = 5
  Caps <- MCCaps
  MaxResets = 1
  AnySource = AnySource
  Blank = Blank
  None = None
INVARIANTS
  TypeOK
  FifoBound
  DurationExact
PROPERTIES
  OneOutput
  StreamEnds
