SPECIFICATION Spec
CONSTANTS
  Period = 3
  MaxDelay = 3
  Passes = 2
  Params <- MCParams
  Default <- MCDefault
  MaxPos = 6
  Offers = {2, 3}
  Loudness = {2}
  MaxMoves = 1
  SeekTo = {4}
INVARIANTS
  TypeOK
  DrainedDry
PROPERTIES
  GridEchoExact
  ClickSafe
