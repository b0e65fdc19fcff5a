SPECIFICATION Spec
CONSTANTS
  Period = 3
  MaxDelay = 3
  Passes = 2
  Params <- MCParams
  Default <- MCDefault
  MaxPos = 6
  Offers = {}
  Loudness = {2}
  MaxMoves = 1
  SeekTo = {4}
PROPERTY
  EchoExact
