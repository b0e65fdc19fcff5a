SPECIFICATION Spec
CONSTANTS
  BlockFrames <- RateBlock
  HopFrames <- RateHop
  Capacity <- RateCapacity
  Calls <- RateCalls
  MaxTotal <- RateTotal
INVARIANTS
  DurationCovered
