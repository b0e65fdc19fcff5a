SPECIFICATION BankSpec
CONSTANTS
  Param <- MCParam
  Info <- MCInfo
  Values <- MCValues
  PoleDiv = 2
  NonFinite = NonFinite
INVARIANTS
  BankTypeOK
  RampDeadline
PROPERTIES
  NoOvershoot
CONSTRAINT
  OneInMotion
