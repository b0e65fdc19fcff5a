SPECIFICATION FairSpec
CONSTANTS
  Param <- MCParam
  Info <- MCInfo
  PoleDiv = 2
  NonFinite = NonFinite
  Period = 3
  MaxBlock = 4
  MaxPos = 7
  LookAhead = 1
  Scripts <- MCScripts
  SeekTo <- MCSeekTo
  Writable <- MCWritable
  Unknown = Unknown
INVARIANTS
  TypeOK
  GridExact
  LatchExact
PROPERTIES
  SplitInvariance
  BlockReturns
CHECK_DEADLOCK FALSE
