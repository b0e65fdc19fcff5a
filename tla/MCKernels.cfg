CONSTANTS
  MaxUsize = 31
  MaxIsize = 15
  NotFinite = NotFinite
  Ln <- MCLn
  TailFloor = 4
  TailHeadroom = 32
  Unit = 4
  Radius <- MCRadius
  Cos <- MCCos
  Sin <- MCSin
  Amplitude <- MCAmplitude
  RootOf <- MCRootOf
  BiquadDecay <- MCBiquadDecay
  Cycle = 12
  Draw <- MCDraw
  DrawParts = 5
  FullScale = 6
  OnePole <- MCOnePole
  DbToLin <- MCDbToLin
  LnDb = 2
  Kernels <- MCKernelSet
  Specs <- MCSpecs
  SmootherSize = 2
  Values <- MCValues
  Samples <- MCSamples
  Roundings = {0, 1}
  Rooms = {1, 4}
  MaxChannels = 2
  MaxFrames <- MCMaxFrames
  MaxKept = 1
  Window = 2
  Threshold = 4
  Factor = 2
  PhaseTaps = 2
  Prototype <- MCPrototype
  KShelf <- MCShelf
  KHighpass <- MCHighpass
  MinKWeightingRate = 3
  KWeightingSize = 2
  SurroundWeight = 6
  LoudnessFrames <- MCLoudnessFrames
  Weights <- MCWeights
  Tenths = 5
SPECIFICATION RackSpec
INVARIANTS TypeOK BudgetExact PreparedWhole RenderExact TailCovers MetersExact
PROPERTIES RefusalKept DrainKept
