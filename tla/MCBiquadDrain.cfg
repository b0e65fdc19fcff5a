CONSTANTS
  MaxUsize = 31
  MaxIsize = 15
  NotFinite = NotFinite
  Ln <- MCLn
  TailFloor = 8
  TailHeadroom = 64
  Unit = 32
  Radius <- MCRadius
  Cos <- MCCos
  Sin <- MCSin
  Amplitude <- MCAmplitude
  RootOf <- MCRootOf
  BiquadDecay <- MCBiquadDecay
  Cycle = 12
  Draw <- MCDraw
  DrawParts = 5
  FullScale = 6
  OnePole <- MCOnePole
  DbToLin <- MCDbToLin
  LnDb = 2
  Kernels <- MCKernelSet
  Specs <- MCSpecs
  SmootherSize = 2
  Values <- MCValues
  Samples <- MCSamples
  Roundings = {0, 1}
  Rooms = {1}
  MaxChannels = 1
  MaxFrames <- MCMaxFrames
  MaxKept = 0
SPECIFICATION Spec
INVARIANT DrainDecayed
