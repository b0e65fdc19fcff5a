SPECIFICATION Spec
CONSTANTS
  BlockFrames = 3
  ShortFrames = 4
  HopFrames = 2
  Capacity = 2
  AbsoluteGate = 1
  RelativeGate = 10
  Energies = {0, 1, 40}
  MaxFrames = 8
  MaxSlips = 2
  MaxResets = 1
INVARIANTS
  TypeOK
  WindowsExact
  BlocksExact
  GateSound
PROPERTIES
  ScheduleKept
CHECK_DEADLOCK FALSE
