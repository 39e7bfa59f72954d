SPECIFICATION Spec
CONSTANTS
  Offered <- SomeMarks
  Torn <- TornMarks
  MaxMarks = 3
  BlankId = 7
  Bits = 2
  WM_AND_MIN = 1
  IndexLimit = 2
  NoMatch = NoMatch
  Mul = 2
  FrameMod = 6
  Capacity = 1
  MaxId = 2
  MaxHalves = 4
INVARIANTS TypeOK RunsAreBlocks RunsStored MatchIsBest
