SPECIFICATION FairSpec
CONSTANTS
  Offered <- OneMark
  Torn <- OneMark
  MaxMarks = 1
  BlankId = 7
  Bits = 2
  WM_AND_MIN = 2
  IndexLimit = 2
  NoMatch = NoMatch
  Mul = 2
  FrameMod = 64
  Capacity = 1
  MaxId = 2
  MaxHalves = 4
PROPERTY IdleFlush
