SPECIFICATION Spec
CONSTANTS
  Area = 14
  PageLen = 7
  IdLen = 1
  WmLen = 3
  W = 3
  Sig = 1
  Watermarks <- SomeMarks
INVARIANTS TypeOK AreaShape Recoverable NoErrorWhileClean EraseHeals ScanEnds
PROPERTY FollowsList
