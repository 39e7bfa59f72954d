SPECIFICATION Spec
CONSTANTS
  Area = 16
  PageLen = 4
  IdLen = 1
  W = 4
  Sig = 1
  Start = 64
  Payload = {1}
  MaxId = 14
  IndexLimit = 1
INVARIANT LastIdIsNewest
