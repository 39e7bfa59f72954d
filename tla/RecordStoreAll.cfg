SPECIFICATION SpecAll
CONSTANTS
  Area = 12
  PageLen = 4
  IdLen = 1
  W = 4
  Sig = 1
  Start = 64
  Payload = {1}
  MaxId = 4
  IndexLimit = 4
INVARIANT LockedWhenIdle
