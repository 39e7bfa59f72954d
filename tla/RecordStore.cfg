SPECIFICATION Spec
CONSTANTS
  Area = 16
  PageLen = 4
  IdLen = 1
  W = 4
  Sig = 1
  Start = 64
  Payload = {1, 3}
  MaxId = 14
  IndexLimit = 4
INVARIANTS TypeOK LogShape Recoverable StoredIdsIncrease FaultOnlyWhenFull
PROPERTIES WriteLands LogSpec
