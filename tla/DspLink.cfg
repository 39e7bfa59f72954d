SPECIFICATION Spec
CONSTANTS
  MsgLen = 2
  Off = Off
  Empty = Empty
INVARIANTS TypeOK WholeMessages CommandsAgree
PROPERTIES StartAnswered StormEnds BaseFinishes
