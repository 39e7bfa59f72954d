SPECIFICATION Spec
CONSTANTS
  Field = {0}
  Payload = {0}
  Id = {0, 1, 2, 3}
  Capacity = 3
  MaxId = 3
  Pcb = {p1}
  None = None
  QueueLen = 4
  Marks = 0
  IndexLimit = 2
  Blank = 8
  Unset = Unset
  Text = Text
  End = End
  Gap = Gap
  MaxTimeouts = 2
  MaxStarved = 1
INVARIANTS TypeOK EndMeansAll LeaksBounded
PROPERTY ReplyEnds
