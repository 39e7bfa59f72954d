SPECIFICATION Spec
CONSTANTS
  Field = {0}
  Payload = {0}
  Id = {0, 1, 2, 3, 4, 7}
  Capacity = 5
  MaxId = 4
  Blank = 8
  IndexLimit = 3
  Unset = Unset
INVARIANTS TypeOK NoSkips NeverAhead PostsFollowLog
PROPERTY EventuallyPosted
