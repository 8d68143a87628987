SPECIFICATION Spec
CONSTANTS
  phone = phone
  laptop = laptop
  c1 = c1
  c2 = c2
  s1 = s1
  s2 = s2
  read = read
  ReadState = read
  NoRow = NoRow
  NoCall = NoCall
  Idle = Idle
  Devices = {phone}
  Callers = {c1, c2}
  Items = {s1, s2}
  MaxStarred = 2
  CanAge <- MCAll
  QuietSync = FALSE
  MaxSeq = 3
  MaxFails = 1
INVARIANTS
  SeqsDistinct
  CursorCovers
PROPERTIES
  ChangeIsAhead
CHECK_DEADLOCK FALSE
