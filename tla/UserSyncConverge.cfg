SPECIFICATION FairSpec
CONSTANTS
  phone = phone
  laptop = laptop
  c1 = c1
  c2 = c2
  s1 = s1
  s2 = s2
  read = read
  ReadState = read
  NoRow = NoRow
  NoCall = NoCall
  Idle = Idle
  Devices = {phone, laptop}
  Callers = {c1}
  Items = {s1, s2}
  MaxStarred = 2
  CanAge <- MCNothing
  QuietSync = TRUE
  MaxSeq = 3
  MaxFails = 1
PROPERTIES
  AllConverge
CHECK_DEADLOCK FALSE
