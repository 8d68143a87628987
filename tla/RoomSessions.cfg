SPECIFICATION FairSpec
CONSTANTS
  ann = ann
  bob = bob
  a1 = a1
  a2 = a2
  b1 = b1
  NoRow = NoRow
  NoEntry = NoEntry
  NoCall = NoCall
  Users = {ann, bob}
  Clients = {a1, a2, b1}
  UserOf <- MCUserOf
  Sessions = {1, 2}
  Joinable = {1}
  RoomOwner = ann
  Moderators = {}
  Discord = TRUE
  Cap = 1
  MaxPerRoom = 2
  Starts <- MCStarts
  MaxJoins = 2
  MaxOthers = 1
INVARIANTS
  PositionsDense
  CapHolds
  CountsAtRest
PROPERTIES
  CountsSettle
  NobodyLingers
CHECK_DEADLOCK FALSE
