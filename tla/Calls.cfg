SPECIFICATION Spec
CONSTANTS
  ann = ann
  bob = bob
  a1 = a1
  a2 = a2
  b1 = b1
  room = room
  other = other
  NoRow = NoRow
  Idle = Idle
  Users = {ann, bob}
  Clients = {a1, a2, b1}
  UserOf <- MCUserOf
  Rooms = {room, other}
  MemberOf <- MCMemberOf
  OwnerOf <- MCOwnerOf
  CallIds = {1}
  MaxParticipants = 1
  MaxRequests = 5
  MaxFaults = 1
INVARIANTS
  LimitHolds
  OnlyAccepted
CHECK_DEADLOCK FALSE
