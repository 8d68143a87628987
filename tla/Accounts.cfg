SPECIFICATION AccountsSpec
CONSTANTS
  t1 = t1
  t2 = t2
  c1 = c1
  c2 = c2
  k1 = k1
  k2 = k2
  code = code
  Tokens <- MCTokens
  NoToken = NoToken
  Clients = {c1}
  NoClient = NoClient
  Keys = {k1}
  NoKey = NoKey
  Codes = {code}
  MaxUses = 1
  MaxDevices = 1
  MaxInvites = 1
  MaxStarts = 3
  MaxBotKeys = 1
  MaxSnapshots = 1
  MaxRotations = 1
  MaxRare = 2
SYMMETRY MCSymmetry
INVARIANTS
  AdmissionPaid
  OldSessionsOut
  ProofsVerify
CHECK_DEADLOCK FALSE
