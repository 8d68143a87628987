SPECIFICATION Spec
CONSTANTS
  ann = ann
  bob = bob
  cyd = cyd
  b1 = b1
  b2 = b2
  Idle = Idle
  Users = {ann, bob, cyd}
  Creator = ann
  Devices = {b1}
  DeviceOf <- MCDeviceOf
  RoomSizes = {2, 3}
  PerDevice = 2
  Invites = {1}
  MaxUses <- MCMaxUses
  MaxPackages = 2
  MaxAdds = 1
  MaxRemoves = 1
  MaxUsed = 2
  MaxInFlight = 1
  MaxDeleted = 1
INVARIANTS
  OneOwner
  HandedOutOnce
  SeatsHold
  RemovalOwed
CHECK_DEADLOCK FALSE
