SPECIFICATION Spec
CONSTANTS
  alice = alice
  bob = bob
  bot = bot
  r1 = r1
  Users = {alice, bob}
  Bots = {}
  Readers = {}
  Requests = {}
  WhisperSets <- MCWhispers
  DiscordModeration = TRUE
  PageLimit = 1
  NoRequest = NoRequest
  NoCall = NoCall
  NoCursor = NoCursor
  Moves <- MCMoves2
  Kinds = {"application", "proposal"}
  MaxDeletes = 1
  MaxRows = 4
INVARIANTS
  EpochLinear
  NumberingDense
  EditChain
PROPERTIES
  AppendOnly
  ImplementsLinearLog
CHECK_DEADLOCK FALSE
