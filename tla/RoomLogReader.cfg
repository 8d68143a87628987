SPECIFICATION FairSpec
CONSTANTS
  alice = alice
  bob = bob
  bot = bot
  r1 = r1
  Users = {alice, bob}
  Bots = {}
  Readers = {bob}
  Requests = {}
  WhisperSets <- MCWhispers
  DiscordModeration = TRUE
  PageLimit = 2
  NoRequest = NoRequest
  NoCall = NoCall
  NoCursor = NoCursor
  Moves <- MCMoves
  Kinds = {"application"}
  MaxDeletes = 0
  MaxRows = 5
INVARIANTS
  NumberedNeverSkipped
PROPERTIES
  CatchUp
CHECK_DEADLOCK FALSE
