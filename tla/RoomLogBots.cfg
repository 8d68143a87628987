SPECIFICATION Spec
CONSTANTS
  alice = alice
  bob = bob
  bot = bot
  r1 = r1
  Users = {alice, bob}
  Bots = {bot}
  Readers = {}
  Requests = {r1}
  WhisperSets <- MCNoWhispers
  DiscordModeration = TRUE
  PageLimit = 1
  NoRequest = NoRequest
  NoCall = NoCall
  NoCursor = NoCursor
  Moves <- MCMoves
  Kinds = {"application"}
  MaxDeletes = 1
  MaxRows = 4
INVARIANTS
  BotEpochReached
PROPERTIES
  PostedOnce
CHECK_DEADLOCK FALSE
