SPECIFICATION MCSpec
CONSTANTS
  alice = alice
  bob = bob
  room = room
  w1 = w1
  f1 = f1
  smile = smile
  heart = heart
  channel = channel
  b1 = b1
  p1 = p1
  p2 = p2
  h1 = h1
  h2 = h2
  n1 = n1
  q1 = q1
  q2 = q2
  k1 = k1
  k2 = k2
  x1 = x1
  x2 = x2
  j1 = j1
  j2 = j2
  t1 = t1
  l1 = l1
  schedule = schedule
  trigger = trigger
  r1 = r1
  r2 = r2
  a1 = a1
  Users = {alice, bob}
  Rooms = {room}
  NoRoom = NoRoom
  FileIds = {f1}
  Workers = {w1}
  Cli = Cli
  Home = room
  Slots = {smile, heart}
  Author <- MCAuthor
  Moderators = {alice}
  Channels = {channel}
  MaxReactions = 1
  MaxPending = 2
  Browsers = {b1}
  Posts = {p1, p2}
  MaxEndpoints = 2
  MaxRotations = 1
  MaxRows = 2
  MaxSends = 1
  Kinds = {"stt"}
  Names = {n1}
  Hashes = {h1, h2}
  Cut = Cut
  Manifests <- MCManifests
  Requests = {q1, q2}
  Proxy = TRUE
  Buckets = {k1, k2}
  Daily = {k1}
  Quota = 1
  DayHours = 3
  LastHour = 6
  MaxCount = 2
  Callers = {alice}
  Extensions = {x1, x2}
  Total = Total
  Fetches = {j1, j2}
  Hosts = {t1}
  EnvDenied = {}
  Limit <- MCLimit
  MaxRedirects = 1
  MaxBody = 1
  HourMinutes = 2
  DayMinutes = 4
  LastMinute = 2
  Logins = {l1}
  Runners = {schedule, trigger}
  LastKey = 1
  LastSecond = 1
  MaxJobs = 3
  Retention = 1
  Spaces = {r1, r2}
  Pictures = {a1}
  HardMax = 2
  LastDay = 3
INVARIANTS
  RowReadable
  SubscribersAgree
  SubscriptionKept
  TagNamesContent
  QuotaHolds
  ChargesMatch
  NewestKept
  RetentionKept
CHECK_DEADLOCK FALSE
