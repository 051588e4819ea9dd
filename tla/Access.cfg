CONSTANTS
  r1 = r1
  w1 = w1
  w2 = w2
  q1 = q1
  q2 = q2
  k1 = k1
  k2 = k2
  t1 = t1
  c1 = c1
  m1 = m1
  None = None
  Readers = {r1}
  Writers = {w1, w2}
  MaxWrites = 2
  MaxLapses = 1
  Requests = {q1, q2}
  Tokens = {k1, k2}
  MaxTokens = 2
  MaxServed = 2
  MaxPassword = 3
  MaxMarkers = 2
  MaxRestarts = 2
  MaxFailures = 2
  MaxLevel = 1
  LastPassword = 2
  MaxCodes = 1
  MaxReboots = 1
  MaxLogins = 1
  AutoWhenOffline = FALSE
  UiGens = {1, 2}
  UiPackages <- MCPackages
  UiImages <- MCImages
  UiRequests = {"u1", "u2"}
  UiRetained = 2
  UiOps = 3
  UiCuts = 2
  UiDrops = 1
  Worker = Worker
  All = All
  Tasks = {t1}
  Calls = {c1}
  MirrorReaders = {m1}
  MirrorLapses = 1
  MirrorRestarts = 1
SPECIFICATION AccessSpec
INVARIANTS CacheSafe AdminSafe SessionSafe ServedIsRecorded MirrorSafe
CHECK_DEADLOCK FALSE
