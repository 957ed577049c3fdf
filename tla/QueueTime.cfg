SPECIFICATION FairSpec
CONSTANTS
  s1 = s1
  s2 = s2
  h1 = h1
  k1 = k1
  k2 = k2
  w1 = w1
  w2 = w2
  Sessions = {s1, s2}
  Handlers = {}
  Crons = {k1, k2}
  Workers = {w1}
  Triggers = {}
  Poison = {s2}
  Disruptions = {}
  ScanTake = 2
  ReadTake = 1
  MaxVer = 1
  MaxJobs = 3
  MaxResends = 0
  MaxSilence = 5
INVARIANT CompensatedOnce
INVARIANT CompensatedInTime
PROPERTY GoodJobsDone
CHECK_DEADLOCK FALSE
