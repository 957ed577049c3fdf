SPECIFICATION Spec
CONSTANTS
  s1 = s1
  s2 = s2
  h1 = h1
  k1 = k1
  k2 = k2
  w1 = w1
  w2 = w2
  Sessions = {s1}
  Handlers = {h1}
  Crons = {}
  Workers = {w1, w2}
  Triggers = {"compress"}
  Poison = {}
  Disruptions = {"crash", "redis", "flaky"}
  ScanTake = 2
  ReadTake = 1
  MaxVer = 1
  MaxJobs = 2
  MaxResends = 1
  MaxSilence = 2
SYMMETRY WorkerSymmetry
INVARIANT TypeOK
INVARIANT OnePlace
INVARIANT JobsConserved
INVARIANT DoneIsExtracted
CHECK_DEADLOCK FALSE
