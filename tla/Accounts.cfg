SPECIFICATION AccountsSpec
CONSTANTS
  p1 = p1
  p2 = p2
  d1 = d1
  d2 = d2
  a = a
  b = b
  r1 = r1
  r2 = r2
  NoOne = NoOne
  Procs = {p1, p2}
  WorkerId <- MCWorkerId
  Devices = {d1, d2}
  Phones = {a, b}
  PhonesOf <- MCPhonesOf
  Slots = {r1, r2}
  ProcOf <- MCProcOf
  Ops <- MCOps
  SeqMod = 2
  Start = 1
  MaxClock = 1
  MaxSteps = 1
  MaxIds = 3
  Second = 1
  MaxCodes = 2
  MaxReqs = 3
SYMMETRY Symmetry
INVARIANT AccountsTypeOK
INVARIANT TypeOK
INVARIANT Distinct
INVARIANT Increasing
INVARIANT NoStranger
INVARIANT CodeOnce
INVARIANT KeptIn
CHECK_DEADLOCK FALSE
