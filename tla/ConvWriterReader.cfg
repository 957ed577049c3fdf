SPECIFICATION Spec
CONSTANTS
  c1 = c1
  c2 = c2
  Clients = {c1, c2}
  Ops <- WriterReaderOps
  Roles = {"user"}
  Disruptions = {"expire"}
  MaxMsgs = 3
  Cost <- EvenCost
  TokenBudget = 2
  RoundCap = 2
  SummaryLines = 2
  DigestCap = 3
INVARIANT StmOnActivePath
CHECK_DEADLOCK FALSE
