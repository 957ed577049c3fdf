SPECIFICATION Spec
CONSTANTS
  c1 = c1
  c2 = c2
  Clients = {c1, c2}
  Ops <- RivalOps
  Roles = {"user"}
  Disruptions = {"abort", "delete"}
  MaxMsgs = 3
  Cost <- EvenCost
  TokenBudget = 3
  RoundCap = 3
  SummaryLines = 2
  DigestCap = 3
INVARIANT TreeOK
PROPERTY LeafNeverRetreats
CHECK_DEADLOCK FALSE
