SPECIFICATION Spec
CONSTANTS
  c1 = c1
  c2 = c2
  Clients = {c1}
  Ops <- WarmOps
  Roles = {"user", "tool"}
  Disruptions = {"abort"}
  MaxMsgs = 5
  Cost <- BigSecond
  TokenBudget = 3
  RoundCap = 2
  SummaryLines = 1
  DigestCap = 2
INVARIANT TypeOK
INVARIANT ContextInOrder
INVARIANT WindowAsRestored
CHECK_DEADLOCK FALSE
