SPECIFICATION Spec
CONSTANTS
  c1 = c1
  c2 = c2
  Clients = {c1}
  Ops <- LinearOps
  Roles = {"user"}
  Disruptions = {"expire"}
  MaxMsgs = 4
  Cost <- EvenCost
  TokenBudget = 2
  RoundCap = 2
  SummaryLines = 3
  DigestCap = 5
INVARIANT DigestCoversDropped
CHECK_DEADLOCK FALSE
