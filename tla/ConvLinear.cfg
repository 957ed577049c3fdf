SPECIFICATION Spec
CONSTANTS
  c1 = c1
  c2 = c2
  Clients = {c1}
  Ops <- LinearOps
  Roles = {"user"}
  Disruptions = {"expire", "abort"}
  MaxMsgs = 3
  Cost <- BigSecond
  TokenBudget = 2
  RoundCap = 1
  SummaryLines = 1
  DigestCap = 1
INVARIANT AckedOnActivePath
INVARIANT QuestionInWindow
INVARIANT SummaryBeforeWindow
PROPERTY FollowsTranscript
CHECK_DEADLOCK FALSE
