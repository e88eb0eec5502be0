CONSTANTS
  Key = {o, n}
  Owner = o
  Conn = {c1, c2}
  Request = {r}
  Sweeper = Sweeper
  None = None
  MaxUnpaired = 1
  MaxTries = 1
  MaxRevokes = 0
  MaxFaults = 1
SPECIFICATION FairFlowSpec
CHECK_DEADLOCK FALSE
PROPERTIES AskerLearns
