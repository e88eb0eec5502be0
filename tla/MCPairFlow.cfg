CONSTANTS
  Key = {o, n}
  Owner = o
  Conn = {c1, c2, c3}
  Request = {r}
  Sweeper = Sweeper
  None = None
  MaxUnpaired = 1
  MaxTries = 1
  MaxRevokes = 1
  MaxFaults = 1
SPECIFICATION FlowSpec
SYMMETRY Perms
CHECK_DEADLOCK FALSE
INVARIANTS FlowTypeOK StrangersAreHeld NobodyWaitsInVain OwnerIsAsked
PROPERTIES PatienceKept
