CONSTANTS
  Conn = {c1, c2, c3}
  Source = {here, a}
  Here = here
  Key = {k, m}
  Guest = {k}
  None = None
  MaxPending = 2
  MaxPerSource = 2
  MaxLocal = 1
SPECIFICATION ChannelSpec
SYMMETRY Perms
CHECK_DEADLOCK FALSE
INVARIANTS ChannelTypeOK ClosedLeavesNothing OnlyPairedTransfer
PROPERTIES FloodStaysHome CutIsNeverServed
