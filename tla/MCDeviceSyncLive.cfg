CONSTANTS
  Device = {d1}
  SubCap = 1
  OutCap = 1
  MaxSeq = 2
  MaxFaults = 1
  QueueCap = 2
  MaxFails = 0
SPECIFICATION FairSpec
CHECK_DEADLOCK FALSE
PROPERTIES WorksThroughTheFeed EventuallyApplied CatchUpEnds
