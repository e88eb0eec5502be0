CONSTANTS
  Device = {d1}
  SubCap = 1
  OutCap = 1
  MaxSeq = 3
  MaxFaults = 1
  QueueCap = 1
  MaxFails = 1
SPECIFICATION Spec
CHECK_DEADLOCK FALSE
INVARIANTS WireNeverSkips NoLostKick CursorMeansApplied
