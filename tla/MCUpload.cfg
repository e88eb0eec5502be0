CONSTANTS
  Put = {p1, p2, p3}
  None = None
  ChunkSize = 2
  TagSize = 1
  HeaderSize = 1
  Size = 5
  Every = 2
  MaxFaults = 2
SPECIFICATION FairUploadSpec
CHECK_DEADLOCK FALSE
INVARIANTS ReceivedIsSafe UploadedIsWhole
PROPERTIES KeepsTheFile EventuallyUploaded
