CONSTANTS
  Asker = {x}
  Pw = {a, b}
  File = {f}
  None = None
  Kinds = {"kill", "write", "damage"}
  Race = FALSE
  MaxKeys = 1
  MaxEvents = 1
  MaxLosses = 1
  MaxFaults = 1
SPECIFICATION FairGateSpec
CHECK_DEADLOCK FALSE
INVARIANTS LooksLikeAServer PasswordKnown SameJournalSameHistory OpenerHearsWhy
PROPERTIES BackupIsWhole OpensAgain
