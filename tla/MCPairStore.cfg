CONSTANTS
  Device = {d1, d2, d3}
  Token = {t1, t2, t3}
  Page = {p1, p2}
  NoKey = NoKey
  TTL = 2
  MaxClock = 3
  MaxLag = 1
SPECIFICATION PairSpec
SYMMETRY Interchangeable
CHECK_DEADLOCK FALSE
INVARIANTS OneMachineLink UnspentInviteHasIssuer WaitingCanBeAnswered ClosedTellsTheTruth
PROPERTIES JoinsByConsent ClosesOnce PageReplacesNothing
