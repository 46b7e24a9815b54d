SPECIFICATION HopsFairSpec
CONSTANTS
  p1 = p1
  p2 = p2
  h1 = h1
  h2 = h2
  Proc = {p1, p2}
  Host = {h1}
  HostOf <- OneHost
  Skew <- NoSkew
  StaleAge = 0
  Timeout = 2
  MaxClock = 1
  MaxSeq = 9
  Rounds = 1
  Foreign = Foreign
  NoLock = NoLock
INVARIANTS
  NothingLost
  OnePlace
  LockReturned
PROPERTIES
  IsFringeStore
  VisitReturns
