SPECIFICATION Spec
CONSTANTS
  p1 = p1
  p2 = p2
  h1 = h1
  h2 = h2
  Proc = {p1, p2}
  Host = {h1}
  HostOf <- OneHost
  Skew <- NoSkew
  StaleAge = 2
  Timeout = 2
  MaxClock = 2
  MaxSeq = 2
  Foreign = Foreign
  NoLock = NoLock
INVARIANTS
  MutualExclusion
