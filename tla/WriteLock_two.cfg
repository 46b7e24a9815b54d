SPECIFICATION Spec
CONSTANTS
  p1 = p1
  p2 = p2
  h1 = h1
  h2 = h2
  Proc = {p1, p2}
  Host = {h1, h2}
  HostOf <- TwoHosts
  Skew <- SkewedClocks
  StaleAge = 1
  Timeout = 2
  MaxClock = 3
  MaxSeq = 2
  Foreign = Foreign
  NoLock = NoLock
INVARIANTS
  ExclusionUnlessOvertaken
  LiveLockKept
  NoResidue
  UniqueWhileExclusive
