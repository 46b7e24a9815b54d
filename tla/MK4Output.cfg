SPECIFICATION MK4FairSpec
CONSTANTS
  p1 = p1
  p2 = p2
  h1 = h1
  h2 = h2
  Proc = {p1, p2}
  Host = {h1}
  HostOf <- OneHost
  Skew <- NoSkew
  StaleAge = 0
  Timeout = 3
  MaxClock = 1
  MaxSeq = 9
  Outputs <- Uneven
  Foreign = Foreign
  NoLock = NoLock
INVARIANTS
  MK4TypeOK
  PartialIsLocked
  OneLockEach
PROPERTIES
  WholeKept
  DeadLocksReclaimed
