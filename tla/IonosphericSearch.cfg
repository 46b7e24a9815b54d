SPECIFICATION Spec
CONSTANTS
  Setups <- SomeSetups
  Noise = 5
  Strong = 50
  MaxFits = 2
INVARIANTS
  PeakFound
  PointsReported
  SolutionIsApplied
  NarrowedToSignal
