SPECIFICATION FairSpec
CONSTANTS
  Inputs <- SomeInputs
  Processes = 2
  MaxPasses = 3
  MaxAgain = 1
INVARIANTS
  EachPassOnce
  EachSelectionOnce
  OutputIsSolved
  CalibratedOnce
PROPERTIES
  JobEnds
