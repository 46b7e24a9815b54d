SPECIFICATION FairSpec
CONSTANTS
  Inputs <- OneInput
  Processes = 1
  MaxPasses = 1
  MaxAgain = 0
PROPERTIES
  SkippedPassReturns
