SPECIFICATION Spec
CONSTANTS
  Station <- MCStation
  Controls <- MCControls
  MaxFits = 2
INVARIANTS
  AsAskedFor
  OwnStations
  LastFlagFile
  AppliedInOrder
