SPECIFICATION FairSpec
CONSTANTS
  A = A
  B = B
  Class = {A, B}
  Known = {A}
  KeySize = 2
  VersionSize = 1
  Kind <- SomeKinds
  MaxRecords = 3
  MaxCuts = 1
INVARIANTS
  TypeOK
  KeysFound
  PrefixLoaded
  IndexComplete
PROPERTIES
  LoadEnds
