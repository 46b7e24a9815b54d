SPECIFICATION PassSpec
CONSTANTS
  Object <- MCObject
  Type <- MCType
  Id <- MCId
  Name <- MCName
  BaselineFiles <- MCBaselineFiles
  StationFile <- MCStationFile
  Baselines <- MCBaselines
INVARIANTS
  StoreTablesAgree
  NamesResolve
  StationRoles
  CastKeepsIdentity
PROPERTIES
  IsContainerStore
