SPECIFICATION Spec
CONSTANTS
  NThreads = 2
  NSBD = 3
  PerSlice = 2
  Spectra <- MCSpectra
  Windows <- MCWindows
  None <- MCNone
PROPERTIES
  IsPeakSearch
