CONSTANTS
  Roots <- MCRoots
  Sweeps <- MCSweeps
  Kept <- MCKept
  HardLinks = TRUE
  MaxSuites = 2
  MaxMishaps = 1
SPECIFICATION Spec
INVARIANT FailuresAreSurvived
CHECK_DEADLOCK FALSE
