CONSTANTS
  Roots <- MCRoots
  Sweeps <- MCSweeps
  Kept <- MCKept
  HardLinks = TRUE
  MaxSuites = 2
  MaxMishaps = 2
SPECIFICATION FairSpec
INVARIANTS
  ReportIsOfOneSuite
  RunsUseTheirData
PROPERTIES
  KstarIsDefensible
  SuiteSettles
CHECK_DEADLOCK FALSE
