CONSTANTS
  Tables <- MCTables
  Configs <- MCConfigs
  Experts = 7
  Epochs = 4
  Patience = 2
  BatchSize = 2
  Losses = {1, 2, 3, 5}
  Tolerance = 1
SPECIFICATION Spec
INVARIANTS
  BestIsRestored
  EachCountsOnce
CHECK_DEADLOCK FALSE
