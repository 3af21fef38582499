CONSTANTS
  Scene <- MCScene
  Tables <- MCTables
  NPerGenuine = 1
  MaxBuilds = 1
  MaxCrashes = 1
SPECIFICATION ValSpec
INVARIANT EvaluateAnswers
CHECK_DEADLOCK FALSE
