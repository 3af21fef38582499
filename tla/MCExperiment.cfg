CONSTANTS
  Scene <- MCScene
  Tables <- MCTables
  NPerGenuine = 1
  MaxBuilds = 1
  MaxCrashes = 1
SPECIFICATION ValSpec
INVARIANTS
  NoBuildFails
  EnrolledAndQueried
  HeldOutIsUnseen
  ScoresAreUnseen
  ValidationIsUnseenOrNoted
  AttackersAreMatched
  ManifestForetellsDrops
  QuietManifestIsSound
CHECK_DEADLOCK FALSE
