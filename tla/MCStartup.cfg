CONSTANTS
  t1 = t1
  t2 = t2
  tok1 = tok1
  tok2 = tok2
  tok3 = tok3
  envSalt = envSalt
  defaultSalt = defaultSalt
  seed = seed
  ours = ours
  Thread = {t1, t2}
  Token = {tok1, tok2, tok3}
  EnvSalt = envSalt
  DefaultSalt = defaultSalt
  Packaged = seed
  Edited = {ours}
  MaxEdits = 2
  MaxStops = 2
SPECIFICATION FairSpec
INVARIANTS
  PlannedSaltIsStable
  ServedRulesAreTheFiles
PROPERTIES
  SettledSaltStays
  ServerComesUp
CHECK_DEADLOCK FALSE
