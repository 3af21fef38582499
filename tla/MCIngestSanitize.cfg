CONSTANTS
  timed = timed
  floored = floored
  bare = bare
  measured = measured
  titled = titled
  untimed = untimed
  phone = phone
  id1 = id1
  id2 = id2
  day1 = day1
  NoRequest = NoRequest
  Body <- MCBody
  Device = {phone}
  BatchId = {id1, id2}
  Day = {day1}
  DeviceOf <- MCDeviceOf
  BatchOf <- MCBatchOf
  DayOf <- MCDayOf
  Labelled = {}
  Valid <- MCValid
  Unencodable = {}
  Flaw <- MCFlaw
  Request <- MCRequest
  Scenario <- MCScenario
  Clean <- MCClean
  Content <- MCContent
  Stock <- MCStock
  Samples <- MCSamples
  MaxAttempts = 1
  MaxCrashes = 1
  MaxFaults = 0
  MaxRuns = 2
SPECIFICATION SSpec
INVARIANTS
  AckedIsKeptOrCleaned
  StampedIsClean
  DoneMeansClean
  CleaningMeetsTheSchema
  CleanedIsStamped
CHECK_DEADLOCK FALSE
