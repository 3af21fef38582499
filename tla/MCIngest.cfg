CONSTANTS
  walk = walk
  walk2 = walk2
  night = night
  bad = bad
  odd = odd
  oddbad = oddbad
  phone = phone
  phone2 = phone2
  id1 = id1
  id2 = id2
  day1 = day1
  day2 = day2
  NoRequest = NoRequest
  Body <- MCBody
  Device = {phone, phone2}
  BatchId = {id1, id2}
  Day = {day1, day2}
  DeviceOf <- MCDeviceOf
  BatchOf <- MCBatchOf
  DayOf <- MCDayOf
  Labelled <- MCLabelled
  Valid <- MCValid
  Unencodable <- MCUnencodable
  Flaw <- MCFlaw
  Request <- MCRequest
  Scenario <- MCScenario
  MaxAttempts = 2
  MaxCrashes = 1
  MaxFaults = 1
SPECIFICATION FairSpec
INVARIANTS
  AckedIsStored
  IndexFollowsBatch
  UninterruptedAckIsIndexed
  UninterruptedConflictIsReal
  RefusalIsRecorded
  ClientAgreesWithDisk
PROPERTIES
  KeepsPromise
  GoodUploadsAreStored
CHECK_DEADLOCK FALSE
