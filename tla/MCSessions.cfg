CONSTANTS
  up1 = up1
  up2 = up2
  app1 = app1
  app2 = app2
  Device = {1, 2}
  Uploaded = {up1, up2}
  Package = {app1, app2}
  OwnScreens <- MCOwnScreens
  Base = {0, 1}
  MaxWall = 5
  DayOf <- MCDayOf
  Gap = 2
  MinSpan = 1
  Window = 3
  Stride = 2
  Guard = 1
  SteppedClock = FALSE
  MaxRows = 4
SPECIFICATION Spec
INVARIANTS
  SessionsAreRuns
  AxisKeepsTime
  EverySampleWindowed
  EveryMomentIsSeen
SYMMETRY Interchangeable
CHECK_DEADLOCK FALSE
