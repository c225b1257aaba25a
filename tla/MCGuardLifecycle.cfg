SPECIFICATION Spec
CONSTANTS
  MinOffS = 2
  MinOnS = 1
  MaxStartsPerHour = 2
  HourS = 4
  BootHoldoffS = 2
  ResetLoopCount = 2
  ResetLoopWindowS = 2
  MaxStartHistory = 2
  MaxBootHistory = 2
  MaxJitterS = 1
  GuardSaveS = 3
  ClockSaveS = 2
  ManualWindowS = 1
  MaxDownS = 2
  MaxReal = 7
  MidCycleReset = FALSE
  BlobLoss = FALSE
INVARIANTS
  ResetLoopStops
  WaitIsExact
PROPERTIES
  KeepsPromise
  RestsBetweenRuns
CHECK_DEADLOCK FALSE
