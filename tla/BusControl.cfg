SPECIFICATION Spec
CONSTANTS
  MinOffS = 2
  MinOnS = 2
  MaxStartsPerHour = 2
  HourS = 6
  BootHoldoffS = 2
  ResetLoopCount = 3
  ResetLoopWindowS = 4
  MaxStartHistory = 2
  MaxBootHistory = 3
  GasMinOnS = 3
  GasMinOffS = 3
  GasMaxRuntimeS = 4
  HpOnS = 3
  HpOffS = 3
  HpMaxStartsPerH = 2
  CoolOnS = 5
  CoolOffS = 3
  CoolMinOnS = 5
  CoolMinOffS = 3
  CoolMaxStartsPerH = 1
  ManualWindowS = 1
  HeatToCoolDwellS = 3
  CoolToHeatDwellS = 3
  HpMapped = FALSE
  Fans = {FALSE}
  Steps = {1}
  MaxNow = 12
INVARIANTS
  NeverLatched
  CoolStartsCapped
PROPERTIES
  ChangeoverRests
  GasRestsBetweenBurns
  CompressorKeepsTime
