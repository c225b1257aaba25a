SPECIFICATION Spec
CONSTANTS
  HoldShortS = 2
  HoldLongS = 4
  ClockSaveS = 3
  MaxDownS = 3
  MaxReal = 10
INVARIANTS
  SavedEveryCycle
  ChargedAfterSync
PROPERTIES
  KeepsHold
CHECK_DEADLOCK FALSE
