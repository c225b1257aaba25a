SPECIFICATION Spec
CONSTANTS
  kMaxAlarmEntries = 3
  Codes = {"grace", "deadman", "sensor", "insane", "mqtt", "resetloop", "runtime"}
  BusDeadmanS = 3
  BootGraceS = 2
  WdtTimeoutS = 2
  MaxGap = 1
  MaxResets = 2
INVARIANTS
  DeadmanExact
  ListIsHonest
  DropIsExplained
  SurvivesBringUp
PROPERTY AckSticks
