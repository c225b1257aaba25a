SPECIFICATION Spec
CONSTANTS
  ChangeoverDwellS = 3
  ChangeoverSustainS = 2
  CompressorMinOat = 1
  BalancePoint = 2
  BalanceHyst = 0
  AuxMaxOat = 3
  EscalationMinS = 2
  DeescalationMinS = 3
  HpMapped = TRUE
  MinOnS = 1
  MinOffS = 2
INVARIANTS
  DueIsServed
PROPERTIES
  ChangeoverIsEarned
  EscalationIsEarned
  StaysOnGas
