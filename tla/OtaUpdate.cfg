SPECIFICATION Spec
CONSTANTS
  BrokerFailsPerRung = 2
  BrokerProbePrimary = 1
  Healthy = {1, 3}
  MaxRelease = 3
  MaxBootAttempts = 3
  MaxApplyAttempts = 2
  SelfTestTimeout = 3
  BootCheckGrace = 1
  MaxResets = 3
INVARIANT AlwaysBootable
INVARIANT OnTrialOnly
PROPERTY GoodIsKept
PROPERTY BadIsLeft
