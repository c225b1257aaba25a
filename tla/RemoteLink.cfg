SPECIFICATION LinkFairSpec
CONSTANTS
  Kinds = {"setpoints"}
  Values = {0, 1}
  IntentQueueCap = 1
  EchoSuppress = 1
  IntentRetry = 2
  IntentMaxRetries = 1
  Heartbeat = 1
  MaxId = 2
  MaxEchoes = 1
  None = None
INVARIANTS
  NeverMuted
  LastWordWins
PROPERTY Settles
