SPECIFICATION ServiceSpec
CONSTANTS
  kDemandChannelCount = 1
  MaxPct = 2
  kMsgResendAttempts = 3
  kCmdFifoDepth = 1
  ResponseTimeout = 1
  Due = 2
  WindowLen = 4
  Grace = 3
  SlotLo = 1
  SlotHi = 1
  assumeAddressed = FALSE
  Replies = {"ack", "echo", "odd", "nak1", "nak2"}
  Lossy = TRUE
  Hasty = TRUE
  UseCommands = TRUE
INVARIANTS
  Quiet
  ProbeSlot
  AckMeansHeld
  HeardInTime
  OrphanEnds
