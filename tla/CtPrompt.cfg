SPECIFICATION Spec
CONSTANTS
  kDemandChannelCount = 2
  MaxPct = 2
  kMsgResendAttempts = 2
  kCmdFifoDepth = 2
  ResponseTimeout = 1
  Due = 2
  WindowLen = 4
  Grace = 3
  SlotLo = 1
  SlotHi = 2
  assumeAddressed = FALSE
  Replies = {"ack", "echo"}
  Lossy = FALSE
  Hasty = FALSE
  UseCommands = TRUE
INVARIANTS
  NoOrphan
PROPERTY CancelOnce
