SPECIFICATION Spec
CONSTANTS
  SetpointMin = 0
  SetpointMax = 3
  MinDelta = 1
  Eco <- EcoPair
  Emergency <- EmergencyPair
  MqttStaleS = 2
  Wanted = {0, 1, 3}
INVARIANTS
  PairIsDecided
  RebootKeeps
