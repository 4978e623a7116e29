SPECIFICATION MCSpec
CONSTANTS
  Retries = 3
  Numbers = 2
  Silence = 1
  MaxEvents = 4
  Payloads = {x, y}
  Size = 3
  Traffic <- OnePort
  NoPacket = NoPacket
INVARIANTS
  TypeOK
  OneOutcome
  PacketsAreKept
PROPERTIES
  SilentEndpointRevived
  UnplugIsNoticed
  ImplementsFifo
