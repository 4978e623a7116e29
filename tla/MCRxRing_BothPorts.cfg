SPECIFICATION RxSpec
CONSTANTS
  Payloads = {x}
  Size = 3
  Traffic <- BothPorts
  NoPacket = NoPacket
INVARIANT NeverBackOut
