SPECIFICATION MCSpec
CONSTANTS
  OwnChannels <- MCOwnChannels
  Statuses <- MCStatuses
  SystemCommon <- MCSystemCommon
  Data <- MCData
  Packets = {p1, p2}
  Size = 3
  Bytes = 2
  NumDevices = 2
  NoPacket = NoPacket
INVARIANTS
  TypeOK
  ThruIsWhole
  UndisturbedReachesGameboy
  TxTypeOK
PROPERTIES
  HeldPacketStable
  EverySlotReleased
  ImplementsFifo
