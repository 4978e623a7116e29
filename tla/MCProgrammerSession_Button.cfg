SPECIFICATION Spec
CONSTANTS
  WaitTime = 10
  CallTime = 5
  BlinkTime = 5
  KeepaliveTime = 4
  ReloadTime = 11
  GiveUpTime = 28
  Modes <- TwoModes
  Values = {"factory"}
  Factory <- FactoryMemory
  NoSettings = NoSettings
  EventSets <- ButtonOnly
  MaxFrames = 2
  MaxInFlight = 2
INVARIANT ReloadReconnects
