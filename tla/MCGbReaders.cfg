SPECIFICATION MCSpec
CONSTANTS
  PauseLimit = 2
  Channels = {0, 1}
  Kinds = {0, 4, 8}
  Values <- MCValues
  HoldSize = 2
  MaxHeld = 3
  ModesUsed <- MCModes
INVARIANTS
  TypeOK
  ChordSounds
PROPERTIES
  TransportSettles
