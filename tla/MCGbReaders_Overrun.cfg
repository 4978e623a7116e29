SPECIFICATION MCSpec
CONSTANTS
  PauseLimit = 2
  Channels = {0, 1}
  Kinds = {0}
  Values <- MCValues
  HoldSize = 4
  MaxHeld = 5
  ModesUsed <- MCMidioutOnly
INVARIANTS
  NoteOffSilences
