SPECIFICATION Spec
CONSTANTS
  WatchdogTime = 30
  Core1Timeout = 8
  CommitWait = 1
  WriteTime = 1
  StartupTime = 28
  BlinkTime = 23
  Settings = {factory, edited}
  Default = factory
  Blank = Blank
INVARIANTS
  TypeOK
  StallIsOver
  SettingsAreValid
PROPERTIES
  
  ProgrammerNotReset
  
  CommitIsOver
