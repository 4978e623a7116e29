SPECIFICATION Spec
CONSTANTS
  Longest = 6
  Values = {1}
  EditorPort = "usb"
  MaxMessages = 4
  Others <- MCOthers
INVARIANTS
  TypeOK
  Obeyed
  ScanEnds
