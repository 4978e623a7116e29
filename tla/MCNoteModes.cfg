SPECIFICATION Spec
CONSTANTS
  Data <- MCData
  UsbNotes <- MCUsbNotes
  Wait = 2
  TopOctave = 5
  TopInstrument = 63
INVARIANTS
  TypeOK
  RowIsTheOneAsked
  
