------------------------------ MODULE KeyboardMode ------------------------------
(***************************************************************************)
(* LSDJ keyboard mode (Mode_LSDJ_Keyboard.ino): the device poses as a PC   *)
(* keyboard.  It selects octave and instrument by keys that go up or down  *)
(* by one, and so has to know where LSDJ is: it goes down as far as it     *)
(* takes when the mode is entered, and counts from there.                  *)
(***************************************************************************)
EXTENDS NoteGlobals

CONSTANTS
  UsbNotes,         \* the notes that come from USB
  TopOctave,        \* LSDJ's octaves are 0 .. TopOctave
  TopInstrument     \* and its instruments 0 .. TopInstrument

ASSUME UsbNotesAssumption == UsbNotes \subseteq 0 .. 127
ASSUME TopsAssumption == TopOctave \in 0 .. 100 /\ TopInstrument \in 0 .. 127

VARIABLES
  compat,     \* memory[MEM_KEYBD_COMPAT_MODE]
  last,       \* keyboardLastOct and keyboardLastIns
  lsdj,       \* the octave and instrument LSDJ is set to
  wanted,     \* history: what the messages ask it to be set to, and whether
              \* the program change came from USB
  reached     \* history: no end of LSDJ's ranges has been passed unnoticed

keyboardVars == <<compat, last, lsdj, wanted, reached>>

Settings == [oct : 0 .. TopOctave, ins : 0 .. TopInstrument]
First == [oct |-> 0, ins |-> 0]
Wish(l) == [oct |-> l.oct, ins |-> l.ins, usb |-> FALSE]

StartOctave == 36      \* keyboardStartOctave
NoteStart == StartOctave + 12

(* What LSDJ is set to after so many keys up, or down.                     *)
Within(x, top) == IF x < 0 THEN 0 ELSE IF x > top THEN top ELSE x
OctaveKeys(l, keys) == [l EXCEPT !.oct = Within(@ + keys, TopOctave)]
InstrumentKeys(l, keys) == [l EXCEPT !.ins = Within(@ + keys, TopInstrument)]

KeyboardInit ==
  /\ compat = TRUE /\ reached = TRUE
  /\ last = First /\ lsdj = First /\ wanted = Wish(First)

(* In other modes nothing of this is read.                                 *)
KeyboardLeft ==
  compat' = TRUE /\ last' = First /\ lsdj' = First /\ wanted' = Wish(First) /\ reached' = TRUE

(* modeLSDJKeyboardSetup                                                   *)
KeyboardSetup ==
  /\ compat' \in BOOLEAN
  /\ \E l \in {0, TopOctave} \X {0, TopInstrument} :   \* where LSDJ's user has left it
       lsdj' = InstrumentKeys(OctaveKeys([oct |-> l[1], ins |-> l[2]], -5), -41)
  /\ last' = First
  /\ wanted' = Wish(First)
  /\ reached' = (lsdj' = First)

(* Faulty variant: the new octave is not remembered.                       *)
ChangeLSDJOctaveForgotten(oct) ==
  /\ lsdj' = IF compat THEN OctaveKeys(lsdj, oct - last.oct) ELSE lsdj
  /\ UNCHANGED <<last, reached>>

(* Without compat mode a single byte, 0xB3 + oct, selects the octave,      *)
(* which LSDJ does not understand.                                         *)
ChangeLSDJOctave(oct) ==
  /\ lsdj' = IF compat THEN OctaveKeys(lsdj, oct - last.oct) ELSE lsdj
  /\ last' = [last EXCEPT !.oct = IF compat \/ oct = @ THEN oct ELSE 179 + oct]
  /\ reached' = (reached /\ oct <= TopOctave)

(* playLSDJNote: below NoteStart are the commands, which set no octave.    *)
PlayLSDJNote(status, note, velocity) ==
  IF status = NoteOn /\ velocity > 0 /\ note >= NoteStart
  THEN ChangeLSDJOctave((note - NoteStart) \div 12)
  ELSE UNCHANGED <<lsdj, last, reached>>

ChangeLSDJInstrument(status, ins) ==
  IF status = NoteOn
  THEN /\ lsdj' = IF compat THEN InstrumentKeys(lsdj, ins - last.ins) ELSE lsdj
       /\ last' = [last EXCEPT !.ins = ins]
       /\ reached' = (reached /\ ins <= TopInstrument)
  ELSE UNCHANGED <<lsdj, last, reached>>

--------------------------------------------------------------------------------
(* modeLSDJKeyboard: the case of the byte read.                            *)

(* What the sender has asked for.  When the parser is out of step nothing  *)
(* is: LSDJ is taken to be where it is wanted.                             *)
Wants(b) ==
  wanted' =
    IF ~inStep' THEN Wish(lsdj')
    ELSE IF Ends(NoteOn) /\ b > 0 /\ sender.key >= NoteStart
         THEN [wanted EXCEPT !.oct = (sender.key - NoteStart) \div 12]
    ELSE IF Ends(Program) THEN [wanted EXCEPT !.ins = b, !.usb = FALSE]
    ELSE wanted

(* A program change that never got its number is still waited for after a  *)
(* status that is not a note-on.                                           *)
KeyboardStatus(b) ==
  /\ b \in 128 .. 239
  /\ parser' = CASE b \in {NoteOn, NoteOn2} -> [parser EXCEPT !.noteOn = TRUE, !.status = b, !.key = 0]
                 [] b = Program -> [parser EXCEPT !.program = TRUE, !.noteOn = FALSE,
                                                  !.status = b - 48]
                 [] OTHER -> [parser EXCEPT !.noteOn = FALSE]
  /\ inStep' = (b = Program \/ ~parser.program)
  /\ UNCHANGED keyboardVars

KeyboardSystem(b) ==
  /\ b >= 240
  /\ UNCHANGED <<parser, inStep, keyboardVars>>

(* Key 0 is taken for no key; bytes of a system exclusive message for keys *)
(* and velocities.                                                         *)
KeyboardKey(b) ==
  /\ b < 128 /\ parser.noteOn /\ parser.key = 0
  /\ parser' = [parser EXCEPT !.key = b]
  /\ inStep' = (inStep /\ b # 0 /\ sender.status # SysexBegin)
  /\ UNCHANGED <<compat, last, lsdj, reached>>
  /\ Wants(b)

KeyboardVelocity(b) ==
  /\ b < 128 /\ parser.noteOn /\ parser.key # 0
  /\ PlayLSDJNote(parser.status, parser.key, b)
  /\ parser' = [parser EXCEPT !.key = 0]
  /\ inStep' = (inStep /\ sender.status # SysexBegin)
  /\ Wants(b)
  /\ UNCHANGED compat

KeyboardProgram(b) ==
  /\ b < 128 /\ ~parser.noteOn /\ parser.program
  /\ ChangeLSDJInstrument(parser.status, b)
  /\ parser' = [parser EXCEPT !.program = FALSE, !.status = 0]
  /\ UNCHANGED <<inStep, compat>>
  /\ Wants(b)

(* So is a second program number: running status is for notes only.        *)
KeyboardIgnore(b) ==
  /\ b < 128 /\ ~parser.noteOn /\ ~parser.program
  /\ inStep' = (inStep /\ sender.status # Program)
  /\ UNCHANGED <<parser, compat, last, lsdj, reached>>
  /\ Wants(b)

KeyboardReceive(b) ==
  \/ KeyboardStatus(b) \/ KeyboardSystem(b) \/ KeyboardKey(b) \/ KeyboardVelocity(b)
  \/ KeyboardProgram(b) \/ KeyboardIgnore(b)

(* modeLSDJKeyboardMidiReceive: a message from USB comes whole, its        *)
(* note-ons to be played.  Its program changes go to changeLSDJInstrument  *)
(* with their own status, 0xC0, which that ignores.                        *)
KeyboardUsb(status, d1, d2) ==
  /\ status \in {NoteOff, NoteOn, Program}
  /\ IF status = Program THEN ChangeLSDJInstrument(Program, d1)
     ELSE PlayLSDJNote(NoteOn, d1, IF status = NoteOff THEN 0 ELSE d2)
  /\ wanted' = IF status = Program THEN [wanted EXCEPT !.ins = d1, !.usb = TRUE]
               ELSE IF status = NoteOn /\ d2 > 0 /\ d1 >= NoteStart
               THEN [wanted EXCEPT !.oct = (d1 - NoteStart) \div 12]
               ELSE wanted
  /\ UNCHANGED <<parser, inStep, compat>>

================================================================================
