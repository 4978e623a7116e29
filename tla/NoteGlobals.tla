------------------------------ MODULE NoteGlobals ------------------------------
(***************************************************************************)
(* What LSDJ map and LSDJ keyboard mode share: the globals of the parser   *)
(* of the DIN port (Arduinoboy.ino), which each mode finds as the last one *)
(* left them, and the sender at that port.  The sender keeps to MIDI:      *)
(* whole channel messages, with running status, system exclusive messages, *)
(* and real-time bytes anywhere between their bytes.                       *)
(***************************************************************************)
EXTENDS Integers

CONSTANT Data     \* the notes, velocities and program numbers of the sender

ASSUME DataAssumption == Data \subseteq 0 .. 127 /\ 0 \in Data

Clock == 248
Start == 250
Continue == 251
Stop == 252
Sensing == 254
RealTime == {Clock, Start, Continue, Stop, Sensing}

(* Channel 1 is that of both modes, memory[MEM_KEYBD_CH] and               *)
(* memory[MEM_LIVEMAP_CH]; channel 2 is the map's second.                  *)
NoteOff == 128
NoteOn == 144
NoteOn2 == 145
NoteOff2 == 129
Program == 192
Control == 176
SysexBegin == 240
SysexEnd == 247
Statuses == {NoteOff, NoteOff2, NoteOn, NoteOn2, Program, Control, SysexBegin}

VARIABLES
  mode,      \* "map", "keyboard" or "other"
  parser,    \* midiData[0], midiData[1], midiNoteOnMode, midiProgramChange
  sender,    \* status, 0 for none; left, data bytes of the message to come; the key sent
  inStep     \* history: the parser follows the sender

SharedInit ==
  /\ mode = "other"
  /\ parser = [status |-> 0, key |-> 0, noteOn |-> FALSE, program |-> FALSE]
  /\ sender = [status |-> 0, left |-> 0, key |-> 0]
  /\ inStep = FALSE

Length(status) == CASE status = 0 -> 0 [] status \in {Program, SysexBegin} -> 1 [] OTHER -> 2

Idle == sender.left = 0

(* The next byte of the sender: it begins a message, goes on with one, by  *)
(* running status too, ends a system exclusive one, or slips in a          *)
(* real-time byte.                                                         *)
SendsStatus(b) ==
  /\ Idle /\ sender.status # SysexBegin
  /\ b \in Statuses
  /\ sender' = [status |-> b, left |-> Length(b), key |-> 0]

SendsData(b) ==
  LET to == IF Idle THEN Length(sender.status) ELSE sender.left
  IN /\ sender.status # 0 /\ (Idle => sender.status # SysexBegin)
     /\ b \in Data
     /\ sender' = [sender EXCEPT !.left = to - 1, !.key = IF to = 2 THEN b ELSE 0]

SendsSysexEnd ==
  /\ sender.status = SysexBegin /\ Idle
  /\ sender' = [status |-> 0, left |-> 0, key |-> 0]

SendsRealTime(b) == b \in RealTime /\ UNCHANGED sender

(* b ends the channel message <<status, key, b>>, or <<status, b>>.        *)
Ends(status) == sender.status = status /\ sender'.left = 0

================================================================================
