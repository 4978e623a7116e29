-------------------------------- MODULE Midiout --------------------------------
(***************************************************************************)
(* LSDJ MIDI out (Mode_LSDJ_Midiout.ino): LSDJ sends commands of one byte  *)
(* and of two, and the device makes MIDI of them.  A note is held until    *)
(* LSDJ stops it or another one comes, unless that comes within            *)
(* midioutNoteTimerThreshold, when it joins it in a chord.                 *)
(*                                                                         *)
(* midioutNoteHold has a row for each channel, and playNote() does not     *)
(* look at its end: a note too many goes into the next row.  Past the last *)
(* row lies some other variable, which the linker chooses; what happens to *)
(* that one is left out.  Each channel of LSDJ has a MIDI channel of its   *)
(* own here.                                                               *)
(***************************************************************************)
EXTENDS MasterSync

CONSTANTS
  Channels,       \* of the four of LSDJ
  Kinds,          \* of commands: 0 notes, 4 control changes, 8 program changes
  Values,         \* the values of the commands in use
  HoldSize,       \* columns of midioutNoteHold, 4 in the code
  MaxHeld         \* bound: so many notes of LSDJ's join in one chord

ASSUME ChannelsAssumption == Channels \subseteq 0 .. 3
ASSUME KindsAssumption == Kinds \subseteq {0, 4, 8}
ASSUME ValuesAssumption == Values \subseteq 0 .. 111
ASSUME HoldAssumption == HoldSize \in Nat \ {0} /\ MaxHeld \in HoldSize + 1 .. 255

VARIABLES
  command,        \* midiData[0], or Spoilt when it holds something else
  midiValueMode,
  lastNote,       \* midiOutLastNote[m]
  hold,           \* midioutNoteHold as it lies in memory, row after row
  holdCounter,    \* midioutNoteHoldCounter[m]
  recent,         \* midioutNoteTimer[m] is within the threshold
  control,        \* number and value of the control change of the last step
  sounding,       \* notes that sound at the receiver
  \* history
  chord,          \* the notes of LSDJ's last chord
  leftOver,       \* notes a change of mode left sounding
  overrun         \* a row has been written past its end since LSDJ's last stop

historyVars == <<chord, leftOver, overrun>>
holdVars == <<lastNote, hold, holdCounter, recent, sounding, historyVars>>
midioutVars == <<command, midiValueMode, holdVars, control>>

Spoilt == 99
Silent == [m \in Channels |-> {}]
NoNote == -1
NoControl == [number |-> 0, value |-> 0]

ClockCommand == 127
StopCommand == 126
StartCommand == 125
Cells == 0 .. 3 * HoldSize + MaxHeld - 1
Commands == {112 + m + k : m \in Channels, k \in Kinds}

MidioutInit ==
  /\ command = Spoilt /\ midiValueMode = FALSE
  /\ lastNote = [m \in Channels |-> NoNote]
  /\ hold = [c \in Cells |-> 0]
  /\ holdCounter = [m \in Channels |-> 0]
  /\ recent = [m \in Channels |-> FALSE]
  /\ control = NoControl
  /\ sounding = Silent /\ chord = Silent /\ leftOver = Silent
  /\ overrun = FALSE

Cell(m, k) == HoldSize * m + k
Held(m) == {hold[Cell(m, k)] : k \in 0 .. holdCounter[m] - 1}

--------------------------------------------------------------------------------
(* What a command does; midiData[0] is overwritten by what is sent.        *)

(* stopNote, and what it leaves of the notes that sound.                   *)
StopNote(m) ==
  /\ sounding' = [sounding EXCEPT ![m] = @ \ Held(m)]
  /\ holdCounter' = [holdCounter EXCEPT ![m] = 0]
  /\ lastNote' = [lastNote EXCEPT ![m] = NoNote]
  /\ UNCHANGED <<hold, overrun>>

(* A note into column k; rows lie one after the other.                     *)
Store(m, k, n) ==
  /\ hold' = [hold EXCEPT ![Cell(m, k)] = n]
  /\ holdCounter' = [holdCounter EXCEPT ![m] = k + 1]
  /\ lastNote' = [lastNote EXCEPT ![m] = n]
  /\ overrun' = (overrun \/ k >= HoldSize)

(* Faulty variant: a note that joins others takes their place.             *)
PlayNoteAlone(m, n) ==
  /\ sounding' = [sounding EXCEPT ![m] = (IF recent[m] THEN @ ELSE @ \ Held(m)) \union {n}]
  /\ Store(m, 0, n)

(* checkStopNote and playNote                                              *)
PlayNote(m, n) ==
  /\ sounding' = [sounding EXCEPT ![m] = (IF recent[m] THEN @ ELSE @ \ Held(m)) \union {n}]
  /\ Store(m, IF recent[m] THEN holdCounter[m] ELSE 0, n)

NoteCommand(m, v) ==
  \/ /\ v > 0
     /\ recent[m] => holdCounter[m] < MaxHeld
     /\ PlayNote(m, v)
     /\ recent' = [recent EXCEPT ![m] = TRUE]
     /\ chord' = [chord EXCEPT ![m] = IF recent[m] THEN @ \union {v} ELSE {v}]
     /\ leftOver' = [leftOver EXCEPT ![m] = {}]
  \/ /\ v = 0
     /\ IF lastNote[m] # NoNote THEN StopNote(m)
        ELSE UNCHANGED <<lastNote, hold, holdCounter, sounding, overrun>>
     /\ chord' = [chord EXCEPT ![m] = {}]
     /\ leftOver' = [leftOver EXCEPT ![m] = {}]
     /\ UNCHANGED recent

(* Faulty variant: the lower half of a value is taken as the upper half.   *)
ControlOfShifted(m, n, ccMode, ccScaling) ==
  IF ccMode
  THEN [number |-> 7 * m + (n \div 16), value |-> IF ccScaling THEN 16 * (n % 16) ELSE n]
  ELSE [number |-> 7 * m, value |-> IF ccScaling THEN (n * 127) \div 111 ELSE n]

(* playCC, with the channel's MEM_MIDIOUT_CC_MODE and _SCALING: the value, *)
(* or its halves, as an index of MEM_MIDIOUT_CC_NUMBERS and a value.       *)
ControlOf(m, n, ccMode, ccScaling) ==
  IF ccMode
  THEN [number |-> 7 * m + (n \div 16), value |-> IF ccScaling THEN 8 * (n % 16) ELSE n]
  ELSE [number |-> 7 * m, value |-> IF ccScaling THEN (n * 127) \div 111 ELSE n]

(* midioutDoAction; playPC keeps nothing.                                  *)
DoAction(c, v) ==
  /\ IF c \in Channels THEN NoteCommand(c, v) ELSE UNCHANGED holdVars
  /\ \E ccMode, ccScaling \in BOOLEAN :
       control' = IF c - 4 \in Channels THEN ControlOf(c - 4, v, ccMode, ccScaling) ELSE NoControl

(* stopAllNotes: a note-off for each note held, then "all notes off".      *)
StopAllNotes ==
  /\ holdCounter' = [m \in Channels |-> IF lastNote[m] = NoNote THEN holdCounter[m] ELSE 0]
  /\ lastNote' = [m \in Channels |-> NoNote]
  /\ sounding' = Silent /\ chord' = Silent /\ leftOver' = Silent
  /\ overrun' = FALSE
  /\ UNCHANGED <<hold, recent>>

--------------------------------------------------------------------------------
(* modeLSDJMidiout: the byte getIncommingSlaveByte has clocked in.         *)

OfOneByte(b) ==
  /\ b \in {ClockCommand, StopCommand, StartCommand}
  /\ sent' = CASE b = ClockCommand -> <<"clock">> [] b = StopCommand -> <<"stop">>
               [] b = StartCommand -> <<"start">>
  /\ IF b = StopCommand THEN StopAllNotes /\ command' = Spoilt ELSE UNCHANGED <<holdVars, command>>
  /\ UNCHANGED midiValueMode

FirstByte(b) ==
  /\ b \in Commands
  /\ command' = b - 112
  /\ midiValueMode' = TRUE
  /\ sent' = <<>>
  /\ UNCHANGED holdVars

SecondByte(b) ==
  /\ b \in Values /\ midiValueMode
  /\ midiValueMode' = FALSE
  /\ DoAction(command, b)
  /\ command' = Spoilt
  /\ sent' = <<>>

Receive(b) ==
  /\ mode = "midiout"
  /\ \/ OfOneByte(b) /\ control' = NoControl
     \/ FirstByte(b) /\ control' = NoControl
     \/ SecondByte(b)
  /\ UNCHANGED <<mode, masterVars>>

(* The threshold has passed since the channel's last note.                 *)
Later(m) ==
  /\ recent[m]
  /\ recent' = [recent EXCEPT ![m] = FALSE]
  /\ UNCHANGED <<mode, masterVars, sent, command, midiValueMode, lastNote, hold, holdCounter,
                 sounding, historyVars, control>>

================================================================================
