------------------------------- MODULE GbReaders -------------------------------
(***************************************************************************)
(* The two modes that read the Game Boy, LSDJ master sync and LSDJ MIDI    *)
(* out, with the changes of mode between them and others.  What they keep  *)
(* survives a change: the bit counter, which MIDI out sets to 0, the       *)
(* sequencer's flag, which other modes use too, and the notes held.        *)
(***************************************************************************)
EXTENDS Midiout

CONSTANT ModesUsed   \* bound: the modes the player changes to

ASSUME ModesAssumption == ModesUsed \subseteq {"master", "midiout", "other"}

vars == <<mode, masterVars, sent, midioutVars>>

Init == mode = "other" /\ sent = <<>> /\ MasterInit /\ MidioutInit

(* modeLSDJMasterSyncSetup                                                 *)
EnterMaster ==
  /\ mode' = "master"
  /\ UNCHANGED <<sequencerStarted, countGbClockTicks, command, midiValueMode>>

(* modeLSDJMidioutSetup                                                    *)
EnterMidiout ==
  /\ mode' = "midiout"
  /\ countGbClockTicks' = 0
  /\ midiValueMode' = FALSE
  /\ UNCHANGED <<sequencerStarted, command>>

EnterOther ==
  /\ mode' = "other"
  /\ sequencerStarted' \in BOOLEAN
  /\ UNCHANGED <<countGbClockTicks, command, midiValueMode>>

(* The change takes longer than the threshold.  The programmer is another  *)
(* mode here.  getIncommingSlaveByte leaves 7 in countClockPause, which is *)
(* next to nothing.  The notes held go on sounding; no chord is LSDJ's any *)
(* more.                                                                   *)
ChangeMode ==
  /\ EnterMaster \/ EnterMidiout \/ EnterOther
  /\ mode' \in ModesUsed \ {mode}
  /\ recent' = [m \in Channels |-> FALSE]
  /\ waiting' = FALSE
  /\ countClockPause' = IF "midiout" \in {mode, mode'} THEN 0 ELSE countClockPause
  /\ sent' = <<>>
  /\ control' = NoControl
  /\ chord' = Silent /\ leftOver' = sounding
  /\ UNCHANGED <<line, lsdjPlays, lastNote, hold, holdCounter, sounding, overrun>>

Device == Look \/ Stopped \/ Fallen \/ Poll
GameBoy == Play \/ Toggle

Next ==
  \/ Device /\ UNCHANGED midioutVars
  \/ GameBoy /\ UNCHANGED <<sent, midioutVars>>
  \/ \E b \in Commands \union Values \union {ClockCommand, StopCommand, StartCommand} : Receive(b)
  \/ \E m \in Channels : Later(m)
  \/ ChangeMode

(* The loop never blocks.                                                  *)
Spec == Init /\ [][Next]_vars /\ WF_vars(Device /\ UNCHANGED midioutVars)

--------------------------------------------------------------------------------
(* Properties.                                                             *)

TypeOK ==
  /\ mode \in {"master", "midiout", "other"}
  /\ sequencerStarted \in BOOLEAN /\ countGbClockTicks \in 0 .. 7
  /\ countClockPause \in 0 .. PauseLimit
  /\ waiting \in BOOLEAN /\ line \in BOOLEAN /\ lsdjPlays \in BOOLEAN
  /\ command \in 0 .. 12 \union {Spoilt} /\ midiValueMode \in BOOLEAN
  /\ lastNote \in [Channels -> Values \union {NoNote}]
  /\ hold \in [Cells -> Values \union {0}]
  /\ holdCounter \in [Channels -> 0 .. MaxHeld]
  /\ recent \in [Channels -> BOOLEAN]
  /\ control \in [number : 0 .. 27, value : 0 .. 127]
  /\ sounding \in [Channels -> SUBSET Values]
  /\ {chord, leftOver} \subseteq [Channels -> SUBSET Values]
  /\ overrun \in BOOLEAN

(* On each channel exactly the notes of LSDJ's last chord sound, and none  *)
(* after it was stopped, whatever the order and the pace of notes and      *)
(* stops.  There are two exceptions.  Notes that sound when the mode       *)
(* changes go on sounding until the channel's next note or stop in this    *)
(* mode, and the property says that these are all.  And from a note past   *)
(* the end of its row of midioutNoteHold until LSDJ's next stop anything   *)
(* may sound.                                                              *)
ChordSounds == ~overrun => \A m \in Channels : sounding[m] = chord[m] \union leftOver[m]

(* "N00 sends note off": a channel LSDJ has turned off is silent but for   *)
(* what a change of mode left sounding.  playNote() breaks it, which       *)
(* stores a fifth note in the row of the next channel, over the note that  *)
(* channel has to stop.                                                    *)
NoteOffSilences == \A m \in Channels : chord[m] = {} => sounding[m] = leftOver[m]

(* When LSDJ has stopped in master sync mode, the device tells so, and     *)
(* tells no more: the start it takes from the end of the wait, which is no *)
(* pulse, is followed by one last stop.                                    *)
TransportSettles ==
  <>[](mode = "master" /\ ~lsdjPlays) => <>[](~sequencerStarted /\ sent = <<>>)

================================================================================
