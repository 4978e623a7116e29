------------------------------- MODULE NoteModes -------------------------------
(***************************************************************************)
(* LSDJ map and LSDJ keyboard mode, with the changes of mode between them  *)
(* and others: button or editor may ask for one between any two bytes, and *)
(* the globals stay as they are.                                           *)
(*                                                                         *)
(* A behaviour visits one of the two, any number of times.  The other of   *)
(* them is one of the other modes then: all the two share is the parser,   *)
(* and an other mode may do to that what either does.                      *)
(***************************************************************************)
EXTENDS MapMode, KeyboardMode

VARIABLE visited     \* "map" or "keyboard"

vars == <<mode, visited, parser, sender, inStep, mapVars, keyboardVars>>

Init ==
  /\ visited \in {"map", "keyboard"}
  /\ SharedInit /\ MapInit /\ KeyboardInit

Sends(b) ==
  \/ SendsStatus(b) \/ SendsData(b) \/ SendsRealTime(b)
  \/ b = SysexEnd /\ SendsSysexEnd

ReceiveInMap(b) ==
  /\ mode = "map"
  /\ Sends(b) /\ MapReceive(b)
  /\ UNCHANGED <<mode, keyboardVars>>

ReceiveInKeyboard(b) ==
  /\ mode = "keyboard"
  /\ Sends(b) /\ KeyboardReceive(b)
  /\ UNCHANGED <<mode, mapVars>>

ReceiveUsb(status, d1, d2) ==
  /\ mode = "keyboard"
  /\ KeyboardUsb(status, d1, d2)
  /\ UNCHANGED <<mode, sender, mapVars>>

(* Another mode's parser may use the shared globals, or leave them.        *)
ReceiveElsewhere(b) ==
  /\ mode = "other"
  /\ Sends(b)
  /\ parser' \in {parser,
                  [parser EXCEPT !.noteOn = ~@],
                  IF b < 128 THEN [parser EXCEPT !.key = b]
                  ELSE IF b \in Statuses THEN [parser EXCEPT !.status = b, !.noteOn = TRUE]
                  ELSE parser}
  /\ UNCHANGED <<mode, inStep, mapVars, keyboardVars>>

Bytes == Statuses \union {SysexEnd} \union RealTime \union Data

EnterMap ==
  /\ visited = "map"
  /\ mode' = "map"
  /\ UNCHANGED keyboardVars

EnterKeyboard ==
  /\ visited = "keyboard"
  /\ mode' = "keyboard"
  /\ KeyboardSetup

EnterOther ==
  /\ mode' = "other"
  /\ KeyboardLeft

(* A row that is to be stopped waits until map mode is entered again.      *)
ChangeMode ==
  /\ EnterMap \/ EnterKeyboard \/ EnterOther
  /\ inStep' = FALSE
  /\ asked' = Unknown
  /\ sequencerStarted' \in IF mode = "other" /\ visited = "map" THEN BOOLEAN ELSE {sequencerStarted}
  /\ UNCHANGED <<parser, sender, map, playing>>

Flush == MapFlush /\ UNCHANGED keyboardVars
Tick == MapTick /\ UNCHANGED keyboardVars

Next ==
  /\ \/ \E b \in Bytes : ReceiveInMap(b) \/ ReceiveInKeyboard(b) \/ ReceiveElsewhere(b)
     \/ \E status \in {NoteOff, NoteOn, Program}, d1 \in UsbNotes, d2 \in Data :
          ReceiveUsb(status, d1, d2)
     \/ ChangeMode \/ Flush \/ Tick
  /\ UNCHANGED visited

Spec == Init /\ [][Next]_vars

--------------------------------------------------------------------------------
(* Properties.                                                             *)

TypeOK ==
  /\ mode \in {visited, "other"}
  /\ parser \in [status : {0} \union Statuses \union {Sensing, SysexEnd},
                 key : Data, noteOn : BOOLEAN, program : BOOLEAN]
  /\ sender \in [status : {0} \union Statuses, left : 0 .. 2, key : Data]
  /\ inStep \in BOOLEAN /\ sequencerStarted \in BOOLEAN /\ compat \in BOOLEAN /\ reached \in BOOLEAN
  /\ map \in [row : Rows \union {None}, queue : Rows \union {None, TickByte}, age : 0 .. Wait + 1]
  /\ playing \in Rows \union {None}
  /\ asked \in Numbers \union {None, Unknown}
  /\ last \in [oct : 0 .. 6 \union 179 .. 185, ins : Data]
  /\ lsdj \in Settings
  /\ wanted \in [oct : 0 .. 6 \union 0 .. TopOctave, ins : 0 .. 127, usb : BOOLEAN]

(* In map mode, while no message is on its way, LSDJ plays the row the     *)
(* last note asked for; after a note-off or a stop it plays none, or the   *)
(* stop is still queued.  So a delayed stop never stops a row that was     *)
(* started after it was asked for, nor is it lost, whatever notes, ticks,  *)
(* transport bytes, mode changes and delays come in between.  Of the notes *)
(* that stand for the tick and the stop it says nothing.                   *)
RowIsTheOneAsked ==
  (mode = "map" /\ inStep /\ Idle) =>
    /\ asked \in Rows => playing = asked
    /\ asked = None => playing = None \/ map.queue = playing

(* In keyboard mode (with compat mode, and entered from an octave and      *)
(* instrument that are in reach) LSDJ is always in the octave of the last  *)
(* note and on the instrument of the last program change, whatever notes,  *)
(* programs, USB messages and stale parser flags came before.  There are   *)
(* two exceptions: a program change from USB, which is not obeyed, until   *)
(* the next from DIN; and everything after a note or a program above the   *)
(* ranges of LSDJ.                                                         *)
LsdjFollows ==
  (mode = "keyboard" /\ compat /\ reached /\ inStep) =>
    /\ lsdj.oct = wanted.oct
    /\ wanted.usb \/ lsdj.ins = wanted.ins

================================================================================
