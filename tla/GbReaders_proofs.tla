---------------------------- MODULE GbReaders_proofs ----------------------------
(***************************************************************************)
(* Proofs about the modes that read the Game Boy, for every pause, set of  *)
(* channels and values and size of midioutNoteHold.  The heart is a        *)
(* bookkeeping invariant of MIDI out: until a row of midioutNoteHold is    *)
(* written past its end, what it holds for a channel is what sounds there, *)
(* and midiOutLastNote is set exactly when it holds a note.                *)
(***************************************************************************)
EXTENDS GbReaders, TLAPS

Assumptions ==
  /\ PauseLimit \in Nat \ {0}
  /\ Channels \subseteq 0 .. 3
  /\ Values \subseteq 0 .. 111
  /\ Kinds \subseteq {0, 4, 8}
  /\ HoldSize \in Nat \ {0}
  /\ MaxHeld \in HoldSize + 1 .. 255
  /\ ModesUsed \subseteq {"master", "midiout", "other"}

(* The parts of the type invariant: the clock's side and the notes' side.  *)
ClockType ==
  /\ mode \in {"master", "midiout", "other"}
  /\ sequencerStarted \in BOOLEAN /\ countGbClockTicks \in 0 .. 7
  /\ countClockPause \in 0 .. PauseLimit
  /\ waiting \in BOOLEAN /\ line \in BOOLEAN /\ lsdjPlays \in BOOLEAN

NoteType ==
  /\ lastNote \in [Channels -> Values \union {NoNote}]
  /\ hold \in [Cells -> Values \union {0}]
  /\ holdCounter \in [Channels -> 0 .. MaxHeld]
  /\ recent \in [Channels -> BOOLEAN]
  /\ sounding \in [Channels -> SUBSET Values]
  /\ chord \in [Channels -> SUBSET Values]
  /\ leftOver \in [Channels -> SUBSET Values]
  /\ overrun \in BOOLEAN

CommandType ==
  /\ command \in 0 .. 12 \union {Spoilt} /\ midiValueMode \in BOOLEAN
  /\ control \in [number : 0 .. 27, value : 0 .. 127]

(* The bookkeeping of a channel: held, sounding and asked for, or left     *)
(* over, are one set.                                                      *)
Kept(m) ==
  /\ holdCounter[m] <= HoldSize
  /\ sounding[m] = Held(m)
  /\ sounding[m] = chord[m] \union leftOver[m]

HeldSounds ==
  /\ \A m \in Channels : lastNote[m] = NoNote <=> holdCounter[m] = 0
  /\ \A m \in Channels : recent[m] => leftOver[m] = {}
  /\ ~overrun => \A m \in Channels : Kept(m)

IndInv == ClockType /\ NoteType /\ CommandType /\ HeldSounds

(* What the assumptions say of the constants.                              *)
LEMMA AssumptionsHold == Assumptions
BY PauseLimitAssumption, ChannelsAssumption, ValuesAssumption, KindsAssumption, HoldAssumption,
   ModesAssumption
   DEF Assumptions

--------------------------------------------------------------------------------
(* The master sync side.                                                   *)

(* A pulse keeps the bit counter in its range.                             *)
LEMMA PulseType ==
  ASSUME NEW ticks \in 0 .. 7, NEW started \in BOOLEAN, NEW before, Pulse(ticks, started, before)
  PROVE  countGbClockTicks' \in 0 .. 7 /\ sequencerStarted' \in BOOLEAN
BY DEF Pulse

(* No step of the device or the Game Boy disturbs the types of the clock.  *)
LEMMA ClockStep ==
  ASSUME ClockType, Device \/ GameBoy
  PROVE  ClockType'
<1>1. PauseLimit \in Nat \ {0}
  BY AssumptionsHold DEF Assumptions
<1>2. CASE Look
  BY <1>2 DEF Look, ClockType
<1>3. CASE Stopped
  <2>1. countGbClockTicks' \in 0 .. 7 /\ sequencerStarted' \in BOOLEAN
    BY <1>3, PulseType DEF Stopped, ClockType
  <2>2. countClockPause' \in 0 .. PauseLimit
    <3>1. countClockPause' = 0
      BY <1>3 DEF Stopped
    <3> QED
      BY <1>1, <3>1
  <2>3. waiting' \in BOOLEAN /\ UNCHANGED <<mode, line, lsdjPlays>>
    BY <1>3 DEF Stopped
  <2> QED
    BY <2>1, <2>2, <2>3, Zenon DEF ClockType
<1>4. CASE Fallen
  <2>1. countGbClockTicks' \in 0 .. 7 /\ sequencerStarted' \in BOOLEAN
    BY <1>4, PulseType DEF Fallen, ClockType
  <2>2. countClockPause' \in 0 .. PauseLimit
    <3>1. countClockPause' = 0
      BY <1>4 DEF Fallen
    <3> QED
      BY <1>1, <3>1
  <2>3. waiting' \in BOOLEAN /\ UNCHANGED <<mode, line, lsdjPlays>>
    BY <1>4 DEF Fallen
  <2> QED
    BY <2>1, <2>2, <2>3, Zenon DEF ClockType
<1>5. CASE Poll
  BY <1>1, <1>5 DEF Poll, LongPause, ClockType
<1>6. CASE GameBoy
  BY <1>6 DEF GameBoy, Play, Toggle, ClockType
<1> QED
  BY <1>2, <1>3, <1>4, <1>5, <1>6 DEF Device

--------------------------------------------------------------------------------
(* The MIDI out side: what the commands do to the notes.                   *)

(* The notes' part of the invariant speaks of these variables only.        *)
LEMMA NotesUnchanged ==
  ASSUME NoteType, HeldSounds, UNCHANGED holdVars
  PROVE  NoteType' /\ HeldSounds'
BY DEF NoteType, HeldSounds, Kept, Held, Cell, holdVars, historyVars

(* midioutNoteHold has room for the notes of the bound.                    *)
LEMMA CellExists ==
  ASSUME NEW m \in Channels, NEW k \in 0 .. MaxHeld - 1
  PROVE  Cell(m, k) \in Cells
<1>1. m \in 0 .. 3 /\ HoldSize \in Nat /\ MaxHeld \in Nat
  BY AssumptionsHold DEF Assumptions
<1>2. HoldSize * m \in 0 .. 3 * HoldSize
  <2>1. m = 0 \/ m = 1 \/ m = 2 \/ m = 3
    BY <1>1
  <2> QED
    BY <1>1, <2>1
<1>3. HoldSize * m \in Nat /\ 3 * HoldSize \in Nat /\ HoldSize * m <= 3 * HoldSize
  BY <1>1, <1>2
<1> DEFINE a == HoldSize * m
           z == 3 * HoldSize
<1>4. a \in Nat /\ z \in Nat /\ a <= z
  BY <1>3
<1> HIDE DEF a, z
<1>5. a + k \in 0 .. z + MaxHeld - 1
  BY <1>1, <1>4
<1> QED
  BY <1>5 DEF Cell, Cells, a, z

(* The rows of two channels have no cell in common.                        *)
LEMMA RowsApart ==
  ASSUME NEW m \in Channels, NEW p \in Channels, m # p,
         NEW k \in 0 .. HoldSize - 1, NEW j \in 0 .. HoldSize - 1
  PROVE  Cell(m, k) # Cell(p, j)
<1>1. m \in 0 .. 3 /\ p \in 0 .. 3 /\ HoldSize \in Nat
  BY AssumptionsHold DEF Assumptions
<1>2. m = 0 \/ m = 1 \/ m = 2 \/ m = 3
  BY <1>1
<1>3. p = 0 \/ p = 1 \/ p = 2 \/ p = 3
  BY <1>1
<1>4. HoldSize * 0 = 0 /\ HoldSize * 1 = HoldSize
      /\ HoldSize * 2 = HoldSize + HoldSize /\ HoldSize * 3 = HoldSize + HoldSize + HoldSize
  BY <1>1
<1> QED
  BY <1>1, <1>2, <1>3, <1>4 DEF Cell

(* A note stored after those a channel holds.                              *)
LEMMA HeldStored ==
  ASSUME NEW m \in Channels, NEW k \in 0 .. MaxHeld - 1, NEW n \in Values, NoteType,
         Store(m, k, n)
  PROVE  Held(m)' = {hold[Cell(m, j)] : j \in 0 .. k - 1} \union {n}
<1>1. k \in Nat /\ HoldSize \in Nat /\ m \in Nat
  BY AssumptionsHold DEF Assumptions
<1>2. HoldSize * m \in Nat
  BY <1>1
<1>3. holdCounter'[m] = k + 1
  BY DEF Store, NoteType
<1>4. Cell(m, k) \in Cells
  BY CellExists
<1>5. hold'[Cell(m, k)] = n
  BY <1>4 DEF Store, NoteType
<1>6. \A j \in 0 .. k - 1 : hold'[Cell(m, j)] = hold[Cell(m, j)]
  <2> TAKE j \in 0 .. k - 1
  <2>1. j \in 0 .. MaxHeld - 1 /\ j # k
    BY <1>1, AssumptionsHold DEF Assumptions
  <2>2. Cell(m, j) \in Cells
    BY <2>1, CellExists
  <2>3. Cell(m, j) # Cell(m, k)
    BY <1>1, <1>2, <2>1 DEF Cell
  <2> QED
    BY <2>2, <2>3 DEF Store, NoteType
<1>7. 0 .. (k + 1) - 1 = (0 .. k - 1) \union {k}
  BY <1>1
<1>8. Held(m)' = {hold'[Cell(m, j)] : j \in 0 .. (k + 1) - 1}
  BY <1>3 DEF Held, Cell
<1> QED
  BY <1>5, <1>6, <1>7, <1>8

(* The other channels do not notice it, as long as it is in its row.       *)
LEMMA HeldElsewhere ==
  ASSUME NEW m \in Channels, NEW p \in Channels, m # p, NEW k \in 0 .. HoldSize - 1,
         NEW n \in Values, NoteType, Store(m, k, n), holdCounter[p] <= HoldSize
  PROVE  Held(p)' = Held(p) /\ holdCounter'[p] = holdCounter[p]
<1>1. holdCounter'[p] = holdCounter[p]
  BY DEF Store, NoteType
<1>2. \A j \in 0 .. holdCounter[p] - 1 : hold'[Cell(p, j)] = hold[Cell(p, j)]
  <2> TAKE j \in 0 .. holdCounter[p] - 1
  <2>1. holdCounter[p] \in Nat /\ HoldSize \in Nat /\ MaxHeld \in Nat /\ HoldSize < MaxHeld
    BY AssumptionsHold DEF Assumptions, NoteType
  <2>2. j \in 0 .. HoldSize - 1 /\ j \in 0 .. MaxHeld - 1
    BY <2>1
  <2>3. Cell(p, j) \in Cells
    BY <2>2, CellExists
  <2>4. Cell(p, j) # Cell(m, k)
    BY <2>2, RowsApart
  <2> QED
    BY <2>3, <2>4 DEF Store, NoteType
<1> QED
  BY <1>1, <1>2 DEF Held, Cell

(* A note that is played joins the chord or takes its place.               *)
LEMMA PlayNoteKeeps ==
  ASSUME NEW m \in Channels, NEW v \in Values, v > 0, NoteType, HeldSounds, NoteCommand(m, v)
  PROVE  NoteType' /\ HeldSounds'
<1> DEFINE k == IF recent[m] THEN holdCounter[m] ELSE 0
           before == {hold[Cell(m, j)] : j \in 0 .. k - 1}
<1>1. HoldSize \in Nat \ {0} /\ MaxHeld \in Nat /\ HoldSize < MaxHeld /\ Values \subseteq 0 .. 111
  BY AssumptionsHold DEF Assumptions
<1>2. /\ recent[m] => holdCounter[m] < MaxHeld
      /\ PlayNote(m, v)
      /\ recent' = [recent EXCEPT ![m] = TRUE]
      /\ chord' = [chord EXCEPT ![m] = IF recent[m] THEN @ \union {v} ELSE {v}]
      /\ leftOver' = [leftOver EXCEPT ![m] = {}]
  BY DEF NoteCommand
<1>3. k \in 0 .. MaxHeld - 1
  <2>1. holdCounter[m] \in 0 .. MaxHeld
    BY DEF NoteType
  <2> QED
    BY <1>1, <1>2, <2>1
<1>4. Store(m, k, v)
  BY <1>2 DEF PlayNote
<1>5. Held(m)' = before \union {v}
  <2> HIDE DEF k
  <2> QED
    BY <1>3, <1>4, HeldStored
<1>6. NoteType'
  <2>1. holdCounter' \in [Channels -> 0 .. MaxHeld]
    <3>1. k + 1 \in 0 .. MaxHeld
      BY <1>1, <1>3
    <3> HIDE DEF k
    <3> QED
      BY <1>4, <3>1 DEF Store, NoteType
  <2>2. /\ hold' \in [Cells -> Values \union {0}]
        /\ lastNote' \in [Channels -> Values \union {NoNote}]
        /\ overrun' \in BOOLEAN
    BY <1>4 DEF Store, NoteType
  <2>3. sounding' \in [Channels -> SUBSET Values]
    <3> DEFINE now == (IF recent[m] THEN sounding[m] ELSE sounding[m] \ Held(m)) \union {v}
    <3>1. sounding' = [sounding EXCEPT ![m] = now]
      BY <1>2 DEF PlayNote, NoteType
    <3>2. now \in SUBSET Values
      BY DEF NoteType
    <3> HIDE DEF now
    <3> QED
      BY <3>1, <3>2 DEF NoteType
  <2>4. /\ recent' \in [Channels -> BOOLEAN]
        /\ chord' \in [Channels -> SUBSET Values] /\ leftOver' \in [Channels -> SUBSET Values]
    BY <1>2 DEF NoteType
  <2> QED
    BY <2>1, <2>2, <2>3, <2>4 DEF NoteType
<1>7. \A c \in Channels : lastNote'[c] = NoNote <=> holdCounter'[c] = 0
  <2> TAKE c \in Channels
  <2>1. CASE c = m
    <3>1. lastNote'[c] = v /\ holdCounter'[c] = k + 1
      BY <1>4, <2>1 DEF Store, NoteType
    <3> QED
      BY <1>1, <1>3, <3>1 DEF NoNote
  <2>2. CASE c # m
    <3>1. lastNote'[c] = lastNote[c] /\ holdCounter'[c] = holdCounter[c]
      BY <1>4, <2>2 DEF Store, NoteType
    <3> QED
      BY <3>1 DEF HeldSounds
  <2> QED
    BY <2>1, <2>2
<1>8. \A c \in Channels : recent'[c] => leftOver'[c] = {}
  BY <1>2 DEF NoteType, HeldSounds
<1>9. ASSUME ~overrun', NEW c \in Channels PROVE Kept(c)'
  <2>1. ~overrun /\ k < HoldSize
    <3>1. k \in Nat
      BY <1>3
    <3>2. overrun' = (overrun \/ k >= HoldSize)
      BY <1>4 DEF Store
    <3>3. ~overrun /\ ~(k >= HoldSize)
      BY <1>9, <3>2, Zenon
    <3> QED
      BY <1>1, <3>1, <3>3
  <2>2. \A p \in Channels : Kept(p)
    BY <2>1 DEF HeldSounds
  <2>3. CASE c = m
    <3>1. holdCounter'[m] <= HoldSize
      BY <1>1, <1>3, <1>4, <2>1 DEF Store, NoteType
    <3>2. sounding'[m] = before \union {v} /\ chord'[m] \union leftOver'[m] = before \union {v}
      <4>1. sounding[m] = Held(m) /\ sounding[m] = chord[m] \union leftOver[m]
        BY <2>2 DEF Kept
      <4>2. CASE recent[m]
        <5>1. before = Held(m)
          BY <4>2 DEF Held
        <5>2. sounding'[m] = sounding[m] \union {v} /\ chord'[m] = chord[m] \union {v}
          BY <1>2, <4>2 DEF PlayNote, NoteType
        <5>3. leftOver[m] = {}
          BY <4>2 DEF HeldSounds
        <5> QED
          BY <1>2, <4>1, <5>1, <5>2, <5>3 DEF NoteType
      <4>3. CASE ~recent[m]
        <5>1. before = {}
          BY <4>3
        <5>2. sounding'[m] = {v} /\ chord'[m] = {v} /\ leftOver'[m] = {}
          BY <1>2, <4>1, <4>3 DEF PlayNote, NoteType
        <5> QED
          BY <5>1, <5>2
      <4> QED
        BY <4>2, <4>3
    <3> HIDE DEF before, k
    <3> QED
      BY <1>5, <2>3, <3>1, <3>2 DEF Kept
  <2>4. CASE c # m
    <3>1. holdCounter[c] <= HoldSize
      BY <2>2 DEF Kept
    <3>2. k \in 0 .. HoldSize - 1
      BY <1>1, <1>3, <2>1
    <3>3. Held(c)' = Held(c) /\ holdCounter'[c] = holdCounter[c]
      <4> HIDE DEF k
      <4> QED
        BY <1>4, <2>4, <3>1, <3>2, HeldElsewhere
    <3>4. /\ sounding'[c] = sounding[c] /\ chord'[c] = chord[c] /\ leftOver'[c] = leftOver[c]
      BY <1>2, <2>4 DEF PlayNote, NoteType
    <3> QED
      BY <2>2, <3>3, <3>4 DEF Kept
  <2> QED
    BY <2>3, <2>4
<1> QED
  BY <1>6, <1>7, <1>8, <1>9 DEF HeldSounds

(* A channel that is stopped holds nothing.                                *)
LEMMA NoteOffKeeps ==
  ASSUME NEW m \in Channels, NEW v \in Values, ~(v > 0), NoteType, HeldSounds, NoteCommand(m, v)
  PROVE  NoteType' /\ HeldSounds'
<1>1. HoldSize \in Nat \ {0} /\ MaxHeld \in Nat /\ HoldSize < MaxHeld
  BY AssumptionsHold DEF Assumptions
<1>2. /\ IF lastNote[m] # NoNote THEN StopNote(m)
         ELSE UNCHANGED <<lastNote, hold, holdCounter, sounding, overrun>>
      /\ chord' = [chord EXCEPT ![m] = {}]
      /\ leftOver' = [leftOver EXCEPT ![m] = {}]
      /\ recent' = recent
  BY DEF NoteCommand
<1>3. hold' = hold /\ overrun' = overrun
  BY <1>2 DEF StopNote
<1>4. lastNote'[m] = NoNote /\ holdCounter'[m] = 0
  BY <1>2 DEF StopNote, NoteType, HeldSounds
<1>5. sounding'[m] = IF lastNote[m] = NoNote THEN sounding[m] ELSE sounding[m] \ Held(m)
  BY <1>2 DEF StopNote, NoteType
<1>6. \A c \in Channels \ {m} : /\ lastNote'[c] = lastNote[c] /\ holdCounter'[c] = holdCounter[c]
                              /\ sounding'[c] = sounding[c] /\ chord'[c] = chord[c]
                              /\ leftOver'[c] = leftOver[c]
  BY <1>2 DEF StopNote, NoteType
<1>7. NoteType'
  <2>1. /\ holdCounter' \in [Channels -> 0 .. MaxHeld]
        /\ lastNote' \in [Channels -> Values \union {NoNote}]
        /\ sounding' \in [Channels -> SUBSET Values]
    <3>1. CASE lastNote[m] # NoNote
      BY <1>1, <1>2, <3>1 DEF StopNote, NoteType
    <3>2. CASE lastNote[m] = NoNote
      BY <1>2, <3>2 DEF NoteType
    <3> QED
      BY <3>1, <3>2
  <2>2. chord' \in [Channels -> SUBSET Values] /\ leftOver' \in [Channels -> SUBSET Values]
    BY <1>2 DEF NoteType
  <2> QED
    BY <1>2, <1>3, <2>1, <2>2 DEF NoteType
<1>8. \A c \in Channels : lastNote'[c] = NoNote <=> holdCounter'[c] = 0
  BY <1>4, <1>6 DEF HeldSounds
<1>9. \A c \in Channels : recent'[c] => leftOver'[c] = {}
  BY <1>2 DEF NoteType, HeldSounds
<1>10. ASSUME ~overrun', NEW c \in Channels PROVE Kept(c)'
  <2>1. \A p \in Channels : Kept(p)
    BY <1>3, <1>10 DEF HeldSounds
  <2>2. CASE c = m
    <3>1. Held(m)' = {}
      BY <1>4 DEF Held
    <3>2. sounding'[m] = {}
      <4>1. sounding[m] = Held(m)
        BY <2>1 DEF Kept
      <4>2. lastNote[m] = NoNote => Held(m) = {}
        BY DEF HeldSounds, Held
      <4> QED
        BY <1>5, <4>1, <4>2
    <3>3. chord'[m] = {} /\ leftOver'[m] = {}
      BY <1>2 DEF NoteType
    <3> QED
      BY <1>1, <1>4, <2>2, <3>1, <3>2, <3>3 DEF Kept
  <2>3. CASE c # m
    <3>1. Held(c)' = Held(c)
      BY <1>3, <1>6, <2>3 DEF Held, Cell
    <3> QED
      BY <1>6, <2>1, <2>3, <3>1 DEF Kept
  <2> QED
    BY <2>2, <2>3
<1> QED
  BY <1>7, <1>8, <1>9, <1>10 DEF HeldSounds

(* The stop command silences every channel, and the rows start afresh.     *)
LEMMA StopAllNotesKeeps ==
  ASSUME NoteType, HeldSounds, StopAllNotes
  PROVE  NoteType' /\ HeldSounds'
<1>1. HoldSize \in Nat \ {0} /\ MaxHeld \in Nat /\ HoldSize < MaxHeld
  BY AssumptionsHold DEF Assumptions
<1>2. \A c \in Channels : /\ holdCounter'[c] = 0 /\ lastNote'[c] = NoNote
                        /\ sounding'[c] = {} /\ chord'[c] = {} /\ leftOver'[c] = {}
  BY DEF StopAllNotes, HeldSounds, Silent
<1>3. NoteType'
  <2>1. holdCounter' \in [Channels -> 0 .. MaxHeld]
    BY <1>1, <1>2 DEF StopAllNotes
  <2>2. lastNote' \in [Channels -> Values \union {NoNote}]
    BY DEF StopAllNotes
  <2>3. Silent \in [Channels -> SUBSET Values]
    BY DEF Silent
  <2> QED
    BY <2>1, <2>2, <2>3 DEF StopAllNotes, NoteType
<1>4. HeldSounds'
  <2>1. \A c \in Channels : Held(c)' = {}
    BY <1>2 DEF Held
  <2> QED
    BY <1>1, <1>2, <2>1 DEF HeldSounds, Kept
<1> QED
  BY <1>3, <1>4

(* The commands of a channel: the disjuncts of midioutDoAction.            *)
LEMMA NoteCommandKeeps ==
  ASSUME NEW m \in Channels, NEW v \in Values, NoteType, HeldSounds, NoteCommand(m, v)
  PROVE  NoteType' /\ HeldSounds'
BY PlayNoteKeeps, NoteOffKeeps

(* playCC stays inside the 28 numbers of the settings and the 7 bits of a  *)
(* MIDI value.                                                             *)
LEMMA ControlOfType ==
  ASSUME NEW m \in Channels, NEW n \in Values, NEW ccMode \in BOOLEAN, NEW ccScaling \in BOOLEAN
  PROVE  ControlOf(m, n, ccMode, ccScaling) \in [number : 0 .. 27, value : 0 .. 127]
<1>1. m \in 0 .. 3 /\ n \in 0 .. 111
  BY AssumptionsHold DEF Assumptions
<1>2. n \div 16 \in 0 .. 6 /\ 8 * (n % 16) \in 0 .. 120 /\ (n * 127) \div 111 \in 0 .. 127
  BY <1>1
<1>3. 7 * m + (n \div 16) \in 0 .. 27 /\ 7 * m \in 0 .. 27
  BY <1>1, <1>2
<1> QED
  BY <1>1, <1>2, <1>3 DEF ControlOf

--------------------------------------------------------------------------------
(* Every step keeps the invariant.                                         *)

(* At the start nothing sounds.                                            *)
LEMMA InitIndInv == Init => IndInv
<1> SUFFICES ASSUME Init PROVE IndInv
  OBVIOUS
<1>1. HoldSize \in Nat \ {0} /\ MaxHeld \in Nat
  BY AssumptionsHold DEF Assumptions
<1>2. ClockType
  <2>1. countGbClockTicks \in 0 .. 7 /\ countClockPause \in 0 .. PauseLimit
    BY AssumptionsHold DEF Init, MasterInit, Assumptions
  <2>2. /\ mode = "other"
        /\ sequencerStarted = FALSE /\ waiting = FALSE /\ line = TRUE /\ lsdjPlays = FALSE
    BY DEF Init, MasterInit
  <2> QED
    BY <2>1, <2>2, Zenon DEF ClockType
<1>3. NoteType
  <2>1. 0 \in 0 .. MaxHeld /\ NoNote \in Values \union {NoNote}
    BY <1>1
  <2>2. /\ lastNote = [m \in Channels |-> NoNote] /\ hold = [c \in Cells |-> 0]
        /\ holdCounter = [m \in Channels |-> 0] /\ recent = [m \in Channels |-> FALSE]
    BY DEF Init, MidioutInit
  <2>3. sounding = Silent /\ chord = Silent /\ leftOver = Silent /\ overrun = FALSE
    BY DEF Init, MidioutInit
  <2>4. /\ sounding \in [Channels -> SUBSET Values]
        /\ chord \in [Channels -> SUBSET Values] /\ leftOver \in [Channels -> SUBSET Values]
    BY <2>3 DEF Silent
  <2>5. overrun \in BOOLEAN
    BY <2>3
  <2>6. /\ lastNote \in [Channels -> Values \union {NoNote}]
        /\ hold \in [Cells -> Values \union {0}]
        /\ holdCounter \in [Channels -> 0 .. MaxHeld]
        /\ recent \in [Channels -> BOOLEAN]
    BY <2>1, <2>2
  <2> QED
    BY <2>4, <2>5, <2>6 DEF NoteType
<1>4. CommandType
  <2>1. command = Spoilt /\ midiValueMode = FALSE /\ control = NoControl
    BY DEF Init, MidioutInit
  <2>2. NoControl \in [number : 0 .. 27, value : 0 .. 127]
    BY DEF NoControl
  <2> QED
    BY <2>1, <2>2, Zenon DEF CommandType
<1>5. HeldSounds
  BY <1>1 DEF Init, MidioutInit, HeldSounds, Kept, Held, Silent
<1> QED
  BY <1>2, <1>3, <1>4, <1>5 DEF IndInv

(* A byte from LSDJ.                                                       *)
LEMMA ReceiveKeeps ==
  ASSUME IndInv, NEW b, Receive(b)
  PROVE  IndInv'
<1>1. ClockType'
  BY DEF Receive, IndInv, ClockType, masterVars
<1>2. NoControl \in [number : 0 .. 27, value : 0 .. 127]
  BY DEF NoControl
<1>3. CASE OfOneByte(b) /\ control' = NoControl
  <2>1. NoteType' /\ HeldSounds'
    BY <1>3, StopAllNotesKeeps, NotesUnchanged DEF OfOneByte, IndInv
  <2>2. CommandType'
    BY <1>2, <1>3 DEF OfOneByte, IndInv, CommandType
  <2> QED
    BY <1>1, <2>1, <2>2 DEF IndInv
<1>4. CASE FirstByte(b) /\ control' = NoControl
  <2>1. NoteType' /\ HeldSounds'
    BY <1>4, NotesUnchanged DEF FirstByte, IndInv
  <2>2. b - 112 \in 0 .. 12
    BY <1>4, AssumptionsHold DEF FirstByte, Commands, Assumptions
  <2>3. CommandType'
    BY <1>2, <1>4, <2>2 DEF FirstByte, IndInv, CommandType
  <2> QED
    BY <1>1, <2>1, <2>3 DEF IndInv
<1>5. CASE SecondByte(b)
  <2>1. b \in Values /\ DoAction(command, b)
    BY <1>5 DEF SecondByte
  <2>2. NoteType' /\ HeldSounds'
    BY <2>1, NoteCommandKeeps, NotesUnchanged DEF DoAction, IndInv
  <2>3. control' \in [number : 0 .. 27, value : 0 .. 127]
    <3>1. CASE command - 4 \in Channels
      <4>1. PICK ccMode \in BOOLEAN, ccScaling \in BOOLEAN :
               control' = ControlOf(command - 4, b, ccMode, ccScaling)
        BY <2>1, <3>1 DEF DoAction
      <4> QED
        BY <2>1, <3>1, <4>1, ControlOfType
    <3>2. CASE command - 4 \notin Channels
      BY <1>2, <2>1, <3>2 DEF DoAction
    <3> QED
      BY <3>1, <3>2
  <2>4. CommandType'
    BY <1>5, <2>3 DEF SecondByte, CommandType
  <2> QED
    BY <1>1, <2>2, <2>4 DEF IndInv
<1> QED
  BY <1>3, <1>4, <1>5 DEF Receive

(* A change of mode.                                                       *)
LEMMA ChangeModeKeeps ==
  ASSUME IndInv, ChangeMode
  PROVE  IndInv'
<1>1. NoteType' /\ HeldSounds'
  <2>1. recent' = [m \in Channels |-> FALSE] /\ chord' = Silent /\ leftOver' = sounding
        /\ UNCHANGED <<lastNote, hold, holdCounter, sounding, overrun>>
    BY DEF ChangeMode
  <2>2. NoteType'
    BY <2>1 DEF IndInv, NoteType, Silent
  <2>3. \A m \in Channels : Held(m)' = Held(m)
    BY <2>1 DEF Held, Cell
  <2>4. HeldSounds'
    BY <2>1, <2>3 DEF IndInv, HeldSounds, Kept, Silent
  <2> QED
    BY <2>2, <2>4
<1>2. ClockType'
  <2>1. countClockPause' \in 0 .. PauseLimit
    <3>1. countClockPause' = 0 \/ countClockPause' = countClockPause
      BY DEF ChangeMode
    <3> QED
      BY <3>1, AssumptionsHold DEF Assumptions, IndInv, ClockType
  <2>2. countGbClockTicks' \in 0 .. 7
    <3>1. countGbClockTicks' = 0 \/ countGbClockTicks' = countGbClockTicks
      BY DEF ChangeMode, EnterMaster, EnterMidiout, EnterOther
    <3> QED
      BY <3>1 DEF IndInv, ClockType
  <2>3. mode' \in {"master", "midiout", "other"} /\ sequencerStarted' \in BOOLEAN
    <3>1. sequencerStarted \in BOOLEAN
      BY DEF IndInv, ClockType
    <3> QED
      BY <3>1, Zenon DEF ChangeMode, EnterMaster, EnterMidiout, EnterOther
  <2>4. waiting' = FALSE /\ UNCHANGED <<line, lsdjPlays>>
    BY DEF ChangeMode
  <2> QED
    BY <2>1, <2>2, <2>3, <2>4, Zenon DEF IndInv, ClockType
<1>3. CommandType'
  <2>1. NoControl \in [number : 0 .. 27, value : 0 .. 127]
    BY DEF NoControl
  <2>2. command' = command /\ control' = NoControl
    BY DEF ChangeMode, EnterMaster, EnterMidiout, EnterOther
  <2>3. midiValueMode' = midiValueMode \/ midiValueMode' = FALSE
    BY Zenon DEF ChangeMode, EnterMaster, EnterMidiout, EnterOther
  <2> QED
    BY <2>1, <2>2, <2>3, Zenon DEF IndInv, CommandType
<1> QED
  BY <1>1, <1>2, <1>3 DEF IndInv

(* Every step keeps the invariant.                                         *)
LEMMA StepIndInv == IndInv /\ [Next]_vars => IndInv'
<1> SUFFICES ASSUME IndInv, [Next]_vars PROVE IndInv'
  OBVIOUS
<1>1. CASE Device /\ UNCHANGED midioutVars
  <2>1. ClockType'
    BY <1>1, ClockStep DEF IndInv
  <2>2. NoteType' /\ HeldSounds'
    BY <1>1, NotesUnchanged DEF IndInv, midioutVars
  <2>3. CommandType'
    BY <1>1 DEF IndInv, CommandType, midioutVars
  <2> QED
    BY <2>1, <2>2, <2>3 DEF IndInv
<1>2. CASE GameBoy /\ UNCHANGED <<sent, midioutVars>>
  <2>1. ClockType'
    BY <1>2, ClockStep DEF IndInv
  <2>2. NoteType' /\ HeldSounds'
    BY <1>2, NotesUnchanged DEF IndInv, midioutVars
  <2>3. CommandType'
    BY <1>2 DEF IndInv, CommandType, midioutVars
  <2> QED
    BY <2>1, <2>2, <2>3 DEF IndInv
<1>3. ASSUME NEW b, Receive(b) PROVE IndInv'
  BY <1>3, ReceiveKeeps
<1>4. ASSUME NEW m \in Channels, Later(m) PROVE IndInv'
  <2>1. ClockType' /\ CommandType'
    BY <1>4 DEF Later, IndInv, ClockType, CommandType, masterVars
  <2>2. recent' = [recent EXCEPT ![m] = FALSE]
        /\ UNCHANGED <<lastNote, hold, holdCounter, sounding, chord, leftOver, overrun>>
    BY <1>4 DEF Later, historyVars
  <2>3. NoteType'
    BY <2>2 DEF IndInv, NoteType
  <2>4. \A c \in Channels : Held(c)' = Held(c)
    BY <2>2 DEF Held, Cell
  <2>5. HeldSounds'
    BY <2>2, <2>4 DEF IndInv, HeldSounds, NoteType, Kept
  <2> QED
    BY <2>1, <2>3, <2>5 DEF IndInv
<1>5. CASE ChangeMode
  BY <1>5, ChangeModeKeeps
<1>6. CASE UNCHANGED vars
  <2>1. NoteType' /\ HeldSounds'
    BY <1>6, NotesUnchanged DEF IndInv, vars, midioutVars
  <2>2. ClockType' /\ CommandType'
    BY <1>6 DEF IndInv, ClockType, CommandType, vars, masterVars, midioutVars
  <2> QED
    BY <2>1, <2>2 DEF IndInv
<1> QED
  BY <1>1, <1>2, <1>3, <1>4, <1>5, <1>6 DEF Next

(* The bookkeeping invariant holds in every reachable state.               *)
THEOREM IndInvHolds == Spec => []IndInv
BY InitIndInv, StepIndInv, PTL DEF Spec

(* The variables of both modes keep their types, and control changes stay  *)
(* in range.  That holdCounter has a limit is the bound of the model.      *)
THEOREM TypeCorrect == Spec => []TypeOK
<1>1. IndInv => TypeOK
  BY DEF IndInv, ClockType, NoteType, CommandType, TypeOK
<1> QED
  BY <1>1, IndInvHolds, PTL

(* In MIDI out exactly LSDJ's last chord sounds, and what a change of mode *)
(* left sounding until the channel's next note or stop, as long as no row  *)
(* of midioutNoteHold is written past its end, and again after LSDJ's next *)
(* stop.                                                                   *)
THEOREM ChordsSound == Spec => []ChordSounds
<1>1. IndInv => ChordSounds
  BY DEF IndInv, HeldSounds, Kept, ChordSounds
<1> QED
  BY <1>1, IndInvHolds, PTL

================================================================================
