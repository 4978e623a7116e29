------------------------------ MODULE ClockModes ------------------------------
(***************************************************************************)
(* The two modes that turn MIDI clock into Game Boy pulses: LSDJ slave     *)
(* sync (Mode_LSDJ_SlaveSync.ino) and Nanoloop (Mode_Nanoloop.ino).  They  *)
(* share the counters of the sequencer (Mode.ino) and of the beat light    *)
(* (Led_Functions.ino), which survive a change of mode.                    *)
(*                                                                         *)
(* Bytes come in at the DIN port from a sender that keeps to MIDI: channel *)
(* messages of two data bytes, with or without running status, and         *)
(* real-time bytes anywhere between them.  The mode changes by the button  *)
(* or the editor at any time, also in the middle of a message.  Pulses to  *)
(* the Game Boy are recorded as what the last step sent.                   *)
(***************************************************************************)
EXTENDS Integers, Sequences, FiniteSets

CONSTANTS
  Notes,        \* the note numbers the sender uses
  Velocities

ASSUME NotesAssumption == Notes \subseteq 0..127
ASSUME VelocitiesAssumption == Velocities \subseteq 0..127

Clock == 248
Start == 250
Continue == 251
Stop == 252
Sensing == 254      \* active sensing: a real-time byte no case names
NoteOn == 144       \* 0x90 + memory[MEM_LSDJSLAVE_MIDI_CH]
OtherStatus == 176  \* any other channel status
RealTime == {Clock, Start, Continue, Stop, Sensing}

TicksPerQuarter == 24

VARIABLES
  mode,                  \* "slave" or "nanoloop"
  sequencerStarted,
  midiSyncEffectsTime,
  countSyncTime,
  countSyncSteps,
  midiNoteOnMode,
  note,                  \* midiData[0]
  nanoState,
  nanoSkipSync,
  toGameboy,             \* bits the last step clocked out
  \* the sender
  status,                \* its running status, 0 for none
  left,                  \* data bytes of its message still to come
  key,                   \* the note while the velocity is to come, else 0
  \* history
  wanted,                \* [started, steps]: what the messages sent so far ask for
  inStep,                \* the parser follows the sender
  gap,                   \* clocks since the last pulse to LSDJ, -1 after a request
  spacings,              \* the distances from pulse to pulse since the last request
  unlocked,              \* clocks since Nanoloop mode was entered with nanoState off
  beatBits               \* second bit of each downbeat since start or mode change

sequencer == <<sequencerStarted, midiSyncEffectsTime, countSyncTime, countSyncSteps>>
parser == <<midiNoteOnMode, note>>
nanoloop == <<nanoState, nanoSkipSync>>
sender == <<status, left, key>>
history == <<wanted, inStep, gap, spacings, unlocked, beatBits>>
vars == <<mode, sequencer, parser, nanoloop, toGameboy, sender, history>>

(* What the settings in force are, for the properties.                     *)
Setting == [started |-> sequencerStarted,
            steps |-> IF midiSyncEffectsTime THEN countSyncSteps ELSE 0]

Nothing == [started |-> FALSE, steps |-> 0]

Init ==
  /\ mode \in {"slave", "nanoloop"}
  /\ sequencerStarted = FALSE /\ midiSyncEffectsTime = FALSE
  /\ countSyncTime = 0 /\ countSyncSteps = 0
  /\ midiNoteOnMode = FALSE /\ note = 0
  /\ nanoState = FALSE /\ nanoSkipSync = FALSE
  /\ toGameboy = <<>>
  /\ status = 0 /\ left = 0 /\ key = 0
  /\ wanted = Nothing /\ inStep = TRUE
  /\ gap = -1 /\ spacings = {} /\ unlocked = 0 /\ beatBits = {}

-------------------------------------------------------------------------------
(* Shared by the modes.                                                    *)

(* Faulty variant: the light's counter wraps one tick late.                *)
AfterVisualSyncLate(time) == IF time = TicksPerQuarter THEN 0 ELSE time + 1

AfterVisualSync(time) == IF time + 1 = TicksPerQuarter THEN 0 ELSE time + 1

SequencerStart ==
  /\ sequencerStarted' = TRUE
  /\ countSyncTime' = 0
  /\ UNCHANGED <<midiSyncEffectsTime, countSyncSteps>>

SequencerStop ==
  /\ sequencerStarted' = FALSE
  /\ midiSyncEffectsTime' = FALSE
  /\ countSyncTime' = 0
  /\ UNCHANGED countSyncSteps

Transport(b) ==
  /\ \/ b \in {Start, Continue} /\ SequencerStart
     \/ b = Stop /\ SequencerStop
  /\ toGameboy' = <<>>
  /\ beatBits' = {}
  /\ UNCHANGED <<parser, nanoloop, unlocked>>

-------------------------------------------------------------------------------
(* LSDJ slave sync.                                                        *)

Ticks == sequencerStarted /\ (midiSyncEffectsTime => countSyncTime = 0)

ClockTick == [i \in 1..8 |-> 0]

AfterEffect(time) ==
  IF midiSyncEffectsTime THEN (time + 1) % countSyncSteps ELSE time

SlaveClock ==
  /\ toGameboy' = IF Ticks THEN ClockTick ELSE <<>>
  /\ countSyncTime' = AfterEffect(IF Ticks THEN AfterVisualSync(countSyncTime) ELSE countSyncTime)
  /\ UNCHANGED <<sequencerStarted, midiSyncEffectsTime, countSyncSteps, parser, nanoloop,
                 unlocked, beatBits>>

(* countSyncSteps for the notes that divide the tempo.                     *)
StepsOf == [n \in 51..53 |-> 2 ^ (n - 50)]

GetSlaveSyncEffect(n) ==
  \/ n \in 48..53
     /\ \/ n = 48 /\ SequencerStart
        \/ n = 49 /\ SequencerStop
        \/ n = 50 /\ midiSyncEffectsTime' = FALSE
                  /\ UNCHANGED <<sequencerStarted, countSyncTime, countSyncSteps>>
        \/ n \in DOMAIN StepsOf
           /\ midiSyncEffectsTime' = TRUE /\ countSyncTime' = 0 /\ countSyncSteps' = StepsOf[n]
           /\ UNCHANGED sequencerStarted
  \/ n \notin 48..53   \* the offset it stores is never sent
     /\ UNCHANGED sequencer

SlaveStatus(b) ==
  /\ midiNoteOnMode' = (b = NoteOn)
  /\ note' = IF b = NoteOn THEN 0 ELSE note
  /\ toGameboy' = <<>>
  /\ UNCHANGED <<sequencer, nanoloop, unlocked, beatBits>>

(* Faulty variant: a note-off, which is velocity 0, applies the effect.    *)
SlaveDataAnyVelocity(b) ==
  /\ note' = IF ~midiNoteOnMode THEN note ELSE IF note = 0 THEN b ELSE 0
  /\ IF midiNoteOnMode /\ note # 0
     THEN GetSlaveSyncEffect(note)
     ELSE UNCHANGED sequencer
  /\ toGameboy' = <<>>
  /\ UNCHANGED <<midiNoteOnMode, nanoloop, unlocked, beatBits>>

SlaveData(b) ==
  /\ note' = IF ~midiNoteOnMode THEN note ELSE IF note = 0 THEN b ELSE 0
  /\ IF midiNoteOnMode /\ note # 0 /\ b > 0
     THEN GetSlaveSyncEffect(note)
     ELSE UNCHANGED sequencer
  /\ toGameboy' = <<>>
  /\ UNCHANGED <<midiNoteOnMode, nanoloop, unlocked, beatBits>>

SlaveReceive(b) ==
  \/ b = Clock /\ SlaveClock
  \/ Transport(b)
  \/ b >= 128 /\ b \notin {Clock, Start, Continue, Stop} /\ SlaveStatus(b)
  \/ b < 128 /\ SlaveData(b)

-------------------------------------------------------------------------------
(* Nanoloop.                                                               *)

(* sendTickToNanoloop: the bit it sends; it returns the negated state.     *)
TickBit(state, last) == IF ~state /\ ~last THEN 0 ELSE 1

(* Faulty variant: the downbeat sends what any other clock would.          *)
NanoloopClockNoBeat ==
  /\ sequencerStarted
  /\ nanoSkipSync' = ~nanoSkipSync
  /\ toGameboy' = <<TickBit(nanoState, FALSE), TickBit(~nanoState, nanoSkipSync')>>
  /\ countSyncTime' = AfterVisualSync(countSyncTime)
  /\ unlocked' = IF nanoState THEN 0 ELSE unlocked + 1
  /\ UNCHANGED <<sequencerStarted, midiSyncEffectsTime, countSyncSteps, parser, nanoState,
                 beatBits>>

NanoloopClock ==
  /\ sequencerStarted
  /\ nanoSkipSync' = ~nanoSkipSync
  /\ LET beat == countSyncTime = 0
         middle == IF beat THEN FALSE ELSE ~nanoState
         second == TickBit(middle, nanoSkipSync')
     IN /\ nanoState' = ~middle
        /\ toGameboy' = <<TickBit(beat \/ nanoState, beat), second>>
        /\ beatBits' = IF beat THEN beatBits \union {second} ELSE beatBits
  /\ countSyncTime' = AfterVisualSync(countSyncTime)
  /\ unlocked' = IF nanoState' THEN 0 ELSE unlocked + 1
  /\ UNCHANGED <<sequencerStarted, midiSyncEffectsTime, countSyncSteps, parser>>

NanoloopReceive(b) ==
  \/ b = Clock /\ NanoloopClock
  \/ Transport(b)
  \/ /\ b = Clock => ~sequencerStarted
     /\ b \notin {Start, Continue, Stop}
     /\ toGameboy' = <<>>
     /\ UNCHANGED <<sequencer, parser, nanoloop, unlocked, beatBits>>

-------------------------------------------------------------------------------
(* The sender, and what its messages ask for.                              *)

Receive(b) ==
  /\ \/ mode = "slave" /\ SlaveReceive(b)
     \/ mode = "nanoloop" /\ NanoloopReceive(b)
  /\ UNCHANGED mode

(* wanted is kept only while the parser is in step.                        *)
Wants(w) == wanted' = IF inStep' THEN w ELSE Nothing

(* The clocks between the pulses to LSDJ, from one request to the next.      *)
Spaced(b, request) ==
  LET pulse == toGameboy' = ClockTick
      known == gap # -1
  IN /\ gap' = IF request THEN -1
               ELSE IF pulse THEN 0
               ELSE IF b = Clock /\ known THEN gap + 1 ELSE gap
     /\ spacings' = IF request THEN {}
                    ELSE IF pulse /\ known THEN spacings \union {gap + 1} ELSE spacings

SendRealTime ==
  \E b \in RealTime :
    /\ Receive(b)
    /\ inStep' = (inStep /\ b # Sensing)
    /\ Wants(CASE b \in {Start, Continue} -> [started |-> TRUE, steps |-> wanted.steps]
               [] b = Stop -> Nothing
               [] OTHER -> wanted)
    /\ Spaced(b, b \in {Start, Continue, Stop})
    /\ UNCHANGED sender

(* A status byte finds the parser whatever it did before.                  *)
SendStatus ==
  \E b \in {NoteOn, OtherStatus} :
    /\ left = 0
    /\ status' = b /\ left' = 2
    /\ Receive(b)
    /\ inStep' = (mode = "slave")
    /\ Wants(IF inStep THEN wanted ELSE Setting)
    /\ Spaced(b, FALSE)
    /\ UNCHANGED key

(* The note, with running status if the last message is over.              *)
SendNote ==
  \E n \in Notes :
    /\ status # 0 /\ left # 1
    /\ left' = 1 /\ key' = n
    /\ Receive(n)
    /\ inStep' = (inStep /\ ~(status = NoteOn /\ n = 0))
    /\ Wants(wanted)
    /\ Spaced(n, ~inStep)
    /\ UNCHANGED status

Asked(n, w) ==
  CASE n = 48 -> [started |-> TRUE, steps |-> w.steps]
    [] n = 49 -> Nothing
    [] n = 50 -> [started |-> w.started, steps |-> 0]
    [] n \in 51..53 -> [started |-> w.started, steps |-> <<2, 4, 8>>[n - 50]]
    [] OTHER -> w

SendVelocity ==
  \E v \in Velocities :
    /\ left = 1
    /\ left' = 0 /\ key' = 0
    /\ Receive(v)
    /\ UNCHANGED <<status, inStep>>
    /\ Wants(IF status = NoteOn /\ v > 0 THEN Asked(key, wanted) ELSE wanted)
    /\ Spaced(v, ~inStep \/ (status = NoteOn /\ v > 0 /\ key \in 48..53))

(* setMode, or the editor's mode command.                                  *)
SelectMode ==
  /\ mode' = IF mode = "slave" THEN "nanoloop" ELSE "slave"
  /\ toGameboy' = <<>>
  /\ inStep' = FALSE /\ Wants(wanted)
  /\ gap' = -1 /\ spacings' = {} /\ unlocked' = 0 /\ beatBits' = {}
  /\ UNCHANGED <<sequencer, parser, nanoloop, sender>>

Next == SendRealTime \/ SendStatus \/ SendNote \/ SendVelocity \/ SelectMode

Spec == Init /\ [][Next]_vars

-------------------------------------------------------------------------------
(* Every variable has its type, and a tempo effect is never on without its *)
(* number of steps: line 59 divides by it.                                 *)
TypeOK ==
  /\ mode \in {"slave", "nanoloop"}
  /\ sequencerStarted \in BOOLEAN /\ midiSyncEffectsTime \in BOOLEAN
  /\ countSyncTime \in 0..(TicksPerQuarter - 1)
  /\ countSyncSteps \in (IF midiSyncEffectsTime THEN {} ELSE {0}) \union {2, 4, 8}
  /\ midiNoteOnMode \in BOOLEAN /\ note \in 0..127
  /\ nanoState \in BOOLEAN /\ nanoSkipSync \in BOOLEAN
  /\ toGameboy \in {<<>>, ClockTick} \union ({0, 1} \X {0, 1})
  /\ status \in {0, NoteOn, OtherStatus} /\ left \in 0..2 /\ key \in 0..127
  /\ wanted \in [started : BOOLEAN, steps : {0, 2, 4, 8}]
  /\ inStep \in BOOLEAN
  /\ gap \in -1..7 /\ spacings \subseteq 1..8
  /\ unlocked \in Nat
  /\ beatBits \subseteq {0, 1}

(* In slave mode the settings in force are those the sender asked for: no  *)
(* interleaving of real-time bytes, note-offs, other channels and running  *)
(* status applies an effect wrongly or misses one.  Note 0, active sensing *)
(* and a change of mode do upset the parser; the next status byte mends it.*)
FollowsSender == mode = "slave" /\ inStep => Setting = wanted

(* From one request of the sender to the next the pulses to LSDJ are evenly *)
(* spaced: notes that ask for nothing, note-offs, other channels, active    *)
(* sensing and the beat light, which counts in the same variable, do not    *)
(* delay a pulse or add one.                                                *)
EvenTempo == Cardinality(spacings) <= 1

(* The documented tempo: every clock, or every second, fourth or eighth.    *)
AskedPeriod == IF wanted.steps = 0 THEN 1 ELSE wanted.steps

(* "Sync effect, 1/2 time", 1/4 and 1/8: the pulses come at that fraction   *)
(* of the tempo.                                                            *)
TempoAsAsked == inStep => spacings \subseteq {AskedPeriod}

(* Nanoloop's signal is never out of lock for a whole quarter note, from    *)
(* entering the mode on, whatever the slave mode left in the counters.      *)
NanoloopLocks == unlocked < TicksPerQuarter

(* Every downbeat between two starts sends the same bits: nanoSkipSync,    *)
(* which nothing resets, stays in phase with the beat.                     *)
DownbeatsAlike == Cardinality(beatBits) <= 1

===============================================================================
