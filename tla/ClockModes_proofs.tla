-------------------------- MODULE ClockModes_proofs --------------------------
(***************************************************************************)
(* Proofs about ClockModes, for every choice of notes and velocities.      *)
(* Device is what the handlers keep by themselves, whatever bytes come:    *)
(* the types, and how countSyncTime relates to nanoSkipSync (BeatPhase)    *)
(* and to the time out of lock (LockPhase).  InStep relates the parser to  *)
(* the sender, and TempoPhase countSyncTime to the clocks since the last   *)
(* pulse, which only what the sender asked for may disturb.                *)
(***************************************************************************)
EXTENDS ClockModes, FiniteSetTheorems, TLAPS

(* What a step can send to the Game Boy.                                   *)
Outputs == {<<>>, ClockTick} \union ({0, 1} \X {0, 1})

Flags ==
  /\ sequencerStarted \in BOOLEAN /\ midiSyncEffectsTime \in BOOLEAN
  /\ midiNoteOnMode \in BOOLEAN
  /\ nanoState \in BOOLEAN /\ nanoSkipSync \in BOOLEAN

Counters ==
  /\ mode \in {"slave", "nanoloop"}
  /\ countSyncTime \in 0..23
  /\ countSyncSteps \in {0, 2, 4, 8}
  /\ note \in 0..127
  /\ toGameboy \in Outputs
  /\ unlocked \in 0..23

DividerKnown == midiSyncEffectsTime => countSyncSteps # 0

DeviceTypes == Flags /\ Counters /\ DividerKnown

LockPhase ==
  /\ mode = "slave" => unlocked = 0
  /\ countSyncTime # 0 => unlocked < countSyncTime

(* The bit the next downbeat will send.                                    *)
NextBeatBit == IF nanoSkipSync <=> (countSyncTime % 2 = 1) THEN 1 ELSE 0

BeatPhase ==
  /\ mode = "slave" => beatBits = {}
  /\ beatBits = {} \/ beatBits = {NextBeatBit}

Device == DeviceTypes /\ LockPhase /\ BeatPhase

(* The distance of the pulses that the handlers make.                      *)
Distance == IF midiSyncEffectsTime THEN countSyncSteps - 1 ELSE 1

TempoPhase ==
  /\ gap \in -1..6
  /\ gap = -1 => spacings = {}
  /\ mode = "nanoloop" => gap = -1
  /\ gap # -1 =>
       /\ sequencerStarted
       /\ spacings \in {{}, {Distance}}
       /\ ~midiSyncEffectsTime => gap = 0
       /\ midiSyncEffectsTime =>
            /\ gap < countSyncSteps - 1
            /\ countSyncTime = IF gap + 2 = countSyncSteps THEN 0 ELSE gap + 2

SenderTypes ==
  /\ status \in {0, NoteOn, OtherStatus} /\ left \in 0..2 /\ key \in 0..127
  /\ wanted \in [started : BOOLEAN, steps : {0, 2, 4, 8}]
  /\ inStep \in BOOLEAN

InStep ==
  mode = "slave" /\ inStep =>
    /\ midiNoteOnMode <=> (status = NoteOn)
    /\ status = NoteOn /\ left = 1 => note = key /\ key # 0
    /\ status = NoteOn /\ left # 1 => note = 0

IndInv == Device /\ TempoPhase /\ SenderTypes /\ InStep /\ FollowsSender

Bytes == 0..255

-------------------------------------------------------------------------------
(* What the handlers keep.                                                 *)

\* The outputs the handlers produce are among Outputs.
LEMMA OutputsAre == <<>> \in Outputs /\ ClockTick \in Outputs /\ ({0, 1} \X {0, 1}) \subseteq Outputs
  BY DEF Outputs

\* The light's counter stays below a quarter note.
LEMMA VisualSyncRange == \A t \in 0..23 : AfterVisualSync(t) = (IF t = 23 THEN 0 ELSE t + 1)
                                           /\ AfterVisualSync(t) \in 0..23
  BY DEF AfterVisualSync, TicksPerQuarter

\* Transport messages keep the device's invariant.
LEMMA TransportKeeps ==
  ASSUME Device, NEW b \in Bytes, Transport(b), UNCHANGED mode
  PROVE  Device'
<1>1. /\ sequencerStarted' \in BOOLEAN /\ countSyncTime' = 0
      /\ midiSyncEffectsTime' = FALSE \/ midiSyncEffectsTime' = midiSyncEffectsTime
      /\ countSyncSteps' = countSyncSteps
      /\ toGameboy' = <<>> /\ beatBits' = {} /\ unlocked' = unlocked
      /\ UNCHANGED <<midiNoteOnMode, note, nanoState, nanoSkipSync>>
  BY DEF Transport, SequencerStart, SequencerStop, parser, nanoloop
<1>2. Flags'
  BY <1>1 DEF Device, DeviceTypes, Flags
<1>3. Counters'
  BY <1>1, OutputsAre DEF Device, DeviceTypes, Counters
<1>4. DividerKnown'
  BY <1>1 DEF Device, DeviceTypes, DividerKnown
<1> QED
  BY <1>1, <1>2, <1>3, <1>4 DEF Device, DeviceTypes, LockPhase, BeatPhase

\* A clock in slave mode keeps the device's invariant.
LEMMA SlaveClockKeeps ==
  ASSUME Device, SlaveClock, UNCHANGED mode, mode = "slave"
  PROVE  Device'
<1>1. /\ countSyncTime \in 0..23 /\ unlocked = 0 /\ beatBits = {}
      /\ sequencerStarted \in BOOLEAN /\ midiSyncEffectsTime \in BOOLEAN
      /\ countSyncSteps \in {0, 2, 4, 8} /\ (midiSyncEffectsTime => countSyncSteps # 0)
  BY DEF Device, DeviceTypes, Flags, Counters, DividerKnown, LockPhase, BeatPhase
<1>2. /\ toGameboy' \in {<<>>, ClockTick}
      /\ countSyncTime' = AfterEffect(IF Ticks THEN AfterVisualSync(countSyncTime) ELSE countSyncTime)
      /\ UNCHANGED <<sequencerStarted, midiSyncEffectsTime, countSyncSteps, unlocked, beatBits>>
      /\ UNCHANGED <<midiNoteOnMode, note, nanoState, nanoSkipSync>>
  BY DEF SlaveClock, parser, nanoloop
<1>3. countSyncTime' \in 0..23
  <2>1. (IF Ticks THEN AfterVisualSync(countSyncTime) ELSE countSyncTime) \in 0..23
    BY <1>1, VisualSyncRange
  <2>2. \A t \in 0..23 : AfterEffect(t) \in 0..23
    BY <1>1 DEF AfterEffect
  <2> QED
    BY <1>2, <2>1, <2>2
<1>4. Flags' /\ DividerKnown'
  BY <1>2 DEF Device, DeviceTypes, Flags, DividerKnown
<1>5. Counters'
  BY <1>1, <1>2, <1>3, OutputsAre DEF Device, DeviceTypes, Counters
<1> QED
  BY <1>1, <1>2, <1>3, <1>4, <1>5 DEF LockPhase, BeatPhase, Device, DeviceTypes

\* A status or data byte in slave mode keeps the device's invariant: the effects
\* set the number of steps with the flag.
LEMMA SlaveParserKeeps ==
  ASSUME Device, NEW b \in Bytes, mode = "slave", UNCHANGED mode,
         SlaveStatus(b) \/ (b < 128 /\ SlaveData(b))
  PROVE  Device'
<1>1. CASE UNCHANGED <<sequencer, unlocked, beatBits>>
  <2>1. /\ UNCHANGED <<sequencerStarted, midiSyncEffectsTime, countSyncTime, countSyncSteps>>
        /\ UNCHANGED <<unlocked, beatBits, nanoState, nanoSkipSync>>
        /\ toGameboy' = <<>>
    BY <1>1 DEF SlaveStatus, SlaveData, sequencer, nanoloop
  <2>2. note' \in 0..127
    <3>1. note \in 0..127
      BY DEF Device, DeviceTypes, Counters
    <3>2. note' \in {0, note} \/ (b < 128 /\ note' = b)
      BY DEF SlaveStatus, SlaveData
    <3> QED
      BY <3>1, <3>2 DEF Bytes
  <2>3. midiNoteOnMode' \in BOOLEAN
    BY DEF SlaveStatus, SlaveData, Device, DeviceTypes, Flags
  <2>4. Flags' /\ DividerKnown'
    BY <2>1, <2>3 DEF Device, DeviceTypes, Flags, DividerKnown
  <2>5. Counters'
    BY <2>1, <2>2, OutputsAre DEF Device, DeviceTypes, Counters
  <2>6. LockPhase' /\ BeatPhase'
    BY <2>1 DEF Device, LockPhase, BeatPhase, NextBeatBit
  <2> QED
    BY <2>4, <2>5, <2>6 DEF Device, DeviceTypes
<1>2. CASE b < 128 /\ SlaveData(b) /\ GetSlaveSyncEffect(note) /\ note \in 48..53
  <2>1. note' \in 0..127 /\ toGameboy' = <<>>
    BY <1>2 DEF SlaveData, Bytes, Device, DeviceTypes, Counters
  <2>2. UNCHANGED <<midiNoteOnMode, nanoState, nanoSkipSync>>
    BY <1>2 DEF SlaveData, nanoloop
  <2>3. beatBits' = {} /\ unlocked' = 0
    BY <1>2 DEF SlaveData, Device, LockPhase, BeatPhase
  <2>4. note \in DOMAIN StepsOf => StepsOf[note] \in {2, 4, 8}
    <3>1. StepsOf[51] = 2 /\ StepsOf[52] = 4 /\ StepsOf[53] = 8 /\ DOMAIN StepsOf = 51..53
      BY DEF StepsOf
    <3> QED
      BY <3>1
  <2>5. \/ SequencerStart
        \/ SequencerStop
        \/ midiSyncEffectsTime' = FALSE
           /\ UNCHANGED <<sequencerStarted, countSyncTime, countSyncSteps>>
        \/ midiSyncEffectsTime' = TRUE /\ countSyncTime' = 0 /\ countSyncSteps' \in {2, 4, 8}
           /\ UNCHANGED sequencerStarted
    BY <1>2, <2>4 DEF GetSlaveSyncEffect
  <2>6. sequencerStarted' \in BOOLEAN /\ midiSyncEffectsTime' \in BOOLEAN
    BY <2>5, Zenon DEF SequencerStart, SequencerStop, Device, DeviceTypes, Flags
  <2>7. countSyncTime' = 0 \/ countSyncTime' = countSyncTime
    BY <2>5 DEF SequencerStart, SequencerStop
  <2>8. countSyncSteps' \in {2, 4, 8} \/ (countSyncSteps' = countSyncSteps /\ DividerKnown')
    BY <2>5 DEF SequencerStart, SequencerStop, Device, DeviceTypes, DividerKnown
  <2>9. Flags' /\ DividerKnown'
    BY <2>2, <2>6, <2>8 DEF Device, DeviceTypes, Flags, DividerKnown
  <2>10. Counters'
    BY <2>1, <2>3, <2>7, <2>8, OutputsAre, SMTT(30) DEF Device, DeviceTypes, Counters
  <2>11. LockPhase' /\ BeatPhase'
    BY <2>3, <2>7 DEF Device, LockPhase, BeatPhase
  <2> QED
    BY <2>9, <2>10, <2>11 DEF Device, DeviceTypes
<1>3. CASE b < 128 /\ SlaveData(b)
  BY <1>1, <1>2, <1>3 DEF SlaveData, GetSlaveSyncEffect, sequencer
<1> QED
  BY <1>1, <1>3 DEF SlaveStatus

\* A clock in Nanoloop mode keeps the device's invariant: the bits of a downbeat
\* depend on nanoSkipSync alone, and 24 clocks bring it back.
LEMMA NanoloopClockKeeps ==
  ASSUME Device, NanoloopClock, UNCHANGED mode, mode = "nanoloop"
  PROVE  Device'
<1> DEFINE beat == countSyncTime = 0
           middle == IF beat THEN FALSE ELSE ~nanoState
           second == TickBit(middle, nanoSkipSync')
<1>1. /\ countSyncTime' \in 0..23
      /\ countSyncTime' = IF countSyncTime = 23 THEN 0 ELSE countSyncTime + 1
      /\ nanoSkipSync' = ~nanoSkipSync /\ nanoState' = ~middle
      /\ toGameboy' = <<TickBit(beat \/ nanoState, beat), second>>
      /\ beatBits' = IF beat THEN beatBits \union {second} ELSE beatBits
      /\ unlocked' = IF nanoState' THEN 0 ELSE unlocked + 1
  BY VisualSyncRange DEF NanoloopClock, Device, DeviceTypes, Counters
<1> HIDE DEF middle, second
<1>2. nanoState' \in BOOLEAN /\ (beat => nanoState')
  BY <1>1 DEF middle
<1>3. second \in {0, 1} /\ TickBit(beat \/ nanoState, beat) \in {0, 1}
  BY DEF TickBit, second
<1>4. toGameboy' \in {0, 1} \X {0, 1}
  BY <1>1, <1>3
<1>5. unlocked' \in 0..23 /\ LockPhase'
  BY <1>1, <1>2 DEF LockPhase, Device, DeviceTypes, Counters
<1>6. NextBeatBit' = NextBeatBit /\ (beat => second = NextBeatBit)
  <2>1. (countSyncTime' % 2 = 1) <=> ~(countSyncTime % 2 = 1)
    BY <1>1 DEF Device, DeviceTypes, Counters
  <2>2. NextBeatBit' = NextBeatBit
    BY <1>1, <2>1 DEF NextBeatBit
  <2>3. beat => second = NextBeatBit
    <3>1. ASSUME beat PROVE ~middle /\ (NextBeatBit = IF nanoSkipSync THEN 0 ELSE 1)
      BY <3>1 DEF NextBeatBit, middle
    <3>2. ASSUME beat PROVE second = IF nanoSkipSync' THEN 1 ELSE 0
      BY <3>1, <3>2 DEF second, TickBit
    <3> QED
      <4>1. CASE nanoSkipSync
        BY <1>1, <3>1, <3>2, <4>1
      <4>2. CASE ~nanoSkipSync
        BY <1>1, <3>1, <3>2, <4>2
      <4> QED
        BY <4>1, <4>2
  <2> QED
    BY <2>2, <2>3
<1>7. BeatPhase'
  BY <1>1, <1>6 DEF BeatPhase, Device
<1>8. UNCHANGED <<sequencerStarted, midiSyncEffectsTime, countSyncSteps, midiNoteOnMode, note>>
  BY DEF NanoloopClock, parser
<1>9. Flags' /\ DividerKnown'
  BY <1>1, <1>2, <1>8 DEF Device, DeviceTypes, Flags, DividerKnown
<1>10. Counters'
  BY <1>1, <1>4, <1>5, <1>8, OutputsAre DEF Device, DeviceTypes, Counters
<1> QED
  BY <1>5, <1>7, <1>9, <1>10 DEF Device, DeviceTypes

\* No byte, in whatever mode, breaks the device's invariant.
LEMMA ReceiveKeeps ==
  ASSUME Device, NEW b \in Bytes, Receive(b)
  PROVE  Device' /\ UNCHANGED mode
<1>1. UNCHANGED mode
  BY DEF Receive
<1>2. CASE mode = "slave"
  <2>1. SlaveReceive(b)
    BY <1>2 DEF Receive
  <2> QED
    BY <1>1, <1>2, <2>1, TransportKeeps, SlaveClockKeeps, SlaveParserKeeps DEF SlaveReceive
<1>3. CASE mode = "nanoloop"
  <2>1. NanoloopReceive(b)
    BY <1>3 DEF Receive
  <2>2. CASE UNCHANGED <<sequencer, parser, nanoloop, unlocked, beatBits>> /\ toGameboy' = <<>>
    <3>1. UNCHANGED <<mode, sequencerStarted, midiSyncEffectsTime, countSyncTime, countSyncSteps,
                      midiNoteOnMode, note, nanoState, nanoSkipSync, unlocked, beatBits>>
      BY <1>1, <2>2 DEF sequencer, parser, nanoloop
    <3>2. Flags' /\ DividerKnown'
      BY <3>1 DEF Device, DeviceTypes, Flags, DividerKnown
    <3>3. Counters'
      BY <2>2, <3>1, OutputsAre DEF Device, DeviceTypes, Counters
    <3>4. LockPhase' /\ BeatPhase'
      BY <3>1 DEF Device, LockPhase, BeatPhase, NextBeatBit
    <3> QED
      BY <1>1, <3>2, <3>3, <3>4 DEF Device, DeviceTypes
  <2> QED
    BY <1>1, <1>3, <2>1, <2>2, TransportKeeps, NanoloopClockKeeps DEF NanoloopReceive
<1> QED
  BY <1>1, <1>2, <1>3 DEF Device, DeviceTypes, Counters

-------------------------------------------------------------------------------
(* The parser and the sender.                                              *)

\* A real-time byte leaves the parser alone, except active sensing, after which
\* nothing is claimed.
LEMMA RealTimeFollows ==
  ASSUME IndInv, SendRealTime
  PROVE  SenderTypes' /\ InStep' /\ FollowsSender'
<1>1. PICK b \in RealTime :
        /\ Receive(b)
        /\ inStep' = (inStep /\ b # Sensing)
        /\ Wants(CASE b \in {Start, Continue} -> [started |-> TRUE, steps |-> wanted.steps]
                   [] b = Stop -> Nothing
                   [] OTHER -> wanted)
        /\ UNCHANGED sender
  BY DEF SendRealTime
<1>2. b \in {248, 250, 251, 252, 254}
  BY DEF RealTime, Clock, Start, Continue, Stop, Sensing
<1> DEFINE w == CASE b \in {Start, Continue} -> [started |-> TRUE, steps |-> wanted.steps]
                  [] b = Stop -> Nothing
                  [] OTHER -> wanted
<1>3. w \in [started : BOOLEAN, steps : {0, 2, 4, 8}]
  BY <1>2 DEF IndInv, SenderTypes, Nothing, Start, Continue, Stop
<1>4. SenderTypes'
  BY <1>1, <1>3 DEF IndInv, SenderTypes, Wants, Nothing, sender
<1>5. CASE mode' = "slave" /\ inStep'
  <2>1. mode = "slave" /\ inStep /\ b # Sensing /\ SlaveReceive(b)
    BY <1>1, <1>5 DEF Receive, IndInv, SenderTypes
  <2>2. UNCHANGED parser
    BY <1>2, <2>1 DEF SlaveReceive, SlaveClock, Transport, SlaveStatus, Clock, Start, Continue,
                      Stop, Sensing
  <2>3. InStep'
    BY <1>1, <2>1, <2>2 DEF IndInv, InStep, parser, sender
  <2>4. wanted = Setting
    BY <2>1 DEF IndInv, FollowsSender
  <2>5. wanted' = w
    BY <1>1, <1>5 DEF Wants
  <2>6. CASE b = Clock
    <3>1. UNCHANGED <<sequencerStarted, midiSyncEffectsTime, countSyncSteps>>
      BY <2>1, <2>6 DEF SlaveReceive, SlaveClock, Transport, Clock, Start, Continue, Stop
    <3>2. w = wanted
      BY <2>6 DEF Clock, Start, Continue, Stop
    <3>3. Setting' = Setting
      BY <3>1 DEF Setting
    <3> HIDE DEF w
    <3> QED
      BY <1>4, <2>3, <2>4, <2>5, <3>2, <3>3 DEF FollowsSender
  <2>7. CASE b \in {Start, Continue}
    <3>1. SequencerStart
      BY <2>1, <2>7 DEF SlaveReceive, Transport, Clock, Start, Continue, Stop
    <3>2. w = [started |-> TRUE, steps |-> wanted.steps]
      BY <2>7 DEF Start, Continue, Stop
    <3>3. Setting.steps = IF midiSyncEffectsTime THEN countSyncSteps ELSE 0
      BY DEF Setting
    <3>4. Setting' = [started |-> TRUE, steps |-> IF midiSyncEffectsTime THEN countSyncSteps ELSE 0]
      BY <3>1 DEF SequencerStart, Setting
    <3> HIDE DEF w
    <3> QED
      BY <1>4, <2>3, <2>4, <2>5, <3>2, <3>3, <3>4 DEF FollowsSender
  <2>8. CASE b = Stop
    <3>1. SequencerStop
      BY <2>1, <2>8 DEF SlaveReceive, Transport, Clock, Start, Continue, Stop
    <3>2. w = Nothing
      BY <2>8 DEF Start, Continue, Stop
    <3>3. Setting' = Nothing
      BY <3>1 DEF SequencerStop, Setting, Nothing
    <3> HIDE DEF w
    <3> QED
      BY <1>4, <2>3, <2>5, <3>2, <3>3 DEF FollowsSender
  <2> QED
    BY <2>1, <2>3, <2>6, <2>7, <2>8 DEF RealTime
<1> QED
  BY <1>4, <1>5 DEF InStep, FollowsSender

\* A status byte puts the parser in step, whatever state it was in.
LEMMA StatusFollows ==
  ASSUME IndInv, SendStatus
  PROVE  SenderTypes' /\ InStep' /\ FollowsSender'
<1>1. PICK b \in {NoteOn, OtherStatus} :
        /\ left = 0
        /\ status' = b /\ left' = 2
        /\ Receive(b)
        /\ inStep' = (mode = "slave")
        /\ Wants(IF inStep THEN wanted ELSE Setting)
        /\ UNCHANGED key
  BY DEF SendStatus
<1>2. b \in {144, 176} /\ (b = NoteOn <=> b = 144)
  BY DEF NoteOn, OtherStatus
<1>3. Setting \in [started : BOOLEAN, steps : {0, 2, 4, 8}]
  BY DEF Setting, IndInv, Device, DeviceTypes, Flags, Counters
<1>4. SenderTypes'
  BY <1>1, <1>3 DEF IndInv, SenderTypes, Wants, Nothing
<1>5. CASE mode' = "slave" /\ inStep'
  <2>1. mode = "slave" /\ SlaveReceive(b)
    BY <1>1, <1>5 DEF Receive
  <2>2. SlaveStatus(b)
    BY <1>2, <2>1 DEF SlaveReceive, Transport, Clock, Start, Continue, Stop
  <2>3. InStep'
    <3>1. midiNoteOnMode' <=> b = NoteOn
      BY <2>2, Zenon DEF SlaveStatus
    <3>2. b = NoteOn => note' = 0
      BY <2>2 DEF SlaveStatus
    <3> QED
      BY <1>1, <3>1, <3>2 DEF InStep
  <2>4. Setting' = Setting
    BY <2>2 DEF SlaveStatus, Setting, sequencer
  <2>5. wanted' = Setting
    BY <1>1, <1>5, <2>1 DEF Wants, IndInv, FollowsSender
  <2> QED
    BY <1>4, <2>3, <2>4, <2>5 DEF FollowsSender
<1> QED
  BY <1>4, <1>5 DEF InStep, FollowsSender

\* The note is remembered, unless it is note 0, after which nothing is claimed.
LEMMA NoteFollows ==
  ASSUME IndInv, SendNote
  PROVE  SenderTypes' /\ InStep' /\ FollowsSender'
<1>1. PICK n \in Notes :
        /\ status # 0 /\ left # 1
        /\ left' = 1 /\ key' = n
        /\ Receive(n)
        /\ inStep' = (inStep /\ ~(status = NoteOn /\ n = 0))
        /\ Wants(wanted)
        /\ UNCHANGED status
  BY DEF SendNote
<1>2. n \in 0..127
  BY NotesAssumption
<1>3. SenderTypes'
  BY <1>1, <1>2 DEF IndInv, SenderTypes, Wants, Nothing
<1>4. CASE mode' = "slave" /\ inStep'
  <2>1. mode = "slave" /\ inStep /\ ~(status = NoteOn /\ n = 0) /\ SlaveReceive(n)
    BY <1>1, <1>4 DEF Receive, IndInv, SenderTypes
  <2>2. SlaveData(n)
    BY <1>2, <2>1 DEF SlaveReceive, Transport, Clock, Start, Continue, Stop
  <2>3. midiNoteOnMode => note = 0
    BY <1>1, <2>1 DEF IndInv, InStep
  <2>4. UNCHANGED <<sequencer, midiNoteOnMode>> /\ note' = IF midiNoteOnMode THEN n ELSE note
    BY <2>2, <2>3 DEF SlaveData
  <2>5. InStep'
    BY <1>1, <2>1, <2>4 DEF InStep, IndInv
  <2>6. Setting' = Setting
    BY <2>4 DEF Setting, sequencer
  <2>7. wanted' = wanted /\ wanted = Setting
    BY <1>1, <1>4, <2>1 DEF Wants, IndInv, FollowsSender
  <2> QED
    BY <1>3, <2>5, <2>6, <2>7 DEF FollowsSender
<1> QED
  BY <1>3, <1>4 DEF InStep, FollowsSender

\* The velocity ends the message: its effect is the one the sender asked for.
LEMMA VelocityFollows ==
  ASSUME IndInv, SendVelocity
  PROVE  SenderTypes' /\ InStep' /\ FollowsSender'
<1>1. PICK v \in Velocities :
        /\ left = 1
        /\ left' = 0 /\ key' = 0
        /\ Receive(v)
        /\ UNCHANGED <<status, inStep>>
        /\ Wants(IF status = NoteOn /\ v > 0 THEN Asked(key, wanted) ELSE wanted)
  BY DEF SendVelocity
<1>2. v \in 0..127
  BY VelocitiesAssumption
<1>3. <<2, 4, 8>>[51 - 50] = 2 /\ <<2, 4, 8>>[52 - 50] = 4 /\ <<2, 4, 8>>[53 - 50] = 8
  OBVIOUS
<1>4. Asked(key, wanted) \in [started : BOOLEAN, steps : {0, 2, 4, 8}]
  <2>1. wanted \in [started : BOOLEAN, steps : {0, 2, 4, 8}] /\ key \in 0..127
    BY DEF IndInv, SenderTypes
  <2>2. CASE key \in 51..53
    <3>1. Asked(key, wanted) = [started |-> wanted.started, steps |-> <<2, 4, 8>>[key - 50]]
      BY <2>1, <2>2 DEF Asked
    <3> QED
      BY <1>3, <2>1, <2>2, <3>1
  <2>3. CASE key \notin 51..53
    BY <2>1, <2>3 DEF Asked, Nothing
  <2> QED
    BY <2>2, <2>3
<1>5. SenderTypes'
  BY <1>1, <1>4 DEF IndInv, SenderTypes, Wants, Nothing
<1>6. CASE mode' = "slave" /\ inStep'
  <2>1. mode = "slave" /\ inStep /\ SlaveReceive(v) /\ wanted = Setting
    BY <1>1, <1>6 DEF Receive, IndInv, FollowsSender
  <2>2. SlaveData(v)
    BY <1>2, <2>1 DEF SlaveReceive, Transport, Clock, Start, Continue, Stop
  <2>3. (midiNoteOnMode <=> status = NoteOn) /\ (status = NoteOn => note = key /\ key # 0)
    BY <1>1, <2>1 DEF IndInv, InStep
  <2>4. midiNoteOnMode' = midiNoteOnMode /\ (status = NoteOn => note' = 0)
    BY <2>2, <2>3 DEF SlaveData
  <2>5. InStep'
    BY <1>1, <2>3, <2>4 DEF InStep
  <2>6. CASE status = NoteOn /\ v > 0
    <3>1. GetSlaveSyncEffect(key)
      BY <2>2, <2>3, <2>6 DEF SlaveData
    <3>2. wanted' = Asked(key, wanted)
      BY <1>1, <1>6, <2>6 DEF Wants
    <3>3. Setting' = Asked(key, Setting)
      <4>1. CASE key = 48
        BY <3>1, <4>1 DEF GetSlaveSyncEffect, SequencerStart, Setting, Asked, StepsOf
      <4>2. CASE key = 49
        <5>1. SequencerStop
          BY <3>1, <4>2 DEF GetSlaveSyncEffect, StepsOf
        <5>2. Setting' = Nothing
          BY <5>1 DEF SequencerStop, Setting, Nothing
        <5> QED
          BY <4>2, <5>2 DEF Asked
      <4>3. CASE key = 50
        BY <3>1, <4>3 DEF GetSlaveSyncEffect, Setting, Asked, StepsOf
      <4>4. CASE key \in 51..53
        <5>1. StepsOf[key] = <<2, 4, 8>>[key - 50]
          <6>1. StepsOf[51] = 2 /\ StepsOf[52] = 4 /\ StepsOf[53] = 8
            BY DEF StepsOf
          <6> QED
            BY <1>3, <4>4, <6>1
        <5>2. midiSyncEffectsTime' = TRUE /\ countSyncSteps' = StepsOf[key]
              /\ sequencerStarted' = sequencerStarted
          BY <3>1, <4>4 DEF GetSlaveSyncEffect
        <5>3. Setting' = [started |-> sequencerStarted, steps |-> StepsOf[key]]
          BY <5>2 DEF Setting
        <5>4. Asked(key, Setting) = [started |-> Setting.started, steps |-> <<2, 4, 8>>[key - 50]]
          BY <4>4 DEF Asked
        <5>5. Setting.started = sequencerStarted
          BY DEF Setting
        <5> QED
          BY <5>1, <5>3, <5>4, <5>5
      <4>5. CASE key \notin 48..53
        BY <3>1, <4>5 DEF GetSlaveSyncEffect, Setting, Asked, sequencer
      <4> QED
        <5>1. key \in 0..127
          BY DEF IndInv, SenderTypes
        <5> QED
          BY <4>1, <4>2, <4>3, <4>4, <4>5, <5>1
    <3> QED
      BY <1>5, <2>1, <2>5, <3>2, <3>3 DEF FollowsSender
  <2>7. CASE ~(status = NoteOn /\ v > 0)
    <3>1. UNCHANGED sequencer
      BY <1>2, <2>2, <2>3, <2>7 DEF SlaveData
    <3>2. Setting' = Setting
      BY <3>1 DEF Setting, sequencer
    <3>3. wanted' = wanted
      BY <1>1, <1>6, <2>7 DEF Wants
    <3> QED
      BY <1>5, <2>1, <2>5, <3>2, <3>3 DEF FollowsSender
  <2> QED
    BY <2>6, <2>7
<1> QED
  BY <1>5, <1>6 DEF InStep, FollowsSender

-------------------------------------------------------------------------------
(* The pulses.                                                             *)

\* Nanoloop sends no pulse of the kind that LSDJ gets.
LEMMA PulsesDiffer == ClockTick # <<>> /\ \A out \in {0, 1} \X {0, 1} : out # ClockTick
<1>1. DOMAIN ClockTick = 1..8
  BY DEF ClockTick
<1>2. \A out \in {0, 1} \X {0, 1} : DOMAIN out = 1..2
  OBVIOUS
<1>3. DOMAIN <<>> = {} /\ 3 \in 1..8 /\ 3 \notin 1..2
  OBVIOUS
<1> QED
  BY <1>1, <1>2, <1>3

Quiet == UNCHANGED sequencer /\ toGameboy' = <<>>

\* A clock comes with a pulse exactly when the distance since the last is over.
LEMMA ClockSpaces ==
  ASSUME Device, TempoPhase, mode = "slave", UNCHANGED mode, SlaveClock, Spaced(Clock, FALSE)
  PROVE  TempoPhase'
<1>1. /\ countSyncTime \in 0..23 /\ gap \in -1..6
      /\ sequencerStarted \in BOOLEAN /\ midiSyncEffectsTime \in BOOLEAN
      /\ midiSyncEffectsTime => countSyncSteps \in {2, 4, 8}
  BY DEF Device, DeviceTypes, Flags, Counters, DividerKnown, TempoPhase
<1>2. /\ countSyncTime' = AfterEffect(IF Ticks THEN AfterVisualSync(countSyncTime) ELSE countSyncTime)
      /\ UNCHANGED <<sequencerStarted, midiSyncEffectsTime, countSyncSteps>>
      /\ Distance' = Distance
  BY DEF SlaveClock, Distance
<1>3. /\ gap' = IF Ticks THEN 0 ELSE IF gap # -1 THEN gap + 1 ELSE gap
      /\ spacings' = IF Ticks /\ gap # -1 THEN spacings \union {gap + 1} ELSE spacings
  BY PulsesDiffer DEF Spaced, SlaveClock
<1>4. gap # -1 /\ Ticks => gap + 1 = Distance
  BY <1>1 DEF TempoPhase, Ticks, Distance
<1>5. /\ gap' = -1 => spacings' = {}
      /\ gap' # -1 => spacings' \in {{}, {Distance}}
  <2>1. CASE gap = -1
    BY <1>3, <2>1 DEF TempoPhase
  <2>2. CASE gap # -1 /\ Ticks
    BY <1>1, <1>3, <1>4, <2>2 DEF TempoPhase
  <2>3. CASE gap # -1 /\ ~Ticks
    BY <1>1, <1>3, <2>3 DEF TempoPhase
  <2> QED
    BY <2>1, <2>2, <2>3
<1>6. CASE ~midiSyncEffectsTime
  <2>1. Ticks <=> sequencerStarted
    BY <1>6 DEF Ticks
  <2>2. gap' = IF Ticks THEN 0 ELSE -1
    BY <1>1, <1>3, <2>1 DEF TempoPhase
  <2> QED
    BY <1>2, <1>5, <1>6, <2>1, <2>2 DEF TempoPhase
<1>7. CASE midiSyncEffectsTime
  <2>1. countSyncSteps \in {2, 4, 8}
    BY <1>1, <1>7
  <2>2. Ticks <=> sequencerStarted /\ countSyncTime = 0
    BY <1>7 DEF Ticks
  <2>3. countSyncTime' = (IF Ticks THEN 2 ELSE countSyncTime + 1) % countSyncSteps
    <3>1. ASSUME Ticks PROVE AfterVisualSync(countSyncTime) = 1
      BY <1>1, <2>2, <3>1, VisualSyncRange
    <3> QED
      BY <1>2, <1>7, <3>1 DEF AfterEffect
  <2>4. CASE Ticks
    BY <1>2, <1>3, <1>5, <1>7, <2>1, <2>2, <2>3, <2>4 DEF TempoPhase
  <2>5. CASE ~Ticks /\ gap # -1
    BY <1>1, <1>2, <1>3, <1>5, <1>7, <2>1, <2>2, <2>3, <2>5 DEF TempoPhase
  <2>6. CASE ~Ticks /\ gap = -1
    BY <1>3, <1>5, <2>6 DEF TempoPhase
  <2> QED
    BY <2>4, <2>5, <2>6
<1> QED
  BY <1>1, <1>6, <1>7

\* Nothing else disturbs them, unless it is a request.
LEMMA ByteSpaces ==
  ASSUME IndInv, NEW b \in Bytes, NEW request \in BOOLEAN, Receive(b), Spaced(b, request),
         mode = "slave" /\ ~request => (b = Clock /\ SlaveClock) \/ (b # Clock /\ Quiet)
  PROVE  TempoPhase'
<1>1. UNCHANGED mode /\ Device /\ TempoPhase
  BY DEF Receive, IndInv
<1>2. CASE request
  BY <1>2 DEF Spaced, TempoPhase
<1>3. CASE ~request /\ mode = "slave" /\ b = Clock /\ SlaveClock
  BY <1>1, <1>3, ClockSpaces
<1>4. CASE ~request /\ mode = "slave" /\ b # Clock /\ Quiet
  <2>1. UNCHANGED <<gap, spacings>>
    BY <1>4, PulsesDiffer DEF Spaced, Quiet
  <2>2. UNCHANGED <<sequencerStarted, midiSyncEffectsTime, countSyncTime, countSyncSteps>>
    BY <1>4 DEF Quiet, sequencer
  <2> QED
    BY <1>1, <2>1, <2>2 DEF TempoPhase, Distance
<1>5. CASE ~request /\ mode = "nanoloop"
  <2>1. NanoloopReceive(b)
    BY <1>5 DEF Receive
  <2>2. toGameboy' # ClockTick
    <3>1. TickBit(countSyncTime = 0 \/ nanoState, countSyncTime = 0) \in {0, 1}
      BY DEF TickBit
    <3>2. \A s, l : TickBit(s, l) \in {0, 1}
      BY DEF TickBit
    <3>3. ASSUME NanoloopClock PROVE toGameboy' \in {0, 1} \X {0, 1}
      BY <3>2, <3>3 DEF NanoloopClock
    <3> QED
      BY <2>1, <3>3, PulsesDiffer DEF NanoloopReceive, Transport
  <2>3. gap' = -1 /\ spacings' = {}
    BY <1>1, <1>5, <2>2 DEF Spaced, TempoPhase
  <2> QED
    BY <2>3 DEF TempoPhase
<1>6. mode \in {"slave", "nanoloop"}
  BY <1>1 DEF Device, DeviceTypes, Counters
<1> QED
  BY <1>2, <1>3, <1>4, <1>5, <1>6

\* Real-time bytes: the transport is a request, and active sensing is no clock.
LEMMA RealTimeSpaces ==
  ASSUME IndInv, SendRealTime
  PROVE  TempoPhase'
<1>1. PICK b \in RealTime : Receive(b) /\ Spaced(b, b \in {Start, Continue, Stop})
  BY DEF SendRealTime
<1>2. b \in {248, 250, 251, 252, 254} /\ b \in Bytes
  BY DEF RealTime, Clock, Start, Continue, Stop, Sensing, Bytes
<1> DEFINE request == b \in {Start, Continue, Stop}
<1>3. ASSUME mode = "slave", ~request
      PROVE  (b = Clock /\ SlaveClock) \/ (b # Clock /\ Quiet)
  <2>1. SlaveReceive(b)
    BY <1>1, <1>3 DEF Receive
  <2>2. b = Clock \/ b = Sensing
    BY <1>2, <1>3 DEF Clock, Start, Continue, Stop, Sensing
  <2>3. ~Transport(b)
    BY <1>3 DEF Transport
  <2>4. CASE b = Clock
    BY <2>1, <2>3, <2>4 DEF SlaveReceive, Clock
  <2>5. CASE b = Sensing
    <3>1. SlaveStatus(b) /\ b # Clock
      BY <2>1, <2>3, <2>5 DEF SlaveReceive, Clock, Sensing
    <3> QED
      BY <3>1 DEF SlaveStatus, Quiet
  <2> QED
    BY <2>2, <2>4, <2>5
<1>4. request \in BOOLEAN /\ Receive(b) /\ Spaced(b, request)
  BY <1>1
<1> HIDE DEF request
<1> QED
  BY <1>2, <1>3, <1>4, ByteSpaces

\* A status byte changes no setting.
LEMMA StatusSpaces ==
  ASSUME IndInv, SendStatus
  PROVE  TempoPhase'
<1>1. PICK b \in {NoteOn, OtherStatus} : Receive(b) /\ Spaced(b, FALSE)
  BY DEF SendStatus
<1>2. b \in {144, 176} /\ b \in Bytes
  BY DEF NoteOn, OtherStatus, Bytes
<1>3. ASSUME mode = "slave" PROVE b # Clock /\ Quiet
  <2>1. SlaveReceive(b)
    BY <1>1, <1>3 DEF Receive
  <2> QED
    BY <1>2, <2>1 DEF SlaveReceive, Transport, SlaveStatus, Quiet, Clock, Start, Continue, Stop
<1> QED
  BY <1>1, <1>2, <1>3, ByteSpaces

\* Nor does a note: as long as the parser follows, it waits for the velocity.
LEMMA NoteSpaces ==
  ASSUME IndInv, SendNote
  PROVE  TempoPhase'
<1>1. PICK n \in Notes : status # 0 /\ left # 1 /\ Receive(n) /\ Spaced(n, ~inStep)
  BY DEF SendNote
<1>2. n \in 0..127 /\ n \in Bytes /\ inStep \in BOOLEAN
  BY NotesAssumption DEF Bytes, IndInv, SenderTypes
<1>3. ASSUME mode = "slave", inStep PROVE n # Clock /\ Quiet
  <2>1. SlaveReceive(n)
    BY <1>1, <1>3 DEF Receive
  <2>2. SlaveData(n)
    BY <1>2, <2>1 DEF SlaveReceive, Transport, Clock, Start, Continue, Stop
  <2>3. midiNoteOnMode => note = 0
    BY <1>1, <1>3 DEF IndInv, InStep
  <2> QED
    BY <1>2, <2>2, <2>3 DEF SlaveData, Quiet, Clock
<1> QED
  BY <1>1, <1>2, <1>3, ByteSpaces

\* Nor does a velocity, unless the message is one of the effects.
LEMMA VelocitySpaces ==
  ASSUME IndInv, SendVelocity
  PROVE  TempoPhase'
<1> DEFINE Effect(v) == status = NoteOn /\ v > 0 /\ key \in 48..53
<1>1. PICK v \in Velocities : left = 1 /\ Receive(v) /\ Spaced(v, ~inStep \/ Effect(v))
  BY DEF SendVelocity
<1>2. v \in 0..127 /\ v \in Bytes /\ inStep \in BOOLEAN
  BY VelocitiesAssumption DEF Bytes, IndInv, SenderTypes
<1>3. ASSUME mode = "slave", inStep, ~Effect(v) PROVE v # Clock /\ Quiet
  <2>1. SlaveReceive(v)
    BY <1>1, <1>3 DEF Receive
  <2>2. SlaveData(v)
    BY <1>2, <2>1 DEF SlaveReceive, Transport, Clock, Start, Continue, Stop
  <2>3. (midiNoteOnMode <=> status = NoteOn) /\ (status = NoteOn => note = key)
    BY <1>1, <1>3 DEF IndInv, InStep
  <2>4. UNCHANGED sequencer
    BY <1>3, <2>2, <2>3 DEF SlaveData, GetSlaveSyncEffect
  <2> QED
    BY <1>2, <2>2, <2>4 DEF SlaveData, Quiet, Clock
<1> QED
  BY <1>1, <1>2, <1>3, ByteSpaces

-------------------------------------------------------------------------------
(* The theorems.                                                           *)

\* The initial states satisfy the invariant.
LEMMA InitHolds == Init => IndInv
<1> SUFFICES ASSUME Init PROVE IndInv
  OBVIOUS
<1>1. Flags /\ DividerKnown
  BY DEF Init, Flags, DividerKnown
<1>2. Counters
  BY OutputsAre DEF Init, Counters
<1>3. TempoPhase /\ LockPhase /\ BeatPhase
  BY DEF Init, TempoPhase, LockPhase, BeatPhase
<1>4. SenderTypes /\ InStep
  BY DEF Init, SenderTypes, InStep, Nothing, NoteOn
<1>5. FollowsSender
  BY DEF Init, FollowsSender, Setting, Nothing
<1> QED
  BY <1>1, <1>2, <1>3, <1>4, <1>5 DEF IndInv, Device, DeviceTypes

\* A change of mode ends what was claimed of the parser, the pulses and the beats.
LEMMA SelectModeKeeps ==
  ASSUME IndInv, SelectMode
  PROVE  IndInv'
<1>1. /\ mode' \in {"slave", "nanoloop"}
      /\ toGameboy' = <<>> /\ inStep' = FALSE /\ wanted' = Nothing
      /\ gap' = -1 /\ spacings' = {} /\ unlocked' = 0 /\ beatBits' = {}
      /\ UNCHANGED <<sequencerStarted, midiSyncEffectsTime, countSyncTime, countSyncSteps>>
      /\ UNCHANGED <<midiNoteOnMode, note, nanoState, nanoSkipSync, status, left, key>>
  BY DEF SelectMode, Wants, sequencer, parser, nanoloop, sender
<1>2. Flags' /\ DividerKnown'
  BY <1>1 DEF IndInv, Device, DeviceTypes, Flags, DividerKnown
<1>3. Counters'
  BY <1>1, OutputsAre DEF IndInv, Device, DeviceTypes, Counters
<1>4. TempoPhase' /\ LockPhase' /\ BeatPhase'
  BY <1>1, <1>3 DEF TempoPhase, LockPhase, BeatPhase, Counters
<1>5. SenderTypes' /\ InStep' /\ FollowsSender'
  BY <1>1 DEF IndInv, SenderTypes, InStep, FollowsSender, Nothing
<1> QED
  BY <1>2, <1>3, <1>4, <1>5 DEF IndInv, Device, DeviceTypes

\* Every step of the sender is a byte the device receives.
LEMMA StepIsByte ==
  ASSUME SendRealTime \/ SendStatus \/ SendNote \/ SendVelocity
  PROVE  \E b \in Bytes : Receive(b)
<1>1. ASSUME SendRealTime PROVE \E b \in Bytes : Receive(b)
  BY <1>1 DEF SendRealTime, RealTime, Bytes, Clock, Start, Continue, Stop, Sensing
<1>2. ASSUME SendStatus PROVE \E b \in Bytes : Receive(b)
  BY <1>2 DEF SendStatus, Bytes, NoteOn, OtherStatus
<1>3. ASSUME SendNote PROVE \E b \in Bytes : Receive(b)
  BY <1>3, NotesAssumption DEF SendNote, Bytes
<1>4. ASSUME SendVelocity PROVE \E b \in Bytes : Receive(b)
  BY <1>4, VelocitiesAssumption DEF SendVelocity, Bytes
<1> QED
  BY <1>1, <1>2, <1>3, <1>4

\* So it keeps the device's invariant.
LEMMA StepKeepsDevice ==
  ASSUME IndInv, SendRealTime \/ SendStatus \/ SendNote \/ SendVelocity
  PROVE  Device' /\ UNCHANGED mode
  BY StepIsByte, ReceiveKeeps DEF IndInv

\* The invariant is inductive.
LEMMA NextKeeps == IndInv /\ [Next]_vars => IndInv'
<1> SUFFICES ASSUME IndInv, [Next]_vars PROVE IndInv'
  OBVIOUS
<1>1. CASE SendRealTime
  BY <1>1, StepKeepsDevice, RealTimeFollows, RealTimeSpaces DEF IndInv
<1>2. CASE SendStatus
  BY <1>2, StepKeepsDevice, StatusFollows, StatusSpaces DEF IndInv
<1>3. CASE SendNote
  BY <1>3, StepKeepsDevice, NoteFollows, NoteSpaces DEF IndInv
<1>4. CASE SendVelocity
  BY <1>4, StepKeepsDevice, VelocityFollows, VelocitySpaces DEF IndInv
<1>5. CASE SelectMode
  BY <1>5, SelectModeKeeps
<1>6. CASE UNCHANGED vars
  <2>1. UNCHANGED <<mode, sequencerStarted, midiSyncEffectsTime, countSyncTime, countSyncSteps,
                    midiNoteOnMode, note, nanoState, nanoSkipSync, toGameboy, status, left, key,
                    wanted, inStep, gap, spacings, unlocked, beatBits>>
    BY <1>6 DEF vars, sequencer, parser, nanoloop, sender, history
  <2> QED
    BY <2>1 DEF IndInv, Device, DeviceTypes, Flags, Counters, DividerKnown, TempoPhase, Distance,
                LockPhase, BeatPhase, NextBeatBit, SenderTypes, InStep, FollowsSender, Setting
<1> QED
  BY <1>1, <1>2, <1>3, <1>4, <1>5, <1>6 DEF Next

\* The inductive invariant holds in every reachable state.
THEOREM IndInvHolds == Spec => []IndInv
<1> QED
  BY InitHolds, NextKeeps, PTL DEF Spec

\* The variables keep their types: in particular line 59 never divides by zero.
THEOREM TypeCorrect == Spec => []TypeOK
<1>1. IndInv => TypeOK
  <2> SUFFICES ASSUME IndInv PROVE TypeOK
    OBVIOUS
  <2>1. beatBits \subseteq {0, 1}
    BY DEF IndInv, Device, BeatPhase, NextBeatBit
  <2>2. countSyncSteps \in (IF midiSyncEffectsTime THEN {} ELSE {0}) \union {2, 4, 8}
    BY DEF IndInv, Device, DeviceTypes, Counters, DividerKnown
  <2>3. gap \in -1..7 /\ spacings \subseteq 1..8
    <3>1. spacings = {} \/ (gap # -1 /\ spacings = {Distance})
      BY DEF IndInv, TempoPhase
    <3>2. gap # -1 => Distance \in 1..8
      BY DEF IndInv, TempoPhase, Distance, Device, DeviceTypes, Flags, Counters, DividerKnown
    <3> QED
      BY <3>1, <3>2 DEF IndInv, TempoPhase
  <2> QED
    BY <2>1, <2>2, <2>3 DEF IndInv, Device, DeviceTypes, Flags, Counters, SenderTypes, TypeOK,
                            Outputs, TicksPerQuarter
<1> QED
  BY <1>1, IndInvHolds, PTL

\* For all notes and velocities the settings in force in slave mode are those
\* the sender's messages ask for.
THEOREM SenderFollowed == Spec => []FollowsSender
  BY IndInvHolds, PTL DEF IndInv

\* For all notes and velocities, all pulses between two requests have the same
\* distance, whatever else comes in between.
THEOREM TempoIsEven == Spec => []EvenTempo
<1>1. IndInv => EvenTempo
  <2> SUFFICES ASSUME IndInv PROVE Cardinality(spacings) <= 1
    BY DEF EvenTempo
  <2>1. spacings = {} \/ spacings = {Distance}
    BY DEF IndInv, TempoPhase
  <2>2. Cardinality({}) = 0 /\ Cardinality({Distance}) = 1
    BY FS_EmptySet, FS_Singleton
  <2> QED
    BY <2>1, <2>2
<1> QED
  BY <1>1, IndInvHolds, PTL

\* Nanoloop's signal is never out of lock for a whole quarter note.
THEOREM NanoloopAlwaysLocks == Spec => []NanoloopLocks
<1>1. IndInv => NanoloopLocks
  BY DEF IndInv, Device, DeviceTypes, Counters, NanoloopLocks, TicksPerQuarter
<1> QED
  BY <1>1, IndInvHolds, PTL

\* All downbeats of one run of the sequencer send the same bits.
THEOREM DownbeatsAlwaysAlike == Spec => []DownbeatsAlike
<1>1. IndInv => DownbeatsAlike
  <2> SUFFICES ASSUME IndInv PROVE Cardinality(beatBits) <= 1
    BY DEF DownbeatsAlike
  <2>1. CASE beatBits = {}
    BY <2>1, FS_EmptySet
  <2>2. CASE beatBits = {NextBeatBit}
    BY <2>2, FS_Singleton
  <2> QED
    BY <2>1, <2>2 DEF IndInv, Device, BeatPhase
<1> QED
  BY <1>1, IndInvHolds, PTL
===============================================================================
