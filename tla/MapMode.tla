-------------------------------- MODULE MapMode --------------------------------
(***************************************************************************)
(* LSDJ map mode (Mode_LSDJ_Map.ino): notes start rows of LSDJ's song, and *)
(* clock ticks drive it.  Ticks and row stops wait 2 ms in a queue of one  *)
(* message, since a note that follows is a tick too and may start another  *)
(* row.                                                                    *)
(***************************************************************************)
EXTENDS NoteGlobals

CONSTANT Wait     \* mapQueueWaitSerial

ASSUME WaitAssumption == Wait \in Nat

VARIABLES
  sequencerStarted,
  map,        \* row: mapCurrentRow; queue: mapQueueMessage; age: time since it was queued
  playing,    \* the row LSDJ plays
  asked       \* history: the number of the row last asked for, None or Unknown

mapVars == <<sequencerStarted, map, playing, asked>>

None == -1
Unknown == -2
TickByte == 255
StopByte == 254

\* The numbers notes stand for, which are the rows of LSDJ's song; but for those
\* of two, which are the tick and the stop.
Numbers == Data \union {128 + n : n \in Data}
Rows == Numbers \ {TickByte, StopByte}

MapInit ==
  /\ sequencerStarted = FALSE
  /\ map = [row |-> None, queue |-> None, age |-> 0]
  /\ playing = None
  /\ asked = Unknown

--------------------------------------------------------------------------------
(* The functions of the queue.  Each takes and gives the map and the row   *)
(* LSDJ plays.                                                             *)

State == [map |-> map, playing |-> playing]

(* Faulty variant: what is queued stays.                                   *)
ResetNothing(s) == s

ResetMapCue(s) == [s EXCEPT !.map = [@ EXCEPT !.queue = None, !.age = 0]]

SetMapQueueMessage(s, m) ==
  IF s.map.queue \in {None, TickByte}
  THEN [s EXCEPT !.map = [@ EXCEPT !.queue = m, !.age = 0]]
  ELSE s

(* sendByteToGameboy: a tick changes no row.                               *)
ToLsdj(s, b) == CASE b = StopByte -> [s EXCEPT !.playing = None]
                  [] b \in Rows -> [s EXCEPT !.playing = b]
                  [] OTHER -> s

(* setMapByte, with the sequencer running or not.                          *)
SetMapByte(s, b, started) ==
  CASE b = TickByte -> SetMapQueueMessage(s, b)
    [] b = StopByte /\ ~started -> ToLsdj(s, b)
    [] b = StopByte /\ started -> IF s.map.row = None THEN s ELSE SetMapQueueMessage(s, s.map.row)
    [] OTHER -> ResetMapCue(ToLsdj([s EXCEPT !.map.row = b], b))

(* checkMapQueue: only the row played last is stopped.                     *)
Due(s) == s.map.queue # None /\ s.map.age > Wait

Sent(s) == IF s.map.queue = s.map.row THEN ToLsdj([s EXCEPT !.map.row = None], StopByte) ELSE s

CheckMapQueue(s) == IF Due(s) THEN ResetMapCue(Sent(s)) ELSE s

--------------------------------------------------------------------------------
(* modeLSDJMap: the case of the byte read.                                 *)

Becomes(s) == map' = s.map /\ playing' = s.playing

OnChannel(status) == status \in {NoteOn, NoteOn2}

MapRealTime(b) ==
  /\ b \in {Clock, Start, Continue, Stop}
  /\ sequencerStarted' = (b \in {Start, Continue} \/ (b = Clock /\ sequencerStarted))
  /\ Becomes(CASE b = Clock -> SetMapByte(State, TickByte, sequencerStarted)
               [] b = Stop -> SetMapByte(State, StopByte, FALSE)
               [] OTHER -> State)
  /\ asked' = IF b = Stop THEN None ELSE asked
  /\ UNCHANGED <<parser, inStep>>

(* Any other real-time byte, too, takes the place of the running status.   *)
MapStatus(b) ==
  /\ b >= 128 /\ b \notin {Clock, Start, Continue, Stop}
  /\ parser' = [parser EXCEPT !.status = b, !.noteOn = TRUE]
  /\ Becomes(IF OnChannel(b) THEN ResetMapCue(State) ELSE State)
  /\ inStep' = (b # Sensing)
  /\ asked' = IF b = Sensing THEN Unknown ELSE asked
  /\ UNCHANGED sequencerStarted

MapKey(b) ==
  /\ b < 128 /\ parser.noteOn
  /\ parser' = [parser EXCEPT !.key = b, !.noteOn = FALSE]
  /\ Becomes(IF OnChannel(parser.status) THEN ResetMapCue(State) ELSE State)
  /\ UNCHANGED <<sequencerStarted, inStep, asked>>

(* Faulty variant: the second channel's rows begin one later.              *)
MapByteLate(status, key, velocity) ==
  IF velocity = 0 \/ ~OnChannel(status) THEN StopByte
  ELSE IF status = NoteOn2 THEN 129 + key ELSE key

(* The byte a message stands for, which may be a tick or a stop by         *)
(* accident.                                                               *)
MapByte(status, key, velocity) == IF velocity = 0 \/ ~OnChannel(status) THEN StopByte
                                  ELSE IF status = NoteOn2 THEN 128 + key ELSE key

MapVelocity(b) ==
  /\ b < 128 /\ ~parser.noteOn
  /\ parser' = [parser EXCEPT !.noteOn = TRUE]
  /\ Becomes(CheckMapQueue(IF parser.status \in {NoteOn, NoteOn2, NoteOff, NoteOff2}
                           THEN SetMapByte(State, MapByte(parser.status, parser.key, b), sequencerStarted)
                           ELSE State))
  /\ asked' = IF ~inStep THEN Unknown
              ELSE IF ~(\E s \in {NoteOn, NoteOn2, NoteOff, NoteOff2} : Ends(s)) THEN asked
              ELSE IF b = 0 \/ ~OnChannel(sender.status) THEN None
              ELSE MapByte(sender.status, sender.key, b)
  /\ UNCHANGED <<sequencerStarted, inStep>>

MapReceive(b) == MapRealTime(b) \/ MapStatus(b) \/ MapKey(b) \/ MapVelocity(b)

(* checkMapQueue of an idle turn of the loop.                              *)
MapFlush ==
  /\ mode = "map" /\ Due(State)
  /\ Becomes(CheckMapQueue(State))
  /\ UNCHANGED <<mode, parser, sender, inStep, sequencerStarted, asked>>

MapTick ==
  /\ map.queue # None /\ map.age <= Wait
  /\ map' = [map EXCEPT !.age = @ + 1]
  /\ UNCHANGED <<mode, parser, sender, inStep, sequencerStarted, playing, asked>>

================================================================================
