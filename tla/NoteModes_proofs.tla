---------------------------- MODULE NoteModes_proofs ----------------------------
(***************************************************************************)
(* Proofs about LSDJ map and LSDJ keyboard mode, for all notes, programs,  *)
(* delays and ranges of LSDJ.                                              *)
(*                                                                         *)
(* The invariant has three layers: the types; how the parser stands to the *)
(* sender while it is in step, in each mode; and, on top of these, how the *)
(* queue of map mode stands to the row played, and LSDJ to what the device *)
(* remembers of it.                                                        *)
(***************************************************************************)
EXTENDS NoteModes, TLAPS

Assumptions ==
  /\ Data \subseteq 0 .. 127 /\ 0 \in Data
  /\ Wait \in Nat
  /\ UsbNotes \subseteq 0 .. 127
  /\ TopOctave \in 0 .. 100 /\ TopInstrument \in 0 .. 127

(* What the assumptions say of the constants.                              *)
LEMMA AssumptionsHold == Assumptions
BY DataAssumption, WaitAssumption, UsbNotesAssumption, TopsAssumption DEF Assumptions

(* The types, in the groups the steps change.                              *)
ParserType == parser \in [status : {0} \union Statuses \union {Sensing, SysexEnd},
                          key : Data, noteOn : BOOLEAN, program : BOOLEAN]
SenderType == sender \in [status : {0} \union Statuses, left : 0 .. 2, key : Data]
MapType == [row : Rows \union {None}, queue : Rows \union {None, TickByte}, age : 0 .. Wait + 1]
MapStates == [map : MapType, playing : Rows \union {None}]
Wishes == [oct : 0 .. 6 \union 0 .. TopOctave, ins : 0 .. 127, usb : BOOLEAN]
KeyboardType ==
  /\ compat \in BOOLEAN /\ reached \in BOOLEAN
  /\ last \in [oct : 0 .. 6 \union 179 .. 185, ins : Data]
  /\ lsdj \in Settings
  /\ wanted \in Wishes
SharedType ==
  /\ visited \in {"map", "keyboard"} /\ mode \in {visited, "other"}
  /\ inStep \in BOOLEAN

(* The bytes that may come.                                                *)
LEMMA ByteKinds ==
  /\ \A b \in Data : b \in 0 .. 127
  /\ \A b \in Statuses \union RealTime \union {SysexEnd} : b \in 128 .. 254
  /\ Statuses \intersect RealTime = {} /\ SysexEnd \notin Statuses \union RealTime
  /\ \A r \in Rows : r \in 0 .. 253
BY AssumptionsHold
   DEF Assumptions, Statuses, RealTime, SysexEnd, Rows, Numbers, TickByte, StopByte, NoteOn, NoteOn2, NoteOff, NoteOff2, Program,
       Control, SysexBegin, Clock, Start, Continue, Stop, Sensing

(* The sender stays in its type.                                           *)
LEMMA SenderStep ==
  ASSUME SenderType, NEW b, Sends(b)
  PROVE  SenderType'
<1>1. 0 \in Data
  BY AssumptionsHold DEF Assumptions
<1>2. CASE SendsStatus(b)
  BY <1>1, <1>2 DEF SendsStatus, SenderType, Length
<1>3. CASE SendsData(b)
  <2> DEFINE to == IF Idle THEN Length(sender.status) ELSE sender.left
  <2>1. to \in 1 .. 2
    BY <1>3 DEF SendsData, Idle, Length, SenderType
  <2>2. sender' = [sender EXCEPT !.left = to - 1, !.key = IF to = 2 THEN b ELSE 0] /\ b \in Data
    BY <1>3 DEF SendsData
  <2>3. to - 1 \in 0 .. 2 /\ (IF to = 2 THEN b ELSE 0) \in Data
    BY <1>1, <2>1, <2>2
  <2> DEFINE key == IF to = 2 THEN b ELSE 0
             left == to - 1
  <2>4. sender' = [sender EXCEPT !.left = left, !.key = key] /\ left \in 0 .. 2 /\ key \in Data
    BY <2>2, <2>3
  <2> HIDE DEF left, key
  <2> QED
    BY <2>4 DEF SenderType
<1>4. CASE SendsRealTime(b)
  BY <1>4 DEF SendsRealTime, SenderType
<1>5. CASE SendsSysexEnd
  BY <1>1, <1>5 DEF SendsSysexEnd, SenderType
<1> QED
  BY <1>2, <1>3, <1>4, <1>5 DEF Sends

--------------------------------------------------------------------------------
(* Map mode: the queue.  A queued row is the row played last, and the row  *)
(* LSDJ plays is the row the device remembers.                             *)

Consistent(s) ==
  /\ s \in MapStates
  /\ s.map.queue \in Rows => s.map.queue = s.map.row
  /\ s.playing \in Rows => s.map.row = s.playing

RowFacts ==
  /\ None \notin Numbers /\ Unknown \notin Numbers /\ None # Unknown
  /\ None \notin Rows /\ TickByte \notin Rows /\ StopByte \notin Rows /\ Unknown \notin Rows
  /\ Rows \subseteq Numbers /\ Numbers \subseteq Rows \union {TickByte, StopByte}

(* No row is one of the special bytes, though a note's number may be.      *)
LEMMA RowFactsHold == RowFacts
<1>1. ASSUME NEW n \in Numbers PROVE n \in 0 .. 255
  <2>1. \A d \in Data : d \in 0 .. 127
    BY AssumptionsHold DEF Assumptions
  <2>2. n \in Data \/ \E d \in Data : n = 128 + d
    BY DEF Numbers
  <2> QED
    BY <2>1, <2>2
<1>2. None \notin Numbers /\ Unknown \notin Numbers /\ None # Unknown
  BY <1>1 DEF None, Unknown
<1>3. /\ None \notin Rows /\ TickByte \notin Rows /\ StopByte \notin Rows /\ Unknown \notin Rows
      /\ Rows \subseteq Numbers /\ Numbers \subseteq Rows \union {TickByte, StopByte}
  BY <1>2 DEF Rows
<1> QED
  BY <1>2, <1>3 DEF RowFacts

(* What resetMapCue does.                                                  *)
LEMMA ResetMapCueKeeps ==
  ASSUME NEW s, Consistent(s)
  PROVE  LET t == ResetMapCue(s) IN
         Consistent(t) /\ t.map.queue = None /\ t.playing = s.playing /\ t.map.row = s.map.row
<1>1. s \in MapStates
  BY DEF Consistent
<1> DEFINE m == [s.map EXCEPT !.queue = None, !.age = 0]
           t == ResetMapCue(s)
<1>2. t = [s EXCEPT !.map = m]
  BY DEF ResetMapCue
<1>3. m \in MapType /\ m.queue = None /\ m.row = s.map.row
  <2>1. 0 \in 0 .. Wait + 1
    BY AssumptionsHold DEF Assumptions
  <2> QED
    BY <1>1, <2>1 DEF MapStates, MapType
<1> HIDE DEF m, t
<1>4. t.map = m /\ t.playing = s.playing /\ t \in MapStates
  BY <1>1, <1>2, <1>3 DEF MapStates
<1>5. Consistent(t)
  BY <1>3, <1>4, RowFactsHold DEF Consistent, RowFacts
<1> QED
  BY <1>3, <1>4, <1>5 DEF t

(* setMapQueueMessage lets a tick, or nothing, be overwritten.             *)
LEMMA SetMapQueueMessageDoes ==
  ASSUME NEW s \in MapStates, NEW m \in Rows \union {TickByte}
  PROVE  LET t == SetMapQueueMessage(s, m) IN
         /\ t \in MapStates /\ t.playing = s.playing /\ t.map.row = s.map.row
         /\ t.map.queue = IF s.map.queue \in Rows THEN s.map.queue ELSE m
<1>1. CASE s.map.queue \in Rows
  BY <1>1, RowFactsHold DEF SetMapQueueMessage, RowFacts
<1>2. CASE s.map.queue \notin Rows
  <2> DEFINE n == [s.map EXCEPT !.queue = m, !.age = 0]
             t == SetMapQueueMessage(s, m)
  <2>1. t = [s EXCEPT !.map = n]
    BY <1>2 DEF SetMapQueueMessage, MapStates, MapType
  <2>2. n \in MapType /\ n.queue = m /\ n.row = s.map.row
    <3>1. 0 \in 0 .. Wait + 1
      BY AssumptionsHold DEF Assumptions
    <3> QED
      BY <3>1 DEF MapStates, MapType
  <2> HIDE DEF n, t
  <2>3. t.map = n /\ t.playing = s.playing /\ t \in MapStates
    BY <2>1, <2>2 DEF MapStates
  <2> QED
    BY <1>2, <2>2, <2>3 DEF t
<1> QED
  BY <1>1, <1>2

(* What a clock tick does.                                                 *)
LEMMA TickKeeps ==
  ASSUME NEW s, Consistent(s), NEW started \in BOOLEAN
  PROVE  LET t == SetMapByte(s, TickByte, started) IN
         /\ Consistent(t) /\ t.playing = s.playing
         /\ t.map.queue = IF s.map.queue \in Rows THEN s.map.queue ELSE TickByte
<1> DEFINE t == SetMapQueueMessage(s, TickByte)
<1>1. SetMapByte(s, TickByte, started) = t
  BY DEF SetMapByte, TickByte, StopByte
<1>2. /\ t \in MapStates /\ t.playing = s.playing /\ t.map.row = s.map.row
      /\ t.map.queue = IF s.map.queue \in Rows THEN s.map.queue ELSE TickByte
  BY SetMapQueueMessageDoes DEF Consistent
<1> HIDE DEF t
<1> QED
  BY <1>1, <1>2, RowFactsHold DEF Consistent, RowFacts

(* A stop takes effect at once, or is queued for the row that plays.       *)
LEMMA StopKeeps ==
  ASSUME NEW s, Consistent(s), NEW started \in BOOLEAN
  PROVE  LET t == SetMapByte(s, StopByte, started) IN
         /\ Consistent(t)
         /\ t.playing = None \/ t.map.queue = t.playing
         /\ ~started => t.playing = None
<1>1. StopByte # TickByte
  BY DEF StopByte, TickByte
<1>2. CASE ~started
  BY <1>1, <1>2, RowFactsHold DEF SetMapByte, ToLsdj, Consistent, MapStates, MapType, RowFacts
<1>3. CASE started /\ s.map.row = None
  <2>1. SetMapByte(s, StopByte, started) = s
    BY <1>1, <1>3 DEF SetMapByte
  <2> QED
    BY <1>3, <2>1, RowFactsHold DEF Consistent, MapStates, MapType, RowFacts
<1>4. CASE started /\ s.map.row # None
  <2> DEFINE t == SetMapQueueMessage(s, s.map.row)
  <2>1. SetMapByte(s, StopByte, started) = t
    BY <1>1, <1>4 DEF SetMapByte
  <2>2. s.map.row \in Rows
    BY <1>4 DEF Consistent, MapStates, MapType
  <2>queued. /\ t \in MapStates /\ t.playing = s.playing /\ t.map.row = s.map.row
        /\ t.map.queue = IF s.map.queue \in Rows THEN s.map.queue ELSE s.map.row
    BY <2>2, SetMapQueueMessageDoes DEF Consistent
  <2> HIDE DEF t
  <2>4. t.map.queue = s.map.row
    BY <2>queued DEF Consistent
  <2>5. t.playing \in Rows \union {None}
    BY <2>queued DEF MapStates
  <2> QED
    BY <1>4, <2>1, <2>2, <2>queued, <2>4, <2>5 DEF Consistent
<1> QED
  BY <1>2, <1>3, <1>4

(* A row, or none, is remembered and played, and the queue emptied.        *)
LEMMA RowSet ==
  ASSUME NEW s \in MapStates, NEW r \in Rows \union {None}
  PROVE  LET t == ResetMapCue([[s EXCEPT !.map.row = r] EXCEPT !.playing = r]) IN
         t \in MapStates /\ t.map.row = r /\ t.map.queue = None /\ t.playing = r
<1> DEFINE m == [s.map EXCEPT !.row = r]
           n == [m EXCEPT !.queue = None, !.age = 0]
           u == [s EXCEPT !.map.row = r]
           v == [u EXCEPT !.playing = r]
           t == ResetMapCue(v)
<1>1. m \in MapType /\ m.row = r
  BY DEF MapStates, MapType
<1>2. u = [s EXCEPT !.map = m]
  OBVIOUS
<1> HIDE DEF m, u
<1>3. u \in MapStates /\ u.map = m
  BY <1>1, <1>2 DEF MapStates
<1>4. v \in MapStates /\ v.map = m /\ v.playing = r
  BY <1>3 DEF MapStates
<1>5. t = [v EXCEPT !.map = n]
  BY <1>4 DEF ResetMapCue
<1>6. n \in MapType /\ n.row = r /\ n.queue = None
  <2>1. 0 \in 0 .. Wait + 1
    BY AssumptionsHold DEF Assumptions
  <2> QED
    BY <1>1, <2>1 DEF MapType
<1> HIDE DEF v, n, t
<1>7. t \in MapStates /\ t.map = n /\ t.playing = r
  BY <1>4, <1>5, <1>6 DEF MapStates
<1> QED
  BY <1>6, <1>7 DEF t, v, u

(* A row that is started plays, and nothing is queued then.                *)
LEMMA RowKeeps ==
  ASSUME NEW s, Consistent(s), NEW started \in BOOLEAN, NEW r \in Rows
  PROVE  LET t == SetMapByte(s, r, started) IN
         Consistent(t) /\ t.playing = r /\ t.map.queue = None
<1> DEFINE u == [s EXCEPT !.map.row = r, !.playing = r]
<1>1. SetMapByte(s, r, started) = ResetMapCue(ToLsdj([s EXCEPT !.map.row = r], r))
  BY RowFactsHold DEF SetMapByte, RowFacts
<1>2. ToLsdj([s EXCEPT !.map.row = r], r) = [[s EXCEPT !.map.row = r] EXCEPT !.playing = r]
  BY RowFactsHold DEF ToLsdj, RowFacts
<1> DEFINE t == ResetMapCue([[s EXCEPT !.map.row = r] EXCEPT !.playing = r])
<1>3. t \in MapStates /\ t.map.row = r /\ t.map.queue = None /\ t.playing = r
  BY RowSet DEF Consistent
<1> HIDE DEF t
<1>4. SetMapByte(s, r, started) = t
  BY <1>1, <1>2 DEF t
<1> QED
  BY <1>3, <1>4, RowFactsHold DEF Consistent, RowFacts

(* checkMapQueue does nothing, drops a tick, or stops the row queued.      *)
LEMMA CheckMapQueueKeeps ==
  ASSUME NEW s, Consistent(s)
  PROVE  LET t == CheckMapQueue(s) IN
         /\ Consistent(t)
         /\ \/ t = s
            \/ s.map.queue \notin Rows /\ t.playing = s.playing /\ t.map.queue = None
            \/ s.map.queue \in Rows /\ t.playing = None /\ t.map.queue = None
<1>1. CASE ~Due(s)
  BY <1>1 DEF CheckMapQueue
<1>2. CASE Due(s)
  <2>1. CheckMapQueue(s) = ResetMapCue(Sent(s)) /\ s.map.queue # None
    BY <1>2 DEF CheckMapQueue, Due
  <2>2. CASE s.map.queue = s.map.row
    <3>1. Sent(s) = [[s EXCEPT !.map.row = None] EXCEPT !.playing = None]
      BY <2>2, RowFactsHold DEF Sent, ToLsdj, RowFacts
    <3>2. Consistent(Sent(s)) => s.map.queue \in Rows
      BY <2>1, <2>2, RowFactsHold DEF Consistent, MapStates, MapType, RowFacts
    <3> DEFINE t == ResetMapCue([[s EXCEPT !.map.row = None] EXCEPT !.playing = None])
    <3>3. t \in MapStates /\ t.map.row = None /\ t.map.queue = None /\ t.playing = None
      BY RowSet DEF Consistent
    <3> HIDE DEF t
    <3>4. CheckMapQueue(s) = t
      BY <2>1, <3>1 DEF t
    <3>5. Consistent(t)
      BY <3>3, RowFactsHold DEF Consistent, RowFacts
    <3>6. s.map.queue \in Rows
      BY <2>1, <2>2, RowFactsHold DEF Consistent, MapStates, MapType, RowFacts
    <3> QED
      BY <3>3, <3>4, <3>5, <3>6
  <2>3. CASE s.map.queue # s.map.row
    <3>1. Sent(s) = s /\ s.map.queue \notin Rows
      BY <2>3 DEF Sent, Consistent
    <3> QED
      BY <2>1, <3>1, ResetMapCueKeeps
  <2> QED
    BY <2>2, <2>3
<1> QED
  BY <1>1, <1>2

--------------------------------------------------------------------------------
(* Map mode: the parser, and the row.                                      *)

Notes == {NoteOn, NoteOn2, NoteOff, NoteOff2}

(* While the parser is in step it has the sender's status, and knows which *)
(* of the two data bytes of a note is next.                                *)
MapParse ==
  (mode = "map" /\ inStep) =>
    /\ sender.status \in Notes =>
         /\ parser.status = sender.status
         /\ sender.left = 1 <=> ~parser.noteOn
         /\ sender.left = 1 => parser.key = sender.key
    /\ sender.status \notin Notes => parser.status \notin Notes

(* A queued stop is cancelled by the first byte of a note, before it is    *)
(* known whether the note starts a row.                                    *)
NoteUnderWay == inStep /\ sender.left > 0 /\ OnChannel(sender.status)

AskedInv ==
  /\ sequencerStarted \in BOOLEAN
  /\ asked \in Numbers \union {None, Unknown}
  /\ mode # "map" => asked = Unknown
  /\ ~inStep => asked \notin Numbers
  /\ asked \in Rows => playing = asked /\ map.queue \notin Rows
  /\ asked = None => playing = None \/ (inStep /\ map.queue = playing) \/ NoteUnderWay

MapInv == Consistent(State) /\ MapParse /\ AskedInv

(* What a byte of the sender means for the note it belongs to.             *)
LEMMA NoteProgress ==
  ASSUME SenderType, NEW b \in Data, Sends(b)
  PROVE  /\ sender'.status = sender.status
         /\ sender.status \in Notes =>
              IF sender.left = 1 THEN sender'.left = 0
              ELSE sender'.left = 1 /\ sender'.key = b
<1>1. SendsData(b)
  BY ByteKinds DEF Sends, SendsStatus, SendsRealTime, SysexEnd
<1>2. sender'.status = sender.status
  BY <1>1 DEF SendsData, SenderType
<1>3. ASSUME sender.status \in Notes
      PROVE  IF sender.left = 1 THEN sender'.left = 0 ELSE sender'.left = 1 /\ sender'.key = b
  <2> DEFINE to == IF Idle THEN Length(sender.status) ELSE sender.left
  <2>1. to = IF sender.left = 1 THEN 1 ELSE 2
    BY <1>3 DEF Idle, Length, SenderType, Notes, NoteOn, NoteOn2, NoteOff, NoteOff2, Program, SysexBegin
  <2>2. sender' = [sender EXCEPT !.left = to - 1, !.key = IF to = 2 THEN b ELSE 0]
    BY <1>1 DEF SendsData
  <2> HIDE DEF to
  <2> QED
    BY <2>1, <2>2 DEF SenderType
<1> QED
  BY <1>2, <1>3

(* The step of the map and the row, from Becomes.                          *)
LEMMA BecomesState ==
  ASSUME NEW s, Consistent(s), Becomes(s)
  PROVE  Consistent(State)' /\ map' = s.map /\ playing' = s.playing
<1>1. State' = [map |-> s.map, playing |-> s.playing]
  BY DEF Becomes, State
<1>2. s = [map |-> s.map, playing |-> s.playing]
  BY DEF Consistent, MapStates, MapType
<1>3. State' = s
  BY <1>1, <1>2
<1> QED
  BY <1>3 DEF Becomes, Consistent

LEMMA MapRealTimeKeeps ==
  ASSUME SenderType, ParserType, SharedType, MapInv, NEW b \in Bytes, mode = "map", mode' = mode,
         Sends(b), MapRealTime(b)
  PROVE  MapInv' /\ ParserType'
<1>1. sender' = sender /\ parser' = parser /\ inStep' = inStep
  BY ByteKinds DEF MapRealTime, Sends, SendsStatus, SendsData, SendsRealTime, SysexEnd, Clock, Start,
     Continue, Stop, RealTime
<1>2. MapParse' /\ ParserType'
  BY <1>1 DEF MapInv, MapParse, ParserType
<1>3. sequencerStarted' \in BOOLEAN /\ sequencerStarted \in BOOLEAN
  BY DEF MapRealTime, MapInv, AskedInv
<1>4. State.map = map /\ State.playing = playing /\ Consistent(State)
  BY DEF State, MapInv
<1>5. CASE b = Clock
  <2> DEFINE t == SetMapByte(State, TickByte, sequencerStarted)
  <2>1. /\ Consistent(t) /\ t.playing = playing
        /\ t.map.queue = IF map.queue \in Rows THEN map.queue ELSE TickByte
    BY <1>3, <1>4, TickKeeps
  <2>2. Becomes(t) /\ asked' = asked
    BY <1>5 DEF MapRealTime, Clock, Stop
  <2> HIDE DEF t
  <2>3. Consistent(State)' /\ map' = t.map /\ playing' = t.playing
    BY <2>1, <2>2, BecomesState
  <2>4. AskedInv'
    BY <1>1, <1>3, <1>4, <2>1, <2>2, <2>3, RowFactsHold
       DEF MapInv, AskedInv, NoteUnderWay, RowFacts, Consistent, MapStates, MapType
  <2> QED
    BY <1>2, <2>3, <2>4 DEF MapInv
<1>6. CASE b = Stop
  <2> DEFINE t == SetMapByte(State, StopByte, FALSE)
  <2>1. Consistent(t) /\ t.playing = None
    BY <1>4, StopKeeps
  <2>2. Becomes(t) /\ asked' = None
    <3>1. b # Clock
      BY <1>6 DEF Clock, Stop
    <3> QED
      BY <1>6, <3>1, Zenon DEF MapRealTime
  <2> HIDE DEF t
  <2>3. Consistent(State)' /\ playing' = None
    BY <2>1, <2>2, BecomesState
  <2>4. AskedInv'
    BY <1>1, <1>3, <2>2, <2>3, RowFactsHold DEF AskedInv, RowFacts
  <2> QED
    BY <1>2, <2>3, <2>4 DEF MapInv
<1>7. CASE b \notin {Clock, Stop}
  <2>1. Becomes(State) /\ asked' = asked
    BY <1>7 DEF MapRealTime
  <2>2. Consistent(State)' /\ map' = map /\ playing' = playing
    BY <1>4, <2>1, BecomesState
  <2>3. AskedInv'
    BY <1>1, <1>3, <2>1, <2>2 DEF MapInv, AskedInv, NoteUnderWay
  <2> QED
    BY <1>2, <2>2, <2>3 DEF MapInv
<1> QED
  BY <1>5, <1>6, <1>7

LEMMA MapStatusKeeps ==
  ASSUME SenderType, ParserType, SharedType, MapInv, NEW b \in Bytes, mode = "map", mode' = mode,
         Sends(b), MapStatus(b)
  PROVE  MapInv' /\ ParserType'
<1>1. State.map = map /\ State.playing = playing /\ Consistent(State)
  BY DEF State, MapInv
<1>2. b \in Statuses \union {SysexEnd, Sensing}
  BY ByteKinds DEF MapStatus, Bytes, RealTime
<1>3. parser' = [parser EXCEPT !.status = b, !.noteOn = TRUE]
  BY DEF MapStatus
<1>4. ParserType'
  BY <1>2, <1>3 DEF ParserType
<1>5. /\ Consistent(State)' /\ playing' = playing
      /\ map'.queue = IF OnChannel(b) THEN None ELSE map.queue
  <2> DEFINE t == IF OnChannel(b) THEN ResetMapCue(State) ELSE State
  <2>1. Consistent(t) /\ t.playing = playing /\ t.map.queue = IF OnChannel(b) THEN None ELSE map.queue
    BY <1>1, ResetMapCueKeeps
  <2>2. Becomes(t)
    BY DEF MapStatus
  <2> HIDE DEF t
  <2> QED
    BY <2>1, <2>2, BecomesState
<1>6. CASE b = Sensing
  <2>1. ~inStep' /\ asked' = Unknown
    BY <1>6 DEF MapStatus
  <2> QED
    BY <1>4, <1>5, <2>1, RowFactsHold
       DEF MapInv, MapParse, AskedInv, MapStatus, RowFacts, None, Unknown
<1>7. CASE b # Sensing
  <2>1. inStep' /\ asked' = asked /\ sequencerStarted' = sequencerStarted
    BY <1>7 DEF MapStatus
  <2>2. SendsStatus(b) \/ (b = SysexEnd /\ SendsSysexEnd)
    BY <1>2, <1>7, ByteKinds DEF Sends, SendsData, SendsRealTime, RealTime, MapStatus
  <2>3. \/ sender'.status = b /\ b \in Statuses /\ (b \in Notes => sender'.left = 2)
        \/ sender'.status = 0 /\ b = SysexEnd
    BY <2>2 DEF SendsStatus, SendsSysexEnd, Length, Notes, NoteOn, NoteOn2, NoteOff, NoteOff2, Program,
       SysexBegin
  <2>4. sender.left = 0
    BY <2>2 DEF SendsStatus, SendsSysexEnd, Idle
  <2>5. parser'.status = b /\ parser'.noteOn
    BY <1>3 DEF ParserType
  <2>6. MapParse'
    BY <2>3, <2>5 DEF MapParse, Notes, NoteOn, NoteOn2, NoteOff, NoteOff2, SysexEnd
  <2>7. OnChannel(b) => NoteUnderWay'
    BY <2>1, <2>3 DEF NoteUnderWay, OnChannel, Notes, SysexEnd, NoteOn, NoteOn2
  <2>8. AskedInv'
    BY <1>5, <2>1, <2>4, <2>7, RowFactsHold DEF MapInv, AskedInv, NoteUnderWay, RowFacts
  <2> QED
    BY <1>4, <1>5, <2>6, <2>8 DEF MapInv
<1> QED
  BY <1>6, <1>7

LEMMA MapKeyKeeps ==
  ASSUME SenderType, ParserType, SharedType, MapInv, NEW b \in Bytes, mode = "map", mode' = mode,
         Sends(b), MapKey(b)
  PROVE  MapInv' /\ ParserType'
<1>1. State.map = map /\ State.playing = playing /\ Consistent(State)
  BY DEF State, MapInv
<1>2. b \in Data
  BY ByteKinds DEF MapKey, Bytes
<1>3. parser' = [parser EXCEPT !.key = b, !.noteOn = FALSE] /\ parser.noteOn
  BY DEF MapKey
<1>4. ParserType'
  BY <1>2, <1>3 DEF ParserType
<1>5. /\ Consistent(State)' /\ playing' = playing
      /\ map'.queue = IF OnChannel(parser.status) THEN None ELSE map.queue
  <2> DEFINE t == IF OnChannel(parser.status) THEN ResetMapCue(State) ELSE State
  <2>1. /\ Consistent(t) /\ t.playing = playing
        /\ t.map.queue = IF OnChannel(parser.status) THEN None ELSE map.queue
    BY <1>1, ResetMapCueKeeps
  <2>2. Becomes(t)
    BY DEF MapKey
  <2> HIDE DEF t
  <2> QED
    BY <2>1, <2>2, BecomesState
<1>6. inStep' = inStep /\ asked' = asked /\ sequencerStarted' = sequencerStarted
  BY DEF MapKey
<1>7. /\ sender'.status = sender.status
      /\ sender.status \in Notes =>
           IF sender.left = 1 THEN sender'.left = 0 ELSE sender'.left = 1 /\ sender'.key = b
  BY <1>2, NoteProgress
<1>8. parser'.status = parser.status /\ ~parser'.noteOn /\ parser'.key = b
  BY <1>3 DEF ParserType
<1>9. MapParse'
  BY <1>3, <1>6, <1>7, <1>8 DEF MapInv, MapParse
<1>10. AskedInv'
  <2>1. CASE ~inStep
    BY <1>5, <1>6, <2>1, RowFactsHold DEF MapInv, AskedInv, NoteUnderWay, RowFacts
  <2>2. CASE inStep /\ OnChannel(parser.status)
    <3>1. sender.status = parser.status /\ sender.status \in Notes /\ sender'.left = 1
      BY <1>3, <1>7, <2>2 DEF MapInv, MapParse, OnChannel, Notes
    <3>2. NoteUnderWay'
      BY <1>6, <1>7, <2>2, <3>1 DEF NoteUnderWay
    <3> QED
      BY <1>5, <1>6, <3>2, <2>2, RowFactsHold DEF MapInv, AskedInv, RowFacts
  <2>3. CASE inStep /\ ~OnChannel(parser.status)
    <3>1. ~NoteUnderWay
      BY <2>3 DEF NoteUnderWay, MapInv, MapParse, OnChannel, Notes
    <3> QED
      BY <1>5, <1>6, <2>3, <3>1 DEF MapInv, AskedInv
  <2> QED
    BY <2>1, <2>2, <2>3
<1> QED
  BY <1>4, <1>5, <1>9, <1>10 DEF MapInv

(* The byte a message stands for is a note's number or the stop.           *)
LEMMA MapByteKinds ==
  ASSUME NEW status, NEW key \in Data, NEW velocity
  PROVE  MapByte(status, key, velocity) \in Numbers \union {StopByte}
BY DEF MapByte, Numbers

LEMMA MapVelocityKeeps ==
  ASSUME SenderType, ParserType, SharedType, MapInv, NEW b \in Bytes, mode = "map", mode' = mode,
         Sends(b), MapVelocity(b)
  PROVE  MapInv' /\ ParserType'
<1>1. State.map = map /\ State.playing = playing /\ Consistent(State)
  BY DEF State, MapInv
<1>2. b \in Data
  BY ByteKinds DEF MapVelocity, Bytes
<1>3. parser' = [parser EXCEPT !.noteOn = TRUE] /\ ~parser.noteOn
  BY DEF MapVelocity
<1>4. ParserType' /\ parser'.status = parser.status /\ parser'.noteOn
  BY <1>3 DEF ParserType
<1>5. inStep' = inStep /\ sequencerStarted' = sequencerStarted /\ sequencerStarted \in BOOLEAN
  BY DEF MapVelocity, MapInv, AskedInv
<1>6. /\ sender'.status = sender.status
      /\ sender.status \in Notes =>
           IF sender.left = 1 THEN sender'.left = 0 ELSE sender'.left = 1 /\ sender'.key = b
  BY <1>2, NoteProgress
<1>7. MapParse'
  BY <1>3, <1>4, <1>5, <1>6 DEF MapInv, MapParse
<1> DEFINE byte == MapByte(parser.status, parser.key, b)
           u == IF parser.status \in Notes THEN SetMapByte(State, byte, sequencerStarted) ELSE State
           t == CheckMapQueue(u)
<1>8. byte \in Numbers \union {StopByte} /\ byte \in Rows \union {TickByte, StopByte}
  <2> HIDE DEF byte
  <2>1. byte \in Numbers \union {StopByte}
    BY MapByteKinds DEF ParserType, byte
  <2> QED
    BY <2>1, RowFactsHold DEF RowFacts
<1>9. Becomes(t)
  BY DEF MapVelocity, Notes
<1>10. /\ Consistent(u)
       /\ parser.status \in Notes /\ byte = StopByte => u.playing = None \/ u.map.queue = u.playing
       /\ parser.status \in Notes /\ byte \in Rows => u.playing = byte /\ u.map.queue = None
       /\ parser.status \notin Notes => u.playing = playing /\ u.map.queue = map.queue
  <2> HIDE DEF byte
  <2> QED
    BY <1>1, <1>5, <1>8, StopKeeps, RowKeeps, TickKeeps, RowFactsHold DEF RowFacts
<1> HIDE DEF u
<1>11. /\ Consistent(t)
       /\ \/ t = u
          \/ u.map.queue \notin Rows /\ t.playing = u.playing /\ t.map.queue = None
          \/ u.map.queue \in Rows /\ t.playing = None /\ t.map.queue = None
  BY <1>10, CheckMapQueueKeeps
<1> HIDE DEF t
<1>12. Consistent(State)' /\ map' = t.map /\ playing' = t.playing
  BY <1>9, <1>11, BecomesState
<1>13. AskedInv'
  <2>1. CASE ~inStep
    <3>1. asked' = Unknown
      BY <2>1 DEF MapVelocity
    <3> QED
      BY <1>5, <3>1, <2>1, RowFactsHold DEF AskedInv, RowFacts, None, Unknown
  <2>2. CASE inStep /\ parser.status \in Notes
    <3>1. sender.status = parser.status /\ sender.key = parser.key /\ sender'.left = 0
      BY <1>3, <1>6, <2>2 DEF MapInv, MapParse
    <3>2. /\ asked' = byte \/ (asked' = None /\ byte = StopByte)
          /\ asked' = None => byte = StopByte
          /\ asked' # None => asked' \in Numbers
      <4>1. Ends(parser.status)
        BY <3>1, <1>6 DEF Ends
      <4>2. asked' = IF b = 0 \/ ~OnChannel(parser.status) THEN None ELSE byte
        BY <2>2, <3>1, <4>1 DEF MapVelocity, Notes
      <4>3. IF b = 0 \/ ~OnChannel(parser.status) THEN byte = StopByte ELSE byte \in Numbers
        BY DEF MapByte, Numbers, ParserType
      <4> HIDE DEF byte
      <4> QED
        BY <1>8, <4>2, <4>3, RowFactsHold DEF RowFacts, None, StopByte
    <3> HIDE DEF byte
    <3>3. CASE asked' = None
      <4>1. byte = StopByte
        BY <3>2, <3>3
      <4>2. playing' = None \/ map'.queue = playing'
        BY <1>10, <1>11, <1>12, <2>2, <4>1 DEF Consistent, MapStates, MapType
      <4> QED
        BY <1>5, <3>3, <4>2, <2>2, RowFactsHold DEF AskedInv, RowFacts, None, Unknown
    <3>4. CASE asked' # None /\ byte \in Rows
      <4>1. asked' = byte /\ asked' \in Numbers
        BY <3>2, <3>4, RowFactsHold DEF RowFacts
      <4>2. playing' = byte /\ map'.queue = None
        BY <1>10, <1>11, <1>12, <2>2, <3>4, RowFactsHold DEF RowFacts
      <4> QED
        BY <1>5, <4>1, <4>2, <3>4, <2>2, RowFactsHold DEF AskedInv, RowFacts
    <3>5. CASE asked' # None /\ byte \notin Rows
      <4>1. asked' = byte /\ byte \in {TickByte, StopByte}
        BY <1>8, <3>2, <3>5
      <4>2. asked' \notin Rows /\ asked' \in Numbers \union {StopByte}
        BY <1>8, <3>5, <4>1
      <4>3. asked' \in Numbers
        BY <3>2, <3>5
      <4> QED
        BY <1>5, <4>2, <4>3, <3>5, <2>2 DEF AskedInv
    <3> QED
      BY <3>3, <3>4, <3>5
  <2>3. CASE inStep /\ parser.status \notin Notes
    <3>1. sender.status \notin Notes
      BY <2>3 DEF MapInv, MapParse
    <3>2. asked' = asked
      BY <2>3, <3>1 DEF MapVelocity, Ends, Notes
    <3>3. ~NoteUnderWay
      BY <3>1 DEF NoteUnderWay, OnChannel, Notes
    <3>4. asked \in Rows => playing' = asked /\ map'.queue \notin Rows
      BY <1>10, <1>11, <1>12, <2>3, RowFactsHold DEF MapInv, AskedInv, RowFacts
    <3>5. asked = None => playing' = None \/ map'.queue = playing'
      <4> SUFFICES ASSUME asked = None PROVE playing' = None \/ map'.queue = playing'
        OBVIOUS
      <4>1. playing = None \/ map.queue = playing
        BY <3>3 DEF MapInv, AskedInv
      <4>2. playing \in Rows \union {None}
        BY <1>1 DEF Consistent, MapStates, MapType
      <4> QED
        BY <1>10, <1>11, <1>12, <2>3, <4>1, <4>2
    <3> QED
      BY <1>5, <2>3, <3>2, <3>4, <3>5 DEF MapInv, AskedInv
  <2> QED
    BY <2>1, <2>2, <2>3
<1> QED
  BY <1>4, <1>7, <1>12, <1>13 DEF MapInv

(* The idle turn of the loop, and the passing of time.                     *)
LEMMA MapFlushKeeps ==
  ASSUME MapInv, MapFlush
  PROVE  MapInv'
<1>1. State.map = map /\ State.playing = playing /\ Consistent(State)
  BY DEF State, MapInv
<1> DEFINE t == CheckMapQueue(State)
<1>2. /\ Consistent(t)
      /\ \/ t = State
         \/ map.queue \notin Rows /\ t.playing = playing /\ t.map.queue = None
         \/ map.queue \in Rows /\ t.playing = None /\ t.map.queue = None
  BY <1>1, CheckMapQueueKeeps
<1>3. Becomes(t)
  BY DEF MapFlush
<1> HIDE DEF t
<1>4. Consistent(State)' /\ map' = t.map /\ playing' = t.playing
  BY <1>2, <1>3, BecomesState
<1>5. MapParse'
  BY DEF MapFlush, MapInv, MapParse
<1>6. playing \in Rows \union {None}
  BY <1>1 DEF Consistent, MapStates, MapType
<1>7. AskedInv'
  BY <1>1, <1>2, <1>4, <1>6, RowFactsHold DEF MapFlush, MapInv, AskedInv, NoteUnderWay, RowFacts
<1> QED
  BY <1>4, <1>5, <1>7 DEF MapInv

LEMMA MapTickKeeps ==
  ASSUME MapInv, MapTick
  PROVE  MapInv'
<1>1. map \in MapType
  BY DEF MapInv, Consistent, State, MapStates
<1>2. map' = [map EXCEPT !.age = @ + 1] /\ map.age + 1 \in 0 .. Wait + 1
  BY <1>1, AssumptionsHold DEF MapTick, MapType, Assumptions
<1>3. map'.row = map.row /\ map'.queue = map.queue
  BY <1>1, <1>2 DEF MapType
<1>4. map' \in MapType
  BY <1>1, <1>2 DEF MapType
<1>5. Consistent(State)'
  BY <1>3, <1>4 DEF MapInv, Consistent, State, MapStates, MapTick
<1>6. MapParse' /\ AskedInv'
  BY <1>3 DEF MapTick, MapInv, MapParse, AskedInv, NoteUnderWay
<1> QED
  BY <1>5, <1>6 DEF MapInv

--------------------------------------------------------------------------------
(* Keyboard mode: the parser, and where LSDJ is.                           *)

(* While the parser is in step it waits for a program number exactly when  *)
(* one is due, and for a velocity exactly when it has the note's key.      *)
KeyParse ==
  (mode = "keyboard" /\ inStep) =>
    /\ parser.program <=> (sender.status = Program /\ sender.left = 1)
    /\ parser.program => parser.status = NoteOn
    /\ sender.status \in {NoteOff, NoteOff2, Control, Program} => ~parser.noteOn
    /\ sender.status \in {NoteOn, NoteOn2} =>
         /\ parser.noteOn /\ parser.status = sender.status
         /\ sender.left = 1 => parser.key = sender.key /\ parser.key # 0
         /\ sender.left # 1 => parser.key = 0

(* The device knows where LSDJ is, and has put it where it was wanted, but *)
(* for an instrument that USB asked for.                                   *)
KeyPlace ==
  (mode = "keyboard" /\ compat /\ reached) =>
    /\ lsdj.oct = last.oct /\ lsdj.ins = last.ins
    /\ wanted.oct = lsdj.oct
    /\ wanted.usb \/ wanted.ins = lsdj.ins

KeyInv == KeyboardType /\ KeyParse /\ KeyPlace

Octave(key) == (key - NoteStart) \div 12

LEMMA OctaveInRange ==
  ASSUME NEW key \in 0 .. 127, key >= NoteStart
  PROVE  Octave(key) \in 0 .. 6
BY DEF Octave, NoteStart, StartOctave

LEMMA WithinRange ==
  ASSUME NEW x \in Int, NEW top \in Nat
  PROVE  Within(x, top) \in 0 .. top /\ (x \in 0 .. top => Within(x, top) = x)
BY DEF Within

(* So many keys take LSDJ to an octave in range, and to the one meant when *)
(* it is where the device thinks it is.                                    *)
LEMMA OctaveKeysReach ==
  ASSUME NEW l \in Settings, NEW keys \in Int
  PROVE  LET k == OctaveKeys(l, keys) IN
         /\ k \in Settings /\ k.ins = l.ins
         /\ l.oct + keys \in 0 .. TopOctave => k.oct = l.oct + keys
<1> DEFINE x == Within(l.oct + keys, TopOctave)
           k == OctaveKeys(l, keys)
<1>1. x \in 0 .. TopOctave /\ (l.oct + keys \in 0 .. TopOctave => x = l.oct + keys)
  <2>1. l.oct + keys \in Int /\ TopOctave \in Nat
    BY AssumptionsHold DEF Settings, Assumptions
  <2> QED
    BY <2>1, WithinRange
<1>2. k = [l EXCEPT !.oct = x]
  BY DEF OctaveKeys
<1> HIDE DEF x, k
<1>3. k \in Settings /\ k.oct = x /\ k.ins = l.ins
  BY <1>1, <1>2 DEF Settings
<1> QED
  BY <1>1, <1>3 DEF k

LEMMA InstrumentKeysReach ==
  ASSUME NEW l \in Settings, NEW keys \in Int
  PROVE  LET k == InstrumentKeys(l, keys) IN
         /\ k \in Settings /\ k.oct = l.oct
         /\ l.ins + keys \in 0 .. TopInstrument => k.ins = l.ins + keys
<1> DEFINE x == Within(l.ins + keys, TopInstrument)
           k == InstrumentKeys(l, keys)
<1>1. x \in 0 .. TopInstrument /\ (l.ins + keys \in 0 .. TopInstrument => x = l.ins + keys)
  <2>1. l.ins + keys \in Int /\ TopInstrument \in Nat
    BY AssumptionsHold DEF Settings, Assumptions
  <2> QED
    BY <2>1, WithinRange
<1>2. k = [l EXCEPT !.ins = x]
  BY DEF InstrumentKeys
<1> HIDE DEF x, k
<1>3. k \in Settings /\ k.ins = x /\ k.oct = l.oct
  BY <1>1, <1>2 DEF Settings
<1> QED
  BY <1>1, <1>3 DEF k

(* LSDJ and the code's memory of it come to an octave, unless that is above *)
(* LSDJ's last.                                                            *)
Reaches(oct) ==
  /\ reached' \in BOOLEAN /\ (reached' => reached)
  /\ lsdj' \in Settings /\ lsdj'.ins = lsdj.ins
  /\ last' \in [oct : 0 .. 6 \union 179 .. 185, ins : Data] /\ last'.ins = last.ins
  /\ (compat /\ reached' /\ lsdj.oct = last.oct) => lsdj'.oct = last'.oct /\ lsdj'.oct = oct

(* What playing a note does.                                               *)
LEMMA PlayLSDJNoteReaches ==
  ASSUME KeyboardType, NEW status, NEW note \in 0 .. 127, NEW velocity \in 0 .. 127,
         PlayLSDJNote(status, note, velocity)
  PROVE  Reaches(IF status = NoteOn /\ velocity > 0 /\ note >= NoteStart THEN Octave(note) ELSE lsdj.oct)
<1>1. CASE status = NoteOn /\ velocity > 0 /\ note >= NoteStart
  <2> DEFINE oct == Octave(note)
             past == IF compat \/ oct = last.oct THEN oct ELSE 179 + oct
             keys == oct - last.oct
  <2>1. oct \in 0 .. 6
    BY <1>1, OctaveInRange
  <2>2. ChangeLSDJOctave(oct)
    BY <1>1 DEF PlayLSDJNote, Octave
  <2> HIDE DEF oct
  <2>reach. reached' \in BOOLEAN /\ (reached' => reached /\ oct <= TopOctave)
    BY <2>2, Zenon DEF ChangeLSDJOctave
  <2>3. last' = [last EXCEPT !.oct = past]
    BY <2>2 DEF ChangeLSDJOctave, KeyboardType
  <2>4. lsdj' = IF compat THEN OctaveKeys(lsdj, keys) ELSE lsdj
    BY <2>2 DEF ChangeLSDJOctave
  <2>5. past \in 0 .. 6 \union 179 .. 185 /\ keys \in Int /\ (compat => past = oct)
    BY <2>1 DEF KeyboardType
  <2>6. lsdj.oct = last.oct => lsdj.oct + keys = oct
    BY <2>1 DEF KeyboardType, Settings
  <2>in. reached' => oct \in 0 .. TopOctave
    BY <2>1, <2>reach, AssumptionsHold DEF Assumptions
  <2> HIDE DEF past, keys
  <2>7. /\ last' \in [oct : 0 .. 6 \union 179 .. 185, ins : Data]
        /\ last'.ins = last.ins /\ last'.oct = past
    BY <2>3, <2>5 DEF KeyboardType
  <2>8. /\ lsdj' \in Settings /\ lsdj'.ins = lsdj.ins
        /\ (compat /\ reached' /\ lsdj.oct = last.oct) => lsdj'.oct = oct
    BY <2>4, <2>5, <2>6, <2>in, OctaveKeysReach DEF KeyboardType
  <2> QED
    BY <1>1, <2>reach, <2>5, <2>7, <2>8 DEF oct, Reaches
<1>2. CASE ~(status = NoteOn /\ velocity > 0 /\ note >= NoteStart)
  <2>1. lsdj' = lsdj /\ last' = last /\ reached' = reached
    BY <1>2 DEF PlayLSDJNote
  <2> QED
    BY <1>2, <2>1 DEF KeyboardType, Reaches
<1> QED
  BY <1>1, <1>2

(* What a program change does to the instrument.                           *)
LEMMA ChangeLSDJInstrumentReaches ==
  ASSUME KeyboardType, NEW status, NEW ins \in Data, ChangeLSDJInstrument(status, ins)
  PROVE  /\ reached' \in BOOLEAN /\ (reached' => reached)
         /\ lsdj' \in Settings /\ lsdj'.oct = lsdj.oct
         /\ last' \in [oct : 0 .. 6 \union 179 .. 185, ins : Data] /\ last'.oct = last.oct
         /\ (compat /\ reached' /\ lsdj.ins = last.ins) =>
              lsdj'.ins = last'.ins /\ lsdj'.ins = IF status = NoteOn THEN ins ELSE lsdj.ins
<1>1. CASE status = NoteOn
  <2> DEFINE keys == ins - last.ins
  <2>1. reached' = (reached /\ ins <= TopInstrument)
    BY <1>1, Zenon DEF ChangeLSDJInstrument
  <2>2. last' = [last EXCEPT !.ins = ins] /\ lsdj' = IF compat THEN InstrumentKeys(lsdj, keys) ELSE lsdj
    BY <1>1 DEF ChangeLSDJInstrument
  <2>3. ins \in 0 .. 127 /\ last.ins \in 0 .. 127 /\ keys \in Int
    BY ByteKinds DEF KeyboardType
  <2>4. lsdj.ins = last.ins => lsdj.ins + keys = ins
    BY <2>3
  <2>5. reached' => reached /\ ins \in 0 .. TopInstrument
    <3>1. reached' => reached /\ ins <= TopInstrument
      BY <2>1, Zenon
    <3>2. ins <= TopInstrument => ins \in 0 .. TopInstrument
      BY <2>3, AssumptionsHold DEF Assumptions
    <3> QED
      BY <3>1, <3>2
  <2> HIDE DEF keys
  <2>6. /\ last' \in [oct : 0 .. 6 \union 179 .. 185, ins : Data]
        /\ last'.oct = last.oct /\ last'.ins = ins
    BY <2>2 DEF KeyboardType
  <2>7. /\ lsdj' \in Settings /\ lsdj'.oct = lsdj.oct
        /\ (compat /\ reached' /\ lsdj.ins = last.ins) => lsdj'.ins = ins
    BY <2>2, <2>3, <2>4, <2>5, InstrumentKeysReach DEF KeyboardType
  <2>8. reached' \in BOOLEAN
    BY <2>1, Zenon
  <2> QED
    BY <1>1, <2>5, <2>6, <2>7, <2>8
<1>2. CASE status # NoteOn
  <2>1. lsdj' = lsdj /\ last' = last /\ reached' = reached
    BY <1>2 DEF ChangeLSDJInstrument
  <2> QED
    BY <1>2, <2>1 DEF KeyboardType
<1> QED
  BY <1>1, <1>2

(* To want what LSDJ is set to.                                            *)
LEMMA WishType ==
  ASSUME NEW l \in Settings
  PROVE  Wish(l) \in Wishes /\ Wish(l).oct = l.oct /\ Wish(l).ins = l.ins
BY AssumptionsHold DEF Wish, Wishes, Settings, Assumptions

(* What is wanted stays in its type.                                       *)
LEMMA WantsType ==
  ASSUME KeyboardType, SenderType, NEW b \in Data, lsdj' \in Settings, Wants(b)
  PROVE  wanted' \in Wishes
<1>1. CASE ~inStep'
  BY <1>1, WishType DEF Wants
<1>2. CASE inStep' /\ Ends(NoteOn) /\ b > 0 /\ sender.key >= NoteStart
  <2>1. sender.key \in 0 .. 127
    BY ByteKinds DEF SenderType
  <2>2. Octave(sender.key) \in 0 .. 6
    BY <1>2, <2>1, OctaveInRange
  <2>3. wanted' = [wanted EXCEPT !.oct = Octave(sender.key)]
    BY <1>2 DEF Wants, Octave
  <2> QED
    BY <2>2, <2>3 DEF KeyboardType, Wishes
<1>3. CASE inStep' /\ ~(Ends(NoteOn) /\ b > 0 /\ sender.key >= NoteStart)
  <2>1. wanted' = IF Ends(Program) THEN [wanted EXCEPT !.ins = b, !.usb = FALSE] ELSE wanted
    BY <1>3 DEF Wants
  <2>2. b \in 0 .. 127
    BY ByteKinds
  <2>3. wanted \in Wishes
    BY DEF KeyboardType, Wishes
  <2>4. [wanted EXCEPT !.ins = b, !.usb = FALSE] \in Wishes
    BY <2>2, <2>3 DEF Wishes
  <2> QED
    BY <2>1, <2>3, <2>4, Zenon
<1> QED
  BY <1>1, <1>2, <1>3

(* The steps of keyboard mode's parser.                                    *)

LEMMA KeyboardStatusKeeps ==
  ASSUME SenderType, ParserType, KeyInv, NEW b \in Bytes, mode = "keyboard", mode' = mode,
         Sends(b), KeyboardStatus(b)
  PROVE  KeyInv' /\ ParserType'
<1>1. b \in {NoteOff, NoteOff2, NoteOn, NoteOn2, Program, Control}
  BY ByteKinds DEF KeyboardStatus, Bytes, Statuses, SysexBegin, SysexEnd, RealTime, Clock, Start,
     Continue, Stop, Sensing
<1>2. SendsStatus(b)
  BY <1>1, ByteKinds
     DEF Sends, SendsData, SendsRealTime, SysexEnd, Statuses, RealTime, NoteOff, NoteOff2, NoteOn,
         NoteOn2, Program, Control, Clock, Start, Continue, Stop, Sensing
<1>3. sender' = [status |-> b, left |-> Length(b), key |-> 0]
  BY <1>2 DEF SendsStatus
<1>4. sender'.status = b /\ sender'.left = IF b = Program THEN 1 ELSE 2
  BY <1>1, <1>3 DEF Length, NoteOff, NoteOff2, NoteOn, NoteOn2, Program, Control, SysexBegin
<1>5. /\ b \in {NoteOn, NoteOn2} =>
           parser' = [parser EXCEPT !.noteOn = TRUE, !.status = b, !.key = 0]
      /\ b = Program =>
           parser' = [parser EXCEPT !.program = TRUE, !.noteOn = FALSE, !.status = NoteOn]
      /\ b \in {NoteOff, NoteOff2, Control} => parser' = [parser EXCEPT !.noteOn = FALSE]
  <2>1. b \in {NoteOn, NoteOn2} => b # Program
    BY DEF NoteOn, NoteOn2, Program
  <2>2. Program \notin {NoteOn, NoteOn2} /\ Program - 48 = NoteOn
    BY DEF NoteOn, NoteOn2, Program
  <2>3. b \in {NoteOff, NoteOff2, Control} => b \notin {NoteOn, NoteOn2, Program}
    BY DEF NoteOff, NoteOff2, NoteOn, NoteOn2, Program, Control
  <2>4. parser' = CASE b \in {NoteOn, NoteOn2} ->
                         [parser EXCEPT !.noteOn = TRUE, !.status = b, !.key = 0]
                    [] b = Program ->
                         [parser EXCEPT !.program = TRUE, !.noteOn = FALSE, !.status = b - 48]
                    [] OTHER -> [parser EXCEPT !.noteOn = FALSE]
    BY DEF KeyboardStatus
  <2>5. CASE b \in {NoteOn, NoteOn2}
    BY <2>1, <2>3, <2>4, <2>5
  <2>6. CASE b = Program
    BY <2>2, <2>3, <2>4, <2>6
  <2>7. CASE b \in {NoteOff, NoteOff2, Control}
    BY <2>7, <2>1, <2>2, <2>3, <2>4
  <2> QED
    BY <1>1, <2>5, <2>6, <2>7
<1>6. ParserType'
  <2>1. 0 \in Data /\ b \in Statuses /\ NoteOn \in Statuses
    BY <1>1, AssumptionsHold DEF Statuses, Assumptions
  <2> QED
    BY <1>1, <1>5, <2>1 DEF ParserType
<1>7. inStep' => b = Program \/ ~parser.program
  BY DEF KeyboardStatus
<1>8. KeyParse'
  <2>1. CASE b \in {NoteOn, NoteOn2}
    <3>1. parser'.noteOn /\ parser'.status = b /\ parser'.key = 0 /\ parser'.program = parser.program
      BY <1>5, <2>1 DEF ParserType
    <3> QED
      BY <1>4, <1>7, <2>1, <3>1 DEF KeyParse, NoteOff, NoteOff2, NoteOn, NoteOn2, Program, Control
  <2>2. CASE b = Program
    <3>1. ~parser'.noteOn /\ parser'.status = NoteOn /\ parser'.program
      BY <1>5, <2>2 DEF ParserType
    <3> QED
      BY <1>4, <2>2, <3>1 DEF KeyParse, NoteOn, NoteOn2, Program
  <2>3. CASE b \in {NoteOff, NoteOff2, Control}
    <3>1. ~parser'.noteOn /\ parser'.program = parser.program
      BY <1>5, <2>3 DEF ParserType
    <3> QED
      BY <1>4, <1>7, <2>3, <3>1 DEF KeyParse, NoteOff, NoteOff2, NoteOn, NoteOn2, Program, Control
  <2> QED
    BY <1>1, <2>1, <2>2, <2>3
<1>9. KeyboardType' /\ KeyPlace'
  BY DEF KeyboardStatus, KeyInv, KeyboardType, KeyPlace, keyboardVars
<1> QED
  BY <1>6, <1>8, <1>9 DEF KeyInv

(* Bytes from 240 on: begin and end of a system exclusive message, and     *)
(* real-time bytes.                                                        *)
LEMMA KeyboardSystemKeeps ==
  ASSUME SenderType, ParserType, KeyInv, NEW b \in Bytes, mode = "keyboard", mode' = mode,
         Sends(b), KeyboardSystem(b)
  PROVE  KeyInv' /\ ParserType'
<1>1. parser' = parser /\ inStep' = inStep /\ UNCHANGED keyboardVars
  BY DEF KeyboardSystem
<1>2. \/ sender' = sender
      \/ sender.left = 0 /\ sender'.status \in {0, SysexBegin}
  <2>1. CASE SendsStatus(b)
    <3>1. b = SysexBegin
      BY <2>1 DEF SendsStatus, KeyboardSystem, Statuses, NoteOff, NoteOff2, NoteOn, NoteOn2, Program,
         Control, SysexBegin
    <3> QED
      BY <2>1, <3>1 DEF SendsStatus, Idle
  <2>2. CASE SendsData(b)
    BY <2>2, ByteKinds DEF SendsData, KeyboardSystem
  <2>3. CASE SendsRealTime(b)
    BY <2>3 DEF SendsRealTime
  <2>4. CASE SendsSysexEnd
    BY <2>4 DEF SendsSysexEnd, Idle
  <2> QED
    BY <2>1, <2>2, <2>3, <2>4 DEF Sends
<1>3. KeyParse'
  BY <1>1, <1>2 DEF KeyInv, KeyParse, NoteOff, NoteOff2, NoteOn, NoteOn2, Program, Control, SysexBegin
<1>4. ParserType' /\ KeyboardType' /\ KeyPlace'
  BY <1>1 DEF KeyInv, KeyboardType, KeyPlace, keyboardVars, ParserType
<1> QED
  BY <1>3, <1>4 DEF KeyInv

(* What a data byte means for the sender, and that it ends a note or a     *)
(* program change only where one was due.                                  *)
LEMMA DataProgress ==
  ASSUME SenderType, NEW b \in Data, Sends(b)
  PROVE  /\ sender'.status = sender.status /\ sender.status # 0
         /\ sender.status \in {NoteOn, NoteOn2} =>
              IF sender.left = 1 THEN sender'.left = 0
              ELSE sender'.left = 1 /\ sender'.key = b
         /\ sender.status = Program /\ sender.left = 1 => sender'.left = 0
<1>1. SendsData(b)
  BY ByteKinds DEF Sends, SendsStatus, SendsRealTime, SysexEnd
<1>2. sender.status = Program /\ sender.left = 1 => sender'.left = 0
  BY <1>1 DEF SendsData, SenderType, Idle
<1> QED
  BY <1>1, <1>2, NoteProgress DEF Notes, SendsData

(* A step that leaves LSDJ alone, and ends nothing, leaves what is wanted. *)
LEMMA NothingWanted ==
  ASSUME KeyInv, SenderType, NEW b \in Data, UNCHANGED <<mode, compat, last, lsdj, reached>>, Wants(b),
         inStep' => ~Ends(NoteOn) /\ ~Ends(Program)
  PROVE  KeyboardType' /\ KeyPlace'
<1>1. wanted' = wanted \/ wanted' = Wish(lsdj)
  BY DEF Wants
<1>2. wanted' \in Wishes
  BY WantsType DEF KeyInv, KeyboardType
<1>3. Wish(lsdj).oct = lsdj.oct /\ Wish(lsdj).ins = lsdj.ins
  BY WishType DEF KeyInv, KeyboardType
<1> QED
  BY <1>1, <1>2, <1>3 DEF KeyInv, KeyboardType, KeyPlace

LEMMA KeyboardKeyKeeps ==
  ASSUME SenderType, ParserType, KeyInv, NEW b \in Bytes, mode = "keyboard", mode' = mode,
         Sends(b), KeyboardKey(b)
  PROVE  KeyInv' /\ ParserType'
<1>1. b \in Data
  BY ByteKinds DEF KeyboardKey, Bytes
<1>2. parser' = [parser EXCEPT !.key = b] /\ parser.noteOn /\ parser.key = 0
  BY DEF KeyboardKey
<1>3. ParserType' /\ parser'.key = b /\ parser'.noteOn = parser.noteOn
      /\ parser'.status = parser.status /\ parser'.program = parser.program
  BY <1>1, <1>2 DEF ParserType
<1>4. inStep' => inStep /\ b # 0 /\ sender.status # SysexBegin
  BY DEF KeyboardKey
<1>5. /\ sender'.status = sender.status /\ sender.status # 0
      /\ sender.status \in {NoteOn, NoteOn2} =>
           IF sender.left = 1 THEN sender'.left = 0 ELSE sender'.left = 1 /\ sender'.key = b
  BY <1>1, DataProgress
<1>6. inStep' => sender.status \in {NoteOn, NoteOn2} /\ sender.left # 1
  <2> SUFFICES ASSUME inStep' PROVE sender.status \in {NoteOn, NoteOn2} /\ sender.left # 1
    OBVIOUS
  <2>1. sender.status \in {NoteOff, NoteOff2, Control, Program, NoteOn, NoteOn2}
    BY <1>4, <1>5 DEF SenderType, Statuses
  <2> QED
    BY <1>2, <1>4, <2>1 DEF KeyInv, KeyParse
<1>7. KeyParse'
  BY <1>2, <1>3, <1>4, <1>5, <1>6
     DEF KeyInv, KeyParse, NoteOff, NoteOff2, NoteOn, NoteOn2, Program, Control
<1>8. inStep' => ~Ends(NoteOn) /\ ~Ends(Program)
  BY <1>5, <1>6 DEF Ends, NoteOn, NoteOn2, Program
<1>9. KeyboardType' /\ KeyPlace'
  BY <1>1, <1>8, NothingWanted DEF KeyboardKey
<1> QED
  BY <1>3, <1>7, <1>9 DEF KeyInv

LEMMA KeyboardIgnoreKeeps ==
  ASSUME SenderType, ParserType, KeyInv, NEW b \in Bytes, mode = "keyboard", mode' = mode,
         Sends(b), KeyboardIgnore(b)
  PROVE  KeyInv' /\ ParserType'
<1>1. b \in Data
  BY ByteKinds DEF KeyboardIgnore, Bytes
<1>2. parser' = parser /\ ~parser.noteOn /\ ~parser.program
  BY DEF KeyboardIgnore
<1>3. inStep' => inStep /\ sender.status # Program
  BY DEF KeyboardIgnore
<1>4. sender'.status = sender.status
  BY <1>1, DataProgress
<1>5. inStep' => sender.status \notin {NoteOn, NoteOn2, Program}
  BY <1>2, <1>3 DEF KeyInv, KeyParse
<1>6. KeyParse' /\ ParserType'
  BY <1>2, <1>3, <1>4, <1>5 DEF KeyInv, KeyParse, ParserType
<1>7. inStep' => ~Ends(NoteOn) /\ ~Ends(Program)
  BY <1>5 DEF Ends
<1>8. KeyboardType' /\ KeyPlace'
  BY <1>1, <1>7, NothingWanted DEF KeyboardIgnore
<1> QED
  BY <1>6, <1>8 DEF KeyInv

LEMMA KeyboardVelocityKeeps ==
  ASSUME SenderType, ParserType, KeyInv, NEW b \in Bytes, mode = "keyboard", mode' = mode,
         Sends(b), KeyboardVelocity(b)
  PROVE  KeyInv' /\ ParserType'
<1>1. b \in Data
  BY ByteKinds DEF KeyboardVelocity, Bytes
<1>2. parser' = [parser EXCEPT !.key = 0] /\ parser.noteOn /\ parser.key # 0
  BY DEF KeyboardVelocity
<1>3. ParserType' /\ parser'.key = 0 /\ parser'.noteOn = parser.noteOn
      /\ parser'.status = parser.status /\ parser'.program = parser.program
  <2>1. 0 \in Data
    BY AssumptionsHold DEF Assumptions
  <2> QED
    BY <1>2, <2>1 DEF ParserType
<1>4. inStep' => inStep /\ sender.status # SysexBegin
  BY DEF KeyboardVelocity
<1>5. /\ sender'.status = sender.status /\ sender.status # 0
      /\ sender.status \in {NoteOn, NoteOn2} /\ sender.left = 1 => sender'.left = 0
  BY <1>1, DataProgress
<1>6. inStep' => /\ sender.status \in {NoteOn, NoteOn2} /\ sender.left = 1
                 /\ parser.status = sender.status /\ parser.key = sender.key
  <2> SUFFICES ASSUME inStep'
               PROVE  /\ sender.status \in {NoteOn, NoteOn2} /\ sender.left = 1
                      /\ parser.status = sender.status /\ parser.key = sender.key
    OBVIOUS
  <2>1. sender.status \in {NoteOff, NoteOff2, Control, Program, NoteOn, NoteOn2}
    BY <1>4, <1>5 DEF SenderType, Statuses
  <2> QED
    BY <1>2, <1>4, <2>1 DEF KeyInv, KeyParse
<1>7. KeyParse'
  BY <1>2, <1>3, <1>4, <1>5, <1>6
     DEF KeyInv, KeyParse, NoteOff, NoteOff2, NoteOn, NoteOn2, Program, Control
<1>8. /\ reached' \in BOOLEAN /\ (reached' => reached)
      /\ lsdj' \in Settings /\ lsdj'.ins = lsdj.ins
      /\ last' \in [oct : 0 .. 6 \union 179 .. 185, ins : Data] /\ last'.ins = last.ins
      /\ (compat /\ reached' /\ lsdj.oct = last.oct) =>
           /\ lsdj'.oct = last'.oct
           /\ lsdj'.oct = IF parser.status = NoteOn /\ b > 0 /\ parser.key >= NoteStart
                          THEN Octave(parser.key) ELSE lsdj.oct
  <2>1. parser.key \in 0 .. 127 /\ b \in 0 .. 127
    BY <1>1, ByteKinds DEF ParserType
  <2>2. PlayLSDJNote(parser.status, parser.key, b)
    BY DEF KeyboardVelocity
  <2>3. Reaches(IF parser.status = NoteOn /\ b > 0 /\ parser.key >= NoteStart
                THEN Octave(parser.key) ELSE lsdj.oct)
    BY <2>1, <2>2, PlayLSDJNoteReaches, Zenon DEF KeyInv
  <2> QED
    BY <2>3 DEF Reaches
<1>9. Wants(b) /\ compat' = compat
  BY DEF KeyboardVelocity
<1>10. KeyboardType'
  BY <1>1, <1>8, <1>9, WantsType DEF KeyInv, KeyboardType
<1>11. KeyPlace'
  <2> SUFFICES ASSUME compat, reached'
               PROVE  /\ lsdj'.oct = last'.oct /\ lsdj'.ins = last'.ins
                      /\ wanted'.oct = lsdj'.oct
                      /\ wanted'.usb \/ wanted'.ins = lsdj'.ins
    BY <1>9 DEF KeyPlace
  <2>1. /\ lsdj.oct = last.oct /\ lsdj.ins = last.ins
        /\ wanted.oct = lsdj.oct
        /\ wanted.usb \/ wanted.ins = lsdj.ins
    BY <1>8 DEF KeyInv, KeyPlace
  <2>2. wanted'.oct = lsdj'.oct /\ (wanted'.usb \/ wanted'.ins = lsdj'.ins)
    <3>1. CASE ~inStep'
      BY <1>8, <1>9, <3>1, WishType DEF Wants
    <3>2. CASE inStep' /\ parser.status = NoteOn /\ b > 0 /\ parser.key >= NoteStart
      <4>1. Ends(NoteOn) /\ sender.key = parser.key
        BY <1>5, <1>6, <3>2 DEF Ends
      <4>2. wanted' = [wanted EXCEPT !.oct = Octave(parser.key)]
        BY <1>9, <3>2, <4>1 DEF Wants, Octave
      <4> QED
        BY <1>8, <2>1, <3>2, <4>2 DEF KeyInv, KeyboardType, Wishes
    <3>3. CASE inStep' /\ ~(parser.status = NoteOn /\ b > 0 /\ parser.key >= NoteStart)
      <4>1. ~(Ends(NoteOn) /\ b > 0 /\ sender.key >= NoteStart) /\ ~Ends(Program)
        BY <1>6, <3>3 DEF Ends, NoteOn, NoteOn2, Program
      <4>2. wanted' = wanted
        BY <1>9, <3>3, <4>1 DEF Wants
      <4> QED
        BY <1>8, <2>1, <3>3, <4>2
    <3> QED
      BY <3>1, <3>2, <3>3
  <2> QED
    BY <1>8, <2>1, <2>2
<1> QED
  BY <1>3, <1>7, <1>10, <1>11 DEF KeyInv

LEMMA KeyboardProgramKeeps ==
  ASSUME SenderType, ParserType, KeyInv, NEW b \in Bytes, mode = "keyboard", mode' = mode,
         Sends(b), KeyboardProgram(b), inStep \in BOOLEAN
  PROVE  KeyInv' /\ ParserType'
<1>1. b \in Data
  BY ByteKinds DEF KeyboardProgram, Bytes
<1>2. parser' = [parser EXCEPT !.program = FALSE, !.status = 0] /\ ~parser.noteOn /\ parser.program
  BY DEF KeyboardProgram
<1>3. ParserType' /\ ~parser'.noteOn /\ ~parser'.program
  BY <1>2 DEF ParserType
<1>4. inStep' = inStep /\ Wants(b) /\ compat' = compat
  BY DEF KeyboardProgram
<1>5. inStep' => sender.status = Program /\ sender.left = 1 /\ parser.status = NoteOn
  BY <1>2, <1>4 DEF KeyInv, KeyParse
<1>6. /\ sender'.status = sender.status
      /\ sender.status = Program /\ sender.left = 1 => sender'.left = 0
  BY <1>1, DataProgress
<1>7. KeyParse'
  BY <1>3, <1>4, <1>5, <1>6 DEF KeyParse, NoteOn, NoteOn2, Program
<1>8. /\ reached' \in BOOLEAN /\ (reached' => reached)
      /\ lsdj' \in Settings /\ lsdj'.oct = lsdj.oct
      /\ last' \in [oct : 0 .. 6 \union 179 .. 185, ins : Data] /\ last'.oct = last.oct
      /\ (compat /\ reached' /\ lsdj.ins = last.ins) =>
           lsdj'.ins = last'.ins /\ lsdj'.ins = IF parser.status = NoteOn THEN b ELSE lsdj.ins
  <2>1. ChangeLSDJInstrument(parser.status, b)
    BY DEF KeyboardProgram
  <2> QED
    BY <1>1, <2>1, ChangeLSDJInstrumentReaches DEF KeyInv
<1>9. KeyboardType'
  BY <1>1, <1>4, <1>8, WantsType DEF KeyInv, KeyboardType
<1>10. KeyPlace'
  <2> SUFFICES ASSUME compat, reached'
               PROVE  /\ lsdj'.oct = last'.oct /\ lsdj'.ins = last'.ins
                      /\ wanted'.oct = lsdj'.oct
                      /\ wanted'.usb \/ wanted'.ins = lsdj'.ins
    BY <1>4 DEF KeyPlace
  <2>1. lsdj.oct = last.oct /\ lsdj.ins = last.ins /\ wanted.oct = lsdj.oct
    BY <1>8 DEF KeyInv, KeyPlace
  <2>2. wanted'.oct = lsdj'.oct /\ (wanted'.usb \/ wanted'.ins = lsdj'.ins)
    <3>1. CASE ~inStep'
      BY <1>4, <1>8, <3>1, WishType DEF Wants
    <3>2. CASE inStep'
      <4>1. Ends(Program) /\ ~Ends(NoteOn) /\ parser.status = NoteOn
        BY <1>5, <1>6, <3>2 DEF Ends, Program, NoteOn
      <4>2. wanted' = [wanted EXCEPT !.ins = b, !.usb = FALSE]
        BY <1>4, <3>2, <4>1 DEF Wants
      <4> QED
        BY <1>8, <2>1, <4>1, <4>2 DEF KeyInv, KeyboardType, Wishes
    <3> QED
      BY <3>1, <3>2
  <2> QED
    BY <1>8, <2>1, <2>2
<1> QED
  BY <1>3, <1>7, <1>9, <1>10 DEF KeyInv

(* A message from USB comes whole and past the parser.                     *)
LEMMA KeyboardUsbKeeps ==
  ASSUME KeyInv, NEW status, NEW d1 \in UsbNotes, NEW d2 \in Data, mode = "keyboard",
         KeyboardUsb(status, d1, d2), UNCHANGED <<mode, sender>>
  PROVE  KeyInv'
<1>1. KeyParse'
  BY DEF KeyboardUsb, KeyInv, KeyParse
<1>2. compat' = compat /\ d1 \in 0 .. 127 /\ d2 \in 0 .. 127
  BY ByteKinds, AssumptionsHold DEF KeyboardUsb, Assumptions
<1>3. CASE status = Program
  <2>1. lsdj' = lsdj /\ last' = last /\ reached' = reached
    BY <1>3 DEF KeyboardUsb, ChangeLSDJInstrument, Program, NoteOn
  <2>2. wanted' = [wanted EXCEPT !.ins = d1, !.usb = TRUE]
    BY <1>3 DEF KeyboardUsb
  <2>3. /\ wanted.oct = wanted'.oct /\ wanted'.usb
        /\ KeyInv => wanted' \in Wishes
    BY <1>2, <2>2 DEF KeyInv, KeyboardType, Wishes
  <2>4. KeyboardType'
    BY <1>2, <2>1, <2>3 DEF KeyInv, KeyboardType
  <2>5. KeyPlace'
    BY <1>2, <2>1, <2>3 DEF KeyInv, KeyPlace
  <2> QED
    BY <1>1, <2>4, <2>5 DEF KeyInv
<1>4. CASE status # Program
  <2> DEFINE velocity == IF status = NoteOff THEN 0 ELSE d2
             plays == velocity > 0 /\ d1 >= NoteStart
  <2>1. PlayLSDJNote(NoteOn, d1, velocity) /\ velocity \in 0 .. 127
    BY <1>2, <1>4 DEF KeyboardUsb
  <2>2. wanted' = IF plays THEN [wanted EXCEPT !.oct = Octave(d1)] ELSE wanted
    BY <1>2, <1>4 DEF KeyboardUsb, Octave, NoteOn, NoteOff, Program
  <2> HIDE DEF velocity
  <2>3. /\ reached' \in BOOLEAN /\ (reached' => reached)
        /\ lsdj' \in Settings /\ lsdj'.ins = lsdj.ins
        /\ last' \in [oct : 0 .. 6 \union 179 .. 185, ins : Data] /\ last'.ins = last.ins
        /\ (compat /\ reached' /\ lsdj.oct = last.oct) =>
             lsdj'.oct = last'.oct /\ lsdj'.oct = IF plays THEN Octave(d1) ELSE lsdj.oct
    <3>1. Reaches(IF NoteOn = NoteOn /\ plays THEN Octave(d1) ELSE lsdj.oct)
      BY <1>2, <2>1, PlayLSDJNoteReaches, Zenon DEF KeyInv
    <3> QED
      BY <3>1 DEF Reaches
  <2>4. plays => Octave(d1) \in 0 .. 6
    BY <1>2, OctaveInRange
  <2> HIDE DEF plays
  <2>5. /\ wanted' \in Wishes /\ wanted'.ins = wanted.ins /\ wanted'.usb = wanted.usb
        /\ wanted'.oct = IF plays THEN Octave(d1) ELSE wanted.oct
    BY <2>2, <2>4 DEF KeyInv, KeyboardType, Wishes
  <2>6. KeyboardType'
    BY <1>2, <2>3, <2>5 DEF KeyInv, KeyboardType
  <2>7. KeyPlace'
    BY <1>2, <2>3, <2>5 DEF KeyInv, KeyPlace
  <2> QED
    BY <1>1, <2>6, <2>7 DEF KeyInv
<1> QED
  BY <1>3, <1>4

--------------------------------------------------------------------------------
(* Every step keeps the invariant.                                         *)

IndInv == SharedType /\ SenderType /\ ParserType /\ MapInv /\ KeyInv

(* At the start nothing is kept and nothing plays.                         *)
LEMMA InitIndInv == Init => IndInv
<1> SUFFICES ASSUME Init PROVE IndInv
  OBVIOUS
<1>1. SharedType
  BY DEF Init, SharedInit, SharedType
<1>2. SenderType /\ ParserType
  BY AssumptionsHold DEF Init, SharedInit, SenderType, ParserType, Assumptions
<1>3. MapInv
  <2>1. map \in MapType
    BY AssumptionsHold DEF Init, MapInit, MapType, Assumptions
  <2>2. Consistent(State)
    BY <2>1, RowFactsHold DEF Init, MapInit, Consistent, State, MapStates, RowFacts
  <2>3. MapParse
    BY DEF Init, SharedInit, MapParse
  <2>4. AskedInv
    BY RowFactsHold DEF Init, SharedInit, MapInit, AskedInv, RowFacts, None, Unknown
  <2> QED
    BY <2>2, <2>3, <2>4 DEF MapInv
<1>4. KeyInv
  <2>1. First \in Settings /\ 0 \in Data
    BY AssumptionsHold DEF First, Settings, Assumptions
  <2>2. KeyboardType
    BY <2>1, WishType DEF Init, KeyboardInit, KeyboardType, First
  <2>3. KeyParse /\ KeyPlace
    BY DEF Init, SharedInit, KeyParse, KeyPlace
  <2> QED
    BY <2>2, <2>3 DEF KeyInv
<1> QED
  BY <1>1, <1>2, <1>3, <1>4 DEF IndInv

(* A byte in map mode.                                                     *)
LEMMA ReceiveInMapKeeps ==
  ASSUME IndInv, NEW b \in Bytes, ReceiveInMap(b), visited' = visited
  PROVE  IndInv'
<1>1. mode = "map" /\ mode' = mode /\ Sends(b) /\ UNCHANGED keyboardVars
  BY DEF ReceiveInMap
<1>2. SenderType'
  BY <1>1, SenderStep DEF IndInv
<1>3. MapInv' /\ ParserType'
  <2>1. CASE MapRealTime(b)
    BY <1>1, <2>1, MapRealTimeKeeps DEF IndInv
  <2>2. CASE MapStatus(b)
    BY <1>1, <2>2, MapStatusKeeps DEF IndInv
  <2>3. CASE MapKey(b)
    BY <1>1, <2>3, MapKeyKeeps DEF IndInv
  <2>4. CASE MapVelocity(b)
    BY <1>1, <2>4, MapVelocityKeeps DEF IndInv
  <2> QED
    BY <2>1, <2>2, <2>3, <2>4 DEF ReceiveInMap, MapReceive
<1>4. KeyInv'
  BY <1>1 DEF IndInv, KeyInv, KeyboardType, KeyParse, KeyPlace, keyboardVars
<1>5. SharedType'
  <2>1. inStep' = inStep \/ inStep' = (b # Sensing)
    BY Zenon DEF ReceiveInMap, MapReceive, MapRealTime, MapStatus, MapKey, MapVelocity
  <2>2. inStep' \in BOOLEAN
    BY <2>1, Zenon DEF IndInv, SharedType
  <2> QED
    BY <1>1, <2>2 DEF IndInv, SharedType
<1> QED
  BY <1>2, <1>3, <1>4, <1>5 DEF IndInv

(* A byte in keyboard mode.                                                *)
LEMMA ReceiveInKeyboardKeeps ==
  ASSUME IndInv, NEW b \in Bytes, ReceiveInKeyboard(b), visited' = visited
  PROVE  IndInv'
<1>1. mode = "keyboard" /\ mode' = mode /\ Sends(b) /\ UNCHANGED mapVars /\ inStep \in BOOLEAN
  BY DEF ReceiveInKeyboard, IndInv, SharedType
<1>2. SenderType'
  BY <1>1, SenderStep DEF IndInv
<1>3. KeyInv' /\ ParserType'
  <2>1. CASE KeyboardStatus(b)
    BY <1>1, <2>1, KeyboardStatusKeeps DEF IndInv
  <2>2. CASE KeyboardSystem(b)
    BY <1>1, <2>2, KeyboardSystemKeeps DEF IndInv
  <2>key. CASE KeyboardKey(b)
    BY <1>1, <2>key, KeyboardKeyKeeps DEF IndInv
  <2>4. CASE KeyboardVelocity(b)
    BY <1>1, <2>4, KeyboardVelocityKeeps DEF IndInv
  <2>5. CASE KeyboardProgram(b)
    BY <1>1, <2>5, KeyboardProgramKeeps DEF IndInv
  <2>6. CASE KeyboardIgnore(b)
    BY <1>1, <2>6, KeyboardIgnoreKeeps DEF IndInv
  <2> QED
    BY <2>1, <2>2, <2>key, <2>4, <2>5, <2>6 DEF ReceiveInKeyboard, KeyboardReceive
<1>4. MapInv'
  <2>1. asked = Unknown
    BY <1>1 DEF IndInv, MapInv, AskedInv
  <2> QED
    BY <1>1, <2>1, RowFactsHold
       DEF IndInv, MapInv, Consistent, State, MapParse, AskedInv, mapVars, RowFacts, None, Unknown
<1>5. SharedType'
  <2>1. \/ inStep' = inStep
        \/ inStep' = (b = Program \/ ~parser.program)
        \/ inStep' = (inStep /\ b # 0 /\ sender.status # SysexBegin)
        \/ inStep' = (inStep /\ sender.status # SysexBegin)
        \/ inStep' = (inStep /\ sender.status # Program)
    BY Zenon DEF ReceiveInKeyboard, KeyboardReceive, KeyboardStatus, KeyboardSystem, KeyboardKey,
       KeyboardVelocity, KeyboardProgram, KeyboardIgnore
  <2>2. inStep' \in BOOLEAN
    BY <1>1, <2>1, Zenon
  <2> QED
    BY <1>1, <2>2 DEF IndInv, SharedType
<1> QED
  BY <1>2, <1>3, <1>4, <1>5 DEF IndInv

(* The invariant says nothing of other modes but the types.                *)
LEMMA ReceiveElsewhereKeeps ==
  ASSUME IndInv, NEW b \in Bytes, ReceiveElsewhere(b), visited' = visited
  PROVE  IndInv'
<1>1. mode = "other" /\ mode' = mode /\ Sends(b) /\ inStep' = inStep /\ UNCHANGED <<mapVars, keyboardVars>>
  BY DEF ReceiveElsewhere
<1>2. SenderType' /\ SharedType'
  BY <1>1, SenderStep DEF IndInv, SharedType
<1>3. ParserType'
  <2>1. b < 128 => b \in Data
    BY ByteKinds DEF Bytes
  <2>2. parser' \in {parser,
                     [parser EXCEPT !.noteOn = ~@],
                     IF b < 128 THEN [parser EXCEPT !.key = b]
                     ELSE IF b \in Statuses THEN [parser EXCEPT !.status = b, !.noteOn = TRUE]
                     ELSE parser}
    BY DEF ReceiveElsewhere
  <2>3. [parser EXCEPT !.noteOn = ~@] \in
          [status : {0} \union Statuses \union {Sensing, SysexEnd},
           key : Data, noteOn : BOOLEAN, program : BOOLEAN]
    BY DEF IndInv, ParserType
  <2> QED
    BY <2>1, <2>2, <2>3 DEF IndInv, ParserType
<1>4. MapInv'
  <2>1. asked = Unknown
    BY <1>1 DEF IndInv, MapInv, AskedInv
  <2> QED
    BY <1>1, <2>1, RowFactsHold
       DEF IndInv, MapInv, Consistent, State, MapParse, AskedInv, mapVars, RowFacts, None, Unknown
<1>5. KeyInv'
  BY <1>1 DEF IndInv, KeyInv, KeyboardType, KeyParse, KeyPlace, keyboardVars
<1> QED
  BY <1>2, <1>3, <1>4, <1>5 DEF IndInv

(* A change of mode.                                                       *)
LEMMA ChangeModeKeeps ==
  ASSUME IndInv, ChangeMode, visited' = visited
  PROVE  IndInv'
<1>1. inStep' = FALSE /\ asked' = Unknown /\ UNCHANGED <<parser, sender, map, playing>>
  BY DEF ChangeMode
<1>2. SenderType' /\ ParserType'
  BY <1>1 DEF IndInv, SenderType, ParserType
<1>3. SharedType'
  <2>1. mode' \in {visited, "other"}
    BY DEF ChangeMode, EnterMap, EnterKeyboard, EnterOther
  <2> QED
    BY <1>1, <2>1 DEF IndInv, SharedType
<1>4. MapInv'
  <2>1. sequencerStarted' \in BOOLEAN
    <3>1. sequencerStarted \in BOOLEAN
      BY DEF IndInv, MapInv, AskedInv
    <3> QED
      BY <3>1, Zenon DEF ChangeMode
  <2> QED
    BY <1>1, <2>1, RowFactsHold
       DEF IndInv, MapInv, Consistent, State, MapParse, AskedInv, RowFacts, None, Unknown
<1>5. KeyInv'
  <2>1. KeyParse'
    BY <1>1 DEF KeyParse
  <2>2. First \in Settings /\ First \in [oct : 0 .. 6 \union 179 .. 185, ins : Data]
    BY AssumptionsHold DEF First, Settings, Assumptions
  <2>wish. Wish(First) \in Wishes /\ Wish(First).oct = First.oct /\ Wish(First).ins = First.ins
    BY <2>2, WishType
  <2>3. CASE EnterMap
    BY <2>1, <2>3 DEF EnterMap, IndInv, KeyInv, KeyboardType, KeyPlace, keyboardVars
  <2>4. CASE EnterKeyboard
    <3>1. KeyboardSetup
      BY <2>4 DEF EnterKeyboard
    <3>2. PICK l \in {0, TopOctave} \X {0, TopInstrument} :
            lsdj' = InstrumentKeys(OctaveKeys([oct |-> l[1], ins |-> l[2]], -5), -41)
      BY <3>1 DEF KeyboardSetup
    <3>3. lsdj' \in Settings
      <4>1. Within(l[1] + (-5), TopOctave) \in 0 .. TopOctave
            /\ Within(l[2] + (-41), TopInstrument) \in 0 .. TopInstrument
        BY AssumptionsHold DEF Within, Assumptions
      <4>2. OctaveKeys([oct |-> l[1], ins |-> l[2]], -5) =
              [oct |-> Within(l[1] + (-5), TopOctave), ins |-> l[2]]
        BY DEF OctaveKeys
      <4>3. lsdj' = [oct |-> Within(l[1] + (-5), TopOctave), ins |-> Within(l[2] + (-41), TopInstrument)]
        BY <3>2, <4>2 DEF InstrumentKeys
      <4> QED
        BY <4>1, <4>3 DEF Settings
    <3>4. compat' \in BOOLEAN /\ last' = First /\ wanted' = Wish(First)
      BY <3>1 DEF KeyboardSetup
    <3>5. reached' \in BOOLEAN /\ (reached' => lsdj' = First)
      BY <3>1, Zenon DEF KeyboardSetup
    <3> QED
      BY <2>1, <2>2, <2>wish, <3>3, <3>4, <3>5 DEF KeyInv, KeyboardType, KeyPlace
  <2>5. CASE EnterOther
    BY <2>1, <2>2, <2>wish, <2>5 DEF EnterOther, KeyboardLeft, KeyInv, KeyboardType, KeyPlace
  <2> QED
    BY <2>3, <2>4, <2>5 DEF ChangeMode
<1> QED
  BY <1>2, <1>3, <1>4, <1>5 DEF IndInv

(* Every step keeps the invariant.                                         *)
LEMMA StepIndInv == IndInv /\ [Next]_vars => IndInv'
<1> SUFFICES ASSUME IndInv, [Next]_vars PROVE IndInv'
  OBVIOUS
<1>1. ASSUME NEW b \in Bytes, ReceiveInMap(b), visited' = visited PROVE IndInv'
  BY <1>1, ReceiveInMapKeeps
<1>2. ASSUME NEW b \in Bytes, ReceiveInKeyboard(b), visited' = visited PROVE IndInv'
  BY <1>2, ReceiveInKeyboardKeeps
<1>3. ASSUME NEW b \in Bytes, ReceiveElsewhere(b), visited' = visited PROVE IndInv'
  BY <1>3, ReceiveElsewhereKeeps
<1>4. ASSUME NEW status \in {NoteOff, NoteOn, Program}, NEW d1 \in UsbNotes, NEW d2 \in Data,
             ReceiveUsb(status, d1, d2), visited' = visited
      PROVE  IndInv'
  <2>1. mode = "keyboard" /\ KeyboardUsb(status, d1, d2) /\ UNCHANGED <<mode, sender, mapVars>>
    BY <1>4 DEF ReceiveUsb
  <2>2. KeyInv'
    BY <2>1, KeyboardUsbKeeps DEF IndInv
  <2>3. parser' = parser /\ inStep' = inStep
    BY <2>1 DEF KeyboardUsb
  <2> QED
    BY <1>4, <2>1, <2>2, <2>3
       DEF IndInv, SharedType, SenderType, ParserType, MapInv, Consistent, State, MapParse, AskedInv,
           NoteUnderWay, mapVars
<1>5. CASE ChangeMode /\ visited' = visited
  BY <1>5, ChangeModeKeeps
<1>6. CASE Flush /\ visited' = visited
  <2>1. MapInv'
    BY <1>6, MapFlushKeeps DEF Flush, IndInv
  <2> QED
    BY <1>6, <2>1
       DEF Flush, MapFlush, IndInv, SharedType, SenderType, ParserType, KeyInv, KeyboardType, KeyParse,
           KeyPlace, keyboardVars
<1>7. CASE Tick /\ visited' = visited
  <2>1. MapInv'
    BY <1>7, MapTickKeeps DEF Tick, IndInv
  <2> QED
    BY <1>7, <2>1
       DEF Tick, MapTick, IndInv, SharedType, SenderType, ParserType, KeyInv, KeyboardType, KeyParse,
           KeyPlace, keyboardVars
<1>8. CASE UNCHANGED vars
  BY <1>8 DEF vars, mapVars, keyboardVars, IndInv, SharedType, SenderType, ParserType, MapInv,
     Consistent, State, MapParse, AskedInv, NoteUnderWay, KeyInv, KeyboardType, KeyParse, KeyPlace
<1> QED
  BY <1>1, <1>2, <1>3, <1>4, <1>5, <1>6, <1>7, <1>8 DEF Next

(* The invariant holds in every reachable state.                           *)
THEOREM IndInvHolds == Spec => []IndInv
BY InitIndInv, StepIndInv, PTL DEF Spec

(* The variables of both modes keep their types; in particular the queue   *)
(* of map mode never holds a stop byte, and the octave the device          *)
(* remembers is one that a note asked for.                                 *)
THEOREM TypeCorrect == Spec => []TypeOK
<1>1. IndInv => TypeOK
  BY DEF IndInv, SharedType, SenderType, ParserType, MapInv, Consistent, State, MapStates, MapType,
     AskedInv, KeyInv, KeyboardType, Wishes, TypeOK
<1> QED
  BY <1>1, IndInvHolds, PTL

(* LSDJ plays the row the last note asked for, and a queued stop never     *)
(* stops another row or gets lost, for every delay of the queue and all    *)
(* 128 notes.  Of notes 126 and 127 of the second channel it says nothing: *)
(* they stand for no row, and come out as a stop and a tick.               *)
THEOREM RowIsAsked == Spec => []RowIsTheOneAsked
<1>1. IndInv => RowIsTheOneAsked
  <2> SUFFICES ASSUME IndInv, mode = "map", inStep, Idle
               PROVE  /\ asked \in Rows => playing = asked
                      /\ asked = None => playing = None \/ map.queue = playing
    BY DEF RowIsTheOneAsked
  <2>1. ~NoteUnderWay
    BY DEF NoteUnderWay, Idle
  <2> QED
    BY <2>1 DEF IndInv, MapInv, AskedInv
<1> QED
  BY <1>1, IndInvHolds, PTL

(* LSDJ is in the octave of the last note and on the instrument of the     *)
(* last program change, for every number of octaves and instruments LSDJ   *)
(* may have: until a note or a program above the last of them, and, of the *)
(* instrument, unless the last program change came from USB.               *)
THEOREM LsdjFollowsWithinRange == Spec => []LsdjFollows
<1>1. IndInv => LsdjFollows
  <2> SUFFICES ASSUME IndInv, mode = "keyboard", compat, reached
               PROVE  lsdj.oct = wanted.oct /\ (wanted.usb \/ lsdj.ins = wanted.ins)
    BY DEF LsdjFollows
  <2> QED
    BY DEF IndInv, KeyInv, KeyPlace
<1> QED
  BY <1>1, IndInvHolds, PTL

================================================================================
