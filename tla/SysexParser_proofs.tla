-------------------------- MODULE SysexParser_proofs --------------------------
(***************************************************************************)
(* Proofs about the sysex parser, for every size of the buffer, every set  *)
(* of settings, the editor on either port, any messages of other senders,  *)
(* and any number of messages.                                             *)
(*                                                                         *)
(* What must be known beside the types is how the buffer stands to a       *)
(* message that has come through alone so far.  A lemma says what one byte *)
(* does; a port's step is up to three of them.                             *)
(***************************************************************************)
EXTENDS SysexParser, TLAPS, SequenceTheorems

DeviceType ==
  [receiving : BOOLEAN, position : 0 .. Longest, data : [Read -> Bytes],
   memory : [mode : Bytes, delay : Bytes],
   programming : BOOLEAN, connected : BOOLEAN, scanning : BOOLEAN]

WantedType == [memory : [mode : Bytes, delay : Bytes], programming : BOOLEAN]

Messages == Others \union EditorMessages

Framed(m) == <<Begin>> \o m \o <<End>>

(* The port has sent n bytes of the message.                               *)
Midway(s, m, n) ==
  /\ m \in Messages /\ n \in 0 .. Len(m) + 1
  /\ s = [message |-> m, left |-> SubSeq(Framed(m), n + 1, Len(m) + 2)]

(* The device has taken, since the last Begin, just the first n bytes of m.*)
Tracks(d, m, n) ==
  IF n <= Longest
  THEN /\ d.receiving /\ d.position = n
       /\ \A k \in Read : k < n => d.data[k] = m[k + 1]
  ELSE ~d.receiving

SendingInv ==
  /\ sending = [p \in Ports |-> sending[p]]
  /\ \A p \in Ports :
       sending[p] # Silent =>
         \E m \in Messages : \E n \in 0 .. Len(m) + 1 :
           /\ Midway(sending[p], m, n)
           /\ clear = p => n > 0 /\ Tracks(device, m, n - 1)

Types ==
  /\ device \in DeviceType /\ wanted \in WantedType
  /\ sent \in 0 .. MaxMessages /\ clear \in Ports \union {"none"} /\ blamed \in BOOLEAN
  /\ clear # "none" => sending[clear] # Silent

IndInv == Types /\ SendingInv /\ Obeyed /\ ScanEnds

(* What the assumptions say of the constants.                              *)
LEMMA Constants ==
  /\ Longest \in Nat /\ Longest >= 6
  /\ Values \subseteq Bytes
  /\ Ports = {"din", "usb"} /\ EditorPort \in Ports
  /\ MaxMessages \in Nat
BY LongestAssumption, ValuesAssumption, EditorPortAssumption, MaxMessagesAssumption
   DEF Bytes, Ports

Commands ==
  /\ Id = 105 /\ Begin = 240 /\ End = 247 /\ Clock = 248
  /\ Confirm = 66 /\ Save = 70 /\ Restore = 71 /\ Enter = 72 /\ SetMode = 74 /\ SetDelay = 75
  /\ Dump = 64 /\ Version = 1

(* The values of the commands.                                             *)
LEMMA CommandsHold == Commands
BY DEF Commands, Id, Begin, End, Clock, Confirm, Save, Restore, Enter, SetMode, SetDelay, Dump,
   Version

--------------------------------------------------------------------------------
(* What the parts of getSysexData do.                                      *)

(* clearSysexBuffer changes the buffer and nothing else.                   *)
LEMMA ClearBufferDoes ==
  ASSUME NEW d \in DeviceType
  PROVE  LET e == ClearBuffer(d) IN
         /\ e \in DeviceType
         /\ e.memory = d.memory /\ e.programming = d.programming /\ e.scanning = d.scanning
<1> DEFINE data == [k \in Read |-> IF k < d.position THEN 0 ELSE d.data[k]]
           e == ClearBuffer(d)
<1>1. data \in [Read -> Bytes] /\ 0 \in 0 .. Longest
  BY Constants DEF DeviceType, Bytes
<1>2. e = [d EXCEPT !.data = data, !.position = 0]
  BY DEF ClearBuffer
<1> HIDE DEF data, e
<1>3. /\ e \in DeviceType
      /\ e.memory = d.memory /\ e.programming = d.programming /\ e.scanning = d.scanning
  BY <1>1, <1>2 DEF DeviceType
<1> QED
  BY <1>3 DEF e

(* The dump of the settings changes the buffer and nothing else.           *)
LEMMA SendSettingsDoes ==
  ASSUME NEW d \in DeviceType
  PROVE  LET e == SendSettings(d) IN
         /\ e \in DeviceType /\ e.data[1] = Id
         /\ e.memory = d.memory /\ e.programming = d.programming /\ e.scanning = d.scanning
<1> DEFINE dump == <<Begin, Id, Dump, d.memory.mode, d.memory.delay, End>>
           data == [k \in Read |-> dump[k + 1]]
           e == SendSettings(d)
<1>1. data \in [Read -> Bytes]
  <2>1. dump[1] \in Bytes /\ dump[2] \in Bytes /\ dump[3] \in Bytes /\ dump[4] \in Bytes
    BY CommandsHold DEF DeviceType, Bytes, Commands
  <2>2. \A k \in Read : k + 1 \in {1, 2, 3, 4}
    BY DEF Read
  <2> HIDE DEF dump
  <2> QED
    BY <2>1, <2>2
<1>2. data[1] = Id
  BY DEF Read
<1>3. e = [d EXCEPT !.data = data]
  BY DEF SendSettings
<1> HIDE DEF data, e
<1>4. /\ e \in DeviceType /\ e.data[1] = Id
      /\ e.memory = d.memory /\ e.programming = d.programming /\ e.scanning = d.scanning
  BY <1>1, <1>2, <1>3 DEF DeviceType
<1> QED
  BY <1>4 DEF e

(* After a command of the session the command in the buffer is none that   *)
(* is obeyed at any time.                                                  *)
LEMMA InSessionDoes ==
  ASSUME NEW d \in DeviceType
  PROVE  LET e == InSession(d)
             c == d.data[1]
         IN /\ e \in DeviceType
            /\ e.programming = d.programming /\ e.scanning = d.scanning
            /\ e.memory = CASE c = Save -> [mode |-> d.data[2], delay |-> d.data[3]]
                            [] c = Restore -> Defaults
                            [] OTHER -> d.memory
            /\ IF c \in {Confirm, Save, Restore}
               THEN e.data[1] \notin {Enter, SetMode, SetDelay}
               ELSE e = d
<1> DEFINE e == InSession(d)
           c == d.data[1]
<1> USE CommandsHold DEF Commands
<1>1. d.data[2] \in Bytes /\ d.data[3] \in Bytes
  BY DEF DeviceType, Read
<1>2. CASE c = Confirm /\ d.data[2] = Version
  <2> DEFINE f == IF d.connected THEN d ELSE SendSettings(d)
  <2>1. /\ f \in DeviceType /\ f.data[1] \in {Id, Confirm}
        /\ f.memory = d.memory /\ f.programming = d.programming /\ f.scanning = d.scanning
    BY <1>2, SendSettingsDoes
  <2>2. e = [f EXCEPT !.connected = TRUE]
    BY <1>2 DEF InSession
  <2> HIDE DEF e, f
  <2>3. /\ e \in DeviceType /\ e.data[1] = f.data[1]
        /\ e.memory = f.memory /\ e.programming = f.programming /\ e.scanning = f.scanning
    BY <2>1, <2>2 DEF DeviceType
  <2> QED
    BY <1>2, <2>1, <2>3 DEF e
<1>3. CASE c = Save
  <2> DEFINE m == [mode |-> d.data[2], delay |-> d.data[3]]
             f == [d EXCEPT !.memory = m]
  <2>1. m \in [mode : Bytes, delay : Bytes]
    BY <1>1
  <2> HIDE DEF m
  <2>2. /\ f \in DeviceType /\ f.memory = m
        /\ f.programming = d.programming /\ f.scanning = d.scanning
    BY <2>1 DEF DeviceType
  <2>3. e = SendSettings(f)
    BY <1>3 DEF InSession, m
  <2> HIDE DEF f, e
  <2>4. /\ e \in DeviceType /\ e.data[1] = Id /\ e.memory = m
        /\ e.programming = d.programming /\ e.scanning = d.scanning
    BY <2>2, <2>3, SendSettingsDoes
  <2> QED
    BY <1>3, <2>4 DEF e, m
<1>4. CASE c = Restore
  <2> DEFINE f == [d EXCEPT !.memory = Defaults]
  <2>1. /\ f \in DeviceType /\ f.memory = Defaults
        /\ f.programming = d.programming /\ f.scanning = d.scanning
    BY DEF DeviceType, Defaults, Bytes
  <2>2. e = SendSettings(f)
    BY <1>4 DEF InSession
  <2> HIDE DEF f, e
  <2>3. /\ e \in DeviceType /\ e.data[1] = Id /\ e.memory = Defaults
        /\ e.programming = d.programming /\ e.scanning = d.scanning
    BY <2>1, <2>2, SendSettingsDoes
  <2> QED
    BY <1>4, <2>3 DEF e
<1>5. CASE ~(c = Confirm /\ d.data[2] = Version) /\ c \notin {Save, Restore}
  BY <1>5 DEF InSession
<1> QED
  BY <1>2, <1>3, <1>4, <1>5

(* What the commands that are always obeyed do.                            *)
LEMMA AtAnyTimeDoes ==
  ASSUME NEW d \in DeviceType
  PROVE  LET e == AtAnyTime(d)
             c == d.data[1]
         IN /\ e \in DeviceType /\ e.scanning = d.scanning
            /\ e.programming = (d.programming \/ c = Enter)
            /\ e.memory = CASE c = SetMode -> [d.memory EXCEPT !.mode = d.data[2]]
                            [] c = SetDelay -> [d.memory EXCEPT !.delay = d.data[2]]
                            [] OTHER -> d.memory
<1> DEFINE e == AtAnyTime(d)
           c == d.data[1]
<1> USE CommandsHold DEF Commands
<1>1. d.data[2] \in Bytes /\ d.memory \in [mode : Bytes, delay : Bytes]
  BY DEF DeviceType, Read
<1>2. CASE c = Enter
  <2>1. e = [d EXCEPT !.programming = TRUE]
    BY <1>2 DEF AtAnyTime
  <2> HIDE DEF e
  <2>2. e \in DeviceType /\ e.memory = d.memory /\ e.programming = TRUE /\ e.scanning = d.scanning
    BY <2>1 DEF DeviceType
  <2>3. c # SetMode /\ c # SetDelay
    BY <1>2
  <2>4. e.programming = (d.programming \/ c = Enter)
    BY <1>2, <2>2, Zenon
  <2> QED
    BY <2>2, <2>3, <2>4 DEF e
<1>3. CASE c = SetMode
  <2> DEFINE m == [d.memory EXCEPT !.mode = d.data[2]]
  <2>1. m \in [mode : Bytes, delay : Bytes]
    BY <1>1
  <2>2. e = [d EXCEPT !.memory = m]
    BY <1>3 DEF AtAnyTime, DeviceType
  <2> HIDE DEF m, e
  <2>3. e \in DeviceType /\ e.memory = m /\ e.programming = d.programming /\ e.scanning = d.scanning
    BY <2>1, <2>2 DEF DeviceType
  <2> QED
    BY <1>3, <2>3 DEF m, e, DeviceType
<1>4. CASE c = SetDelay
  <2> DEFINE m == [d.memory EXCEPT !.delay = d.data[2]]
  <2>1. m \in [mode : Bytes, delay : Bytes]
    BY <1>1
  <2>2. e = [d EXCEPT !.memory = m]
    BY <1>4 DEF AtAnyTime, DeviceType
  <2> HIDE DEF m, e
  <2>3. e \in DeviceType /\ e.memory = m /\ e.programming = d.programming /\ e.scanning = d.scanning
    BY <2>1, <2>2 DEF DeviceType
  <2> QED
    BY <1>4, <2>3 DEF m, e, DeviceType
<1>5. CASE c \notin {Enter, SetMode, SetDelay}
  BY <1>5 DEF AtAnyTime, DeviceType
<1> QED
  BY <1>2, <1>3, <1>4, <1>5

(* What a message of the device asks for, from the four bytes read of it.  *)
Means(data, w) ==
  CASE data[1] = Enter -> [w EXCEPT !.programming = TRUE]
    [] data[1] = SetMode -> [w EXCEPT !.memory.mode = data[2]]
    [] data[1] = SetDelay -> [w EXCEPT !.memory.delay = data[2]]
    [] data[1] = Save /\ w.programming -> [w EXCEPT !.memory = [mode |-> data[2], delay |-> data[3]]]
    [] data[1] = Restore /\ w.programming -> [w EXCEPT !.memory = Defaults]
    [] OTHER -> w

(* What a message means is a memory and a session.                         *)
LEMMA MeansGives ==
  ASSUME NEW data \in [Read -> Bytes], NEW w \in WantedType
  PROVE  LET v == Means(data, w)
             c == data[1]
         IN /\ v \in WantedType
            /\ v.programming = (w.programming \/ c = Enter)
            /\ v.memory = CASE c = SetMode -> [w.memory EXCEPT !.mode = data[2]]
                            [] c = SetDelay -> [w.memory EXCEPT !.delay = data[2]]
                            [] c = Save /\ w.programming -> [mode |-> data[2], delay |-> data[3]]
                            [] c = Restore /\ w.programming -> Defaults
                            [] OTHER -> w.memory
<1> DEFINE v == Means(data, w)
           c == data[1]
           Given(m, p) == v = [memory |-> m, programming |-> p]
<1> USE CommandsHold DEF Commands
<1>1. data[2] \in Bytes /\ data[3] \in Bytes /\ w.memory \in [mode : Bytes, delay : Bytes]
      /\ w.programming \in BOOLEAN /\ w = [memory |-> w.memory, programming |-> w.programming]
  BY DEF WantedType, Read
<1>2. CASE c = Enter
  <2>1. v = [memory |-> w.memory, programming |-> TRUE]
    <3>1. v = [w EXCEPT !.programming = TRUE]
      BY <1>2 DEF Means
    <3> HIDE DEF v
    <3> QED
      BY <3>1 DEF WantedType
  <2>2. c # SetMode /\ c # SetDelay /\ c # Save /\ c # Restore
    BY <1>2
  <2> HIDE DEF v
  <2>3. v.programming = (w.programming \/ c = Enter)
    BY <1>2, <2>1, Zenon
  <2>4. v.memory = w.memory /\ v \in WantedType
    BY <1>1, <2>1 DEF WantedType
  <2> QED
    BY <2>2, <2>3, <2>4 DEF v
<1>3. CASE c # Enter
  <2> DEFINE m == CASE c = SetMode -> [w.memory EXCEPT !.mode = data[2]]
                    [] c = SetDelay -> [w.memory EXCEPT !.delay = data[2]]
                    [] c = Save /\ w.programming -> [mode |-> data[2], delay |-> data[3]]
                    [] c = Restore /\ w.programming -> Defaults
                    [] OTHER -> w.memory
  <2>1. v = [memory |-> m, programming |-> w.programming]
    BY <1>1, <1>3 DEF Means, WantedType
  <2>2. m \in [mode : Bytes, delay : Bytes]
    BY <1>1 DEF Defaults, Bytes
  <2> HIDE DEF v, m
  <2>3. v \in WantedType /\ v.memory = m /\ v.programming = w.programming
    BY <1>1, <2>1, <2>2 DEF WantedType
  <2>4. w.programming = (w.programming \/ c = Enter)
    BY <1>1, <1>3
  <2> QED
    BY <2>3, <2>4 DEF v, m
<1> QED
  BY <1>2, <1>3

(* A message of the device, when four bytes of it at least are there, is   *)
(* obeyed as it is meant.                                                  *)
LEMMA GetSysexDataObeys ==
  ASSUME NEW d \in DeviceType, d.data[0] = Id, d.position >= 4,
         NEW w \in WantedType, d.memory = w.memory, d.programming = w.programming
  PROVE  LET e == GetSysexData(d)
             v == Means(d.data, w)
         IN /\ e \in DeviceType /\ e.scanning = d.scanning
            /\ e.memory = v.memory /\ e.programming = v.programming
<1> DEFINE f == [d EXCEPT !.position = 0, !.scanning = @ \/ RunsAway(d)]
           g == IF f.programming THEN InSession(f) ELSE f
           e == GetSysexData(d)
           v == Means(d.data, w)
           c == d.data[1]
<1> USE CommandsHold DEF Commands
<1>1. ~RunsAway(d)
  BY DEF RunsAway, DeviceType
<1>2. /\ f \in DeviceType /\ f.data = d.data /\ f.scanning = d.scanning
      /\ f.memory = w.memory /\ f.programming = w.programming
  <2>1. (d.scanning \/ RunsAway(d)) = d.scanning /\ 0 \in 0 .. Longest
    BY <1>1, Constants DEF DeviceType
  <2>2. f = [d EXCEPT !.position = 0, !.scanning = d.scanning]
    BY <2>1
  <2> HIDE DEF f
  <2> QED
    BY <2>1, <2>2 DEF DeviceType
<1>3. e = AtAnyTime(g)
  BY DEF GetSysexData
<1> HIDE DEF f, e
<1>4. /\ g \in DeviceType /\ g.scanning = d.scanning /\ g.programming = w.programming
      /\ g.memory = CASE c = Save /\ w.programming -> [mode |-> d.data[2], delay |-> d.data[3]]
                      [] c = Restore /\ w.programming -> Defaults
                      [] OTHER -> w.memory
      /\ IF c \in {Confirm, Save, Restore} /\ w.programming
         THEN g.data[1] \notin {Enter, SetMode, SetDelay}
         ELSE g.data = d.data
  <2>1. CASE w.programming
    <3>1. g = InSession(f)
      BY <1>2, <2>1
    <3> HIDE DEF g
    <3>2. /\ g \in DeviceType
          /\ g.programming = f.programming /\ g.scanning = f.scanning
          /\ g.memory = CASE c = Save -> [mode |-> d.data[2], delay |-> d.data[3]]
                          [] c = Restore -> Defaults
                          [] OTHER -> f.memory
          /\ IF c \in {Confirm, Save, Restore}
             THEN g.data[1] \notin {Enter, SetMode, SetDelay}
             ELSE g = f
      BY <1>2, <3>1, InSessionDoes
    <3> QED
      BY <1>2, <2>1, <3>2
  <2>2. CASE ~w.programming
    BY <1>2, <2>2
  <2> QED
    BY <2>1, <2>2
<1> HIDE DEF g
<1>5. /\ v.programming = (w.programming \/ c = Enter)
      /\ v.memory = CASE c = SetMode -> [w.memory EXCEPT !.mode = d.data[2]]
                      [] c = SetDelay -> [w.memory EXCEPT !.delay = d.data[2]]
                      [] c = Save /\ w.programming -> [mode |-> d.data[2], delay |-> d.data[3]]
                      [] c = Restore /\ w.programming -> Defaults
                      [] OTHER -> w.memory
  BY MeansGives DEF DeviceType
<1> HIDE DEF v
<1>6. /\ e \in DeviceType /\ e.scanning = g.scanning
      /\ e.programming = (g.programming \/ g.data[1] = Enter)
      /\ e.memory = CASE g.data[1] = SetMode -> [g.memory EXCEPT !.mode = g.data[2]]
                      [] g.data[1] = SetDelay -> [g.memory EXCEPT !.delay = g.data[2]]
                      [] OTHER -> g.memory
  BY <1>3, <1>4, AtAnyTimeDoes
<1>7. CASE c \in {Confirm, Save, Restore} /\ w.programming
  <2>1. g.data[1] \notin {Enter, SetMode, SetDelay} /\ c \notin {Enter, SetMode, SetDelay}
    BY <1>4, <1>7
  <2>2. e.programming = v.programming
    BY <1>4, <1>5, <1>6, <2>1 DEF WantedType
  <2>3. e.memory = v.memory
    BY <1>4, <1>5, <1>6, <2>1
  <2> QED
    BY <1>4, <1>6, <2>2, <2>3 DEF e, v
<1>8. CASE ~(c \in {Confirm, Save, Restore} /\ w.programming)
  <2>1. g.data = d.data /\ g.memory = w.memory /\ g.programming = w.programming
    BY <1>4, <1>8
  <2>2. e.programming = v.programming
    BY <1>5, <1>6, <2>1
  <2>3. e.memory = v.memory
    BY <1>5, <1>6, <1>8, <2>1
  <2> QED
    BY <1>4, <1>6, <2>2, <2>3 DEF e, v
<1> QED
  BY <1>7, <1>8

(* Whatever is in the buffer, the types stay; other makers' messages       *)
(* change no setting.                                                      *)
LEMMA GetSysexDataTyped ==
  ASSUME NEW d \in DeviceType
  PROVE  LET e == GetSysexData(d) IN
         /\ e \in DeviceType
         /\ d.data[0] # Id =>
              e.memory = d.memory /\ e.programming = d.programming /\ e.scanning = d.scanning
<1> DEFINE f == [d EXCEPT !.position = 0, !.scanning = @ \/ RunsAway(d)]
           g == IF f.programming THEN InSession(f) ELSE f
           e == GetSysexData(d)
<1>1. CASE d.data[0] # Id
  <2>1. e = ClearBuffer(d)
    BY <1>1 DEF GetSysexData
  <2> QED
    BY <2>1, ClearBufferDoes
<1>2. CASE d.data[0] = Id
  <2>1. f \in DeviceType
    <3>1. (d.scanning \/ RunsAway(d)) \in BOOLEAN /\ 0 \in 0 .. Longest
      BY Constants
    <3> DEFINE runs == d.scanning \/ RunsAway(d)
    <3>2. f = [d EXCEPT !.position = 0, !.scanning = runs]
      OBVIOUS
    <3> HIDE DEF f, runs
    <3> QED
      BY <3>1, <3>2 DEF DeviceType, runs
  <2>2. e = AtAnyTime(g)
    BY <1>2 DEF GetSysexData
  <2> HIDE DEF f, e
  <2>3. g \in DeviceType
    BY <2>1, InSessionDoes
  <2> HIDE DEF g
  <2> QED
    BY <1>2, <2>2, <2>3, AtAnyTimeDoes DEF e
<1> QED
  BY <1>1, <1>2

--------------------------------------------------------------------------------
(* What one byte does.                                                     *)

(* A byte of a message is stored, or, when there are too many, ends it.    *)
LEMMA StoringDoes ==
  ASSUME NEW d \in DeviceType, NEW b \in Bytes
  PROVE  LET e == Limited(Stored(d, b)) IN
         /\ e \in DeviceType
         /\ e.memory = d.memory /\ e.programming = d.programming /\ e.scanning = d.scanning
         /\ IF d.position < Longest
            THEN /\ e.receiving = d.receiving /\ e.position = d.position + 1
                 /\ \A k \in Read : e.data[k] = IF k = d.position THEN b ELSE d.data[k]
            ELSE ~e.receiving
<1> DEFINE data == [k \in Read |-> IF k = d.position THEN b ELSE d.data[k]]
           x == Stored(d, b)
           e == Limited(x)
<1>1. data \in [Read -> Bytes]
  BY DEF DeviceType
<1>2. d.position \in 0 .. Longest /\ Longest \in Nat
  BY Constants DEF DeviceType
<1>3. x = [d EXCEPT !.data = data, !.position = d.position + 1]
  BY DEF Stored
<1> HIDE DEF data, x
<1>4. /\ x.position = d.position + 1 /\ x.data = data /\ x.receiving = d.receiving
      /\ x.memory = d.memory /\ x.programming = d.programming /\ x.scanning = d.scanning
  BY <1>3 DEF DeviceType
<1>5. CASE d.position < Longest
  <2>1. e = x
    BY <1>2, <1>4, <1>5 DEF Limited
  <2>2. d.position + 1 \in 0 .. Longest
    BY <1>2, <1>5
  <2>3. x \in DeviceType
    BY <1>1, <1>3, <2>2 DEF DeviceType
  <2> HIDE DEF e
  <2>4. \A k \in Read : data[k] = IF k = d.position THEN b ELSE d.data[k]
    BY DEF data
  <2> QED
    BY <1>4, <1>5, <2>1, <2>3, <2>4 DEF e, x
<1>6. CASE ~(d.position < Longest)
  <2> DEFINE cleared == [k \in Read |-> IF k < x.position THEN 0 ELSE x.data[k]]
  <2>1. cleared \in [Read -> Bytes] /\ 0 \in 0 .. Longest
    BY <1>1, <1>2, <1>4 DEF Bytes
  <2>2. e = [[x EXCEPT !.data = cleared, !.position = 0] EXCEPT !.receiving = FALSE]
    BY <1>2, <1>4, <1>6 DEF Limited, ClearBuffer
  <2> HIDE DEF cleared, e
  <2>3. e \in DeviceType
    BY <1>3, <2>1, <2>2 DEF DeviceType
  <2>4. /\ e.memory = d.memory /\ e.programming = d.programming /\ e.scanning = d.scanning
        /\ e.receiving = FALSE
    BY <1>3, <2>2 DEF DeviceType
  <2> QED
    BY <1>6, <2>3, <2>4 DEF e, x
<1> QED
  BY <1>5, <1>6

Unheard(e, d) == e.memory = d.memory /\ e.programming = d.programming /\ e.scanning = d.scanning

(* Whatever the byte is; only an End has a command carried out.            *)
LEMMA ParseTyped ==
  ASSUME NEW d \in DeviceType, NEW b \in Bytes
  PROVE  /\ Parse(d, b) \in DeviceType
         /\ b # End => Unheard(Parse(d, b), d)
<1> USE CommandsHold DEF Commands
<1>1. CASE b = Begin
  <2> DEFINE e == [d EXCEPT !.receiving = TRUE, !.position = 0]
  <2>1. Parse(d, b) = e
    BY <1>1 DEF Parse, Begun
  <2>2. 0 \in 0 .. Longest
    BY Constants
  <2>3. e \in DeviceType /\ Unheard(e, d)
    BY <2>2 DEF DeviceType, Unheard
  <2> QED
    BY <2>1, <2>3
<1>2. CASE b = End /\ d.receiving
  <2> DEFINE f == [d EXCEPT !.receiving = FALSE]
             g == GetSysexData(f)
             e == [g EXCEPT !.position = 0]
  <2>1. Parse(d, b) = e
    BY <1>2 DEF Parse
  <2>2. f \in DeviceType
    BY DEF DeviceType
  <2> HIDE DEF f
  <2>3. g \in DeviceType
    BY <2>2, GetSysexDataTyped
  <2> HIDE DEF g
  <2>4. e \in DeviceType
    <3>1. 0 \in 0 .. Longest
      BY Constants
    <3> QED
      BY <2>3, <3>1 DEF DeviceType
  <2> QED
    BY <1>2, <2>1, <2>4
<1>3. CASE b \notin {Begin, End} /\ d.receiving
  <2>1. Parse(d, b) = Limited(Stored(d, b))
    BY <1>3 DEF Parse
  <2> QED
    BY <2>1, StoringDoes DEF Unheard
<1>4. CASE b # Begin /\ ~d.receiving
  <2>1. Parse(d, b) = d
    BY <1>4 DEF Parse
  <2> QED
    BY <2>1 DEF Unheard
<1> QED
  BY <1>1, <1>2, <1>3, <1>4

(* A message begins.                                                       *)
LEMMA BeginTracks ==
  ASSUME NEW d \in DeviceType, NEW m
  PROVE  Tracks(Parse(d, Begin), m, 0)
<1>1. Parse(d, Begin) = [d EXCEPT !.receiving = TRUE, !.position = 0]
  BY CommandsHold DEF Parse, Begun, Commands
<1> DEFINE e == [d EXCEPT !.receiving = TRUE, !.position = 0]
<1>2. e.receiving /\ e.position = 0
  BY DEF DeviceType
<1> HIDE DEF e
<1> QED
  BY <1>1, <1>2, Constants DEF e, Tracks, Read

(* It goes on.                                                             *)
LEMMA ByteTracks ==
  ASSUME NEW d \in DeviceType, NEW m, NEW n \in Nat, m[n + 1] \in 0 .. 127, Tracks(d, m, n)
  PROVE  Tracks(Parse(d, m[n + 1]), m, n + 1)
<1> DEFINE b == m[n + 1]
<1>1. b \in Bytes /\ b \notin {Begin, End}
  BY CommandsHold DEF Bytes, Commands
<1>2. Longest \in Nat
  BY Constants
<1>3. CASE n <= Longest
  <2>1. d.receiving /\ d.position = n /\ \A k \in Read : k < n => d.data[k] = m[k + 1]
    BY <1>3 DEF Tracks
  <2>2. Parse(d, b) = Limited(Stored(d, b))
    BY <1>1, <2>1 DEF Parse
  <2> DEFINE e == Parse(d, b)
  <2>3. IF n < Longest
        THEN /\ e.receiving = d.receiving /\ e.position = n + 1
             /\ \A k \in Read : e.data[k] = IF k = n THEN b ELSE d.data[k]
        ELSE ~e.receiving
    <3>1. IF d.position < Longest
          THEN /\ e.receiving = d.receiving /\ e.position = d.position + 1
               /\ \A k \in Read : e.data[k] = IF k = d.position THEN b ELSE d.data[k]
          ELSE ~e.receiving
      <4> HIDE DEF e, b
      <4> QED
        BY <1>1, <2>2, StoringDoes DEF e
    <3> HIDE DEF e, b
    <3> QED
      BY <2>1, <3>1
  <2> HIDE DEF e
  <2>4. CASE n < Longest
    <3>1. \A k \in Read : k < n + 1 => e.data[k] = m[k + 1]
      BY <2>1, <2>3, <2>4 DEF Read
    <3>2. e.receiving /\ e.position = n + 1
      BY <2>1, <2>3, <2>4
    <3> QED
      BY <1>2, <2>4, <3>1, <3>2 DEF Tracks, e
  <2>5. CASE ~(n < Longest)
    BY <1>2, <2>3, <2>5 DEF Tracks, e
  <2> QED
    BY <2>4, <2>5
<1>4. CASE ~(n <= Longest)
  <2>1. ~d.receiving
    BY <1>4 DEF Tracks
  <2>2. Parse(d, b) = d
    BY <1>1, <2>1 DEF Parse
  <2> QED
    BY <1>2, <1>4, <2>1, <2>2 DEF Tracks
<1> QED
  BY <1>3, <1>4

(* It ends, and the device does what it asks for.                          *)
LEMMA EndObeys ==
  ASSUME NEW d \in DeviceType, NEW m \in Seq(0 .. 127), Tracks(d, m, Len(m)), ~Short(m),
         NEW w \in WantedType, d.memory = w.memory, d.programming = w.programming
  PROVE  LET e == Parse(d, End)
             v == Asks(m, w)
         IN /\ e.scanning = d.scanning
            /\ v \in WantedType /\ e.memory = v.memory /\ e.programming = v.programming
<1> DEFINE e == Parse(d, End)
           v == Asks(m, w)
<1> USE CommandsHold DEF Commands
<1>1. /\ Len(m) \in Nat /\ Longest \in Nat /\ m # <<>>
      /\ Len(m) >= 1 /\ (m[1] = Id => Len(m) >= 4)
  <2>1. Len(m) \in Nat /\ m # <<>> /\ ~(m[1] = Id /\ Len(m) < 4)
    BY LenProperties DEF Short
  <2>2. Len(m) # 0
    BY <2>1, EmptySeq
  <2> QED
    BY <2>1, <2>2, Constants
<1>2. CASE Len(m) > Longest
  <2>1. ~d.receiving
    BY <1>1, <1>2 DEF Tracks
  <2>2. e = d
    BY <2>1 DEF Parse
  <2>3. v = w
    BY <1>2 DEF Asks
  <2> QED
    BY <2>2, <2>3
<1>3. CASE ~(Len(m) > Longest)
  <2>1. d.receiving /\ d.position = Len(m) /\ \A k \in Read : k < Len(m) => d.data[k] = m[k + 1]
    BY <1>1, <1>3 DEF Tracks
  <2> DEFINE f == [d EXCEPT !.receiving = FALSE]
             g == GetSysexData(f)
  <2>2. e = [g EXCEPT !.position = 0]
    BY <2>1 DEF Parse
  <2>3. /\ f \in DeviceType /\ f.data = d.data /\ f.position = d.position
        /\ f.memory = d.memory /\ f.programming = d.programming /\ f.scanning = d.scanning
    BY DEF DeviceType
  <2>4. f.data[0] = m[1]
    BY <1>1, <2>1, <2>3 DEF Read
  <2> HIDE DEF f
  <2>5. g \in DeviceType
    BY <2>3, GetSysexDataTyped
  <2>6. e.memory = g.memory /\ e.programming = g.programming /\ e.scanning = g.scanning
    <3> HIDE DEF g, e
    <3> QED
      BY <2>2, <2>5 DEF DeviceType
  <2>7. CASE m[1] # Id
    <3>1. g.memory = f.memory /\ g.programming = f.programming /\ g.scanning = f.scanning
      BY <2>3, <2>4, <2>7, GetSysexDataTyped
    <3>2. v = w
      BY <2>7 DEF Asks
    <3> QED
      BY <2>3, <2>6, <3>1, <3>2
  <2>8. CASE m[1] = Id
    <3>1. f.data[1] = m[2] /\ f.data[2] = m[3] /\ f.data[3] = m[4]
      BY <1>1, <2>1, <2>3, <2>8 DEF Read
    <3>2. f.data[0] = Id /\ f.position >= 4
      BY <1>1, <2>1, <2>3, <2>4, <2>8
    <3>3. v = Means(f.data, w)
      BY <1>3, <2>8, <3>1 DEF Asks, Means
    <3>4. f.data \in [Read -> Bytes]
      BY <2>3 DEF DeviceType
    <3> HIDE DEF v, e
    <3>5. /\ g.scanning = f.scanning
          /\ g.memory = Means(f.data, w).memory /\ g.programming = Means(f.data, w).programming
      BY <2>3, <3>2, GetSysexDataObeys
    <3>6. Means(f.data, w) \in WantedType
      BY <3>4, MeansGives
    <3> HIDE DEF g
    <3>7. /\ e.scanning = d.scanning
          /\ v \in WantedType /\ e.memory = v.memory /\ e.programming = v.programming
      BY <2>3, <2>6, <3>3, <3>5, <3>6
    <3> QED
      BY <3>7 DEF v, e
  <2> QED
    BY <2>7, <2>8
<1> QED
  BY <1>2, <1>3

--------------------------------------------------------------------------------
(* The messages.                                                           *)

(* A checksum is a data byte.                                              *)
LEMMA ChecksumIsData ==
  ASSUME NEW v \in Bytes, NEW w \in Bytes
  PROVE  Checksum(<<v>>) \in 0 .. 127 /\ Checksum(<<v, w>>) \in 0 .. 127
<1> DEFINE Of(sum) == (IF sum >= 128 THEN sum - 127 ELSE sum) % 128
<1>1. \A sum \in 0 .. 255 : Of(sum) \in 0 .. 127
  OBVIOUS
<1>2. (v + 0) % 256 \in 0 .. 255 /\ (v + w) % 256 \in 0 .. 255
  BY DEF Bytes
<1>3. Checksum(<<v>>) = Of((v + 0) % 256) /\ Checksum(<<v, w>>) = Of((v + w) % 256)
  BY DEF Checksum
<1>4. Of((v + 0) % 256) \in 0 .. 127 /\ Of((v + w) % 256) \in 0 .. 127
  <2> DEFINE a == (v + 0) % 256
             b == (v + w) % 256
  <2> HIDE DEF a, b
  <2>1. a \in 0 .. 255 /\ b \in 0 .. 255
    BY <1>2 DEF a, b
  <2>2. Of(a) \in 0 .. 127 /\ Of(b) \in 0 .. 127
    BY <1>1, <2>1
  <2> QED
    BY <2>2 DEF a, b
<1> HIDE DEF Of
<1> QED
  BY <1>3, <1>4

(* Every message built has four bytes of data or more.                     *)
LEMMA BuildMessageGives ==
  ASSUME NEW cmd \in 0 .. 127, NEW v \in 0 .. 127, NEW w \in 0 .. 127
  PROVE  /\ \A payload \in {<<>>, <<v>>, <<v, w>>} :
              BuildMessage(cmd, payload) \in Seq(0 .. 127) /\ Len(BuildMessage(cmd, payload)) >= 4
<1>1. ASSUME NEW body \in Seq(0 .. 127), Len(body) \in {1, 2}, NEW c \in 0 .. 127
      PROVE  <<Id, cmd>> \o body \o <<c>> \in Seq(0 .. 127) /\ Len(<<Id, cmd>> \o body \o <<c>>) >= 4
  <2>1. <<Id, cmd>> \in Seq(0 .. 127) /\ Len(<<Id, cmd>>) = 2
    BY DEF Id
  <2>2. <<c>> \in Seq(0 .. 127) /\ Len(<<c>>) = 1
    OBVIOUS
  <2>3. <<Id, cmd>> \o body \in Seq(0 .. 127) /\ Len(<<Id, cmd>> \o body) = 2 + Len(body)
    BY <2>1, ConcatProperties
  <2>4. /\ (<<Id, cmd>> \o body) \o <<c>> \in Seq(0 .. 127)
        /\ Len((<<Id, cmd>> \o body) \o <<c>>) = 2 + Len(body) + 1
    BY <2>2, <2>3, ConcatProperties
  <2> QED
    <3> DEFINE n == Len(body)
               message == <<Id, cmd>> \o body \o <<c>>
    <3>1. n \in {1, 2} /\ message \in Seq(0 .. 127) /\ Len(message) = 2 + n + 1
      BY <1>1, <2>4
    <3> HIDE DEF n, message
    <3>2. message \in Seq(0 .. 127) /\ Len(message) >= 4
      BY <3>1
    <3> QED
      BY <3>2 DEF message
<1>2. /\ Checksum(<<0>>) \in 0 .. 127 /\ Checksum(<<v>>) \in 0 .. 127
      /\ Checksum(<<v, w>>) \in 0 .. 127
  <2>1. 0 \in Bytes /\ v \in Bytes /\ w \in Bytes
    BY DEF Bytes
  <2> QED
    BY <2>1, ChecksumIsData
<1>3. BuildMessage(cmd, <<>>) = <<Id, cmd>> \o <<0>> \o <<Checksum(<<0>>)>>
  BY DEF BuildMessage
<1>4. BuildMessage(cmd, <<v>>) = <<Id, cmd>> \o <<v>> \o <<Checksum(<<v>>)>>
  BY DEF BuildMessage
<1>5. BuildMessage(cmd, <<v, w>>) = <<Id, cmd>> \o <<v, w>> \o <<Checksum(<<v, w>>)>>
  BY DEF BuildMessage
<1>6. /\ <<0>> \in Seq(0 .. 127) /\ Len(<<0>>) = 1
      /\ <<v>> \in Seq(0 .. 127) /\ Len(<<v>>) = 1
      /\ <<v, w>> \in Seq(0 .. 127) /\ Len(<<v, w>>) = 2
  OBVIOUS
<1>7. BuildMessage(cmd, <<>>) \in Seq(0 .. 127) /\ Len(BuildMessage(cmd, <<>>)) >= 4
  BY <1>1, <1>2, <1>3, <1>6
<1>8. BuildMessage(cmd, <<v>>) \in Seq(0 .. 127) /\ Len(BuildMessage(cmd, <<v>>)) >= 4
  BY <1>1, <1>2, <1>4, <1>6
<1>9. BuildMessage(cmd, <<v, w>>) \in Seq(0 .. 127) /\ Len(BuildMessage(cmd, <<v, w>>)) >= 4
  BY <1>1, <1>2, <1>5, <1>6
<1> QED
  BY <1>7, <1>8, <1>9

(* The editor's messages are never short.                                  *)
LEMMA MessageFacts ==
  /\ \A m \in Messages : m \in Seq(0 .. 127)
  /\ \A m \in EditorMessages : Len(m) >= 4 /\ ~Short(m)
<1>0. {Enter, Restore, SetMode, SetDelay, Save, Confirm, Version, 0} \subseteq 0 .. 127
  BY CommandsHold DEF Commands
<1>1. ASSUME NEW m \in EditorMessages
      PROVE  m \in Seq(0 .. 127) /\ Len(m) >= 4
  <2>1. \/ \E cmd \in {Enter, Restore} : m = BuildMessage(cmd, <<>>)
        \/ \E cmd \in {SetMode, SetDelay}, v \in Values : m = BuildMessage(cmd, <<v>>)
        \/ \E v \in Values, w \in Values : m = BuildMessage(Save, <<v, w>>)
        \/ m = BuildMessage(Confirm, <<Version>>)
    <3>1. CASE \E settings \in Values \X Values : m = BuildMessage(Save, settings)
      <4>1. PICK settings \in Values \X Values : m = BuildMessage(Save, settings)
        BY <3>1
      <4>2. settings = <<settings[1], settings[2]>> /\ settings[1] \in Values /\ settings[2] \in Values
        OBVIOUS
      <4> QED
        BY <4>1, <4>2
    <3> QED
      BY <1>1, <3>1 DEF EditorMessages
  <2>2. \A v \in Values : v \in 0 .. 127
    BY ValuesAssumption
  <2>3. CASE \E cmd \in {Enter, Restore} : m = BuildMessage(cmd, <<>>)
    <3>1. PICK cmd \in {Enter, Restore} : m = BuildMessage(cmd, <<>>)
      BY <2>3
    <3>2. cmd \in 0 .. 127 /\ 0 \in 0 .. 127
      BY <1>0, Zenon
    <3> QED
      BY <3>1, <3>2, BuildMessageGives, Zenon
  <2>4. CASE \E cmd \in {SetMode, SetDelay}, v \in Values : m = BuildMessage(cmd, <<v>>)
    <3>1. PICK cmd \in {SetMode, SetDelay}, v \in Values : m = BuildMessage(cmd, <<v>>)
      BY <2>4
    <3>2. cmd \in 0 .. 127 /\ v \in 0 .. 127
      BY <1>0, <2>2, Zenon
    <3> QED
      BY <3>1, <3>2, BuildMessageGives, Zenon
  <2>5. CASE \E v \in Values, w \in Values : m = BuildMessage(Save, <<v, w>>)
    <3>1. PICK v \in Values, w \in Values : m = BuildMessage(Save, <<v, w>>)
      BY <2>5
    <3>2. Save \in 0 .. 127 /\ v \in 0 .. 127 /\ w \in 0 .. 127
      BY <1>0, <2>2, ZenonT(30)
    <3> QED
      BY <3>1, <3>2, BuildMessageGives, Zenon
  <2>6. CASE m = BuildMessage(Confirm, <<Version>>)
    <3>1. Confirm \in 0 .. 127 /\ Version \in 0 .. 127
      BY <1>0, Zenon
    <3> QED
      BY <2>6, <3>1, BuildMessageGives
  <2> QED
    BY <2>1, <2>3, <2>4, <2>5, <2>6
<1>2. ASSUME NEW m \in Seq(0 .. 127), Len(m) >= 4
      PROVE  ~Short(m)
  <2>1. m # <<>>
    BY <1>2, EmptySeq
  <2>2. Len(m) \in Nat
    BY LenProperties
  <2> QED
    BY <1>2, <2>1, <2>2 DEF Short
<1> QED
  BY <1>1, <1>2, OthersAssumption DEF Messages

(* A message with what frames it.                                          *)
LEMMA FramedFacts ==
  ASSUME NEW m \in Messages
  PROVE  /\ m \in Seq(0 .. 127) /\ Len(m) \in Nat
         /\ Framed(m) \in Seq(Bytes) /\ Len(Framed(m)) = Len(m) + 2
         /\ Framed(m)[1] = Begin
         /\ \A i \in 1 .. Len(m) : Framed(m)[i + 1] = m[i] /\ m[i] \in 0 .. 127
         /\ Framed(m)[Len(m) + 2] = End
<1>1. m \in Seq(0 .. 127)
  BY MessageFacts
<1>2. Len(m) \in Nat /\ \A i \in 1 .. Len(m) : m[i] \in 0 .. 127
  BY <1>1, LenProperties, ElementOfSeq
<1>3. m \in Seq(Bytes)
  <2>1. 0 .. 127 \subseteq Bytes
    BY DEF Bytes
  <2> QED
    BY <1>1, <2>1, SeqMonotonic
<1>4. /\ <<Begin>> \in Seq(Bytes) /\ Len(<<Begin>>) = 1 /\ <<Begin>>[1] = Begin
      /\ <<End>> \in Seq(Bytes) /\ Len(<<End>>) = 1 /\ <<End>>[1] = End
  BY DEF Bytes, Begin, End
<1> DEFINE first == <<Begin>>
           last == <<End>>
           front == first \o m
<1>5. Framed(m) = front \o last
  BY DEF Framed
<1>6. /\ first \in Seq(Bytes) /\ Len(first) = 1 /\ first[1] = Begin
      /\ last \in Seq(Bytes) /\ Len(last) = 1 /\ last[1] = End
  BY <1>4
<1> HIDE DEF first, last, Bytes
<1>7. /\ front \in Seq(Bytes) /\ Len(front) = 1 + Len(m)
      /\ \A i \in 1 .. 1 + Len(m) : front[i] = IF i <= 1 THEN first[i] ELSE m[i - 1]
  <2>1. /\ first \o m \in Seq(Bytes) /\ Len(first \o m) = Len(first) + Len(m)
        /\ \A i \in 1 .. Len(first) + Len(m) :
             (first \o m)[i] = IF i <= Len(first) THEN first[i] ELSE m[i - Len(first)]
    BY <1>3, <1>6, ConcatProperties
  <2> QED
    BY <1>6, <2>1
<1> HIDE DEF front
<1>8. /\ Framed(m) \in Seq(Bytes) /\ Len(Framed(m)) = 1 + Len(m) + 1
      /\ \A i \in 1 .. 1 + Len(m) + 1 :
           Framed(m)[i] = IF i <= 1 + Len(m) THEN front[i] ELSE last[i - (1 + Len(m))]
  <2>1. /\ front \o last \in Seq(Bytes) /\ Len(front \o last) = Len(front) + Len(last)
        /\ \A i \in 1 .. Len(front) + Len(last) :
             (front \o last)[i] = IF i <= Len(front) THEN front[i] ELSE last[i - Len(front)]
    BY <1>6, <1>7, ConcatProperties
  <2> QED
    BY <1>5, <1>6, <1>7, <2>1
<1> DEFINE l == Len(m)
<1> HIDE DEF l
<1>9. /\ l \in Nat
      /\ \A i \in 1 .. 1 + l : front[i] = IF i <= 1 THEN first[i] ELSE m[i - 1]
      /\ \A i \in 1 .. 1 + l + 1 : Framed(m)[i] = IF i <= 1 + l THEN front[i] ELSE last[i - (1 + l)]
  BY <1>2, <1>7, <1>8 DEF l
<1>10. Framed(m)[1] = Begin
  <2>1. 1 \in 1 .. 1 + l /\ 1 \in 1 .. 1 + l + 1
    BY <1>9
  <2> QED
    BY <1>6, <1>9, <2>1
<1>11. ASSUME NEW i \in 1 .. l
       PROVE  Framed(m)[i + 1] = m[i]
  <2>1. /\ i + 1 \in 1 .. 1 + l /\ i + 1 \in 1 .. 1 + l + 1 /\ ~(i + 1 <= 1) /\ i + 1 - 1 = i
        /\ i + 1 <= 1 + l
    BY <1>9
  <2> QED
    BY <1>9, <2>1
<1>12. Framed(m)[l + 2] = End
  <2>1. l + 2 \in 1 .. 1 + l + 1 /\ ~(l + 2 <= 1 + l) /\ l + 2 - (1 + l) = 1
    BY <1>9
  <2> QED
    BY <1>6, <1>9, <2>1
<1> QED
  BY <1>1, <1>2, <1>8, <1>10, <1>11, <1>12 DEF l

(* Of m the device has taken what its port has sent, when that is alone.   *)
Follows(d, m, n) == n = 0 \/ Tracks(d, m, n - 1)

(* One byte of a message.                                                  *)
LEMMA OneByte ==
  ASSUME NEW d \in DeviceType, NEW m \in Messages, NEW n \in 0 .. Len(m)
  PROVE  LET e == Parse(d, Framed(m)[n + 1]) IN
         /\ e \in DeviceType /\ Unheard(e, d)
         /\ Follows(d, m, n) => Follows(e, m, n + 1)
<1> DEFINE b == Framed(m)[n + 1]
           e == Parse(d, b)
<1>1. Len(m) \in Nat
  BY FramedFacts
<1>2. CASE n = 0
  <2>1. b = Begin
    BY <1>2, FramedFacts
  <2>2. b \in Bytes /\ b # End
    BY <2>1 DEF Begin, End, Bytes
  <2>3. Tracks(e, m, 0)
    BY <2>1, BeginTracks
  <2> HIDE DEF b
  <2>4. e \in DeviceType /\ Unheard(e, d)
    BY <2>2, ParseTyped
  <2> HIDE DEF e
  <2> QED
    BY <1>2, <2>3, <2>4 DEF Follows, e, b
<1>3. CASE n # 0
  <2>1. n \in 1 .. Len(m) /\ n - 1 \in Nat /\ n - 1 + 1 = n
    BY <1>1, <1>3
  <2>2. b = m[n] /\ m[n] \in 0 .. 127
    BY <2>1, FramedFacts
  <2> HIDE DEF b
  <2>3. b \in Bytes /\ b # End
    <3>1. b \in 0 .. 127
      BY <2>2
    <3> QED
      BY <3>1 DEF End, Bytes
  <2>4. e \in DeviceType /\ Unheard(e, d)
    BY <2>3, ParseTyped
  <2>5. Tracks(d, m, n - 1) => Tracks(e, m, n)
    <3> DEFINE k == n - 1
    <3>1. k \in Nat /\ k + 1 = n
      BY <2>1
    <3> HIDE DEF k
    <3>2. m[k + 1] \in 0 .. 127 /\ m[k + 1] = b
      BY <2>2, <3>1
    <3>3. Tracks(d, m, k) => Tracks(Parse(d, m[k + 1]), m, k + 1)
      BY <3>1, <3>2, ByteTracks
    <3> QED
      BY <3>1, <3>2, <3>3 DEF k
  <2> HIDE DEF e
  <2>6. n + 1 - 1 = n
    OBVIOUS
  <2> QED
    BY <1>3, <2>4, <2>5, <2>6 DEF Follows, e, b
<1> QED
  BY <1>2, <1>3

(* A packet, of bytes n + 1 to n + k of the framed message: either the End *)
(* is not in it, or it is parsed after the others.                         *)
LEMMA PacketDoes ==
  ASSUME NEW d \in DeviceType, NEW m \in Messages, NEW n \in 0 .. Len(m) + 1,
         NEW k \in 1 .. 3, n + k <= Len(m) + 2,
         NEW bytes, Len(bytes) = k, \A i \in 1 .. k : bytes[i] = Framed(m)[n + i]
  PROVE  LET e == ParseAll(d, bytes) IN
         /\ n + k <= Len(m) + 1 =>
              e \in DeviceType /\ Unheard(e, d) /\ (Follows(d, m, n) => Follows(e, m, n + k))
         /\ n + k = Len(m) + 2 =>
              \E x \in DeviceType :
                /\ e = Parse(x, End) /\ Unheard(x, d)
                /\ Follows(d, m, n) => Tracks(x, m, Len(m))
<1> DEFINE e == ParseAll(d, bytes)
           one == Parse(d, bytes[1])
           two == Parse(one, bytes[2])
           three == Parse(two, bytes[3])
           l == Len(m)
           Reached(x, j) == /\ x \in DeviceType /\ Unheard(x, d)
                            /\ Follows(d, m, n) => Follows(x, m, j)
<1>1. l \in Nat
  BY FramedFacts
<1>2. ASSUME NEW x, NEW j \in 0 .. l, Reached(x, j)
      PROVE  Reached(Parse(x, Framed(m)[j + 1]), j + 1)
  BY <1>2, OneByte DEF Unheard
<1>3. Reached(d, n)
  BY DEF Unheard
<1>4. /\ k = 1 => e = one
      /\ k = 2 => e = two
      /\ k = 3 => e = three
  BY DEF ParseAll
<1>5. /\ bytes[1] = Framed(m)[n + 1]
      /\ k >= 2 => bytes[2] = Framed(m)[n + 2]
      /\ k >= 3 => bytes[3] = Framed(m)[n + 3]
  OBVIOUS
<1> HIDE DEF Reached, e, l
<1>6. n <= l => Reached(one, n + 1)
  BY <1>1, <1>2, <1>3, <1>5
<1>7. k >= 2 /\ n + 1 <= l => Reached(two, n + 2)
  <2> SUFFICES ASSUME k >= 2, n + 1 <= l
               PROVE  Reached(two, n + 2)
    OBVIOUS
  <2>1. Reached(one, n + 1) /\ n + 1 \in 0 .. l /\ n + 1 + 1 = n + 2
    BY <1>1, <1>6
  <2> HIDE DEF one
  <2> QED
    BY <1>2, <1>5, <2>1
<1>8. k >= 3 /\ n + 2 <= l => Reached(three, n + 3)
  <2> SUFFICES ASSUME k >= 3, n + 2 <= l
               PROVE  Reached(three, n + 3)
    OBVIOUS
  <2>1. Reached(two, n + 2) /\ n + 2 \in 0 .. l /\ n + 2 + 1 = n + 3
    BY <1>1, <1>7
  <2> HIDE DEF two
  <2> QED
    BY <1>2, <1>5, <2>1
<1> HIDE DEF one, two, three
<1>9. n + k <= l + 1 => Reached(e, n + k)
  <2>1. CASE k = 1
    BY <1>1, <1>4, <1>6, <2>1
  <2>2. CASE k = 2
    BY <1>1, <1>4, <1>7, <2>2
  <2>3. CASE k = 3
    BY <1>1, <1>4, <1>8, <2>3
  <2> QED
    BY <2>1, <2>2, <2>3
<1>10. n + k = l + 2 => \E x : e = Parse(x, End) /\ Reached(x, l + 1)
  <2> SUFFICES ASSUME n + k = l + 2
               PROVE  \E x : e = Parse(x, End) /\ Reached(x, l + 1)
    OBVIOUS
  <2>1. Framed(m)[l + 2] = End
    BY FramedFacts DEF l
  <2>2. CASE k = 1
    <3>1. n = l + 1 /\ n + 1 = l + 2
      BY <1>1, <2>2
    <3>2. bytes[1] = End
      BY <1>5, <2>1, <3>1
    <3> QED
      BY <1>3, <1>4, <2>2, <3>1, <3>2 DEF one
  <2>3. CASE k = 2
    <3>1. n = l /\ n + 2 = l + 2 /\ n + 1 = l + 1 /\ n <= l
      BY <1>1, <2>3
    <3>2. bytes[2] = End
      BY <1>5, <2>1, <2>3, <3>1
    <3> QED
      BY <1>4, <1>6, <2>3, <3>1, <3>2 DEF two
  <2>4. CASE k = 3
    <3>1. n + 3 = l + 2 /\ n + 2 = l + 1 /\ n + 1 <= l /\ k >= 2
      BY <1>1, <2>4
    <3>2. bytes[3] = End
      BY <1>5, <2>1, <2>4, <3>1
    <3> QED
      BY <1>4, <1>7, <2>4, <3>1, <3>2 DEF three
  <2> QED
    BY <2>2, <2>3, <2>4
<1>11. \A x : Reached(x, l + 1) => x \in DeviceType /\ Unheard(x, d)
                                   /\ (Follows(d, m, n) => Tracks(x, m, l))
  <2> TAKE x
  <2>1. Follows(x, m, l + 1) => Tracks(x, m, l)
    <3> DEFINE j == l + 1
    <3>1. j - 1 = l /\ j # 0
      BY <1>1
    <3> HIDE DEF j
    <3>2. Follows(x, m, j) => Tracks(x, m, l)
      BY <3>1 DEF Follows
    <3> QED
      BY <3>2 DEF j
  <2> QED
    BY <2>1, Zenon DEF Reached
<1> QED
  BY <1>9, <1>10, <1>11 DEF Reached, e, l

--------------------------------------------------------------------------------
(* The steps.                                                              *)

(* A step of a port: what is left of its message, and what the device      *)
(* makes of the bytes sent.                                                *)
LEMMA SendsStep ==
  ASSUME IndInv, NEW p \in Ports, NEW count \in 1 .. 3, count <= Len(sending[p].left),
         Sends(p, count)
  PROVE  IndInv'
<1> DEFINE bytes == SubSeq(sending[p].left, 1, count)
           alone == IF Begin = bytes[1] \/ clear = p THEN p ELSE "none"
           ends == count = Len(sending[p].left)
           isClear == alone = p /\ ~Short(sending[p].message)
           cutShort == Short(sending[p].message) /\ sending[p].message \in Others
<1>1. /\ sending[p] # Silent
      /\ device' = ParseAll(device, bytes)
      /\ sending' = [sending EXCEPT ![p] =
                       IF ends THEN Silent
                       ELSE [@ EXCEPT !.left = SubSeq(sending[p].left, count + 1,
                                                      Len(sending[p].left))]]
      /\ clear' = IF ends THEN "none" ELSE alone
      /\ wanted' = IF ~ends THEN wanted
                   ELSE IF isClear THEN Asks(sending[p].message, wanted)
                   ELSE [memory |-> device'.memory, programming |-> device'.programming]
      /\ UNCHANGED sent
      /\ blamed' = (blamed \/ (ends /\ (alone # p \/ cutShort)))
  BY DEF Sends
<1>2. PICK m \in Messages :
        \E n \in 0 .. Len(m) + 1 :
          /\ Midway(sending[p], m, n)
          /\ clear = p => n > 0 /\ Tracks(device, m, n - 1)
  BY <1>1 DEF IndInv, SendingInv
<1>3. PICK n \in 0 .. Len(m) + 1 :
        /\ Midway(sending[p], m, n)
        /\ clear = p => n > 0 /\ Tracks(device, m, n - 1)
  BY <1>2
<1> DEFINE l == Len(m)
<1>4. l \in Nat /\ Framed(m) \in Seq(Bytes) /\ Len(Framed(m)) = l + 2
  BY FramedFacts
<1>5. /\ sending[p].message = m /\ sending[p].left = SubSeq(Framed(m), n + 1, l + 2)
      /\ Len(sending[p].left) = l + 2 - n
  <2>1. sending[p].message = m /\ sending[p].left = SubSeq(Framed(m), n + 1, l + 2)
    BY <1>3 DEF Midway
  <2>2. \A i \in n + 1 .. l + 2 : Framed(m)[i] \in Bytes
    BY <1>4, ElementOfSeq
  <2> DEFINE a == n + 1
             z == l + 2
  <2>3. a \in Int /\ z \in Int /\ a <= z /\ z - a + 1 = l + 2 - n
    BY <1>4
  <2> HIDE DEF Bytes, a, z
  <2>4. Len(SubSeq(Framed(m), a, z)) = z - a + 1
    BY <2>2, <2>3, SubSeqProperties DEF a, z
  <2> QED
    BY <2>1, <2>3, <2>4 DEF a, z
<1>6. n + count <= l + 2 /\ (ends <=> n + count = l + 2)
  BY <1>4, <1>5
<1>7. Len(bytes) = count /\ \A i \in 1 .. count : bytes[i] = Framed(m)[n + i]
  <2> DEFINE left == sending[p].left
  <2>1. \A i \in n + 1 .. l + 2 : Framed(m)[i] \in Bytes
    BY <1>4, ElementOfSeq
  <2> HIDE DEF Bytes
  <2>2. /\ left \in Seq(Bytes)
        /\ \A i \in 1 .. l + 2 - n : left[i] = Framed(m)[n + i]
    <3> DEFINE a == n + 1
               z == l + 2
    <3>1. a \in Int /\ z \in Int /\ z - a + 1 = l + 2 - n /\ \A i \in 1 .. l + 2 - n : a + i - 1 = n + i
      BY <1>4
    <3> HIDE DEF a, z
    <3>2. /\ SubSeq(Framed(m), a, z) \in Seq(Bytes)
          /\ \A i \in 1 .. z - a + 1 : SubSeq(Framed(m), a, z)[i] = Framed(m)[a + i - 1]
      BY <2>1, <3>1, SubSeqProperties DEF a, z
    <3>3. left = SubSeq(Framed(m), a, z)
      BY <1>5 DEF a, z
    <3> HIDE DEF left, l
    <3> QED
      BY <3>1, <3>2, <3>3
  <2>3. \A i \in 1 .. count : i \in 1 .. l + 2 - n /\ i \in 1 .. Len(left)
    BY <1>4, <1>5, <1>6
  <2>4. \A i \in 1 .. count : left[i] \in Bytes
    BY <2>2, <2>3, ElementOfSeq
  <2> HIDE DEF left
  <2>5. /\ Len(SubSeq(left, 1, count)) = count
        /\ \A i \in 1 .. count : SubSeq(left, 1, count)[i] = left[i]
    <3>1. /\ Len(SubSeq(left, 1, count)) = IF 1 <= count THEN count - 1 + 1 ELSE 0
          /\ \A i \in 1 .. count - 1 + 1 : SubSeq(left, 1, count)[i] = left[1 + i - 1]
      BY <2>4, SubSeqProperties
    <3>2. count - 1 + 1 = count /\ 1 <= count /\ \A i \in 1 .. count : 1 + i - 1 = i
      OBVIOUS
    <3> QED
      BY <3>1, <3>2
  <2>6. bytes = SubSeq(left, 1, count)
    BY DEF left
  <2> HIDE DEF bytes, l
  <2> QED
    BY <2>2, <2>3, <2>5, <2>6
<1> HIDE DEF bytes
<1>8. /\ n + count <= l + 1 =>
           /\ device' \in DeviceType /\ Unheard(device', device)
           /\ Follows(device, m, n) => Follows(device', m, n + count)
      /\ n + count = l + 2 =>
           \E x \in DeviceType :
             /\ device' = Parse(x, End) /\ Unheard(x, device)
             /\ Follows(device, m, n) => Tracks(x, m, l)
  <2>1. device \in DeviceType
    BY DEF IndInv, Types
  <2>2. n + count <= Len(m) + 2
    BY <1>6
  <2> HIDE DEF ends
  <2> QED
    BY <1>1, <1>7, <2>1, <2>2, PacketDoes
<1>9. alone = p => Follows(device, m, n)
  <2>1. CASE clear = p
    BY <1>3, <2>1 DEF Follows
  <2>2. CASE Begin = bytes[1]
    <3>1. bytes[1] = Framed(m)[n + 1]
      BY <1>7
    <3>2. n \in 1 .. l => bytes[1] \in 0 .. 127
      <4>1. \A i \in 1 .. l : Framed(m)[i + 1] = m[i] /\ m[i] \in 0 .. 127
        BY FramedFacts
      <4> HIDE DEF l
      <4> QED
        BY <3>1, <4>1
    <3>3. n = l + 1 => bytes[1] = End
      <4>1. n = l + 1 => n + 1 = l + 2
        BY <1>4
      <4> QED
        BY <3>1, <4>1, FramedFacts
    <3>4. n = 0
      <4>1. bytes[1] = 240 /\ End = 247 /\ l \in Nat /\ n \in 0 .. l + 1
        BY <1>4, <2>2 DEF Begin, End
      <4> HIDE DEF l
      <4> QED
        BY <3>2, <3>3, <4>1
    <3> QED
      BY <3>4 DEF Follows
  <2> QED
    BY <2>1, <2>2 DEF Ports
<1>10. clear \in Ports \union {"none"} /\ p # "none" /\ (clear # "none" => sending[clear] # Silent)
  BY DEF IndInv, Types, Ports
<1>11. sending = [q \in Ports |-> sending[q]] /\ p \in DOMAIN sending
  <2>1. sending = [q \in Ports |-> sending[q]]
    BY DEF IndInv, SendingInv
  <2>2. DOMAIN [q \in Ports |-> sending[q]] = Ports
    OBVIOUS
  <2> QED
    BY <2>1, <2>2
<1>12. /\ sent \in 0 .. MaxMessages /\ wanted \in WantedType /\ device \in DeviceType
       /\ blamed \in BOOLEAN /\ Obeyed /\ ScanEnds
  BY DEF IndInv, Types
<1> HIDE DEF ends, alone, isClear, cutShort
<1>13. ASSUME NEW q \in Ports, q # p
       PROVE  sending'[q] = sending[q] /\ clear' # q
  BY <1>1, <1>10, <1>11, <1>13 DEF Ports, alone
<1> DEFINE others == \A q \in Ports : q # p /\ sending'[q] # Silent =>
                       \E j \in Messages : \E i \in 0 .. Len(j) + 1 : Midway(sending'[q], j, i)
<1>14. others
  BY <1>13 DEF IndInv, SendingInv
<1>15. CASE ~ends
  <2>1. n + count <= l + 1 /\ n + count \in 0 .. l + 1 /\ n + count > 0
    BY <1>4, <1>6, <1>15
  <2>2. Midway(sending'[p], m, n + count)
    <3> DEFINE left == sending[p].left
               rest == SubSeq(left, count + 1, Len(left))
    <3>1. sending'[p] = [sending[p] EXCEPT !.left = rest]
      <4>1. sending' = [sending EXCEPT ![p] = IF ends THEN Silent ELSE [@ EXCEPT !.left = rest]]
        BY <1>1
      <4> HIDE DEF rest
      <4> QED
        BY <1>11, <1>15, <4>1
    <3>2. rest = SubSeq(Framed(m), n + count + 1, l + 2)
      <4>1. left = SubSeq(Framed(m), n + 1, l + 2) /\ Len(left) = l + 2 - n
        BY <1>5
      <4> DEFINE a == n + 1
                 z == l + 2
                 b == count + 1
                 c == l + 2 - n
      <4>2. /\ a \in 1 .. Len(Framed(m)) /\ z \in 1 .. Len(Framed(m))
            /\ b \in 1 .. z - a + 1 /\ c \in 1 .. z - a + 1
            /\ a + b - 1 = n + count + 1 /\ a + c - 1 = l + 2
        BY <1>4, <2>1
      <4> HIDE DEF a, z, b, c, Bytes
      <4>3. <<>> \in Seq(Bytes)
        OBVIOUS
      <4>4. SubSeq(SubSeq(Framed(m), a, z), b, c) = SubSeq(Framed(m), a + b - 1, a + c - 1)
        BY <1>4, <4>2, <4>3, SubSeqOfSubSeq
      <4> QED
        BY <4>1, <4>2, <4>4 DEF a, z, b, c
    <3> HIDE DEF rest
    <3>3. sending'[p] = [message |-> m, left |-> rest]
      BY <1>3, <3>1 DEF Midway
    <3> QED
      BY <2>1, <3>2, <3>3 DEF Midway
  <2>3. sending'[p] # Silent
    <3>1. Len(SubSeq(Framed(m), n + count + 1, l + 2)) = l + 2 - (n + count)
      <4> DEFINE a == n + count + 1
                 z == l + 2
      <4>1. a \in Int /\ z \in Int /\ a <= z /\ z - a + 1 = l + 2 - (n + count)
        BY <1>4, <2>1
      <4>2. \A i \in a .. z : Framed(m)[i] \in Bytes
        BY <1>4, ElementOfSeq
      <4> HIDE DEF a, z, Bytes
      <4>3. Len(SubSeq(Framed(m), a, z)) = z - a + 1
        BY <4>1, <4>2, SubSeqProperties
      <4> QED
        BY <4>1, <4>3 DEF a, z
    <3>2. l + 2 - (n + count) # 0
      BY <1>4, <2>1
    <3>3. sending'[p].left # <<>>
      <4>1. sending'[p].left = SubSeq(Framed(m), n + count + 1, l + 2)
        BY <2>2 DEF Midway
      <4> QED
        BY <3>1, <3>2, <4>1, EmptySeq
    <3> QED
      BY <3>3 DEF Silent
  <2>4. clear' = p => Tracks(device', m, n + count - 1)
    <3>1. clear' = p => Follows(device', m, n + count)
      BY <1>1, <1>8, <1>9, <1>15, <2>1
    <3> QED
      BY <2>1, <3>1 DEF Follows
  <2>5. SendingInv'
    <3>1. sending' = [q \in Ports |-> sending'[q]]
      BY <1>1, <1>11
    <3>2. ASSUME NEW q \in Ports, sending'[q] # Silent
          PROVE  \E j \in Messages : \E i \in 0 .. Len(j) + 1 :
                   /\ Midway(sending'[q], j, i)
                   /\ clear' = q => i > 0 /\ Tracks(device', j, i - 1)
      <4>1. CASE q = p
        BY <2>1, <2>2, <2>4, <4>1
      <4>2. CASE q # p
        BY <1>13, <1>14, <3>2, <4>2
      <4> QED
        BY <4>1, <4>2
    <3> QED
      BY <3>1, <3>2 DEF SendingInv
  <2>6. Types' /\ Obeyed' /\ ScanEnds'
    <3>1. device' \in DeviceType /\ Unheard(device', device)
      BY <1>8, <2>1
    <3>2. wanted' = wanted /\ sent' = sent /\ clear' = alone
      BY <1>1, <1>15, Zenon
    <3>3. blamed' = blamed
      BY <1>1, <1>12, <1>15, Zenon
    <3>4. clear' \in {p, "none"}
      BY <3>2 DEF alone
    <3>5. Types'
      <4>1. clear' \in Ports \union {"none"} /\ (clear' # "none" => sending'[clear'] # Silent)
        BY <2>3, <3>4
      <4>2. sent' \in 0 .. MaxMessages /\ wanted' \in WantedType /\ blamed' \in BOOLEAN
        BY <1>12, <3>2, <3>3, Zenon
      <4> QED
        BY <3>1, <4>1, <4>2, Zenon DEF Types
    <3>6. Obeyed'
      BY <1>12, <3>1, <3>2 DEF Obeyed, Unheard
    <3>7. ScanEnds'
      BY <1>12, <3>1, <3>3, Zenon DEF ScanEnds, Unheard
    <3> QED
      BY <3>5, <3>6, <3>7
  <2> QED
    BY <2>5, <2>6 DEF IndInv
<1>16. CASE ends
  <2>1. PICK x \in DeviceType :
          /\ device' = Parse(x, End) /\ Unheard(x, device)
          /\ Follows(device, m, n) => Tracks(x, m, l)
    BY <1>6, <1>8, <1>16
  <2>2. device' \in DeviceType
    <3>1. End \in Bytes
      BY DEF End, Bytes
    <3> QED
      BY <2>1, <3>1, ParseTyped
  <2>3. isClear => /\ device'.scanning = device.scanning
                   /\ Asks(m, wanted) \in WantedType
                   /\ device'.memory = Asks(m, wanted).memory
                   /\ device'.programming = Asks(m, wanted).programming
    <3>1. m \in Seq(0 .. 127)
      BY MessageFacts
    <3>2. x.memory = wanted.memory /\ x.programming = wanted.programming
          /\ x.scanning = device.scanning
      BY <1>12, <2>1 DEF Unheard, Obeyed
    <3>3. isClear => Tracks(x, m, Len(m)) /\ ~Short(m)
      BY <1>5, <1>9, <2>1, Zenon DEF isClear
    <3> HIDE DEF isClear
    <3> QED
      BY <1>12, <2>1, <3>1, <3>2, <3>3, EndObeys
  <2>4. wanted' \in WantedType /\ Obeyed'
    <3>1. CASE isClear
      BY <1>1, <1>5, <1>16, <2>3, <3>1 DEF Obeyed
    <3>2. CASE ~isClear
      <4>1. wanted' = [memory |-> device'.memory, programming |-> device'.programming]
        BY <1>1, <1>16, <3>2
      <4> QED
        BY <2>2, <4>1 DEF Obeyed, WantedType, DeviceType
    <3> QED
      BY <3>1, <3>2
  <2>5. ScanEnds'
    <3>1. CASE isClear
      <4>1. blamed => blamed'
        BY <1>1, Zenon
      <4>2. device'.scanning = device.scanning
        BY <2>3, <3>1
      <4> QED
        BY <1>12, <4>1, <4>2, Zenon DEF ScanEnds
    <3>2. CASE ~isClear
      <4>1. alone # p \/ cutShort
        <5>1. Short(m) => m \in Others
          BY MessageFacts DEF Messages
        <5> QED
          BY <1>5, <3>2, <5>1, Zenon DEF isClear, cutShort
      <4>2. blamed'
        BY <1>1, <1>16, <4>1
      <4> QED
        BY <4>2 DEF ScanEnds
    <3> QED
      BY <3>1, <3>2
  <2>6. sending'[p] = Silent /\ clear' = "none" /\ sending' = [q \in Ports |-> sending'[q]]
    <3>1. sending' = [sending EXCEPT ![p] = Silent] /\ clear' = "none"
      BY <1>1, <1>16, Zenon
    <3> QED
      BY <1>11, <3>1
  <2>7. SendingInv'
    <3>1. ASSUME NEW q \in Ports, sending'[q] # Silent
          PROVE  \E j \in Messages : \E i \in 0 .. Len(j) + 1 :
                   /\ Midway(sending'[q], j, i)
                   /\ clear' = q => i > 0 /\ Tracks(device', j, i - 1)
      BY <1>13, <1>14, <2>6, <3>1
    <3> QED
      BY <2>6, <3>1 DEF SendingInv
  <2>8. Types'
    <3>1. blamed' \in BOOLEAN
      BY <1>1, Zenon
    <3>2. clear' \in Ports \union {"none"} /\ (clear' # "none" => sending'[clear'] # Silent)
      BY <2>6
    <3>3. sent' \in 0 .. MaxMessages
      BY <1>1, <1>12
    <3> QED
      BY <2>2, <2>4, <3>1, <3>2, <3>3, Zenon DEF Types
  <2> QED
    BY <2>4, <2>5, <2>7, <2>8 DEF IndInv
<1> QED
  BY <1>15, <1>16

(* A port that is not silent has something left to send.                   *)
LEMMA LeftOver ==
  ASSUME IndInv, NEW p \in Ports, sending[p] # Silent
  PROVE  Len(sending[p].left) \in Nat /\ 1 <= Len(sending[p].left)
<1>1. PICK m \in Messages : \E n \in 0 .. Len(m) + 1 : Midway(sending[p], m, n)
  BY DEF IndInv, SendingInv
<1>2. PICK n \in 0 .. Len(m) + 1 : Midway(sending[p], m, n)
  BY <1>1
<1> DEFINE a == n + 1
           z == Len(m) + 2
<1>3. Len(m) \in Nat /\ Framed(m) \in Seq(Bytes) /\ Len(Framed(m)) = Len(m) + 2
  BY FramedFacts
<1>4. \A i \in a .. z : Framed(m)[i] \in Bytes
  BY <1>3, ElementOfSeq
<1>5. a \in Int /\ z \in Int /\ a <= z /\ z - a + 1 \in Nat /\ z - a + 1 >= 1
  BY <1>3
<1>6. sending[p].left = SubSeq(Framed(m), a, z)
  BY <1>2 DEF Midway
<1> HIDE DEF a, z, Bytes
<1>7. Len(SubSeq(Framed(m), a, z)) = z - a + 1
  BY <1>4, <1>5, SubSeqProperties
<1> QED
  BY <1>5, <1>6, <1>7

(* A port begins a message.                                                *)
LEMMA StartsStep ==
  ASSUME IndInv, NEW p \in Ports, Starts(p)
  PROVE  IndInv'
<1>1. PICK m \in Messages :
        sending' = [sending EXCEPT ![p] = [message |-> m, left |-> <<Begin>> \o m \o <<End>>]]
  BY DEF Starts, Messages
<1>2. /\ sending[p] = Silent /\ sent < MaxMessages /\ sent' = sent + 1
      /\ UNCHANGED <<device, clear, wanted, blamed>>
  BY DEF Starts
<1>3. /\ sent \in 0 .. MaxMessages /\ sending = [q \in Ports |-> sending[q]]
      /\ clear # "none" => sending[clear] # Silent /\ clear # p
  BY <1>2 DEF IndInv, Types, SendingInv
<1>4. Midway(sending'[p], m, 0)
  <2>1. Len(m) \in Nat /\ Framed(m) \in Seq(Bytes) /\ Len(Framed(m)) = Len(m) + 2
    BY FramedFacts
  <2>2. SubSeq(Framed(m), 1, Len(m) + 2) = Framed(m)
    <3> HIDE DEF Bytes
    <3> QED
      BY <2>1, SubSeqFull
  <2>3. sending'[p] = [message |-> m, left |-> Framed(m)]
    BY <1>1, <1>3 DEF Framed
  <2>4. 0 + 1 = 1 /\ 0 \in 0 .. Len(m) + 1
    BY <2>1
  <2> HIDE DEF Bytes
  <2> QED
    BY <2>2, <2>3, <2>4 DEF Midway
<1>5. \A q \in Ports : q # p => sending'[q] = sending[q]
  BY <1>1, <1>3
<1>6. clear # p
  BY <1>3 DEF Ports
<1>7. SendingInv'
  <2>1. sending' = [q \in Ports |-> sending'[q]]
    BY <1>1, <1>3
  <2>2. ASSUME NEW q \in Ports, sending'[q] # Silent
        PROVE  \E j \in Messages : \E i \in 0 .. Len(j) + 1 :
                 /\ Midway(sending'[q], j, i)
                 /\ clear' = q => i > 0 /\ Tracks(device', j, i - 1)
    <3>1. CASE q = p
      <4>1. 0 \in 0 .. Len(m) + 1
        BY <1>4 DEF Midway
      <4> QED
        BY <1>2, <1>4, <1>6, <3>1, <4>1
    <3>2. CASE q # p
      BY <1>2, <1>5, <2>2, <3>2 DEF IndInv, SendingInv
    <3> QED
      BY <3>1, <3>2
  <2> QED
    BY <2>1, <2>2 DEF SendingInv
<1>8. Types'
  <2>1. sent' \in 0 .. MaxMessages
    BY <1>2, <1>3, Constants
  <2>2. clear' # "none" => sending'[clear'] # Silent
    BY <1>2, <1>3, <1>5 DEF IndInv, Types
  <2> QED
    BY <1>2, <2>1, <2>2 DEF IndInv, Types
<1>9. Obeyed' /\ ScanEnds'
  BY <1>2 DEF IndInv, Obeyed, ScanEnds
<1> QED
  BY <1>7, <1>8, <1>9 DEF IndInv

(* A clock in the middle of anything.                                      *)
LEMMA DinClockStep ==
  ASSUME IndInv, DinClock
  PROVE  IndInv'
<1>1. /\ device' = Parse(device, Clock) /\ clear' = "none"
      /\ UNCHANGED <<sending, sent, wanted, blamed>>
  BY DEF DinClock
<1>2. device' \in DeviceType /\ Unheard(device', device)
  <2>1. Clock \in Bytes /\ Clock # End
    BY DEF Clock, End, Bytes
  <2> QED
    BY <1>1, <2>1, ParseTyped DEF IndInv, Types
<1>3. SendingInv'
  <2>1. \A q \in Ports : clear' # q
    BY <1>1 DEF Ports
  <2> QED
    BY <1>1, <2>1 DEF IndInv, SendingInv
<1> QED
  BY <1>1, <1>2, <1>3 DEF IndInv, Types, Obeyed, ScanEnds, Unheard

(* The session times out.                                                  *)
LEMMA SessionEndsStep ==
  ASSUME IndInv, SessionEnds
  PROVE  IndInv'
<1>1. /\ device' = [device EXCEPT !.programming = FALSE, !.connected = FALSE]
      /\ wanted' = [wanted EXCEPT !.programming = FALSE]
      /\ UNCHANGED <<sending, sent, clear, blamed>>
  BY DEF SessionEnds
<1>2. device \in DeviceType /\ wanted \in WantedType /\ Obeyed
  BY DEF IndInv, Types
<1>3. /\ device' \in DeviceType
      /\ device'.memory = device.memory /\ device'.programming = FALSE
      /\ device'.scanning = device.scanning
      /\ device'.receiving = device.receiving /\ device'.position = device.position
      /\ device'.data = device.data
  BY <1>1, <1>2 DEF DeviceType
<1>4. wanted' \in WantedType /\ wanted'.memory = wanted.memory /\ wanted'.programming = FALSE
  BY <1>1, <1>2 DEF WantedType
<1>5. \A m, n : Tracks(device, m, n) => Tracks(device', m, n)
  BY <1>3 DEF Tracks
<1>6. SendingInv'
  BY <1>1, <1>5 DEF IndInv, SendingInv
<1> QED
  BY <1>1, <1>2, <1>3, <1>4, <1>6 DEF IndInv, Types, Obeyed, ScanEnds

--------------------------------------------------------------------------------
(* The theorems.                                                           *)

(* At the start nothing has been sent, stored or asked for.                *)
LEMMA InitIndInv == Init => IndInv
<1> SUFFICES ASSUME Init
             PROVE  IndInv
  OBVIOUS
<1>1. device \in DeviceType /\ wanted \in WantedType
  <2>1. 0 \in 0 .. Longest /\ 0 \in Bytes /\ [k \in Read |-> 0] \in [Read -> Bytes]
    BY Constants DEF Bytes
  <2>2. Defaults \in [mode : Bytes, delay : Bytes]
    BY <2>1 DEF Defaults
  <2> QED
    BY <2>1, <2>2 DEF Init, DeviceType, WantedType
<1>2. SendingInv
  BY DEF Init, SendingInv
<1>3. Types
  <2>1. sent \in 0 .. MaxMessages
    BY Constants DEF Init
  <2>2. clear \in Ports \union {"none"} /\ (clear # "none" => sending[clear] # Silent)
    BY DEF Init
  <2>3. blamed \in BOOLEAN
    BY DEF Init
  <2> QED
    BY <1>1, <2>1, <2>2, <2>3 DEF Types
<1> QED
  BY <1>2, <1>3 DEF Init, IndInv, Obeyed, ScanEnds

(* Every step keeps the invariant.                                         *)
LEMMA NextIndInv == IndInv /\ [Next]_vars => IndInv'
<1> SUFFICES ASSUME IndInv, [Next]_vars
             PROVE  IndInv'
  OBVIOUS
<1>1. CASE \E p \in Ports : Starts(p)
  BY <1>1, StartsStep
<1>2. CASE DinByte
  <2>1. Sends("din", 1) /\ "din" \in Ports /\ 1 \in 1 .. 3
    BY <1>2 DEF DinByte, Ports
  <2>2. 1 <= Len(sending["din"].left)
    BY <2>1, LeftOver DEF Sends
  <2> QED
    BY <2>1, <2>2, SendsStep
<1>3. CASE UsbPacket
  <2> DEFINE left == Len(sending["usb"].left)
             count == IF left < 3 THEN left ELSE 3
  <2>1. Sends("usb", count) /\ "usb" \in Ports
    BY <1>3 DEF UsbPacket, Ports
  <2>2. left \in Nat /\ 1 <= left
    BY <2>1, LeftOver DEF Sends
  <2> HIDE DEF left
  <2>3. count \in 1 .. 3 /\ count <= left
    BY <2>2
  <2> HIDE DEF count
  <2> QED
    BY <2>1, <2>3, SendsStep DEF left
<1>4. CASE UNCHANGED vars
  BY <1>4 DEF IndInv, vars, Types, SendingInv, Obeyed, ScanEnds
<1> QED
  BY <1>1, <1>2, <1>3, <1>4, DinClockStep, SessionEndsStep DEF Next

(* The buffer stands to the messages as the invariant says, for ever.      *)
THEOREM IndInvHolds == Spec => []IndInv
BY InitIndInv, NextIndInv, PTL DEF Spec

(* Every variable has its type: the position stays in the buffer.          *)
THEOREM TypeCorrect == Spec => []TypeOK
<1>1. IndInv => TypeOK
  BY DEF IndInv, Types, TypeOK, DeviceType, WantedType
<1> QED
  BY <1>1, IndInvHolds, PTL

(* The device does what a message asks for that comes through alone and    *)
(* brings all its bytes, whatever was mixed, cut or too long before.  Of   *)
(* an empty one, or one too short for its command, this says nothing: the  *)
(* buffer completes it (EmptyChangesNothing does not hold).                *)
THEOREM MessagesAreObeyed == Spec => []Obeyed
<1>1. IndInv => Obeyed
  BY DEF IndInv
<1> QED
  BY <1>1, IndInvHolds, PTL

(* The scan for the checksum ends for everything the editor builds.        *)
THEOREM ScanAlwaysEnds == Spec => []ScanEnds
<1>1. IndInv => ScanEnds
  BY DEF IndInv
<1> QED
  BY <1>1, IndInvHolds, PTL

===============================================================================
