---------------------------- MODULE MgbLink_proofs ----------------------------
(***************************************************************************)
(* Proofs about mGB mode (MgbLink), for all settings of the five channels  *)
(* and all status and data bytes, and about the ring its thru packets go   *)
(* through to the hosted devices (HostTxRing), for every ring size, packet *)
(* length and number of devices.                                           *)
(*                                                                         *)
(* mGB mode.  Beside the types the invariant says how each of the two      *)
(* parsers stands to the sender: the thru parser, from the first message   *)
(* on, and before it; and the parser of the link together with the Game    *)
(* Boy, as long as nothing has disturbed them.                             *)
(***************************************************************************)
EXTENDS MgbLink, HostTxRing, SequenceTheorems, TLAPS

(* The sender: where in a message it can be.                               *)
SenderInv ==
  /\ status \in {0} \union Statuses \union SystemCommon
  /\ status # 0 => Len(sent) < DataLength(status)
  /\ status = 0 => sent = <<>>
  /\ inSysex => status = 0
  /\ ~inSysex => chunk = <<>>

(* The thru parser knows what the sender is at, when it has seen a message *)
(* begin; and before, it keeps nothing.  While the sender has data to come *)
(* mgbThruStatus is never 0: the running status is not called on.          *)
ThruInStep ==
  /\ here
  /\ mgbThruSysex = inSysex
  /\ mgbThruSysexData = chunk
  /\ mgbThruStatus = status
  /\ status # 0 => mgbThruDataLength = DataLength(status) /\ mgbThruData = sent

ThruIdle ==
  /\ ~mgbThruSysex /\ mgbThruSysexData = <<>>
  /\ mgbThruRunningStatus = 0
  /\ mgbThruStatus = 0 \/ (status = 0 /\ ~inSysex)

ThruInv == /\ synced => ThruInStep
           /\ ~synced /\ here => ThruIdle

(* The link and the Game Boy follow the sender while undisturbed.          *)
LinkInStep ==
  /\ status \in Statuses
  /\ IF IsOwn(status)
     THEN /\ gbStatus = ToVoice(status) /\ gbData = sent
          /\ midiAddressMode = ~midiValueMode
          /\ DataLength(status) = 2 => (midiAddressMode <=> sent = <<>>)
     ELSE ~midiAddressMode /\ ~midiValueMode

GbInv == IF gbStatus = 0 THEN gbData = <<>> ELSE Len(gbData) < DataLength(gbStatus)

LinkInv == synced /\ disturbed = {} => LinkInStep

IndInv == /\ TypeOK /\ SenderInv /\ ThruInv /\ GbInv /\ LinkInv
          /\ ThruIsWhole /\ UndisturbedReachesGameboy

(* The types, in the groups the parts of a step change.                    *)
ByteValues == 0..255

ThruTypes ==
  /\ mgbThruRunningStatus \in {0} \union 128..239
  /\ mgbThruStatus \in {0} \union 128..247
  /\ mgbThruDataLength \in 0..2
  /\ mgbThruSysex \in BOOLEAN
  /\ mgbThruData \in Seq(Data) /\ Len(mgbThruData) <= 2
  /\ mgbThruSysexData \in Seq(ByteValues) /\ Len(mgbThruSysexData) <= 2
  /\ toUsb \in Seq(Seq(ByteValues)) /\ Len(toUsb) <= 1

LinkTypes ==
  /\ midiAddressMode \in BOOLEAN /\ midiValueMode \in BOOLEAN
  /\ gbStatus \in {0} \union 128..239 /\ gbData \in Seq(Data) /\ Len(gbData) <= 1
  /\ heard \in Seq(ByteValues)

SenderTypes ==
  /\ status \in {0} \union 128..246 /\ sent \in Seq(Data) /\ Len(sent) <= 1
  /\ inSysex \in BOOLEAN /\ chunk \in Seq(ByteValues) /\ Len(chunk) <= 2
  /\ due \in Seq(Seq(ByteValues)) /\ dueGb \in Seq(ByteValues)
  /\ synced \in BOOLEAN /\ disturbed \subseteq {"realTime", "system", "usb"}

LEMMA Types == TypeOK <=> here \in BOOLEAN /\ ThruTypes /\ LinkTypes /\ SenderTypes
BY DEF TypeOK, ThruTypes, LinkTypes, SenderTypes, ByteValues

-------------------------------------------------------------------------------
(* Bytes and messages.                                                     *)

(* What the code looks up of a status byte.                                *)
LEMMA StatusBytes ==
  /\ \A s \in 128..239 : DataLength(s) \in 1..2 /\ CodeIndex(s) \in ByteValues
  /\ \A s \in Statuses : s \in 128..239 /\ DataLength(s) \in 1..2 /\ CodeIndex(s) \in ByteValues
  /\ \A s \in SystemCommon : s \in 241..246 /\ DataLength(s) \in 0..2 /\ CodeIndex(s) \in ByteValues
  /\ \A s \in 240..255 : DataLength(s) \in 0..2 /\ CodeIndex(s) \in ByteValues
  /\ DataLength(SysexEnd) = 0
  /\ \A b \in Data : b \in 0..127
BY StatusesAssumption, SystemCommonAssumption, DataAssumption
   DEF DataLength, CodeIndex, Kind, SysexEnd, ByteValues

(* A status stays of its kind when the number of a voice replaces its      *)
(* channel.                                                                *)
LEMMA VoiceKeepsKind ==
  ASSUME NEW s \in Statuses, IsOwn(s)
  PROVE  ToVoice(s) \in 128..239 /\ DataLength(ToVoice(s)) = DataLength(s)
<1> DEFINE of == {i \in DOMAIN OwnChannels : OwnChannels[i] = (s % 16)}
           Lowest(i) == /\ i \in DOMAIN OwnChannels
                        /\ OwnChannels[i] = (s % 16)
                        /\ \A j \in 1..(i - 1) : OwnChannels[j] # (s % 16)
           i0 == CHOOSE i \in DOMAIN OwnChannels :
                   /\ OwnChannels[i] = (s % 16)
                   /\ \A j \in 1..(i - 1) : OwnChannels[j] # (s % 16)
<1>1. DOMAIN OwnChannels = 1..Len(OwnChannels) /\ Len(OwnChannels) \in 0..5
  <2>1. Len(OwnChannels) \in Nat /\ Len(OwnChannels) <= 5 /\ OwnChannels \in Seq(0..255)
    BY OwnChannelsAssumption, LenProperties
  <2>2. DOMAIN OwnChannels = 1..Len(OwnChannels)
    BY <2>1, LenProperties
  <2> QED
    BY <2>1, <2>2
<1>2. of \subseteq {1, 2, 3, 4, 5} /\ of # {}
  BY <1>1 DEF IsOwn
<1>3. PICK n \in of : \A m \in of : n <= m
  <2> HIDE DEF of
  <2>1. CASE 1 \in of
    BY <1>2, <2>1
  <2>2. CASE 1 \notin of /\ 2 \in of
    BY <1>2, <2>2
  <2>three. CASE of \subseteq {3, 4, 5} /\ 3 \in of
    BY <1>2, <2>three
  <2>4. CASE of \subseteq {4, 5} /\ 4 \in of
    BY <1>2, <2>4
  <2>5. CASE of = {5}
    BY <1>2, <2>5
  <2> QED
    BY <1>2, <2>1, <2>2, <2>three, <2>4, <2>5
<1>4. Lowest(n)
  BY <1>1, <1>3
<1>5. i0 \in 1..5
  BY <1>1, <1>4
<1> HIDE DEF i0
<1>6. ToVoice(s) = Kind(s) + i0 - 1
  BY DEF ToVoice, i0
<1>7. s \in 128..239
  BY StatusBytes
<1> QED
  BY <1>5, <1>6, <1>7 DEF Kind, DataLength

(* Sequences of bytes, and the packets made of them.                       *)
LEMMA BytesJoin ==
  /\ Seq(Data) \subseteq Seq(ByteValues)
  /\ \A s \in Seq(ByteValues), b \in ByteValues : s \o <<b>> = Append(s, b)
  /\ \A b \in ByteValues : <<>> \o <<b>> = Append(<<>>, b)
  /\ \A s \in Seq(ByteValues), t \in Seq(ByteValues) : s \o t \in Seq(ByteValues)
<1>1. Seq(Data) \subseteq Seq(ByteValues)
  BY StatusBytes, SeqMonotonic DEF ByteValues
<1>2. \A s \in Seq(ByteValues), t \in Seq(ByteValues) : s \o t \in Seq(ByteValues)
  BY ConcatProperties
<1>3. ASSUME NEW s \in Seq(ByteValues), NEW b \in ByteValues
      PROVE  s \o <<b>> = Append(s, b)
  <2>1. /\ <<b>> \in Seq(ByteValues)
        /\ Append(s, b) \in Seq(ByteValues)
        /\ Len(<<b>>) = 1
        /\ Len(Append(s, b)) = Len(s) + 1
        /\ Len(s) \in Nat
        /\ \A i \in 1 .. Len(s) + 1 : Append(s, b)[i] = IF i <= Len(s) THEN s[i] ELSE b
    OBVIOUS
  <2>2. /\ s \o <<b>> \in Seq(ByteValues)
        /\ Len(s \o <<b>>) = Len(s) + 1
        /\ \A i \in 1 .. Len(s) + 1 : (s \o <<b>>)[i] = IF i <= Len(s) THEN s[i] ELSE b
    BY <2>1, ConcatProperties
  <2> QED
    BY <2>1, <2>2, SeqEqual
<1> QED
  BY <1>1, <1>2, <1>3

(* Nothing.                                                                *)
LEMMA Nothing ==
  /\ <<>> \in Seq(Data) /\ <<>> \in Seq(ByteValues) /\ <<>> \in Seq(Seq(ByteValues))
  /\ Len(<<>>) = 0 /\ Len(<<>>) <= 1 /\ Len(<<>>) <= 2
OBVIOUS

(* A packet is a sequence of bytes, and one of them at most is sent.       *)
LEMMA PacketType ==
  ASSUME NEW c \in ByteValues, NEW s \in ByteValues, NEW data \in Seq(ByteValues)
  PROVE  /\ <<c, s>> \o data \in Seq(ByteValues) /\ <<c>> \o data \in Seq(ByteValues)
         /\ << <<c, s>> \o data >> \in Seq(Seq(ByteValues)) /\ Len(<< <<c, s>> \o data >>) = 1
         /\ << <<c>> \o data >> \in Seq(Seq(ByteValues)) /\ Len(<< <<c>> \o data >>) = 1
<1>1. <<c, s>> \in Seq(ByteValues) /\ <<c>> \in Seq(ByteValues)
  OBVIOUS
<1>2. <<c, s>> \o data \in Seq(ByteValues) /\ <<c>> \o data \in Seq(ByteValues)
  BY <1>1, BytesJoin
<1> HIDE DEF ByteValues
<1> QED
  BY <1>2

-------------------------------------------------------------------------------
(* The parsers keep the types.                                             *)

MidiBytes == Data \union Statuses \union SystemCommon \union {SysexBegin, SysexEnd, Clock}

(* A byte is a status, a data byte or neither, as its value says.          *)
LEMMA MidiByteKinds ==
  \A b \in MidiBytes : /\ b \in ByteValues
                       /\ b < 128 => b \in Data
                       /\ b >= 128 /\ b < 240 => b \in Statuses
                       /\ b > 240 /\ b < Clock /\ b # SysexEnd => b \in SystemCommon
BY StatusBytes DEF MidiBytes, SysexBegin, SysexEnd, Clock, ByteValues

(* The parser of the thru keeps its types, whatever the byte.              *)
LEMMA ThruKeepsTypes ==
  ASSUME ThruTypes, NEW b \in MidiBytes, ThruByte(b)
  PROVE  ThruTypes'
<1>0. b \in ByteValues
  BY MidiByteKinds
<1>1. CASE b >= Clock
  <2>1. << <<15, b>> >> \in Seq(Seq(ByteValues)) /\ Len(<< <<15, b>> >>) = 1
    BY MidiByteKinds DEF ByteValues
  <2>2. toUsb' = << <<15, b>> >> /\ UNCHANGED thruVars
    BY <1>1 DEF ThruByte
  <2> HIDE DEF ByteValues
  <2> QED
    BY <2>1, <2>2 DEF ThruTypes, thruVars
<1>2. CASE ~(b >= Clock) /\ (mgbThruSysex \/ b = SysexBegin)
  <2> DEFINE data == (IF b = SysexBegin THEN <<>> ELSE mgbThruSysexData) \o <<b>>
             cin == IF b = SysexEnd THEN 4 + Len(data) ELSE 4
  <2>1. ThruSysex(b)
    BY <1>2 DEF ThruByte
  <2>2. data \in Seq(ByteValues) /\ Len(data) \in 1..3
    BY MidiByteKinds, BytesJoin DEF ThruTypes
  <2>3. cin \in ByteValues
    <3> DEFINE n == Len(data)
    <3>1. n \in 1..3
      BY <2>2
    <3> HIDE DEF n
    <3>2. 4 + n \in ByteValues /\ 4 \in ByteValues
      BY <3>1 DEF ByteValues
    <3> QED
      BY <3>2 DEF n
  <2>4. << <<cin>> \o data >> \in Seq(Seq(ByteValues)) /\ Len(<< <<cin>> \o data >>) = 1
    BY <2>2, <2>3, PacketType
  <2>5. /\ mgbThruSysexData' = IF Len(data) = 3 \/ b = SysexEnd THEN <<>> ELSE data
        /\ toUsb' = IF Len(data) = 3 \/ b = SysexEnd THEN << <<cin>> \o data >> ELSE <<>>
    BY <2>1 DEF ThruSysex
  <2> HIDE DEF data, cin, ByteValues
  <2>6. /\ mgbThruSysexData' \in Seq(ByteValues) /\ Len(mgbThruSysexData') <= 2
        /\ toUsb' \in Seq(Seq(ByteValues)) /\ Len(toUsb') <= 1
    <3> DEFINE full == Len(data) = 3 \/ b = SysexEnd
    <3>1. CASE full
      BY <2>4, <2>5, <3>1
    <3>2. CASE ~full
      <4>1. mgbThruSysexData' = data /\ toUsb' = <<>>
        BY <2>5, <3>2
      <4> DEFINE n == Len(data)
      <4>2. n \in 1..3 /\ n # 3
        BY <2>2, <3>2
      <4> HIDE DEF n
      <4>3. n <= 2
        BY <4>2
      <4>4. Len(mgbThruSysexData') <= 2 /\ mgbThruSysexData' \in Seq(ByteValues)
        BY <2>2, <4>1, <4>3 DEF n
      <4>5. toUsb' \in Seq(Seq(ByteValues)) /\ Len(toUsb') <= 1
        BY <4>1
      <4> QED
        BY <4>4, <4>5
    <3> QED
      BY <3>1, <3>2
  <2>7. /\ mgbThruSysex' = (b # SysexEnd)
        /\ mgbThruRunningStatus' \in {0, mgbThruRunningStatus}
        /\ mgbThruStatus' \in {0, mgbThruStatus}
        /\ UNCHANGED <<mgbThruData, mgbThruDataLength>>
    BY <2>1 DEF ThruSysex
  <2> QED
    BY <2>6, <2>7 DEF ThruTypes
<1>3. CASE b >= 128 /\ ~(b >= Clock) /\ ~(mgbThruSysex \/ b = SysexBegin)
  <2>1. ThruStatus(b)
    BY <1>3 DEF ThruByte
  <2>2. b \in 128..247 /\ DataLength(b) \in 0..2
    <3>1. b \in 128..239 \/ b \in 240..247
      BY <1>0, <1>3 DEF Clock, ByteValues
    <3>2. b \in 128..247 /\ (b \in 128..239 \/ b \in 240..255)
      BY <3>1
    <3> QED
      BY <3>2, StatusBytes
  <2>3. << <<5, b>> >> \in Seq(Seq(ByteValues)) /\ Len(<< <<5, b>> >>) = 1
    BY MidiByteKinds DEF ByteValues
  <2> QED
    BY <2>1, <2>2, <2>3 DEF ThruStatus, ThruTypes
<1>4. CASE ~(b >= 128) /\ ~(b >= Clock) /\ ~(mgbThruSysex \/ b = SysexBegin)
  <2> DEFINE resumed == mgbThruStatus = 0 /\ mgbThruRunningStatus # 0
             s == IF resumed THEN mgbThruRunningStatus ELSE mgbThruStatus
             length == IF resumed THEN DataLength(s) ELSE mgbThruDataLength
             data == Append(mgbThruData, b)
             taken == s # 0 /\ Len(mgbThruData) < 2
             over == taken /\ Len(data) = length
             packed == << <<CodeIndex(s), s>> \o data >>
  <2>1. ThruData(b)
    BY <1>4 DEF ThruByte
  <2>2. s \in {0} \union 128..247 /\ length \in 0..2
    <3>1. s \in {0} \union 128..247 /\ (resumed => s \in 128..239)
      BY DEF ThruTypes
    <3> HIDE DEF s, resumed
    <3> QED
      <4>1. CASE resumed
        BY <3>1, <4>1, StatusBytes
      <4>2. CASE ~resumed
        BY <3>1, <4>2 DEF ThruTypes
      <4> QED
        BY <4>1, <4>2
  <2>3. data \in Seq(Data) /\ (taken => Len(data) <= 2)
    BY <1>0, <1>4, MidiByteKinds DEF ThruTypes, ByteValues
  <2>4. s # 0 => packed \in Seq(Seq(ByteValues)) /\ Len(packed) = 1
    <3>1. s # 0 => CodeIndex(s) \in ByteValues /\ s \in ByteValues
      <4>1. s # 0 => s \in 128..239 \/ s \in 240..255
        BY <2>2
      <4>2. s # 0 => s \in 0..255
        BY <4>1
      <4> HIDE DEF s
      <4> QED
        <5>1. s # 0 => CodeIndex(s) \in ByteValues
          BY <4>1, StatusBytes
        <5> QED
          BY <4>2, <5>1 DEF ByteValues
    <3>2. data \in Seq(ByteValues)
      BY <2>3, BytesJoin
    <3> QED
      BY <3>1, <3>2, PacketType
  <2>5. /\ toUsb' = IF over THEN packed ELSE <<>>
        /\ mgbThruData' = IF over THEN <<>> ELSE IF taken THEN data ELSE mgbThruData
        /\ mgbThruStatus' = IF over /\ s >= 240 THEN 0 ELSE s
        /\ mgbThruDataLength' = IF over /\ s >= 240 THEN 0 ELSE length
        /\ UNCHANGED <<mgbThruRunningStatus, mgbThruSysex, mgbThruSysexData>>
    BY <2>1 DEF ThruData
  <2>6. over => s # 0
    OBVIOUS
  <2> HIDE DEF s, length, data, over, taken, packed, resumed
  <2> QED
    <3> HIDE DEF ByteValues
    <3>1. CASE over
      <4>1. toUsb' = packed /\ mgbThruData' = <<>>
        BY <2>5, <3>1
      <4>2. mgbThruStatus' \in {0, s} /\ mgbThruDataLength' \in {0, length}
        BY <2>5
      <4>3. toUsb' \in Seq(Seq(ByteValues)) /\ Len(toUsb') <= 1
        <5>1. packed \in Seq(Seq(ByteValues)) /\ Len(packed) = 1
          BY <2>4, <2>6, <3>1
        <5> QED
          BY <4>1, <5>1
      <4>4. mgbThruData' \in Seq(Data) /\ Len(mgbThruData') <= 2
        BY <4>1
      <4> QED
        BY <2>2, <2>5, <4>2, <4>3, <4>4 DEF ThruTypes
    <3>2. CASE ~over
      BY <2>2, <2>3, <2>5, <3>2 DEF ThruTypes
    <3> QED
      BY <3>1, <3>2
<1> QED
  BY <1>0, <1>1, <1>2, <1>3, <1>4 DEF ByteValues, Clock

(* The link: what a byte does to the Game Boy.                             *)
LEMMA GbByteKeepsTypes ==
  ASSUME LinkTypes, GbInv, NEW b \in Data \union 128..239, GbByte(b)
  PROVE  /\ gbStatus' \in {0} \union 128..239 /\ gbData' \in Seq(Data) /\ Len(gbData') <= 1
         /\ heard' \in Seq(ByteValues)
         /\ GbInv'
<1>1. CASE b >= 128
  <2>1. b \in 128..239 /\ DataLength(b) \in 1..2
    BY <1>1, StatusBytes
  <2> QED
    BY <1>1, <2>1 DEF GbByte, GbInv, None
<1>2. CASE ~(b >= 128) /\ gbStatus = 0
  <2>1. gbStatus' = gbStatus /\ gbData' = gbData /\ heard' = <<>>
    BY <1>2, Zenon DEF GbByte, None
  <2> HIDE DEF ByteValues
  <2> QED
    BY <1>2, <2>1 DEF LinkTypes, GbInv
<1>3. CASE ~(b >= 128) /\ gbStatus # 0
  <2>1. b \in Data /\ b \in ByteValues
    BY <1>3, StatusBytes DEF ByteValues
  <2>2. gbStatus \in 128..239 /\ gbStatus \in ByteValues /\ DataLength(gbStatus) \in 1..2
    <3>1. gbStatus \in 128..239
      BY <1>3 DEF LinkTypes
    <3> QED
      BY <3>1, StatusBytes DEF ByteValues
  <2>3. gbData \in Seq(Data) /\ gbData \in Seq(ByteValues) /\ Len(gbData) < DataLength(gbStatus)
    BY <1>3, BytesJoin DEF LinkTypes, GbInv
  <2>4. <<gbStatus>> \o gbData \o <<b>> \in Seq(ByteValues)
    <3>1. <<gbStatus>> \in Seq(ByteValues) /\ <<b>> \in Seq(ByteValues)
      BY <2>1, <2>2
    <3> QED
      BY <2>3, <3>1, BytesJoin
  <2>5. Append(gbData, b) \in Seq(Data) /\ Len(Append(gbData, b)) = Len(gbData) + 1
    BY <2>1, <2>3
  <2> HIDE DEF ByteValues
  <2>6. CASE Len(gbData) + 1 = DataLength(gbStatus)
    <3>1. gbData' = <<>> /\ heard' = <<gbStatus>> \o gbData \o <<b>> /\ gbStatus' = gbStatus
      BY <1>3, <2>6, Zenon DEF GbByte
    <3> QED
      BY <1>3, <2>2, <2>4, <3>1 DEF GbInv
  <2>7. CASE Len(gbData) + 1 # DataLength(gbStatus)
    <3>1. gbData' = Append(gbData, b) /\ heard' = <<>> /\ gbStatus' = gbStatus
      BY <1>3, <2>7, Zenon DEF GbByte, None
    <3> QED
      BY <1>3, <2>2, <2>3, <2>5, <2>7, <3>1 DEF GbInv
  <2> QED
    BY <2>6, <2>7
<1> QED
  BY <1>1, <1>2, <1>3, StatusBytes

(* The reader of the serial port keeps its types, whatever the byte.       *)
LEMMA LinkKeepsTypes ==
  ASSUME LinkTypes, GbInv, NEW b \in MidiBytes, LinkByte(b)
  PROVE  LinkTypes' /\ GbInv'
<1>1. midiAddressMode' \in BOOLEAN /\ midiValueMode' \in BOOLEAN
  <2>1. CASE LinkStatus(b)
    <3>1. IsOwn(b) \in BOOLEAN
      BY DEF IsOwn
    <3>2. midiAddressMode' \in {midiAddressMode, IsOwn(b)} /\ midiValueMode' = FALSE
      BY <2>1 DEF LinkStatus
    <3> QED
      BY <3>1, <3>2 DEF LinkTypes
  <2>2. CASE LinkAddress(b) \/ LinkValue(b) \/ LinkIgnore(b)
    BY <2>2 DEF LinkAddress, LinkValue, LinkIgnore, linkVars, LinkTypes
  <2> QED
    BY <2>1, <2>2 DEF LinkByte
<1>2. CASE GbNothing
  BY <1>1, <1>2 DEF GbNothing, gbVars, None, LinkTypes, GbInv
<1>3. CASE b < 128 /\ GbByte(b)
  BY <1>1, <1>3, MidiByteKinds, GbByteKeepsTypes DEF LinkTypes
<1>4. CASE b >= 128 /\ IsOwn(b) /\ GbByte(ToVoice(b))
  <2>1. ToVoice(b) \in 128..239
    BY <1>4, MidiByteKinds, VoiceKeepsKind DEF IsOwn
  <2> QED
    BY <1>1, <1>4, <2>1, GbByteKeepsTypes DEF LinkTypes
<1> QED
  BY <1>2, <1>3, <1>4 DEF LinkByte, LinkStatus, LinkAddress, LinkValue, LinkIgnore

(* A byte received keeps the types, in this mode or another.               *)
LEMMA ReceiveKeepsTypes ==
  ASSUME TypeOK, GbInv, NEW b \in MidiBytes, Receive(b)
  PROVE  here' = here /\ here \in BOOLEAN /\ ThruTypes' /\ LinkTypes' /\ GbInv'
<1>1. here' = here /\ here \in BOOLEAN /\ ThruTypes /\ LinkTypes
  BY Types DEF Receive
<1>2. CASE here
  BY <1>1, <1>2, ThruKeepsTypes, LinkKeepsTypes DEF Receive
<1>3. CASE ~here
  <2>1. UNCHANGED <<linkVars, thruVars>> /\ toUsb' = <<>> /\ GbNothing
    BY <1>3, Zenon DEF Receive
  <2> HIDE DEF ByteValues
  <2> QED
    BY <1>1, <2>1 DEF linkVars, thruVars, gbVars, GbNothing, None, ThruTypes, LinkTypes, GbInv
<1> QED
  BY <1>2, <1>3, <1>1

(* What a byte to another mode does.                                       *)
LEMMA ReceiveElsewhere ==
  ASSUME ~here, NEW b, Receive(b)
  PROVE  /\ ~here' /\ UNCHANGED <<linkVars, thruVars, gbVars>>
         /\ toUsb' = <<>> /\ heard' = <<>>
BY Zenon DEF Receive, GbNothing, None

-------------------------------------------------------------------------------
(* The sender's steps.                                                     *)

(* A real-time byte changes nothing that a message depends on.             *)
LEMMA SendRealTimeStep ==
  ASSUME IndInv, SendRealTime
  PROVE  IndInv'
<1> DEFINE packed == << <<15, Clock>> >>
<1>1. Receive(Clock) /\ UNCHANGED <<status, sent, inSysex, chunk, synced>> /\ dueGb' = <<>>
  BY DEF SendRealTime, sender, None
<1>2. Clock \in MidiBytes
  BY DEF MidiBytes
<1>3. /\ here \in BOOLEAN /\ ThruTypes /\ LinkTypes /\ SenderTypes
      /\ SenderInv /\ ThruInv /\ GbInv /\ LinkInv /\ ThruIsWhole
      /\ here' = here /\ ThruTypes' /\ LinkTypes' /\ GbInv'
  BY <1>1, <1>2, ReceiveKeepsTypes, Types DEF IndInv
<1>4. due' = IF here THEN packed ELSE <<>>
  BY DEF SendRealTime, Due
<1>5. SenderTypes'
  <2>1. packed \in Seq(Seq(ByteValues))
    BY DEF Clock, ByteValues
  <2>2. due' \in Seq(Seq(ByteValues)) /\ dueGb' \in Seq(ByteValues)
    BY <1>1, <1>4, <2>1
  <2>3. disturbed' \subseteq {"realTime", "system", "usb"}
    BY <1>3 DEF SendRealTime, SenderTypes
  <2> HIDE DEF ByteValues
  <2> QED
    BY <1>1, <1>3, <2>2, <2>3 DEF SenderTypes
<1>6. SenderInv'
  BY <1>1, <1>3 DEF SenderInv
<1>7. UNCHANGED thruVars /\ toUsb' = IF here THEN packed ELSE <<>>
  <2>1. CASE here
    <3>1. ThruByte(Clock)
      BY <1>1, <2>1 DEF Receive
    <3>2. Clock >= Clock
      BY DEF Clock
    <3> QED
      BY <2>1, <3>1, <3>2 DEF ThruByte
  <2>2. CASE ~here
    BY <1>1, <2>2, ReceiveElsewhere
  <2> QED
    BY <2>1, <2>2
<1>8. ThruInv' /\ ThruIsWhole'
  BY <1>1, <1>3, <1>4, <1>7 DEF ThruInv, ThruInStep, ThruIdle, ThruIsWhole, thruVars
<1>9. LinkInv' /\ UndisturbedReachesGameboy'
  <2> SUFFICES ASSUME synced', disturbed' = {}
               PROVE  LinkInStep' /\ heard' = dueGb'
    BY DEF LinkInv, UndisturbedReachesGameboy
  <2>1. synced /\ disturbed = {} /\ sent = <<>> /\ DataLength(status) = 2
    <3>1. "realTime" \notin disturbed' /\ disturbed \subseteq disturbed'
      BY DEF SendRealTime
    <3> QED
      BY <1>1, <3>1 DEF SendRealTime
  <2>2. here /\ LinkInStep
    BY <1>3, <2>1 DEF ThruInv, ThruInStep, LinkInv
  <2>3. LinkStatus(Clock) /\ ~IsOwn(Clock)
    BY <1>1, <2>2 DEF Receive, LinkByte, LinkStatus, LinkAddress, LinkValue, LinkIgnore, IsOwn, Clock
  <2>4. UNCHANGED <<midiAddressMode, gbStatus, gbData>> /\ midiValueMode' = FALSE /\ heard' = <<>>
    BY <2>3 DEF LinkStatus, GbNothing, gbVars, None, Clock
  <2> QED
    BY <1>1, <1>3, <2>1, <2>2, <2>4 DEF LinkInStep, LinkTypes
<1>10. TypeOK'
  BY <1>3, <1>5 DEF TypeOK, ThruTypes, LinkTypes, SenderTypes, ByteValues
<1> QED
  BY <1>3, <1>6, <1>8, <1>9, <1>10 DEF IndInv

(* A status byte begins a message for both parsers.                        *)
LEMMA SendStatusStep ==
  ASSUME IndInv, SendStatus
  PROVE  IndInv'
<1>1. PICK s \in Statuses \union SystemCommon :
        LET alone == s >= 240 /\ DataLength(s) = 0 IN
        /\ ~inSysex
        /\ Receive(s)
        /\ sent' = <<>>
        /\ status' = IF alone THEN 0 ELSE s
        /\ Due(IF alone THEN << <<5, s>> >> ELSE <<>>) /\ dueGb' = <<>>
        /\ synced' = here
        /\ disturbed' = IF s >= 240 THEN disturbed \union {"system"} ELSE {}
        /\ UNCHANGED <<inSysex, chunk>>
  BY DEF SendStatus, None
<1> DEFINE alone == s >= 240 /\ DataLength(s) = 0
<1>2. /\ s \in MidiBytes /\ s \in ByteValues /\ s \in 128..246 /\ s # 240 /\ s \in Int
      /\ s < 240 => s \in Statuses
      /\ DataLength(s) \in 0..2
      /\ ~alone => DataLength(s) \in 1..2
  <2>1. s \in Statuses => s \in 128..239 /\ DataLength(s) \in 1..2
    BY StatusBytes
  <2>2. s \in SystemCommon => s \in 241..246 /\ DataLength(s) \in 0..2
    BY StatusBytes
  <2>3. s \in MidiBytes
    BY DEF MidiBytes
  <2> QED
    BY <2>1, <2>2, <2>3 DEF ByteValues
<1>3. /\ here \in BOOLEAN /\ ThruTypes /\ LinkTypes /\ SenderTypes
      /\ SenderInv /\ ThruInv /\ GbInv
      /\ here' = here /\ ThruTypes' /\ LinkTypes' /\ GbInv'
  BY <1>1, <1>2, ReceiveKeepsTypes, Types DEF IndInv
<1>4. due' = IF here /\ alone THEN << <<5, s>> >> ELSE <<>>
  BY <1>1 DEF Due
<1>5. SenderTypes'
  <2>1. << <<5, s>> >> \in Seq(Seq(ByteValues))
    BY <1>2 DEF ByteValues
  <2>2. due' \in Seq(Seq(ByteValues)) /\ dueGb' \in Seq(ByteValues)
    BY <1>1, <1>4, <2>1
  <2>3. disturbed' \subseteq {"realTime", "system", "usb"}
    BY <1>1, <1>3 DEF SenderTypes
  <2>4. status' \in {0} \union 128..246
    BY <1>1, <1>2
  <2> HIDE DEF ByteValues
  <2> QED
    BY <1>1, <1>3, <2>2, <2>3, <2>4 DEF SenderTypes
<1>6. SenderInv'
  <2>1. CASE alone
    BY <1>1, <1>2, <1>3, <2>1 DEF SenderInv
  <2>2. CASE ~alone
    BY <1>1, <1>2, <1>3, <2>2 DEF SenderInv
  <2> QED
    BY <2>1, <2>2
<1>7. here => ThruStatus(s) /\ mgbThruSysexData = <<>> /\ ~mgbThruSysex
  <2> SUFFICES ASSUME here
               PROVE  ThruStatus(s) /\ mgbThruSysexData = <<>> /\ ~mgbThruSysex
    OBVIOUS
  <2>1. ~mgbThruSysex /\ mgbThruSysexData = <<>>
    BY <1>1, <1>3 DEF ThruInv, ThruInStep, ThruIdle, SenderInv, SenderTypes
  <2>2. ThruByte(s)
    BY <1>1 DEF Receive
  <2>3. ~(s >= Clock) /\ s # SysexBegin /\ s >= 128
    BY <1>2 DEF Clock, SysexBegin
  <2> QED
    BY <2>1, <2>2, <2>3 DEF ThruByte
<1>8. here => /\ toUsb' = due' /\ mgbThruSysex' = inSysex' /\ mgbThruSysexData' = chunk'
              /\ mgbThruStatus' = status' /\ mgbThruData' = sent'
              /\ mgbThruDataLength' = DataLength(s)
  <2> SUFFICES ASSUME here
               PROVE  /\ toUsb' = due' /\ mgbThruSysex' = inSysex' /\ mgbThruSysexData' = chunk'
                      /\ mgbThruStatus' = status' /\ mgbThruData' = sent'
                      /\ mgbThruDataLength' = DataLength(s)
    OBVIOUS
  <2>1. DataLength(s) = 0 /\ s # SysexEnd <=> alone
    BY <1>2, StatusBytes DEF SysexEnd
  <2>2. chunk' = <<>> /\ inSysex' = FALSE
    BY <1>1, <1>3 DEF SenderInv, SenderTypes
  <2>3. mgbThruSysex = FALSE
    BY <1>3, <1>7 DEF ThruTypes
  <2> HIDE DEF alone
  <2> QED
    BY <1>1, <1>4, <1>7, <2>1, <2>2, <2>3 DEF ThruStatus, alone
<1>9. ThruInv' /\ ThruIsWhole'
  <2>1. CASE here
    BY <1>1, <1>3, <1>8, <2>1 DEF ThruInv, ThruInStep, ThruIsWhole
  <2>2. CASE ~here
    BY <1>1, <1>3, <2>2, ReceiveElsewhere DEF ThruInv, ThruIsWhole
  <2> QED
    BY <2>1, <2>2
<1>10. LinkInv' /\ UndisturbedReachesGameboy'
  <2> SUFFICES ASSUME synced', disturbed' = {}
               PROVE  LinkInStep' /\ heard' = dueGb'
    BY DEF LinkInv, UndisturbedReachesGameboy
  <2>1. here /\ ~(s >= 240) /\ s \in Statuses /\ status' = s
    <3>1. here
      BY <1>1
    <3>2. ~(s >= 240)
      BY <1>1
    <3> QED
      BY <1>1, <1>2, <3>1, <3>2
  <2>2. LinkStatus(s)
    BY <1>1, <1>2, <2>1 DEF Receive, LinkByte, LinkAddress, LinkValue, LinkIgnore
  <2>3. midiValueMode' = FALSE /\ midiAddressMode' = IsOwn(s)
    BY <2>1, <2>2, Zenon DEF LinkStatus
  <2>4. CASE IsOwn(s)
    <3>1. GbByte(ToVoice(s)) /\ ToVoice(s) >= 128
      BY <2>1, <2>2, <2>4, VoiceKeepsKind DEF LinkStatus
    <3>2. gbStatus' = ToVoice(s) /\ gbData' = <<>> /\ heard' = <<>>
      BY <3>1 DEF GbByte, None
    <3>3. midiAddressMode' = TRUE
      BY <2>3, <2>4
    <3> QED
      BY <1>1, <2>1, <2>3, <2>4, <3>2, <3>3 DEF LinkInStep
  <2>5. CASE ~IsOwn(s)
    <3>1. heard' = <<>>
      BY <2>2, <2>5 DEF LinkStatus, GbNothing, None
    <3> QED
      BY <1>1, <2>1, <2>3, <2>5, <3>1 DEF LinkInStep
  <2> QED
    BY <2>4, <2>5
<1>11. TypeOK'
  BY <1>3, <1>5 DEF TypeOK, ThruTypes, LinkTypes, SenderTypes, ByteValues
<1> QED
  BY <1>3, <1>6, <1>9, <1>10, <1>11 DEF IndInv

(* A data byte goes on with the message, or completes it.                  *)
LEMMA SendDataStep ==
  ASSUME IndInv, SendData
  PROVE  IndInv'
<1>1. PICK b \in Data :
        LET data == Append(sent, b)
            over == Len(data) = DataLength(status)
        IN /\ ~inSysex /\ status # 0
           /\ Receive(b)
           /\ sent' = IF over THEN <<>> ELSE data
           /\ status' = IF over /\ status >= 240 THEN 0 ELSE status
           /\ Due(IF over THEN << <<CodeIndex(status), status>> \o data >> ELSE <<>>)
           /\ dueGb' = IF over /\ here /\ IsOwn(status) THEN <<ToVoice(status)>> \o data ELSE <<>>
           /\ UNCHANGED <<inSysex, chunk, synced, disturbed>>
  BY DEF SendData, None
<1> DEFINE data == Append(sent, b)
           over == Len(data) = DataLength(status)
           packed == << <<CodeIndex(status), status>> \o data >>
<1>2. /\ b \in MidiBytes /\ b \in ByteValues /\ b \in 0..127
      /\ ~(b >= Clock) /\ b # SysexBegin /\ ~(b >= 128)
  BY StatusBytes DEF MidiBytes, ByteValues, Clock, SysexBegin
<1>3. /\ here \in BOOLEAN /\ ThruTypes /\ LinkTypes /\ SenderTypes
      /\ SenderInv /\ ThruInv /\ GbInv /\ LinkInv
      /\ here' = here /\ ThruTypes' /\ LinkTypes' /\ GbInv'
  BY <1>1, <1>2, ReceiveKeepsTypes, Types DEF IndInv
<1>4. due' = IF here /\ over THEN packed ELSE <<>>
  BY <1>1 DEF Due
<1>5. /\ status \in Statuses \union SystemCommon /\ status \in ByteValues /\ status \in 128..246
      /\ DataLength(status) \in 1..2 /\ CodeIndex(status) \in ByteValues
      /\ Len(sent) < DataLength(status)
      /\ status < 240 => status \in Statuses
  <2>1. status \in Statuses \union SystemCommon /\ Len(sent) < DataLength(status)
    BY <1>1, <1>3 DEF SenderInv
  <2>2. Len(sent) \in Nat
    BY <1>3, LenProperties DEF SenderTypes
  <2>3. DataLength(status) \in 0..2 /\ CodeIndex(status) \in ByteValues /\ status \in 128..246
    <3>1. CASE status \in Statuses
      <4>1. status \in 128..239
        BY <3>1, StatusBytes
      <4> QED
        BY <4>1, StatusBytes
    <3>2. CASE status \in SystemCommon
      <4>1. status \in 241..246
        BY <3>2, StatusBytes
      <4>2. status \in 240..255
        BY <4>1
      <4> QED
        BY <4>1, <4>2, StatusBytes
    <3> QED
      BY <2>1, <3>1, <3>2
  <2>4. status < 240 => status \in Statuses
    <3>1. status \in SystemCommon => ~(status < 240)
      BY StatusBytes
    <3> QED
      BY <2>1, <3>1
  <2> QED
    BY <2>1, <2>2, <2>3, <2>4 DEF ByteValues
<1>6. /\ data \in Seq(Data) /\ data \in Seq(ByteValues) /\ Len(data) = Len(sent) + 1 /\ data # <<>>
      /\ Len(sent) \in 0..1
  <2>1. sent \in Seq(Data) /\ Len(sent) \in 0..1
    <3>1. sent \in Seq(Data) /\ Len(sent) <= 1
      BY <1>3 DEF SenderTypes
    <3> DEFINE n == Len(sent)
    <3>2. n \in Nat /\ n <= 1
      BY <3>1, LenProperties
    <3> HIDE DEF n
    <3>3. n \in 0..1
      BY <3>2
    <3> QED
      BY <3>1, <3>3 DEF n
  <2>2. data \in Seq(Data) /\ Len(data) = Len(sent) + 1
    BY <2>1
  <2>3. data # <<>>
    <3>1. Len(data) # 0
      BY <2>1, <2>2
    <3> QED
      BY <3>1, EmptySeq
  <2> QED
    BY <2>1, <2>2, <2>3, BytesJoin
<1>7. packed \in Seq(Seq(ByteValues))
  <2> HIDE DEF data
  <2> QED
    BY <1>5, <1>6, PacketType
<1>8. SenderTypes'
  <2>1. sent' \in Seq(Data) /\ Len(sent') <= 1
    <3>1. CASE over
      BY <1>1, <3>1
    <3>2. CASE ~over
      <4>1. sent' = data
        BY <1>1, <3>2
      <4> DEFINE n == Len(data)
      <4>2. n # DataLength(status) /\ n = Len(sent) + 1
        BY <1>6, <3>2
      <4> HIDE DEF n
      <4>3. n <= 1
        BY <1>5, <1>6, <4>2
      <4> HIDE DEF data
      <4> QED
        BY <1>6, <4>1, <4>3 DEF n
    <3> QED
      BY <3>1, <3>2
  <2>2. due' \in Seq(Seq(ByteValues))
    <3> HIDE DEF packed, over
    <3> QED
      BY <1>4, <1>7
  <2>3. dueGb' \in Seq(ByteValues)
    <3>1. CASE over /\ here /\ IsOwn(status)
      <4>1. status \in Statuses
        BY <1>5, <3>1 DEF IsOwn
      <4>2. ToVoice(status) \in ByteValues
        BY <3>1, <4>1, VoiceKeepsKind DEF ByteValues
      <4>3. dueGb' = <<ToVoice(status)>> \o data
        BY <1>1, <3>1
      <4> HIDE DEF data
      <4> QED
        BY <1>6, <4>2, <4>3, PacketType
    <3>2. CASE ~(over /\ here /\ IsOwn(status))
      <4>1. dueGb' = <<>>
        BY <1>1, <3>2
      <4> QED
        BY <4>1
    <3> QED
      BY <3>1, <3>2
  <2>4. status' \in {0} \union 128..246
    BY <1>1, <1>5
  <2> HIDE DEF ByteValues
  <2> QED
    BY <1>1, <1>3, <2>1, <2>2, <2>3, <2>4 DEF SenderTypes
<1>9. SenderInv'
  <2>1. status' = 0 => sent' = <<>>
    BY <1>1, <1>5
  <2>2. status' # 0 => status' = status
    BY <1>1
  <2>3. Len(sent') < DataLength(status)
    <3>1. CASE over
      BY <1>1, <1>5, <3>1
    <3>2. CASE ~over
      <4>1. sent' = data /\ Len(data) # DataLength(status)
        BY <1>1, <3>2
      <4> DEFINE n == Len(data)
      <4>2. n # DataLength(status) /\ n = Len(sent) + 1
        BY <1>6, <4>1
      <4> HIDE DEF n
      <4>3. n < DataLength(status)
        BY <1>5, <1>6, <4>2
      <4> QED
        BY <4>1, <4>3 DEF n
    <3> QED
      BY <3>1, <3>2
  <2>4. status' \in {0} \union Statuses \union SystemCommon
    BY <1>1, <1>5
  <2> QED
    BY <1>1, <1>3, <2>1, <2>2, <2>3, <2>4 DEF SenderInv
<1>10. here => ThruData(b)
  <2> SUFFICES ASSUME here
               PROVE  ThruData(b)
    OBVIOUS
  <2>1. ~mgbThruSysex
    BY <1>1, <1>3 DEF ThruInv, ThruInStep, ThruIdle
  <2>2. ThruByte(b)
    BY <1>1 DEF Receive
  <2> QED
    BY <1>2, <2>1, <2>2 DEF ThruByte
<1>11. ThruInv' /\ ThruIsWhole'
  <2>1. CASE synced
    <3>1. here /\ ThruInStep
      BY <1>3, <2>1 DEF ThruInv, ThruInStep
    <3>2. /\ mgbThruStatus = status /\ status # 0
          /\ mgbThruDataLength = DataLength(status) /\ mgbThruData = sent
          /\ Len(mgbThruData) < 2
      BY <1>1, <1>5, <1>6, <3>1 DEF ThruInStep
    <3>3. /\ toUsb' = IF over THEN packed ELSE <<>>
          /\ mgbThruData' = IF over THEN <<>> ELSE data
          /\ mgbThruStatus' = IF over /\ status >= 240 THEN 0 ELSE status
          /\ mgbThruDataLength' = IF over /\ status >= 240 THEN 0 ELSE DataLength(status)
          /\ UNCHANGED <<mgbThruSysex, mgbThruSysexData>>
      BY <1>10, <3>1, <3>2 DEF ThruData
    <3>4. toUsb' = due' /\ mgbThruData' = sent' /\ mgbThruStatus' = status'
      BY <1>1, <1>4, <3>1, <3>3
    <3>5. status' # 0 => mgbThruDataLength' = DataLength(status')
      BY <1>1, <3>3
    <3> QED
      BY <1>1, <1>3, <2>1, <3>1, <3>3, <3>4, <3>5 DEF ThruInv, ThruInStep, ThruIsWhole
  <2>2. CASE ~synced /\ here
    <3>1. ThruIdle /\ mgbThruStatus = 0 /\ mgbThruRunningStatus = 0
      BY <1>1, <1>3, <2>2 DEF ThruInv, ThruIdle
    <3>2. /\ toUsb' = <<>> /\ mgbThruStatus' = 0
          /\ UNCHANGED <<mgbThruRunningStatus, mgbThruSysex, mgbThruSysexData>>
      BY <1>10, <2>2, <3>1 DEF ThruData
    <3> QED
      BY <1>1, <1>3, <2>2, <3>1, <3>2 DEF ThruInv, ThruIdle, ThruIsWhole
  <2>3. CASE ~synced /\ ~here
    BY <1>1, <1>3, <2>3, ReceiveElsewhere DEF ThruInv, ThruIsWhole
  <2> QED
    BY <2>1, <2>2, <2>3
<1>12. LinkInv' /\ UndisturbedReachesGameboy'
  <2> SUFFICES ASSUME synced', disturbed' = {}
               PROVE  LinkInStep' /\ heard' = dueGb'
    BY DEF LinkInv, UndisturbedReachesGameboy
  <2>1. synced /\ disturbed = {} /\ here /\ LinkInStep /\ LinkByte(b)
    BY <1>1, <1>3 DEF LinkInv, ThruInv, ThruInStep, Receive
  <2>2. status \in Statuses /\ status' = status
    <3>1. status \in Statuses
      BY <2>1 DEF LinkInStep
    <3>2. ~(status >= 240)
      BY <3>1, StatusBytes
    <3> QED
      BY <1>1, <3>1, <3>2
  <2>3. CASE ~IsOwn(status)
    <3>1. ~midiAddressMode /\ ~midiValueMode
      BY <2>1, <2>3 DEF LinkInStep
    <3>2. UNCHANGED linkVars /\ heard' = <<>>
      BY <1>2, <2>1, <3>1 DEF LinkByte, LinkStatus, LinkAddress, LinkValue, LinkIgnore,
         GbNothing, None
    <3>3. dueGb' = <<>>
      BY <1>1, <2>3
    <3> QED
      BY <2>2, <2>3, <3>1, <3>2, <3>3 DEF LinkInStep, linkVars
  <2>4. CASE IsOwn(status)
    <3>1. /\ gbStatus = ToVoice(status) /\ gbData = sent
          /\ midiAddressMode = ~midiValueMode
          /\ DataLength(status) = 2 => (midiAddressMode <=> sent = <<>>)
      BY <2>1, <2>4 DEF LinkInStep
    <3>2. /\ midiAddressMode' = ~midiAddressMode /\ midiValueMode' = ~midiValueMode
          /\ GbByte(b)
      BY <1>2, <1>3, <2>1, <3>1
         DEF LinkByte, LinkStatus, LinkAddress, LinkValue, LinkIgnore, LinkTypes
    <3>3. gbStatus # 0 /\ gbStatus \in ByteValues /\ DataLength(gbStatus) = DataLength(status)
      <4>1. gbStatus \in 128..239 /\ DataLength(gbStatus) = DataLength(status)
        BY <2>2, <2>4, <3>1, VoiceKeepsKind
      <4> QED
        BY <4>1 DEF ByteValues
    <3>4. /\ gbStatus' = gbStatus
          /\ gbData' = IF over THEN <<>> ELSE data
          /\ heard' = IF over THEN <<gbStatus>> \o sent \o <<b>> ELSE <<>>
      <4>1. Len(gbData) + 1 = DataLength(gbStatus) <=> over
        BY <1>6, <3>1, <3>3
      <4> HIDE DEF over
      <4> QED
        BY <1>2, <3>1, <3>2, <3>3, <4>1 DEF GbByte, None
    <3>5. <<gbStatus>> \o sent \o <<b>> = <<ToVoice(status)>> \o data
      <4>1. sent \in Seq(ByteValues) /\ sent \o <<b>> = data
        BY <1>2, <1>3, BytesJoin DEF SenderTypes
      <4>2. <<gbStatus>> \in Seq(ByteValues) /\ <<b>> \in Seq(ByteValues)
        BY <1>2, <3>3
      <4>3. (<<gbStatus>> \o sent) \o <<b>> = <<gbStatus>> \o (sent \o <<b>>)
        BY <4>1, <4>2, ConcatAssociative
      <4> QED
        BY <3>1, <4>1, <4>3
    <3>6. heard' = dueGb' /\ gbData' = sent'
      BY <1>1, <2>1, <2>4, <3>4, <3>5
    <3>7. midiAddressMode' = ~midiValueMode'
      BY <1>3, <3>1, <3>2 DEF LinkTypes
    <3>8. DataLength(status) = 2 => (midiAddressMode' <=> sent' = <<>>)
      <4> SUFFICES ASSUME DataLength(status) = 2
                   PROVE  midiAddressMode' <=> sent' = <<>>
        OBVIOUS
      <4>1. CASE sent = <<>>
        <5>1. ~over
          BY <1>6, <4>1
        <5> QED
          BY <1>1, <1>3, <1>6, <3>1, <3>2, <4>1, <5>1 DEF LinkTypes
      <4>2. CASE sent # <<>>
        <5>1. Len(sent) = 1
          BY <1>3, <1>6, <4>2, EmptySeq DEF SenderTypes
        <5>2. over
          BY <1>6, <5>1
        <5> QED
          BY <1>1, <1>3, <3>1, <3>2, <4>2, <5>2 DEF LinkTypes
      <4> QED
        BY <4>1, <4>2
    <3> QED
      BY <2>2, <2>4, <3>1, <3>4, <3>6, <3>7, <3>8 DEF LinkInStep
  <2> QED
    BY <2>3, <2>4
<1>13. TypeOK'
  BY <1>3, <1>8 DEF TypeOK, ThruTypes, LinkTypes, SenderTypes, ByteValues
<1> QED
  BY <1>3, <1>9, <1>11, <1>12, <1>13 DEF IndInv

(* The bytes of a system exclusive message, its begin and its end.         *)
LEMMA SendSysexStep ==
  ASSUME IndInv, SendSysex
  PROVE  IndInv'
<1>1. PICK b \in Data \union {SysexBegin, SysexEnd} :
        LET data == Append(chunk, b)
            full == Len(data) = 3 \/ b = SysexEnd
        IN /\ inSysex = (b # SysexBegin)
           /\ Receive(b)
           /\ inSysex' = (b # SysexEnd)
           /\ status' = 0
           /\ chunk' = IF full THEN <<>> ELSE data
           /\ Due(IF full THEN << <<IF b = SysexEnd THEN 4 + Len(data) ELSE 4>> \o data >> ELSE <<>>)
           /\ dueGb' = <<>>
           /\ synced' = IF b = SysexBegin THEN here ELSE synced
           /\ sent' = <<>>
           /\ disturbed' = disturbed \union {"system"}
  BY DEF SendSysex, None
<1> DEFINE data == Append(chunk, b)
           full == Len(data) = 3 \/ b = SysexEnd
           cin == IF b = SysexEnd THEN 4 + Len(data) ELSE 4
           packed == << <<cin>> \o data >>
<1>2. b \in MidiBytes /\ b \in ByteValues /\ ~(b >= Clock)
  BY StatusBytes DEF MidiBytes, ByteValues, SysexBegin, SysexEnd, Clock
<1>3. /\ here \in BOOLEAN /\ ThruTypes /\ LinkTypes /\ SenderTypes
      /\ SenderInv /\ ThruInv /\ GbInv
      /\ here' = here /\ ThruTypes' /\ LinkTypes' /\ GbInv'
  BY <1>1, <1>2, ReceiveKeepsTypes, Types DEF IndInv
<1>4. due' = IF here /\ full THEN packed ELSE <<>>
  BY <1>1 DEF Due
<1>5. data \in Seq(ByteValues) /\ Len(data) \in 1..3 /\ cin \in ByteValues
  <2>1. chunk \in Seq(ByteValues) /\ Len(chunk) <= 2
    BY <1>3 DEF SenderTypes
  <2>2. Len(chunk) \in Nat
    BY <2>1, LenProperties
  <2>3. data \in Seq(ByteValues) /\ Len(data) = Len(chunk) + 1
    BY <1>2, <2>1
  <2> DEFINE n == Len(data)
  <2>4. n \in 1..3
    BY <2>1, <2>2, <2>3
  <2> HIDE DEF n
  <2>5. 4 + n \in ByteValues /\ 4 \in ByteValues
    BY <2>4 DEF ByteValues
  <2> QED
    BY <2>3, <2>4, <2>5 DEF n
<1>6. SenderTypes'
  <2>1. packed \in Seq(Seq(ByteValues))
    <3> HIDE DEF data, cin
    <3> QED
      BY <1>5, PacketType
  <2>2. due' \in Seq(Seq(ByteValues)) /\ dueGb' \in Seq(ByteValues)
    <3> HIDE DEF packed, full
    <3> QED
      BY <1>1, <1>4, <2>1
  <2>chunk. chunk' \in Seq(ByteValues) /\ Len(chunk') <= 2
    <3>1. CASE full
      BY <1>1, <3>1
    <3>2. CASE ~full
      <4>1. chunk' = data
        BY <1>1, <3>2
      <4> DEFINE n == Len(data)
      <4>2. n \in 1..3 /\ n # 3
        BY <1>5, <3>2
      <4> HIDE DEF n
      <4>3. n <= 2
        BY <4>2
      <4> HIDE DEF data
      <4> QED
        BY <1>5, <4>1, <4>3 DEF n
    <3> QED
      BY <3>1, <3>2
  <2>4. synced' \in BOOLEAN /\ inSysex' \in BOOLEAN
    BY <1>1, <1>3 DEF SenderTypes
  <2>5. disturbed' \subseteq {"realTime", "system", "usb"}
    BY <1>1, <1>3 DEF SenderTypes
  <2> HIDE DEF ByteValues
  <2> QED
    BY <1>1, <2>2, <2>chunk, <2>4, <2>5 DEF SenderTypes
<1>7. SenderInv'
  <2>1. ~inSysex' => chunk' = <<>>
    BY <1>1
  <2> QED
    BY <1>1, <2>1 DEF SenderInv
<1>8. here => ThruByte(b)
  BY <1>1 DEF Receive
<1>9. ThruInv' /\ ThruIsWhole'
  <2>1. CASE here /\ (synced \/ b = SysexBegin)
    <3>1. ThruSysex(b)
      <4>1. mgbThruSysex \/ b = SysexBegin
        BY <1>1, <1>3, <2>1 DEF ThruInv, ThruInStep
      <4> QED
        BY <1>2, <1>8, <2>1, <4>1 DEF ThruByte
    <3>2. (IF b = SysexBegin THEN <<>> ELSE mgbThruSysexData) \o <<b>> = data
      <4>1. CASE b = SysexBegin
        <5>1. chunk = <<>>
          BY <1>1, <1>3, <4>1 DEF SenderInv
        <5>2. <<>> \o <<b>> = Append(<<>>, b)
          BY <1>2, BytesJoin
        <5> QED
          BY <4>1, <5>1, <5>2
      <4>2. CASE b # SysexBegin
        <5>1. mgbThruSysexData = chunk /\ chunk \in Seq(ByteValues)
          BY <1>3, <2>1, <4>2 DEF ThruInv, ThruInStep, SenderTypes
        <5> QED
          BY <1>2, <4>2, <5>1, BytesJoin
      <4> QED
        BY <4>1, <4>2
    <3>3. /\ mgbThruSysex' = inSysex'
          /\ mgbThruSysexData' = chunk'
          /\ toUsb' = IF full THEN packed ELSE <<>>
          /\ mgbThruStatus' = IF b = SysexBegin THEN 0 ELSE mgbThruStatus
      BY <1>1, <3>1, <3>2 DEF ThruSysex
    <3>4. mgbThruStatus' = 0
      <4>1. b # SysexBegin => mgbThruStatus = 0
        BY <1>1, <1>3, <2>1 DEF ThruInv, ThruInStep, SenderInv
      <4> QED
        BY <3>3, <4>1
    <3>5. synced' /\ toUsb' = due'
      BY <1>1, <1>4, <2>1, <3>3
    <3> QED
      BY <1>1, <1>3, <2>1, <3>3, <3>4, <3>5 DEF ThruInv, ThruInStep, ThruIsWhole
  <2>2. CASE here /\ ~synced /\ b # SysexBegin
    <3>1. ThruIdle /\ mgbThruStatus = 0 /\ mgbThruRunningStatus = 0 /\ ~mgbThruSysex
      BY <1>1, <1>3, <2>2 DEF ThruInv, ThruIdle
    <3>2. CASE b = SysexEnd
      <4>1. ThruStatus(b)
        BY <1>2, <1>8, <2>2, <3>1, <3>2 DEF ThruByte, SysexEnd
      <4>2. /\ toUsb' = <<>> /\ mgbThruRunningStatus' = 0
            /\ UNCHANGED <<mgbThruSysex, mgbThruSysexData>>
        BY <3>2, <4>1 DEF ThruStatus, SysexEnd
      <4>3. status' = 0 /\ ~inSysex'
        BY <1>1, <3>2
      <4> QED
        BY <1>1, <1>3, <2>2, <3>1, <4>2, <4>3 DEF ThruInv, ThruIdle, ThruIsWhole
    <3>3. CASE b # SysexEnd
      <4>1. b \in Data /\ ~(b >= 128)
        BY <2>2, <3>3, StatusBytes
      <4>2. ThruData(b)
        BY <1>2, <1>8, <2>2, <3>1, <4>1 DEF ThruByte
      <4>3. /\ toUsb' = <<>> /\ mgbThruStatus' = 0
            /\ UNCHANGED <<mgbThruRunningStatus, mgbThruSysex, mgbThruSysexData>>
        BY <3>1, <4>2 DEF ThruData
      <4> QED
        BY <1>1, <1>3, <2>2, <3>1, <4>3 DEF ThruInv, ThruIdle, ThruIsWhole
    <3> QED
      BY <3>2, <3>3
  <2>3. CASE ~here
    <3>1. ~synced' /\ ~here' /\ toUsb' = <<>>
      BY <1>1, <1>3, <2>3, ReceiveElsewhere DEF ThruInv, ThruInStep
    <3> QED
      BY <3>1 DEF ThruInv, ThruIsWhole
  <2> QED
    BY <1>3, <2>1, <2>2, <2>3
<1>10. LinkInv' /\ UndisturbedReachesGameboy'
  BY <1>1 DEF LinkInv, UndisturbedReachesGameboy
<1>11. TypeOK'
  BY <1>3, <1>6 DEF TypeOK, ThruTypes, LinkTypes, SenderTypes, ByteValues
<1> QED
  BY <1>3, <1>7, <1>9, <1>10, <1>11 DEF IndInv

-------------------------------------------------------------------------------
(* Messages from USB, and the other modes.                                 *)

(* A message from USB, in one packet.                                      *)
LEMMA UsbMessageStep ==
  ASSUME IndInv, UsbMessage
  PROVE  IndInv'
<1>1. PICK s \in Statuses, data \in [1..2 -> Data] :
        /\ IsOwn(s)
        /\ gbStatus' = ToVoice(s) /\ gbData' = <<>>
        /\ heard' = <<ToVoice(s)>> \o SubSeq(data, 1, DataLength(s))
        /\ dueGb' = heard'
  BY DEF UsbMessage
<1>2. /\ toUsb' = <<>> /\ due' = <<>> /\ disturbed' = disturbed \union {"usb"}
      /\ UNCHANGED <<here, midiAddressMode, midiValueMode, thruVars, sender, synced>>
  BY DEF UsbMessage, linkVars
<1>3. here \in BOOLEAN /\ ThruTypes /\ LinkTypes /\ SenderTypes /\ SenderInv /\ ThruInv
  BY Types DEF IndInv
<1>4. ToVoice(s) \in 128..239 /\ ToVoice(s) \in ByteValues /\ DataLength(ToVoice(s)) \in 1..2
  <2>1. ToVoice(s) \in 128..239 /\ DataLength(ToVoice(s)) = DataLength(s)
    BY <1>1, VoiceKeepsKind
  <2> QED
    BY <2>1, StatusBytes DEF ByteValues
<1>5. heard' \in Seq(ByteValues)
  <2>1. DataLength(s) \in 1..2
    BY StatusBytes
  <2>2. SubSeq(data, 1, DataLength(s)) \in Seq(Data)
    <3>1. \A i \in 1..DataLength(s) : data[i] \in Data
      BY <2>1
    <3> QED
      BY <2>1, <3>1, SubSeqProperties
  <2> HIDE DEF ByteValues
  <2> QED
    BY <1>1, <1>4, <2>2, BytesJoin, PacketType
<1>6. LinkTypes' /\ GbInv'
  <2> HIDE DEF ByteValues
  <2> QED
    BY <1>1, <1>2, <1>3, <1>4, <1>5 DEF LinkTypes, GbInv
<1>7. ThruTypes' /\ SenderTypes' /\ SenderInv' /\ ThruInv' /\ ThruIsWhole'
  <2>1. disturbed' \subseteq {"realTime", "system", "usb"}
    BY <1>2, <1>3 DEF SenderTypes
  <2> HIDE DEF ByteValues
  <2>2. ThruTypes'
    BY <1>2, <1>3 DEF thruVars, ThruTypes
  <2>3. SenderTypes'
    BY <1>1, <1>2, <1>3, <1>5, <2>1 DEF sender, SenderTypes
  <2> QED
    BY <1>2, <1>3, <2>2, <2>3
       DEF thruVars, sender, SenderInv, ThruInv, ThruInStep, ThruIdle, ThruIsWhole
<1>8. LinkInv' /\ UndisturbedReachesGameboy'
  BY <1>2 DEF LinkInv, UndisturbedReachesGameboy
<1>9. TypeOK'
  BY <1>2, <1>3, <1>6, <1>7 DEF TypeOK, ThruTypes, LinkTypes, SenderTypes, ByteValues
<1> QED
  BY <1>6, <1>7, <1>8, <1>9 DEF IndInv

(* While another mode runs nothing is promised, but the types stay.        *)
LEMMA LeaveModeStep ==
  ASSUME IndInv, LeaveMode
  PROVE  IndInv'
<1>1. here \in BOOLEAN /\ ThruTypes /\ LinkTypes /\ SenderTypes /\ SenderInv /\ GbInv
  BY Types DEF IndInv
<1>2. /\ here' = FALSE /\ synced' = FALSE /\ midiValueMode' \in BOOLEAN
      /\ toUsb' = <<>> /\ due' = <<>> /\ heard' = <<>> /\ dueGb' = <<>>
      /\ UNCHANGED <<midiAddressMode, thruVars, gbVars, sender, disturbed>>
  BY DEF LeaveMode, None
<1>3. TypeOK'
  <2> HIDE DEF ByteValues
  <2>1. ThruTypes'
    BY <1>1, <1>2 DEF thruVars, ThruTypes
  <2>2. LinkTypes'
    BY <1>1, <1>2 DEF gbVars, LinkTypes
  <2>3. SenderTypes'
    BY <1>1, <1>2, Nothing DEF sender, SenderTypes
  <2> QED
    BY <1>2, <2>1, <2>2, <2>3 DEF TypeOK, ThruTypes, LinkTypes, SenderTypes, ByteValues
<1> QED
  BY <1>1, <1>2, <1>3
     DEF IndInv, sender, gbVars, SenderInv, ThruInv, GbInv, LinkInv, ThruIsWhole,
         UndisturbedReachesGameboy

(* The thru parser starts again.                                           *)
LEMMA EnterModeStep ==
  ASSUME IndInv, EnterMode
  PROVE  IndInv'
<1>1. here \in BOOLEAN /\ ThruTypes /\ LinkTypes /\ SenderTypes /\ SenderInv /\ GbInv
  BY Types DEF IndInv
<1>2. /\ here' = TRUE
      /\ mgbThruRunningStatus' = 0 /\ mgbThruStatus' = 0
      /\ mgbThruData' = <<>> /\ mgbThruDataLength' = 0
      /\ mgbThruSysex' = FALSE /\ mgbThruSysexData' = <<>>
      /\ toUsb' = <<>> /\ due' = <<>> /\ heard' = <<>> /\ dueGb' = <<>>
      /\ UNCHANGED <<midiAddressMode, midiValueMode, gbVars, sender, synced, disturbed>>
  BY DEF EnterMode, linkVars, None
<1>3. ~synced
  BY DEF IndInv, ThruInv, ThruInStep, EnterMode
<1>4. TypeOK'
  <2> HIDE DEF ByteValues
  <2>1. ThruTypes'
    <3>1. /\ mgbThruRunningStatus' \in {0} \union 128..239 /\ mgbThruStatus' \in {0} \union 128..247
          /\ mgbThruDataLength' \in 0..2
      BY <1>2
    <3>2. mgbThruSysex' \in BOOLEAN
      BY <1>2
    <3>3. /\ mgbThruData' \in Seq(Data) /\ Len(mgbThruData') <= 2
          /\ mgbThruSysexData' \in Seq(ByteValues) /\ Len(mgbThruSysexData') <= 2
          /\ toUsb' \in Seq(Seq(ByteValues)) /\ Len(toUsb') <= 1
      BY <1>2, Nothing
    <3> QED
      BY <3>1, <3>2, <3>3 DEF ThruTypes
  <2>2. LinkTypes'
    BY <1>1, <1>2 DEF gbVars, LinkTypes
  <2>3. SenderTypes'
    BY <1>1, <1>2, Nothing DEF sender, SenderTypes
  <2> QED
    BY <1>2, <2>1, <2>2, <2>3 DEF TypeOK, ThruTypes, LinkTypes, SenderTypes, ByteValues
<1> QED
  BY <1>1, <1>2, <1>3, <1>4
     DEF IndInv, sender, gbVars, SenderInv, ThruInv, ThruIdle, GbInv, LinkInv, ThruIsWhole,
         UndisturbedReachesGameboy

-------------------------------------------------------------------------------
(* The theorems.                                                           *)

(* At the start nothing has been sent or kept.                             *)
LEMMA InitIndInv == Init => IndInv
<1> SUFFICES ASSUME Init
             PROVE  IndInv
  OBVIOUS
<1>1. TypeOK
  <2> HIDE DEF ByteValues
  <2>1. ThruTypes
    <3>1. /\ mgbThruRunningStatus \in {0} \union 128..239 /\ mgbThruStatus \in {0} \union 128..247
          /\ mgbThruDataLength \in 0..2
      BY DEF Init
    <3>2. mgbThruSysex \in BOOLEAN
      BY DEF Init
    <3>3. /\ mgbThruData \in Seq(Data) /\ Len(mgbThruData) <= 2
          /\ mgbThruSysexData \in Seq(ByteValues) /\ Len(mgbThruSysexData) <= 2
          /\ toUsb \in Seq(Seq(ByteValues)) /\ Len(toUsb) <= 1
      BY Nothing DEF Init
    <3> QED
      BY <3>1, <3>2, <3>3 DEF ThruTypes
  <2>2. LinkTypes
    BY Nothing DEF Init, LinkTypes, None
  <2>3. SenderTypes
    BY Nothing DEF Init, SenderTypes, None
  <2> QED
    BY <2>1, <2>2, <2>3, Types DEF Init
<1> QED
  BY <1>1 DEF Init, IndInv, SenderInv, ThruInv, ThruIdle, GbInv, LinkInv, ThruIsWhole,
     UndisturbedReachesGameboy, None

(* Every step keeps the invariant.                                         *)
LEMMA NextIndInv == IndInv /\ [Next]_vars => IndInv'
<1> SUFFICES ASSUME IndInv, [Next]_vars
             PROVE  IndInv'
  OBVIOUS
<1>1. CASE UNCHANGED vars
  <2>1. TypeOK'
    BY <1>1 DEF IndInv, vars, linkVars, thruVars, gbVars, sender, TypeOK
  <2> QED
    BY <1>1, <2>1
       DEF IndInv, vars, linkVars, thruVars, gbVars, sender, SenderInv, ThruInv, ThruInStep, ThruIdle,
           GbInv, LinkInv, LinkInStep, ThruIsWhole, UndisturbedReachesGameboy
<1> QED
  BY <1>1, SendRealTimeStep, SendStatusStep, SendDataStep, SendSysexStep, UsbMessageStep,
     LeaveModeStep, EnterModeStep DEF Next

(* The types, and how the parsers stand to the sender, in every state.     *)
THEOREM IndInvHolds == Spec => []IndInv
BY InitIndInv, NextIndInv, PTL DEF Spec

(* Every variable has its type; no buffer of the parsers is filled beyond  *)
(* its size.                                                               *)
THEOREM TypeCorrect == Spec => []TypeOK
<1>1. IndInv => TypeOK
  BY DEF IndInv
<1> QED
  BY <1>1, IndInvHolds, PTL

(* Every DIN message is on USB in one packet as soon as it is complete,    *)
(* and nothing else is, from the first message that begins in the mode.    *)
THEOREM ThruAlwaysWhole == Spec => []ThruIsWhole
<1>1. IndInv => ThruIsWhole
  BY DEF IndInv
<1> QED
  BY <1>1, IndInvHolds, PTL

(* The Game Boy completes exactly the messages of its channels, unless one *)
(* from USB, a system message or a real-time byte has come between.        *)
THEOREM GameboyHearsUndisturbed == Spec => []UndisturbedReachesGameboy
<1>1. IndInv => UndisturbedReachesGameboy
  BY DEF IndInv
<1> QED
  BY <1>1, IndInvHolds, PTL

-------------------------------------------------------------------------------
(* The transmit ring.  Beside the types its invariant says what the two    *)
(* cores rely on: while core 0 copies there is a free slot it alone owns   *)
(* (FreeSlot, CopiedSoFar), while core 1 writes the ring is not empty      *)
(* (HeldSlot), and every slot between tail and head holds one packet       *)
(* (SlotsWhole), as does every device's last packet (SentWhole).           *)

InUse(s) ==
  IF tail <= head THEN tail <= s /\ s < head ELSE tail <= s \/ s < head

FreeSlot == pc0 = "copy" => Succ(head) # tail
CopiedSoFar ==
  pc0 = "copy" =>
    /\ packet \in Packets
    /\ \A o \in 1 .. copied : ring[head][o] = packet
HeldSlot == pc1 = "write" => tail # head
SlotsWhole ==
  \A s \in Slots : InUse(s) =>
    /\ ring[s][1] \in Packets
    /\ \A o \in Offsets : ring[s][o] = ring[s][1]
SentWhole == \A d \in Devices : \A o \in Offsets : written[d][o] = written[d][1]

TxIndInv ==
  /\ TxTypeOK
  /\ FreeSlot
  /\ CopiedSoFar
  /\ HeldSlot
  /\ SlotsWhole
  /\ SentWhole

--------------------------------------------------------------------------------
(* The successor of an index, without the modulus.                         *)

\* (i + 1) % Size is i + 1, or 0 after the last slot.
LEMMA SuccWraps ==
  ASSUME NEW i \in Slots
  PROVE  Succ(i) = IF i = Size - 1 THEN 0 ELSE i + 1
  BY SizeAssumption DEF Succ, Slots

\* The successor of an index is an index.
LEMMA SuccInRange ==
  ASSUME NEW i \in Slots
  PROVE  Succ(i) \in Slots
  BY SuccWraps, SizeAssumption DEF Slots

--------------------------------------------------------------------------------
(* Type correctness.                                                       *)

\* The variables keep their types: in particular both indices stay in the ring
\* and memcpy stays in the slot.
THEOREM TxTypeCorrect == TxSpec => []TxTypeOK
<1> USE SizeAssumption, BytesAssumption, DevicesAssumption
<1>1. TxInit => TxTypeOK
  BY DEF TxInit, TxTypeOK, Slots, Content, Devices
<1>2. TxTypeOK /\ [TxNext]_txVars => TxTypeOK'
  <2> SUFFICES ASSUME TxTypeOK, [TxNext]_txVars PROVE TxTypeOK'
    OBVIOUS
  <2> USE DEF TxTypeOK
  <2>1. CASE EnqueueFull
    BY <2>1 DEF EnqueueFull, core1Vars
  <2>2. ASSUME NEW p \in Packets, EnqueueBegin(p) PROVE TxTypeOK'
    BY <2>2 DEF EnqueueBegin, core1Vars
  <2>copy. CASE CopyByte
    <3>1. copied + 1 \in Offsets /\ copied' \in 0 .. Bytes
      BY <2>copy DEF CopyByte, Offsets
    <3>2. [ring[head] EXCEPT ![copied + 1] = packet] \in Content
      BY <3>1 DEF Content
    <3>3. ring' \in [Slots -> Content]
      BY <2>copy, <3>2 DEF CopyByte
    <3> QED
      BY <2>copy, <3>1, <3>3 DEF CopyByte, core1Vars
  <2>4. CASE Publish
    BY <2>4, SuccInRange DEF Publish, core1Vars
  <2>5. ASSUME NEW mounted \in SUBSET Devices, UsbTask(mounted) PROVE TxTypeOK'
    BY <2>5 DEF UsbTask, core0Vars
  <2>6. CASE DrainEnd
    BY <2>6 DEF DrainEnd, core0Vars
  <2>7. CASE DrainBegin
    BY <2>7 DEF DrainBegin, core0Vars
  <2>8. CASE WriteDevice
    BY <2>8 DEF WriteDevice, core0Vars
  <2>9. CASE SkipDevice
    BY <2>9 DEF SkipDevice, core0Vars
  <2>10. CASE Advance
    BY <2>10, SuccInRange DEF Advance, core0Vars
  <2>11. CASE UNCHANGED txVars
    BY <2>11 DEF txVars, core0Vars, core1Vars
  <2> QED
    BY <2>1, <2>2, <2>copy, <2>4, <2>5, <2>6, <2>7, <2>8, <2>9, <2>10, <2>11
    DEF TxNext, Core0, Core1, Drain
<1> QED
  BY <1>1, <1>2, PTL DEF TxSpec

--------------------------------------------------------------------------------
(* The inductive invariant.                                                *)

\* While core 0 copies, the slot it fills is not in use: head is where the used
\* slots end.
LEMMA HeadNotInUse == TxTypeOK => ~InUse(head)
  BY DEF InUse, TxTypeOK, Slots

\* Publishing a slot adds exactly that slot to the used ones.
LEMMA InUseAfterPublish ==
  ASSUME TxTypeOK, Publish, Succ(head) # tail, NEW s \in Slots, InUse(s)'
  PROVE  InUse(s) \/ s = head
<1>1. head' = IF head = Size - 1 THEN 0 ELSE head + 1
  BY SuccWraps DEF Publish, TxTypeOK
<1>2. tail' = tail
  BY DEF Publish, core1Vars
<1> QED
  BY <1>1, <1>2, SizeAssumption DEF InUse, TxTypeOK, Slots, Publish

\* Freeing a slot takes only that slot away.
LEMMA InUseAfterAdvance ==
  ASSUME TxTypeOK, Advance, tail # head, NEW s \in Slots, InUse(s)'
  PROVE  InUse(s)
<1>1. tail' = IF tail = Size - 1 THEN 0 ELSE tail + 1
  BY SuccWraps DEF Advance, TxTypeOK
<1>2. head' = head
  BY DEF Advance, core0Vars
<1> QED
  BY <1>1, <1>2, SizeAssumption DEF InUse, TxTypeOK, Slots

\* A slot that is not the one being filled keeps its content.
LEMMA CopyKeepsOthers ==
  ASSUME TxTypeOK, CopyByte, NEW s \in Slots, s # head
  PROVE  ring'[s] = ring[s]
  BY DEF TxTypeOK, CopyByte

\* memcpy stores the next byte of the packet and keeps the earlier ones.
LEMMA CopyStoresByte ==
  ASSUME TxTypeOK, CopyByte, CopiedSoFar
  PROVE  CopiedSoFar'
<1>1. copied \in 0 .. Bytes /\ copied + 1 \in Offsets /\ copied' = copied + 1
  BY BytesAssumption DEF TxTypeOK, CopyByte, Offsets
<1>2. /\ packet \in Packets
      /\ \A o \in 1 .. copied : ring[head][o] = packet
      /\ pc0' = pc0 /\ packet' = packet /\ head' = head
  BY DEF CopyByte, CopiedSoFar
<1>3. ring'[head] = [ring[head] EXCEPT ![copied + 1] = packet]
  BY DEF CopyByte, TxTypeOK
<1>4. ring[head] \in Content
  BY DEF TxTypeOK
<1>5. ASSUME NEW o \in 1 .. copied' PROVE ring'[head'][o] = packet'
  <2>1. o \in Offsets
    BY <1>1, BytesAssumption DEF Offsets
  <2>2. CASE o = copied + 1
    BY <2>1, <2>2, <1>2, <1>3, <1>4 DEF Content
  <2>3. CASE o # copied + 1
    <3>1. o \in 1 .. copied
      BY <2>3, <1>1, BytesAssumption
    <3> QED
      BY <2>1, <2>3, <3>1, <1>2, <1>3, <1>4 DEF Content
  <2> QED
    BY <2>2, <2>3
<1> QED
  BY <1>2, <1>5 DEF CopiedSoFar

\* TxIndInv holds in every reachable state.
THEOREM TxIndInvHolds == TxSpec => []TxIndInv
<1> USE SizeAssumption, BytesAssumption, DevicesAssumption
<1>1. TxInit => TxIndInv
  <2> SUFFICES ASSUME TxInit PROVE TxIndInv
    OBVIOUS
  <2>1. TxTypeOK
    BY DEF TxInit, TxTypeOK, Slots, Content, Devices
  <2>2. FreeSlot /\ CopiedSoFar /\ HeldSlot
    BY DEF TxInit, FreeSlot, CopiedSoFar, HeldSlot
  <2>3. SlotsWhole
    BY DEF TxInit, SlotsWhole, InUse, Slots
  <2>4. SentWhole
    BY DEF TxInit, SentWhole, Offsets, Devices
  <2> QED
    BY <2>1, <2>2, <2>3, <2>4 DEF TxIndInv
<1>2. TxIndInv /\ TxTypeOK' /\ [TxNext]_txVars => TxIndInv'
  <2> SUFFICES ASSUME TxIndInv, TxTypeOK', [TxNext]_txVars
               PROVE  FreeSlot' /\ CopiedSoFar' /\ HeldSlot' /\ SlotsWhole' /\ SentWhole'
    BY DEF TxIndInv
  <2> USE DEF TxIndInv
  <2>0. 1 \in Offsets
    BY DEF Offsets
  <2>1. CASE EnqueueFull
    BY <2>1 DEF EnqueueFull, core1Vars, FreeSlot, CopiedSoFar, HeldSlot,
                SlotsWhole, InUse, SentWhole
  <2>2. ASSUME NEW p \in Packets, EnqueueBegin(p)
        PROVE  FreeSlot' /\ CopiedSoFar' /\ HeldSlot' /\ SlotsWhole' /\ SentWhole'
    <3>1. FreeSlot'
      BY <2>2 DEF EnqueueBegin, core1Vars, FreeSlot, Succ
    <3>2. CopiedSoFar'
      BY <2>2 DEF EnqueueBegin, core1Vars, CopiedSoFar
    <3> QED
      BY <2>2, <3>1, <3>2 DEF EnqueueBegin, core1Vars, HeldSlot, SlotsWhole, InUse, SentWhole
  <2>copy. CASE CopyByte
    <3>1. FreeSlot' /\ HeldSlot' /\ SentWhole'
      BY <2>copy DEF CopyByte, core1Vars, FreeSlot, HeldSlot, SentWhole, Succ
    <3>2. CopiedSoFar'
      BY <2>copy, CopyStoresByte
    <3>3. SlotsWhole'
      <4> SUFFICES ASSUME NEW s \in Slots, InUse(s)'
                   PROVE  /\ ring'[s][1] \in Packets
                          /\ \A o \in Offsets : ring'[s][o] = ring'[s][1]
        BY DEF SlotsWhole
      <4>1. InUse(s)
        BY <2>copy DEF CopyByte, core1Vars, InUse
      <4>2. ring'[s] = ring[s]
        BY <2>copy, <4>1, HeadNotInUse, CopyKeepsOthers
      <4> QED
        BY <4>1, <4>2 DEF SlotsWhole
    <3> QED
      BY <3>1, <3>2, <3>3
  <2>4. CASE Publish
    <3>1. FreeSlot' /\ CopiedSoFar' /\ SentWhole'
      BY <2>4 DEF Publish, core1Vars, FreeSlot, CopiedSoFar, SentWhole
    <3>2. Succ(head) # tail
      BY <2>4 DEF Publish, FreeSlot
    <3>3. HeldSlot'
      BY <2>4, <3>2 DEF Publish, core1Vars, HeldSlot
    <3>4. SlotsWhole'
      <4> SUFFICES ASSUME NEW s \in Slots, InUse(s)'
                   PROVE  /\ ring[s][1] \in Packets
                          /\ \A o \in Offsets : ring[s][o] = ring[s][1]
        BY <2>4 DEF SlotsWhole, Publish
      <4>1. CASE InUse(s)
        BY <4>1 DEF SlotsWhole
      <4>2. CASE s = head
        BY <2>0, <2>4, <4>2 DEF Publish, CopiedSoFar, Offsets
      <4> QED
        BY <2>4, <3>2, <4>1, <4>2, InUseAfterPublish
    <3> QED
      BY <3>1, <3>3, <3>4
  <2>5. ASSUME NEW mounted \in SUBSET Devices, UsbTask(mounted)
        PROVE  FreeSlot' /\ CopiedSoFar' /\ HeldSlot' /\ SlotsWhole' /\ SentWhole'
    BY <2>5 DEF UsbTask, core0Vars, FreeSlot, CopiedSoFar, HeldSlot, SlotsWhole,
                InUse, SentWhole, Succ
  <2>6. CASE DrainEnd
    BY <2>6 DEF DrainEnd, core0Vars, FreeSlot, CopiedSoFar, HeldSlot, SlotsWhole,
                InUse, SentWhole, Succ
  <2>7. CASE DrainBegin
    BY <2>7 DEF DrainBegin, core0Vars, FreeSlot, CopiedSoFar, HeldSlot, SlotsWhole,
                InUse, SentWhole, Succ
  <2>8. CASE WriteDevice
    <3>1. FreeSlot' /\ CopiedSoFar' /\ HeldSlot' /\ SlotsWhole'
      BY <2>8 DEF WriteDevice, core0Vars, FreeSlot, CopiedSoFar, HeldSlot, SlotsWhole,
                  InUse, Succ
    <3>2. InUse(tail) /\ tail \in Slots
      BY <2>8 DEF WriteDevice, HeldSlot, InUse, TxTypeOK, Slots
    <3>3. SentWhole'
      BY <2>8, <3>2 DEF WriteDevice, SlotsWhole, SentWhole, TxTypeOK
    <3> QED
      BY <3>1, <3>3
  <2>9. CASE SkipDevice
    BY <2>9 DEF SkipDevice, core0Vars, FreeSlot, CopiedSoFar, HeldSlot, SlotsWhole,
                InUse, SentWhole, Succ
  <2>10. CASE Advance
    <3>1. tail # head
      BY <2>10 DEF Advance, HeldSlot
    <3>2. CopiedSoFar' /\ HeldSlot' /\ SentWhole'
      BY <2>10 DEF Advance, core0Vars, CopiedSoFar, HeldSlot, SentWhole
    <3>3. FreeSlot'
      <4>1. /\ Succ(head) = IF head = Size - 1 THEN 0 ELSE head + 1
            /\ Succ(tail) = IF tail = Size - 1 THEN 0 ELSE tail + 1
        BY SuccWraps DEF TxTypeOK
      <4>2. Succ(head) # Succ(tail)
        BY <3>1, <4>1 DEF TxTypeOK, Slots
      <4> QED
        BY <2>10, <4>2 DEF Advance, core0Vars, FreeSlot, Succ
    <3>4. SlotsWhole'
      BY <2>10, <3>1, InUseAfterAdvance DEF Advance, SlotsWhole
    <3> QED
      BY <3>2, <3>3, <3>4
  <2>11. CASE UNCHANGED txVars
    BY <2>11 DEF txVars, core0Vars, core1Vars, FreeSlot, CopiedSoFar, HeldSlot,
                 SlotsWhole, InUse, SentWhole, Succ
  <2> QED
    BY <2>1, <2>2, <2>copy, <2>4, <2>5, <2>6, <2>7, <2>8, <2>9, <2>10, <2>11
    DEF TxNext, Core0, Core1, Drain
<1> QED
  BY <1>1, <1>2, TxTypeCorrect, PTL DEF TxSpec

--------------------------------------------------------------------------------
(* Stability of the slot core 1 holds.                                     *)

\* No step changes the packet core 1 is writing to the devices.
THEOREM HeldPacketIsStable == TxSpec => HeldPacketStable
<1>1. TxIndInv /\ [TxNext]_txVars => [pc1 = "write" => ring'[tail] = ring[tail]]_txVars
  <2> SUFFICES ASSUME TxIndInv, [TxNext]_txVars, pc1 = "write"
               PROVE  ring'[tail] = ring[tail]
    OBVIOUS
  <2>1. CASE CopyByte
    <3>1. InUse(tail) /\ tail \in Slots
      BY DEF TxIndInv, HeldSlot, InUse, TxTypeOK, Slots
    <3>2. tail # head
      BY <3>1, HeadNotInUse DEF TxIndInv
    <3> QED
      BY <2>1, <3>1, <3>2, CopyKeepsOthers DEF TxIndInv
  <2>2. CASE ~CopyByte
    BY <2>2 DEF TxNext, Core0, Core1, Drain, txVars, EnqueueFull, EnqueueBegin, Publish,
                UsbTask, DrainEnd, DrainBegin, WriteDevice, SkipDevice, Advance
  <2> QED
    BY <2>1, <2>2
<1> QED
  BY <1>1, TxIndInvHolds, PTL DEF TxSpec, HeldPacketStable

--------------------------------------------------------------------------------
(* Refinement: the ring implements BoundedFifo.                            *)

Contents == [k \in 1 .. Waiting |-> Whole(ring[SlotOf(k)])]
Turn == IF pc1 = "write" THEN 0 .. dev - 1 ELSE {}
Outputs == [d \in Devices |-> Whole(written[d])]

\* The positions of the queue are the used slots, in order from the tail.
LEMMA PositionsAreSlots ==
  ASSUME TxTypeOK
  PROVE  /\ Waiting \in 0 .. Size - 1
         /\ \A k \in 1 .. Waiting : SlotOf(k) \in Slots /\ InUse(SlotOf(k))
         /\ Waiting # 0 <=> tail # head
  BY SizeAssumption DEF TxTypeOK, Slots, Waiting, SlotOf, InUse

\* A used slot stands for the one packet its bytes name.
LEMMA UsedSlotIsPacket ==
  ASSUME TxIndInv, NEW s \in Slots, InUse(s)
  PROVE  Whole(ring[s]) = ring[s][1] /\ Whole(ring[s]) \in Packets
  BY DEF TxIndInv, SlotsWhole, Whole

QueueOK == Contents \in Seq(Packets) /\ Len(Contents) = Waiting

\* The queue is a sequence of packets, as long as the number of used slots.
LEMMA ContentsArePackets ==
  ASSUME TxIndInv
  PROVE  QueueOK
<1>1. Waiting \in Nat
  BY PositionsAreSlots, SizeAssumption DEF TxIndInv
<1>2. \A k \in 1 .. Waiting : Whole(ring[SlotOf(k)]) \in Packets
  BY PositionsAreSlots, UsedSlotIsPacket DEF TxIndInv
<1>3. Contents \in [1 .. Waiting -> Packets]
  BY <1>2 DEF Contents
<1> QED
  BY <1>1, <1>3 DEF QueueOK

\* A step that leaves the indices and the used slots alone leaves the queue alone.
LEMMA ContentsUnchanged ==
  ASSUME TxTypeOK, UNCHANGED <<head, tail>>,
         \A s \in Slots : InUse(s) => ring'[s] = ring[s]
  PROVE  Contents' = Contents
<1>1. Waiting' = Waiting
  BY DEF Waiting
<1>2. \A k \in 1 .. Waiting : Whole(ring[SlotOf(k)])' = Whole(ring[SlotOf(k)])
  <2> TAKE k \in 1 .. Waiting
  <2>1. SlotOf(k)' = SlotOf(k)
    BY DEF SlotOf
  <2>2. ring'[SlotOf(k)] = ring[SlotOf(k)]
    BY PositionsAreSlots
  <2> QED
    BY <2>1, <2>2 DEF Whole
<1> QED
  BY <1>1, <1>2 DEF Contents

\* Publishing the filled slot appends its packet to the queue.
LEMMA PublishAppends ==
  ASSUME TxIndInv, QueueOK', Publish
  PROVE  /\ packet \in Packets
         /\ Waiting < Size - 1
         /\ Contents' = Append(Contents, packet)
<1> USE DEF TxIndInv
<1>1. packet \in Packets /\ Succ(head) # tail
  BY DEF Publish, CopiedSoFar, FreeSlot
<1>2. /\ head' = IF head = Size - 1 THEN 0 ELSE head + 1
      /\ Succ(head) = IF head = Size - 1 THEN 0 ELSE head + 1
      /\ tail' = tail /\ ring' = ring
  BY SuccWraps DEF Publish, core1Vars, TxTypeOK
<1>3. Waiting' = Waiting + 1 /\ Waiting < Size - 1
  BY <1>1, <1>2, SizeAssumption DEF Waiting, TxTypeOK, Slots
<1>4. Waiting \in Nat /\ SlotOf(Waiting + 1) = head
  BY SizeAssumption DEF Waiting, SlotOf, TxTypeOK, Slots
<1>5. Whole(ring[head]) = packet
  BY BytesAssumption DEF Whole, Publish, CopiedSoFar, Offsets
<1>6. Contents' = [k \in 1 .. Waiting + 1 |-> Whole(ring[SlotOf(k)])]
  BY <1>2, <1>3 DEF Contents, Whole, SlotOf
<1>7. /\ Contents \in Seq(Packets) /\ Len(Contents) = Waiting
      /\ Contents' \in Seq(Packets) /\ Len(Contents') = Waiting + 1
  BY <1>3, ContentsArePackets DEF QueueOK
<1>8. \A k \in 1 .. Waiting + 1 : Contents'[k] = Append(Contents, packet)[k]
  <2> TAKE k \in 1 .. Waiting + 1
  <2>1. CASE k = Waiting + 1
    BY <2>1, <1>1, <1>4, <1>5, <1>6, <1>7, AppendProperties
  <2>2. CASE k # Waiting + 1
    <3>1. k \in 1 .. Waiting
      BY <2>2, <1>4
    <3>2. Append(Contents, packet)[k] = Contents[k]
      BY <3>1, <1>1, <1>7, AppendProperties
    <3> QED
      BY <3>1, <3>2, <1>6 DEF Contents
  <2> QED
    BY <2>1, <2>2
<1>9. /\ Append(Contents, packet) \in Seq(Packets)
      /\ Len(Append(Contents, packet)) = Waiting + 1
  BY <1>1, <1>7, AppendProperties
<1>10. Contents' = Append(Contents, packet)
  BY <1>7, <1>8, <1>9, SeqEqual
<1> QED
  BY <1>1, <1>3, <1>10

\* Advancing the tail takes the oldest packet off the queue.
LEMMA AdvanceRemoves ==
  ASSUME TxIndInv, QueueOK', Advance
  PROVE  Contents # <<>> /\ Contents' = Tail(Contents)
<1> USE DEF TxIndInv
<1>1. tail # head
  BY DEF Advance, HeldSlot
<1>2. /\ tail' = IF tail = Size - 1 THEN 0 ELSE tail + 1
      /\ head' = head /\ ring' = ring
  BY SuccWraps DEF Advance, core0Vars, TxTypeOK
<1>3. Waiting \in 1 .. Size - 1 /\ Waiting' = Waiting - 1
  BY <1>1, <1>2, SizeAssumption DEF Waiting, TxTypeOK, Slots
<1>4. \A k \in 1 .. Waiting' : SlotOf(k)' = SlotOf(k + 1)
  BY <1>2, <1>3, SizeAssumption DEF SlotOf, TxTypeOK, Slots
<1>5. /\ Contents \in Seq(Packets) /\ Len(Contents) = Waiting
      /\ Contents' \in Seq(Packets) /\ Len(Contents') = Waiting - 1
  BY <1>3, ContentsArePackets DEF QueueOK
<1>6. Contents # <<>>
  BY <1>3, <1>5, EmptySeq
<1>7. /\ Tail(Contents) \in Seq(Packets)
      /\ Len(Tail(Contents)) = Waiting - 1
      /\ \A k \in 1 .. Waiting - 1 : Tail(Contents)[k] = Contents[k + 1]
  BY <1>5, <1>6, HeadTailProperties
<1>8. \A k \in 1 .. Waiting - 1 : Contents'[k] = Contents[k + 1]
  <2> TAKE k \in 1 .. Waiting - 1
  <2>1. Contents'[k] = Whole(ring[SlotOf(k + 1)])
    BY <1>2, <1>3, <1>4 DEF Contents, Whole
  <2> QED
    BY <2>1, <1>3 DEF Contents
<1>9. Contents' = Tail(Contents)
  BY <1>3, <1>5, <1>7, <1>8, SeqEqual
<1> QED
  BY <1>6, <1>9

\* What core 1 writes to a device is the packet at the front of the queue.
LEMMA WriteTakesHead ==
  ASSUME TxIndInv, WriteDevice \/ SkipDevice
  PROVE  Contents # <<>> /\ Head(Contents) = Whole(ring[tail])
<1> USE DEF TxIndInv
<1>1. tail # head
  BY DEF WriteDevice, SkipDevice, HeldSlot
<1>2. Waiting \in Nat \ {0} /\ SlotOf(1) = tail
  BY <1>1, SizeAssumption DEF Waiting, SlotOf, TxTypeOK, Slots
<1>3. Contents \in Seq(Packets) /\ Len(Contents) = Waiting
  BY ContentsArePackets DEF QueueOK
<1>4. Contents # <<>>
  BY <1>2, <1>3, EmptySeq
<1>5. Head(Contents) = Contents[1]
  BY <1>2, <1>3, <1>4
<1> QED
  BY <1>2, <1>4, <1>5 DEF Contents

\* The ring implements the bounded queue of BoundedFifo: what enters is given
\* to the devices whole, in order, each packet at most once per device, and a
\* packet is refused only when Size - 1 packets wait.
THEOREM RingImplementsFifo == TxSpec => ImplementsFifo
<1>1. TxInit => Fifo!Init
  <2> SUFFICES ASSUME TxInit PROVE Fifo!Init
    OBVIOUS
  <2>1. Waiting = 0
    BY DEF TxInit, Waiting
  <2>2. Contents = <<>>
    BY <2>1 DEF Contents
  <2>3. Outputs = [d \in Devices |-> NoPacket]
    BY BytesAssumption DEF TxInit, Outputs, Whole, Offsets
  <2>4. Turn = {} /\ accepted = TRUE
    BY DEF TxInit, Turn
  <2> QED
    BY <2>2, <2>3, <2>4 DEF Fifo!Init, Contents, Outputs, Turn
<1>2. TxIndInv /\ QueueOK' /\ [TxNext]_txVars => [Fifo!Next]_(Fifo!vars)
  <2> SUFFICES ASSUME TxIndInv, QueueOK', [TxNext]_txVars
               PROVE  \/ Fifo!Next
                      \/ UNCHANGED <<Contents, Turn, Outputs, accepted>>
    BY DEF Fifo!vars, Contents, Turn, Outputs
  <2> USE DEF TxIndInv
  <2>0. Contents \in Seq(Packets) /\ Len(Contents) = Waiting
    BY ContentsArePackets DEF QueueOK
  <2>1. CASE EnqueueFull
    <3>1. UNCHANGED <<Contents, Turn, Outputs>> /\ accepted' = FALSE
      BY <2>1 DEF EnqueueFull, core1Vars, Contents, Turn, Outputs, Waiting, SlotOf, Whole
    <3>2. Waiting = Size - 1
      BY <2>1, SuccWraps, SizeAssumption DEF EnqueueFull, Waiting, TxTypeOK, Slots
    <3>3. Fifo!Refuse
      BY <2>0, <3>1, <3>2 DEF Fifo!Refuse, Contents, Turn, Outputs
    <3> QED
      BY <3>3 DEF Fifo!Next
  <2>2. ASSUME NEW p \in Packets, EnqueueBegin(p)
        PROVE  UNCHANGED <<Contents, Turn, Outputs, accepted>>
    BY <2>2 DEF EnqueueBegin, core1Vars, Contents, Turn, Outputs, Waiting, SlotOf, Whole
  <2>copy. CASE CopyByte
    <3>1. \A s \in Slots : InUse(s) => ring'[s] = ring[s]
      BY <2>copy, HeadNotInUse, CopyKeepsOthers
    <3>2. Contents' = Contents
      BY <2>copy, <3>1, ContentsUnchanged DEF CopyByte, core1Vars
    <3> QED
      BY <2>copy, <3>2 DEF CopyByte, core1Vars, Turn, Outputs, Whole
  <2>4. CASE Publish
    <3>1. /\ packet \in Packets
          /\ Waiting < Size - 1
          /\ Contents' = Append(Contents, packet)
      BY <2>4, PublishAppends
    <3>2. UNCHANGED <<Turn, Outputs>> /\ accepted' = TRUE
      BY <2>4 DEF Publish, core1Vars, Turn, Outputs, Whole
    <3>3. Fifo!Put(packet)
      BY <2>0, <3>1, <3>2 DEF Fifo!Put, Contents, Turn, Outputs
    <3> QED
      BY <3>1, <3>3 DEF Fifo!Next
  <2>5. ASSUME NEW mounted \in SUBSET Devices, UsbTask(mounted)
        PROVE  UNCHANGED <<Contents, Turn, Outputs, accepted>>
    BY <2>5 DEF UsbTask, core0Vars, Contents, Turn, Outputs, Waiting, SlotOf, Whole
  <2>6. CASE DrainEnd
    BY <2>6 DEF DrainEnd, core0Vars, Contents, Turn, Outputs, Waiting, SlotOf, Whole
  <2>7. CASE DrainBegin
    <3>1. Turn = {} /\ Turn' = {}
      BY <2>7 DEF DrainBegin, Turn
    <3> QED
      BY <2>7, <3>1 DEF DrainBegin, core0Vars, Contents, Outputs, Waiting, SlotOf, Whole
  <2>8. CASE WriteDevice
    <3>1. UNCHANGED <<Contents, accepted>>
      BY <2>8 DEF WriteDevice, core0Vars, Contents, Waiting, SlotOf, Whole
    <3>2. Contents # <<>> /\ Head(Contents) = Whole(ring[tail])
      BY <2>8, WriteTakesHead
    <3>3. dev \in Devices /\ dev \notin Turn /\ Turn' = Turn \union {dev}
      BY <2>8, DevicesAssumption DEF WriteDevice, Turn, TxTypeOK, Devices
    <3>4. Outputs' = [Outputs EXCEPT ![dev] = Head(Contents)]
      BY <2>8, <3>2, <3>3 DEF WriteDevice, Outputs, TxTypeOK, Whole
    <3>5. Fifo!Take(dev)
      BY <3>1, <3>2, <3>3, <3>4 DEF Fifo!Take, Contents, Turn, Outputs
    <3> QED
      BY <3>3, <3>5 DEF Fifo!Next
  <2>9. CASE SkipDevice
    <3>1. UNCHANGED <<Contents, Outputs, accepted>>
      BY <2>9 DEF SkipDevice, core0Vars, Contents, Outputs, Waiting, SlotOf, Whole
    <3>2. Contents # <<>>
      BY <2>9, WriteTakesHead
    <3>3. dev \in Devices /\ dev \notin Turn /\ Turn' = Turn \union {dev}
      BY <2>9, DevicesAssumption DEF SkipDevice, Turn, TxTypeOK, Devices
    <3>4. Fifo!Pass(dev)
      BY <3>1, <3>2, <3>3 DEF Fifo!Pass, Contents, Turn, Outputs
    <3> QED
      BY <3>3, <3>4 DEF Fifo!Next
  <2>10. CASE Advance
    <3>1. Contents # <<>> /\ Contents' = Tail(Contents)
      BY <2>10, AdvanceRemoves
    <3>2. Turn = Devices /\ Turn' = {}
      BY <2>10 DEF Advance, Turn, Devices
    <3>3. UNCHANGED <<Outputs, accepted>>
      BY <2>10 DEF Advance, core0Vars, Outputs, Whole
    <3>4. Fifo!Remove
      BY <3>1, <3>2, <3>3 DEF Fifo!Remove, Contents, Turn, Outputs
    <3> QED
      BY <3>4 DEF Fifo!Next
  <2>11. CASE UNCHANGED txVars
    BY <2>11 DEF txVars, core0Vars, core1Vars, Contents, Turn, Outputs, Waiting, SlotOf, Whole
  <2> QED
    BY <2>1, <2>2, <2>copy, <2>4, <2>5, <2>6, <2>7, <2>8, <2>9, <2>10, <2>11
    DEF TxNext, Core0, Core1, Drain
<1>3. TxIndInv => QueueOK
  BY ContentsArePackets
<1> QED
  BY <1>1, <1>2, <1>3, TxIndInvHolds, PTL DEF TxSpec, ImplementsFifo, Fifo!Spec

===============================================================================
