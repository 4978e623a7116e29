-------------------------------- MODULE MgbLink --------------------------------
(***************************************************************************)
(* mGB mode (Mode_MidiGb.ino): the link to the Game Boy and the MIDI thru. *)
(* Bytes from the DIN port go through two parsers, one that forwards the   *)
(* bytes of five channels to the Game Boy (modeMidiGb) and one that makes  *)
(* USB-MIDI packets of whole messages (modeMidiGbThruSerialByte).          *)
(* Messages from USB, taken whole from the receive ring, are forwarded to  *)
(* the Game Boy between any two bytes of a DIN message.                    *)
(*                                                                         *)
(* The sender at the DIN port keeps to MIDI: running status, real-time     *)
(* bytes anywhere, system common and system exclusive messages, though a   *)
(* message may be cut short by the next.  While another mode runs its      *)
(* bytes go unseen.  What a step sends is recorded in toUsb, and as heard, *)
(* the message the Game Boy has just completed.                            *)
(***************************************************************************)
EXTENDS Integers, Sequences

CONSTANTS
  OwnChannels,    \* memory[MEM_MGB_CH] to [MEM_MGB_CH + 4], in order
  Statuses,       \* the channel status bytes in use
  SystemCommon,   \* and the system common ones
  Data            \* and the data bytes

ASSUME OwnChannelsAssumption == OwnChannels \in Seq(0..255) /\ Len(OwnChannels) <= 5
ASSUME StatusesAssumption == Statuses \subseteq 128..239
ASSUME SystemCommonAssumption == SystemCommon \subseteq 241..246
ASSUME DataAssumption == Data \subseteq 0..127

SysexBegin == 240
SysexEnd == 247
Clock == 248
None == <<>>    \* no message

VARIABLES
  here,                \* the device is in mGB mode
  midiAddressMode,
  midiValueMode,
  mgbThruRunningStatus,
  mgbThruStatus,
  mgbThruData,         \* the mgbThruDataCount bytes in use
  mgbThruDataLength,
  mgbThruSysex,
  mgbThruSysexData,    \* the mgbThruSysexCount bytes in use
  toUsb,               \* packets made of DIN bytes in the last step, with their cin, for both USB ports
  \* the Game Boy
  gbStatus,
  gbData,
  heard,               \* the message completed in the last step
  \* the sender
  status,              \* running status, or a system common status, or 0
  sent,                \* data bytes of the message so far
  inSysex,
  chunk,               \* bytes of the system exclusive message since the last packet
  \* history
  due,                 \* packets that should have been sent in the last step
  dueGb,               \* message the Game Boy should have completed in the last step
  synced,              \* a message has begun since the mode was entered
  disturbed            \* what has come since the last channel status byte: "realTime",
                       \* "system" or "usb" messages

gbVars == <<gbStatus, gbData>>
linkVars == <<midiAddressMode, midiValueMode>>
thruVars == <<mgbThruRunningStatus, mgbThruStatus, mgbThruData, mgbThruDataLength, mgbThruSysex,
              mgbThruSysexData>>
sender == <<status, sent, inSysex, chunk>>
vars == <<here, linkVars, thruVars, toUsb, gbVars, heard, sender, due, dueGb, synced, disturbed>>

Init ==
  /\ here = TRUE
  /\ midiAddressMode = FALSE /\ midiValueMode = FALSE
  /\ mgbThruRunningStatus = 0 /\ mgbThruStatus = 0
  /\ mgbThruData = <<>> /\ mgbThruDataLength = 0
  /\ mgbThruSysex = FALSE /\ mgbThruSysexData = <<>>
  /\ toUsb = <<>>
  /\ gbStatus = 0 /\ gbData = <<>> /\ heard = None
  /\ status = 0 /\ sent = <<>> /\ inSysex = FALSE /\ chunk = <<>>
  /\ due = <<>> /\ dueGb = None
  /\ synced = FALSE /\ disturbed = {}

-------------------------------------------------------------------------------
(* Status bytes.                                                           *)

Kind(s) == s - (s % 16)
DataLength(s) == CASE s < 240 -> IF Kind(s) \in {192, 208} THEN 1 ELSE 2
                   [] s \in {241, 243} -> 1
                   [] s = 242 -> 2
                   [] OTHER -> 0

CodeIndex(s) == CASE s \in {241, 243} -> 2
                  [] s = 242 -> 3
                  [] s < 240 -> Kind(s) \div 16
                  [] OTHER -> 5

IsOwn(s) == s < 240 /\ \E i \in DOMAIN OwnChannels : OwnChannels[i] = (s % 16)

(* The status with the number of the mGB voice in place of the channel.    *)
ToVoice(s) ==
  Kind(s) + (CHOOSE i \in DOMAIN OwnChannels :
               /\ OwnChannels[i] = (s % 16)
               /\ \A j \in 1..(i - 1) : OwnChannels[j] # (s % 16)) - 1

-------------------------------------------------------------------------------
(* The Game Boy: a MIDI receiver at the other end of the link.             *)

GbNothing == UNCHANGED gbVars /\ heard' = None

GbByte(b) ==
  IF b >= 128
  THEN gbStatus' = b /\ gbData' = <<>> /\ heard' = None
  ELSE /\ UNCHANGED gbStatus
       /\ IF gbStatus = 0
          THEN UNCHANGED gbData /\ heard' = None
          ELSE IF Len(gbData) + 1 = DataLength(gbStatus)
               THEN gbData' = <<>> /\ heard' = <<gbStatus>> \o gbData \o <<b>>
               ELSE gbData' = Append(gbData, b) /\ heard' = None

-------------------------------------------------------------------------------
(* modeMidiGb: from DIN to the Game Boy.                                   *)

(* Faulty variant: the value flag is not cleared by a status byte.         *)
LinkStatusStale(b) ==
  /\ b >= 128
  /\ midiAddressMode' = IF b >= 240 THEN midiAddressMode ELSE IsOwn(b)
  /\ UNCHANGED midiValueMode
  /\ IF IsOwn(b) THEN GbByte(ToVoice(b)) ELSE GbNothing

LinkStatus(b) ==
  /\ b >= 128
  /\ midiValueMode' = FALSE
  /\ midiAddressMode' = IF b >= 240 THEN midiAddressMode ELSE IsOwn(b)
  /\ IF IsOwn(b) THEN GbByte(ToVoice(b)) ELSE GbNothing

LinkAddress(b) ==
  /\ b < 128 /\ midiAddressMode
  /\ midiAddressMode' = FALSE /\ midiValueMode' = TRUE
  /\ GbByte(b)

LinkValue(b) ==
  /\ b < 128 /\ ~midiAddressMode /\ midiValueMode
  /\ midiAddressMode' = TRUE /\ midiValueMode' = FALSE
  /\ GbByte(b)

LinkIgnore(b) ==
  /\ b < 128 /\ ~midiAddressMode /\ ~midiValueMode
  /\ UNCHANGED linkVars /\ GbNothing

LinkByte(b) == LinkStatus(b) \/ LinkAddress(b) \/ LinkValue(b) \/ LinkIgnore(b)

-------------------------------------------------------------------------------
(* modeMidiGbThruSerialByte: from DIN to USB.                              *)

(* Faulty variant: a full packet is sent without emptying the buffer.      *)
ThruSysexKept(b) ==
  LET data == (IF b = SysexBegin THEN <<>> ELSE mgbThruSysexData) \o <<b>>
      full == Len(data) = 3 \/ b = SysexEnd
  IN /\ mgbThruSysex' = (b # SysexEnd)
     /\ mgbThruSysexData' = data
     /\ toUsb' = IF full THEN << <<4>> \o data >> ELSE <<>>
     /\ UNCHANGED <<mgbThruRunningStatus, mgbThruStatus, mgbThruData, mgbThruDataLength>>

ThruSysex(b) ==
  LET data == (IF b = SysexBegin THEN <<>> ELSE mgbThruSysexData) \o <<b>>
      full == Len(data) = 3 \/ b = SysexEnd
  IN /\ mgbThruSysex' = (b # SysexEnd)
     /\ mgbThruSysexData' = IF full THEN <<>> ELSE data
     /\ toUsb' = IF full THEN << <<IF b = SysexEnd THEN 4 + Len(data) ELSE 4>> \o data >> ELSE <<>>
     /\ IF b = SysexBegin
        THEN mgbThruRunningStatus' = 0 /\ mgbThruStatus' = 0
        ELSE UNCHANGED <<mgbThruRunningStatus, mgbThruStatus>>
     /\ UNCHANGED <<mgbThruData, mgbThruDataLength>>

(* Faulty variant: the data of a message cut short is kept.                *)
ThruStatusKept(b) ==
  LET alone == DataLength(b) = 0 /\ b # SysexEnd IN
  /\ mgbThruRunningStatus' = IF b < 240 THEN b ELSE 0
  /\ mgbThruStatus' = IF alone THEN 0 ELSE b
  /\ mgbThruDataLength' = DataLength(b)
  /\ toUsb' = IF alone THEN << <<5, b>> >> ELSE <<>>
  /\ UNCHANGED <<mgbThruData, mgbThruSysex, mgbThruSysexData>>

ThruStatus(b) ==
  LET alone == DataLength(b) = 0 /\ b # SysexEnd IN
  /\ mgbThruData' = <<>>
  /\ mgbThruRunningStatus' = IF b < 240 THEN b ELSE 0
  /\ mgbThruStatus' = IF alone THEN 0 ELSE b
  /\ mgbThruDataLength' = DataLength(b)
  /\ toUsb' = IF alone THEN << <<5, b>> >> ELSE <<>>
  /\ UNCHANGED <<mgbThruSysex, mgbThruSysexData>>

ThruData(b) ==
  LET resumed == mgbThruStatus = 0 /\ mgbThruRunningStatus # 0
      s == IF resumed THEN mgbThruRunningStatus ELSE mgbThruStatus
      length == IF resumed THEN DataLength(s) ELSE mgbThruDataLength
      data == Append(mgbThruData, b)
      taken == s # 0 /\ Len(mgbThruData) < 2
      over == taken /\ Len(data) = length
  IN /\ toUsb' = IF over THEN << <<CodeIndex(s), s>> \o data >> ELSE <<>>
     /\ mgbThruData' = IF over THEN <<>> ELSE IF taken THEN data ELSE mgbThruData
     /\ mgbThruStatus' = IF over /\ s >= 240 THEN 0 ELSE s
     /\ mgbThruDataLength' = IF over /\ s >= 240 THEN 0 ELSE length
     /\ UNCHANGED <<mgbThruRunningStatus, mgbThruSysex, mgbThruSysexData>>

ThruByte(b) ==
  IF b >= Clock
  THEN toUsb' = << <<15, b>> >> /\ UNCHANGED thruVars
  ELSE IF mgbThruSysex \/ b = SysexBegin THEN ThruSysex(b)
  ELSE IF b >= 128 THEN ThruStatus(b) ELSE ThruData(b)

(* One turn of the loop with a byte waiting; in another mode it goes       *)
(* elsewhere.                                                              *)
Receive(b) ==
  /\ IF here THEN LinkByte(b) /\ ThruByte(b)
     ELSE UNCHANGED <<linkVars, thruVars>> /\ toUsb' = <<>> /\ GbNothing
  /\ UNCHANGED here

-------------------------------------------------------------------------------
(* The sender, and what should come of its bytes.                          *)

Due(packets) == due' = IF here THEN packets ELSE <<>>

SendRealTime ==
  /\ Receive(Clock)
  /\ Due(<< <<15, Clock>> >>) /\ dueGb' = None
  /\ disturbed' = disturbed \union IF sent = <<>> /\ DataLength(status) = 2 THEN {} ELSE {"realTime"}
  /\ UNCHANGED <<sender, synced>>

SendStatus ==
  \E s \in Statuses \union SystemCommon :
    /\ ~inSysex
    /\ Receive(s)
    /\ sent' = <<>>
    /\ status' = IF s >= 240 /\ DataLength(s) = 0 THEN 0 ELSE s
    /\ Due(IF s >= 240 /\ DataLength(s) = 0 THEN << <<5, s>> >> ELSE <<>>) /\ dueGb' = None
    /\ synced' = here
    /\ disturbed' = IF s >= 240 THEN disturbed \union {"system"} ELSE {}
    /\ UNCHANGED <<inSysex, chunk>>

SendData ==
  \E b \in Data :
    /\ ~inSysex /\ status # 0
    /\ Receive(b)
    /\ LET data == Append(sent, b)
           over == Len(data) = DataLength(status)
       IN /\ sent' = IF over THEN <<>> ELSE data
          /\ status' = IF over /\ status >= 240 THEN 0 ELSE status
          /\ Due(IF over THEN << <<CodeIndex(status), status>> \o data >> ELSE <<>>)
          /\ dueGb' = IF over /\ here /\ IsOwn(status) THEN <<ToVoice(status)>> \o data ELSE None
    /\ UNCHANGED <<inSysex, chunk, synced, disturbed>>

SendSysex ==
  \E b \in Data \union {SysexBegin, SysexEnd} :
    /\ inSysex = (b # SysexBegin)
    /\ Receive(b)
    /\ inSysex' = (b # SysexEnd)
    /\ status' = 0
    /\ LET data == Append(chunk, b)
           full == Len(data) = 3 \/ b = SysexEnd
       IN /\ chunk' = IF full THEN <<>> ELSE data
          /\ Due(IF full THEN << <<IF b = SysexEnd THEN 4 + Len(data) ELSE 4>> \o data >> ELSE <<>>)
    /\ dueGb' = None
    /\ synced' = IF b = SysexBegin THEN here ELSE synced
    /\ sent' = <<>>
    /\ disturbed' = disturbed \union {"system"}

(* modeMidiGbUsbMidiReceive: a message from a USB port, whole; channel and *)
(* polyphonic pressure, system messages and other channels stay out.       *)
UsbMessage ==
  /\ here
  /\ \E s \in Statuses, data \in [1..2 -> Data] :
       /\ IsOwn(s) /\ Kind(s) \in {128, 144, 176, 192, 224}
       /\ gbStatus' = ToVoice(s) /\ gbData' = <<>>
       /\ heard' = <<ToVoice(s)>> \o SubSeq(data, 1, DataLength(s))
       /\ dueGb' = heard'
  /\ toUsb' = <<>> /\ due' = <<>>
  /\ disturbed' = disturbed \union {"usb"}
  /\ UNCHANGED <<here, linkVars, thruVars, sender, synced>>

(* Another mode, by the button or the editor, which may use midiValueMode; *)
(* and back, when the thru parser starts again.                            *)
LeaveMode ==
  /\ here
  /\ here' = FALSE
  /\ midiValueMode' \in BOOLEAN
  /\ synced' = FALSE
  /\ toUsb' = <<>> /\ due' = <<>> /\ heard' = None /\ dueGb' = None
  /\ UNCHANGED <<midiAddressMode, thruVars, gbVars, sender, disturbed>>

EnterMode ==
  /\ ~here
  /\ here' = TRUE
  /\ mgbThruRunningStatus' = 0 /\ mgbThruStatus' = 0
  /\ mgbThruData' = <<>> /\ mgbThruDataLength' = 0
  /\ mgbThruSysex' = FALSE /\ mgbThruSysexData' = <<>>
  /\ toUsb' = <<>> /\ due' = <<>> /\ heard' = None /\ dueGb' = None
  /\ UNCHANGED <<linkVars, gbVars, sender, synced, disturbed>>

Next == \/ SendRealTime \/ SendStatus \/ SendData \/ SendSysex
        \/ UsbMessage \/ LeaveMode \/ EnterMode

Spec == Init /\ [][Next]_vars

-------------------------------------------------------------------------------
(* Every variable has its type; no buffer is filled beyond its size.       *)
TypeOK ==
  /\ here \in BOOLEAN
  /\ midiAddressMode \in BOOLEAN /\ midiValueMode \in BOOLEAN
  /\ mgbThruRunningStatus \in {0} \union 128..239
  /\ mgbThruStatus \in {0} \union 128..247
  /\ mgbThruDataLength \in 0..2
  /\ mgbThruSysex \in BOOLEAN
  /\ mgbThruData \in Seq(Data) /\ Len(mgbThruData) <= 2
  /\ mgbThruSysexData \in Seq(0..255) /\ Len(mgbThruSysexData) <= 2
  /\ toUsb \in Seq(Seq(0..255)) /\ Len(toUsb) <= 1
  /\ gbStatus \in {0} \union 128..239 /\ gbData \in Seq(Data) /\ Len(gbData) <= 1
  /\ heard \in Seq(0..255)
  /\ status \in {0} \union 128..246 /\ sent \in Seq(Data) /\ Len(sent) <= 1
  /\ inSysex \in BOOLEAN /\ chunk \in Seq(0..255) /\ Len(chunk) <= 2
  /\ due \in Seq(Seq(0..255)) /\ dueGb \in Seq(0..255)
  /\ synced \in BOOLEAN /\ disturbed \subseteq {"realTime", "system", "usb"}

(* The USB outputs carry the messages of the DIN port, each in one packet  *)
(* at its last byte, with running status restored, real-time bytes passed  *)
(* on at once and system exclusive in threes, from the first message that  *)
(* begins after the mode was entered.  Before that, only real-time bytes.  *)
ThruIsWhole == IF synced THEN toUsb = due ELSE toUsb \in {<<>>, << <<15, Clock>> >>}

(* The Game Boy completes exactly the messages of its channels, as long as *)
(* since their status byte no message came from USB, no system message     *)
(* from the DIN port, and no real-time byte but between two messages with  *)
(* two data bytes.  Running status, other channels and a parser left in    *)
(* any state by an earlier visit to the mode do not matter.                *)
UndisturbedReachesGameboy == synced /\ disturbed = {} => heard = dueGb

===============================================================================
