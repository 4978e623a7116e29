------------------------------ MODULE SysexParser ------------------------------
(***************************************************************************)
(* How the commands of ProgrammerSession get to the device: byte by byte,  *)
(* from the DIN port and from USB, through the one parser and the one      *)
(* buffer of Mode_Programmer.ino.  The bytes of the ports mix: one byte    *)
(* from DIN against one packet of three from USB.  The buffer is also what *)
(* the settings are sent from.                                             *)
(*                                                                         *)
(* Two settings stand for the 61 that are saved, one version byte for two, *)
(* and of the buffer only those bytes are kept that a command reads.       *)
(***************************************************************************)
EXTENDS Integers, Sequences

CONSTANTS
  Longest,        \* longestSysexMessage
  Values,         \* values of a setting
  EditorPort,     \* the port the editor uses
  Others,         \* messages of other senders, without F0 and F7
  MaxMessages     \* bound: messages sent

Id == 105         \* sysexManufacturerId
Begin == 240
End == 247
Clock == 248

Confirm == 66
Save == 70
Restore == 71
Enter == 72
SetMode == 74
SetDelay == 75
Dump == 64

Version == 1
Read == 0 .. 3    \* the bytes of sysexData that are read: Id, command, two settings
Defaults == [mode |-> 0, delay |-> 0]

ASSUME LongestAssumption == Longest \in Nat /\ Longest >= 6      \* the dump fits
ASSUME ValuesAssumption == Values \subseteq 0 .. 127
ASSUME EditorPortAssumption == EditorPort \in {"din", "usb"}
ASSUME MaxMessagesAssumption == MaxMessages \in Nat
ASSUME OthersAssumption == \A m \in Others : m \in Seq(0 .. 127)

VARIABLES
  device,     \* sysexReceiveMode, sysexPosition, sysexData, memory, the session's flags, and
              \* scanning: the checksum's loop has run past its end
  sending,    \* for each port the message it is sending, and the bytes left
  clear,      \* history: the port that alone has sent since the last Begin, or "none"
  wanted,     \* history: the memory and the session that the messages ask for
  sent,       \* messages begun
  blamed      \* history: another sender's message was too short, or one ended mixed

vars == <<device, sending, sent, clear, wanted, blamed>>

Ports == {"din", "usb"}
Silent == [message |-> <<>>, left |-> <<>>]

--------------------------------------------------------------------------------
(* The editor's messages.                                                  *)

(* computeChecksum, of one or two bytes                                    *)
Checksum(body) ==
  LET sum == (body[1] + IF Len(body) = 1 THEN 0 ELSE body[2]) % 256
  IN (IF sum >= 128 THEN sum - 127 ELSE sum) % 128

(* Faulty variant: a command without payload is sent bare.                 *)
BuildBare(cmd, payload) ==
  <<Id, cmd>> \o payload \o (IF payload = <<>> THEN <<>> ELSE <<Checksum(payload)>>)

(* buildMessage                                                            *)
BuildMessage(cmd, payload) ==
  LET body == IF payload = <<>> THEN <<0>> ELSE payload
  IN <<Id, cmd>> \o body \o <<Checksum(body)>>

EditorMessages ==
  {BuildMessage(cmd, <<>>) : cmd \in {Enter, Restore}}
    \union {BuildMessage(SetMode, <<v>>) : v \in Values}
    \union {BuildMessage(SetDelay, <<v>>) : v \in Values}
    \union {BuildMessage(Save, settings) : settings \in Values \X Values}
    \union {BuildMessage(Confirm, <<Version>>)}

--------------------------------------------------------------------------------
(* The device.                                                             *)

Init ==
  /\ device = [receiving |-> FALSE, position |-> 0, data |-> [k \in Read |-> 0],
               memory |-> Defaults, programming |-> FALSE, connected |-> FALSE, scanning |-> FALSE]
  /\ sending = [p \in Ports |-> Silent]
  /\ clear = "none"
  /\ wanted = [memory |-> Defaults, programming |-> FALSE]
  /\ sent = 0 /\ blamed = FALSE

(* clearSysexBuffer                                                        *)
ClearBuffer(d) ==
  [d EXCEPT !.data = [k \in Read |-> IF k < d.position THEN 0 ELSE @[k]], !.position = 0]

(* programmerSendSettings, which leaves the dump in the buffer.            *)
SendSettings(d) ==
  LET dump == <<Begin, Id, Dump, d.memory.mode, d.memory.delay, End>>
  IN [d EXCEPT !.data = [k \in Read |-> dump[k + 1]]]

(* The commands of a session.                                              *)
InSession(d) ==
  CASE d.data[1] = Confirm /\ d.data[2] = Version ->
         [IF d.connected THEN d ELSE SendSettings(d) EXCEPT !.connected = TRUE]
    [] d.data[1] = Save ->
         SendSettings([d EXCEPT !.memory = [mode |-> d.data[2], delay |-> d.data[3]]])
    [] d.data[1] = Restore -> SendSettings([d EXCEPT !.memory = Defaults])
    [] OTHER -> d

(* The commands that are always obeyed.                                    *)
AtAnyTime(d) ==
  CASE d.data[1] = Enter -> [d EXCEPT !.programming = TRUE]
    [] d.data[1] = SetMode -> [d EXCEPT !.memory.mode = d.data[2]]
    [] d.data[1] = SetDelay -> [d EXCEPT !.memory.delay = d.data[2]]
    [] OTHER -> d

(* checkSysexChecksum rejects nothing.  It scans from 2 to position - 2,   *)
(* and never gets there when that is less.  As nothing depends on what it  *)
(* finds a build may leave the scan out, and goes on as here; or else it   *)
(* stays here until the watchdog ends it.  With position 0 the checksum is *)
(* the byte before the buffer, whatever that is.                           *)
RunsAway(d) ==
  d.position < 4 /\ (d.position = 0 \/ d.data[d.position - 1] # 0)

(* getSysexData                                                            *)
GetSysexData(d) ==
  IF d.data[0] # Id THEN ClearBuffer(d)
  ELSE LET e == [d EXCEPT !.position = 0, !.scanning = @ \/ RunsAway(d)]
       IN AtAnyTime(IF e.programming THEN InSession(e) ELSE e)

(* Faulty variant: a message goes on where the last one was cut.           *)
BegunWhereLeft(d) == [d EXCEPT !.receiving = TRUE]

Begun(d) == [d EXCEPT !.receiving = TRUE, !.position = 0]

Stored(d, b) ==
  [d EXCEPT !.data = [k \in Read |-> IF k = d.position THEN b ELSE @[k]], !.position = @ + 1]

(* Faulty variant: nobody looks at the length.                             *)
AnyLength(d) == d

(* The byte after Longest others is stored past the end of the buffer, in  *)
(* some other variable, which is left out.                                 *)
Limited(d) ==
  IF d.position > Longest THEN [ClearBuffer(d) EXCEPT !.receiving = FALSE] ELSE d

(* checkForProgrammerSysex                                                 *)
Parse(d, b) ==
  CASE b = Begin -> Begun(d)
    [] b = End /\ d.receiving -> [GetSysexData([d EXCEPT !.receiving = FALSE]) EXCEPT !.position = 0]
    [] b \notin {Begin, End} /\ d.receiving -> Limited(Stored(d, b))
    [] OTHER -> d

(* Up to three bytes, one after the other.                                 *)
ParseAll(d, bytes) ==
  LET one == Parse(d, bytes[1])
      two == Parse(one, bytes[2])
  IN CASE Len(bytes) = 1 -> one
       [] Len(bytes) = 2 -> two
       [] Len(bytes) = 3 -> Parse(two, bytes[3])

--------------------------------------------------------------------------------
(* The senders.                                                            *)

(* A port begins a message.                                                *)
Starts(p) ==
  /\ sending[p] = Silent /\ sent < MaxMessages
  /\ sent' = sent + 1
  /\ \E m \in Others \union (IF p = EditorPort THEN EditorMessages ELSE {}) :
       sending' = [sending EXCEPT ![p] = [message |-> m, left |-> <<Begin>> \o m \o <<End>>]]
  /\ UNCHANGED <<device, clear, wanted, blamed>>

(* A message that lacks bytes is completed by whatever the buffer still     *)
(* holds: an empty one repeats the last command.                           *)
Short(m) == m = <<>> \/ (m[1] = Id /\ Len(m) < 4)

(* What a message asks for.                                                *)
Asks(m, w) ==
  IF m[1] # Id \/ Len(m) > Longest THEN w
  ELSE CASE m[2] = Enter -> [w EXCEPT !.programming = TRUE]
         [] m[2] = SetMode -> [w EXCEPT !.memory.mode = m[3]]
         [] m[2] = SetDelay -> [w EXCEPT !.memory.delay = m[3]]
         [] m[2] = Save /\ w.programming -> [w EXCEPT !.memory = [mode |-> m[3], delay |-> m[4]]]
         [] m[2] = Restore /\ w.programming -> [w EXCEPT !.memory = Defaults]
         [] OTHER -> w

(* A port sends the next bytes.  When a message ends that was mixed with    *)
(* another or is short, wanted follows the device, right or wrong: Obeyed  *)
(* says nothing of these.                                                  *)
Sends(p, count) ==
  LET left == sending[p].left
      bytes == SubSeq(left, 1, count)
      alone == IF Begin = bytes[1] \/ clear = p THEN p ELSE "none"
      ends == count = Len(left)
      isClear == alone = p /\ ~Short(sending[p].message)
      cutShort == Short(sending[p].message) /\ sending[p].message \in Others
  IN /\ sending[p] # Silent
     /\ device' = ParseAll(device, bytes)
     /\ sending' = [sending EXCEPT ![p] =
                      IF ends THEN Silent
                      ELSE [@ EXCEPT !.left = SubSeq(left, count + 1, Len(left))]]
     /\ clear' = IF ends THEN "none" ELSE alone
     /\ wanted' = IF ~ends THEN wanted
                  ELSE IF isClear THEN Asks(sending[p].message, wanted)
                  ELSE [memory |-> device'.memory, programming |-> device'.programming]
     /\ UNCHANGED sent
     /\ blamed' = (blamed \/ (ends /\ (alone # p \/ cutShort)))

(* Each mode's loop reads one byte from the serial port.                   *)
DinByte == Sends("din", 1)

(* usbMidiHandleDevicePacket: three bytes, or the last ones.               *)
UsbPacket ==
  LET left == Len(sending["usb"].left) IN Sends("usb", IF left < 3 THEN left ELSE 3)

(* A MIDI clock at the DIN port, which may come in the middle of anything. *)
DinClock ==
  /\ device' = Parse(device, Clock)
  /\ clear' = "none"
  /\ UNCHANGED <<sending, sent, wanted, blamed>>

(* programmerCheckTimeout                                                  *)
SessionEnds ==
  /\ device.programming
  /\ device' = [device EXCEPT !.programming = FALSE, !.connected = FALSE]
  /\ wanted' = [wanted EXCEPT !.programming = FALSE]
  /\ UNCHANGED <<sending, sent, clear, blamed>>

Next == (\E p \in Ports : Starts(p)) \/ DinByte \/ UsbPacket \/ DinClock \/ SessionEnds

Spec == Init /\ [][Next]_vars

--------------------------------------------------------------------------------
(* Properties.                                                             *)

Bytes == 0 .. 255

TypeOK ==
  /\ device.receiving \in BOOLEAN /\ device.position \in 0 .. Longest
  /\ device.data \in [Read -> Bytes]
  /\ device.memory \in [mode : Bytes, delay : Bytes]
  /\ device.programming \in BOOLEAN /\ device.connected \in BOOLEAN /\ device.scanning \in BOOLEAN
  /\ sent \in 0 .. MaxMessages /\ clear \in Ports \union {"none"}
  /\ wanted \in [memory : [mode : Bytes, delay : Bytes], programming : BOOLEAN]

(* The device does what each message asks for that comes through alone and *)
(* brings all the bytes its command reads, and nothing for one of another  *)
(* maker or too long a one; what an earlier message, cut, mixed or too     *)
(* long, or a dump has left in the buffer makes no difference to it.  Of   *)
(* short messages, to which it does make one, nothing is said.             *)
Obeyed == device.memory = wanted.memory /\ device.programming = wanted.programming

(* The scan for the checksum ends, as the editor pads its payloads, until  *)
(* a message ends mixed with another or some other sender cuts one short.  *)
ScanEnds == device.scanning => blamed

================================================================================
