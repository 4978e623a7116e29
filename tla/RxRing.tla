-------------------------------- MODULE RxRing ---------------------------------
(***************************************************************************)
(* The ring that collects incoming USB MIDI messages for the mode loop:    *)
(* usbMidiQueue, usbMidiHead and usbMidiTail of UsbMidi.ino.  Two threads  *)
(* put messages into it:                                                   *)
(*   - core 0, which polls the USB device port (usbMidiPollDevice) each    *)
(*     time it asks for a message, and                                     *)
(*   - core 1, which reads the hosted devices in loop1() and in            *)
(*     tuh_midi_rx_cb();                                                   *)
(* core 0 takes them out (usbMidiReadMessage) and, in mGB mode, forwards   *)
(* each one to the ports it did not come from (usbMidiMgbThruToAll).       *)
(*                                                                         *)
(* usbMidiEnqueue masks interrupts, which stops neither of the cores from  *)
(* running the same lines as the other: noInterrupts() acts on the calling *)
(* core.  The model interleaves the cores at every access to the shared    *)
(* words.  usbMidiHead is volatile and is read again for each field        *)
(* stored.  Of the six fields of a message, the five that make up the MIDI *)
(* event are one word here (body) and the port it came from is another     *)
(* (source).                                                               *)
(***************************************************************************)
EXTENDS Integers

CONSTANTS
  Payloads,   \* what tells two messages from one port apart
  Size,       \* USB_MIDI_QUEUE_SIZE
  Traffic,    \* the sets of USB ports that may carry messages in a behaviour
  NoPacket    \* the content of memory that holds no message yet

Sources == {"DEVICE", "HOST"}   \* USB_MIDI_SOURCE_DEVICE, USB_MIDI_SOURCE_HOST

ASSUME SizeAssumption == Size \in Nat /\ Size >= 2
ASSUME TrafficAssumption == Traffic \subseteq SUBSET Sources
ASSUME PacketsAssumption == NoPacket \notin Sources \X Payloads

Slots == 0 .. Size - 1
Packets == Sources \X Payloads   \* a message body, with the port it came from
Origin(body) == body[1]
Words == [body : Packets \union {NoPacket}, source : Sources \union {NoPacket}]
NoWords == [body |-> NoPacket, source |-> NoPacket]

VARIABLES
  traffic,   \* the USB ports in use
  ring,      \* usbMidiQueue
  head,      \* usbMidiHead
  tail,      \* usbMidiTail
  at,        \* where each producer is inside usbMidiEnqueue
  packet,    \* the message each producer is storing
  next,      \* the local variable next of usbMidiEnqueue, per producer
  accepted,  \* what usbMidiEnqueue returned last
  pc0,       \* core 0: "poll", "test", "copied" or "forward"
  msg,       \* the message core 0 read last
  wire       \* the body last sent to each USB port by usbMidiMgbThruToAll

producerVars == <<at, packet, next>>
rxVars == <<traffic, ring, head, tail, producerVars, accepted, pc0, msg, wire>>

RxInit ==
  /\ traffic \in Traffic
  /\ ring = [s \in Slots |-> NoWords]
  /\ head = 0
  /\ tail = 0
  /\ at = [p \in Sources |-> "out"]
  /\ packet = [p \in Sources |-> NoPacket]
  /\ next = [p \in Sources |-> 0]
  /\ accepted = TRUE
  /\ pc0 = "poll"
  /\ msg = NoWords
  /\ wire = [p \in Sources |-> NoPacket]

--------------------------------------------------------------------------------
(* usbMidiEnqueue, run by core 0 for the DEVICE port and by core 1 for the *)
(* HOST port.                                                              *)

\* Core 0 enqueues only inside usbMidiPollDevice.
MayEnqueue(p) ==
  /\ p \in traffic
  /\ at[p] = "out"
  /\ p = "DEVICE" => pc0 = "poll"

\* next = (usbMidiHead + 1) % USB_MIDI_QUEUE_SIZE
EnqueueCall(p, payload) ==
  /\ MayEnqueue(p)
  /\ at' = [at EXCEPT ![p] = "test"]
  /\ packet' = [packet EXCEPT ![p] = <<p, payload>>]
  /\ next' = [next EXCEPT ![p] = (head + 1) % Size]
  /\ UNCHANGED <<traffic, ring, head, tail, accepted, pc0, msg, wire>>

EnqueueFull(p) ==
  /\ at[p] = "test"
  /\ next[p] = tail
  /\ at' = [at EXCEPT ![p] = "out"]
  /\ accepted' = FALSE
  /\ UNCHANGED <<traffic, ring, head, tail, packet, next, pc0, msg, wire>>

\* Faulty variant: a full ring is not noticed.
EnqueueRoomUnchecked(p) ==
  /\ at[p] = "test"
  /\ at' = [at EXCEPT ![p] = "body"]
  /\ UNCHANGED <<traffic, ring, head, tail, packet, next, accepted, pc0, msg, wire>>

EnqueueRoom(p) ==
  /\ at[p] = "test"
  /\ next[p] # tail
  /\ at' = [at EXCEPT ![p] = "body"]
  /\ UNCHANGED <<traffic, ring, head, tail, packet, next, accepted, pc0, msg, wire>>

StoreBody(p) ==
  /\ at[p] = "body"
  /\ ring' = [ring EXCEPT ![head].body = packet[p]]
  /\ at' = [at EXCEPT ![p] = "source"]
  /\ UNCHANGED <<traffic, head, tail, packet, next, accepted, pc0, msg, wire>>

StoreSource(p) ==
  /\ at[p] = "source"
  /\ ring' = [ring EXCEPT ![head].source = p]
  /\ at' = [at EXCEPT ![p] = "publish"]
  /\ UNCHANGED <<traffic, head, tail, packet, next, accepted, pc0, msg, wire>>

\* usbMidiHead = next
Publish(p) ==
  /\ at[p] = "publish"
  /\ head' = next[p]
  /\ at' = [at EXCEPT ![p] = "out"]
  /\ accepted' = TRUE
  /\ UNCHANGED <<traffic, ring, tail, packet, next, pc0, msg, wire>>

Enqueue(p) ==
  \/ EnqueueFull(p)
  \/ EnqueueRoom(p)
  \/ StoreBody(p)
  \/ StoreSource(p)
  \/ Publish(p)

--------------------------------------------------------------------------------
(* Core 0: usbMidiReadMessage and, in mGB mode, usbMidiMgbThruToAll.       *)

\* usb_midi.readPacket found nothing more: the poll loop ends.
PollEnd ==
  /\ pc0 = "poll"
  /\ at["DEVICE"] = "out"
  /\ pc0' = "test"
  /\ UNCHANGED <<traffic, ring, head, tail, producerVars, accepted, msg, wire>>

\* The ring is empty: the mode loop goes round and polls again.
ReadEmpty ==
  /\ pc0 = "test"
  /\ tail = head
  /\ pc0' = "poll"
  /\ UNCHANGED <<traffic, ring, head, tail, producerVars, accepted, msg, wire>>

ReadCopy ==
  /\ pc0 = "test"
  /\ tail # head
  /\ msg' = ring[tail]
  /\ pc0' = "copied"
  /\ UNCHANGED <<traffic, ring, head, tail, producerVars, accepted, wire>>

ReadAdvance ==
  /\ pc0 = "copied"
  /\ tail' = (tail + 1) % Size
  /\ pc0' = "forward"
  /\ UNCHANGED <<traffic, ring, head, producerVars, accepted, msg, wire>>

\* usbMidiMgbThruToAll: to every USB port but the one named by msg->source.
Forward ==
  /\ pc0 = "forward"
  /\ wire' = [p \in Sources |-> IF msg.source # p THEN msg.body ELSE wire[p]]
  /\ pc0' = "poll"
  /\ UNCHANGED <<traffic, ring, head, tail, producerVars, accepted, msg>>

--------------------------------------------------------------------------------
Read == ReadEmpty \/ ReadCopy \/ ReadAdvance \/ Forward

RxNext ==
  \/ \E p \in Sources, payload \in Payloads : EnqueueCall(p, payload)
  \/ \E p \in Sources : Enqueue(p)
  \/ PollEnd
  \/ Read

RxSpec == RxInit /\ [][RxNext]_rxVars

--------------------------------------------------------------------------------
(* Properties.                                                             *)

\* A message never goes back out of the USB port it came in on, whatever the
\* label it carries in the ring says (the comment on usbMidiMgbThruToAll).
NeverBackOut ==
  \A p \in Sources : wire[p] # NoPacket => Origin(wire[p]) # p

--------------------------------------------------------------------------------
(* With one producer the ring implements a bounded queue.                  *)

Waiting == IF head >= tail THEN head - tail ELSE head - tail + Size

SlotOf(k) == IF tail + k - 1 >= Size THEN tail + k - 1 - Size ELSE tail + k - 1

\* The message two words stand for, or the words themselves when the source
\* stored with the body is not the port the body came from.
Whole(words) ==
  IF words = NoWords THEN NoPacket
  ELSE IF words.body # NoPacket /\ words.source = Origin(words.body)
       THEN words.body ELSE words

Fifo == INSTANCE BoundedFifo WITH
  Capacity <- Size - 1,
  Readers <- {"core0"},
  queue <- [k \in 1 .. Waiting |-> Whole(ring[SlotOf(k)])],
  turn <- IF pc0 = "copied" THEN {"core0"} ELSE {},
  out <- [r \in {"core0"} |-> Whole(msg)]

\* While only one USB port carries traffic, messages are read whole, with the
\* right source, in the order and as often as usbMidiEnqueue accepted them,
\* and one is dropped only when Size - 1 of them wait.
ImplementsFifo == Fifo!Spec

================================================================================
