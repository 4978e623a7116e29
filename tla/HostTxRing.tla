------------------------------ MODULE HostTxRing -------------------------------
(***************************************************************************)
(* The ring that carries MIDI thru packets from core 0 to the USB devices  *)
(* hosted by core 1: usbMidiHostTxQueue, usbMidiHostTxHead and             *)
(* usbMidiHostTxTail of UsbMidi.ino.  Core 0 fills it from the mGB thru    *)
(* functions (usbMidiHostTxEnqueue), core 1 empties it at the end of every *)
(* loop1() pass.  There is no lock: the ring relies on having one producer *)
(* and one consumer, on publishing a slot after filling it, and on leaving *)
(* one slot free.  The consumer keeps a pointer into the ring (txPacket)   *)
(* while it writes to the devices, so the slot must stay unchanged until   *)
(* the tail moves on.                                                      *)
(*                                                                         *)
(* Each core is sequential; the cores interleave at the accesses to the    *)
(* shared words.  A packet is Bytes bytes copied one at a time by memcpy;  *)
(* a byte is represented by the packet it belongs to, so a slot is whole   *)
(* when all its bytes name the same packet.  The stores are assumed to     *)
(* reach memory in program order, which the RP2040's cores guarantee and   *)
(* the compiler is trusted to keep (the array itself is not volatile).     *)
(***************************************************************************)
EXTENDS Integers, FiniteSets

CONSTANTS
  Packets,     \* the packets core 0 may forward
  Size,        \* USB_MIDI_HOST_TX_QUEUE_SIZE
  Bytes,       \* bytes in a packet (4)
  NumDevices,  \* MAX_USB_MIDI_DEVICES
  NoPacket     \* the content of memory that holds no packet yet

ASSUME SizeAssumption == Size \in Nat /\ Size >= 2
ASSUME BytesAssumption == Bytes \in Nat \ {0}
ASSUME DevicesAssumption == NumDevices \in Nat \ {0}
ASSUME PacketsAssumption == NoPacket \notin Packets

Devices == 0 .. NumDevices - 1
Slots == 0 .. Size - 1
Offsets == 1 .. Bytes
Content == [Offsets -> Packets \union {NoPacket}]

VARIABLES
  ring,     \* usbMidiHostTxQueue
  head,     \* usbMidiHostTxHead, written by core 0 only
  tail,     \* usbMidiHostTxTail, written by core 1 only
  pc0,      \* core 0: "idle" or "copy" (inside usbMidiHostTxEnqueue)
  packet,   \* the packet core 0 is enqueuing
  copied,   \* bytes of it that memcpy has stored
  accepted, \* what usbMidiHostTxEnqueue returned last
  pc1,      \* core 1: "task" (elsewhere in loop1), "test" or "write"
  dev,      \* the index i of the device loop
  ready,    \* devices mounted with txCableCount > 0
  written   \* the last packet handed to each device's endpoint buffer

core0Vars == <<head, pc0, packet, copied, accepted>>
core1Vars == <<tail, pc1, dev, ready, written>>
txVars == <<ring, core0Vars, core1Vars>>

\* Faulty variant: the index is not wrapped.
SuccUnwrapped(i) == i + 1

Succ(i) == (i + 1) % Size

TxInit ==
  /\ ring = [s \in Slots |-> [o \in Offsets |-> NoPacket]]
  /\ head = 0
  /\ tail = 0
  /\ pc0 = "idle"
  /\ packet = NoPacket
  /\ copied = 0
  /\ accepted = TRUE
  /\ pc1 = "task"
  /\ dev = 0
  /\ ready = {}
  /\ written = [d \in Devices |-> [o \in Offsets |-> NoPacket]]

--------------------------------------------------------------------------------
(* Core 0: usbMidiHostTxEnqueue, called by the mGB thru functions.         *)

\* next == usbMidiHostTxTail: the ring is full, the packet is dropped.
EnqueueFull ==
  /\ pc0 = "idle"
  /\ Succ(head) = tail
  /\ accepted' = FALSE
  /\ UNCHANGED <<ring, head, pc0, packet, copied, core1Vars>>

\* Faulty variant: the last free slot is used too.
EnqueueBeginUnguarded(p) ==
  /\ pc0 = "idle"
  /\ pc0' = "copy"
  /\ packet' = p
  /\ copied' = 0
  /\ UNCHANGED <<ring, head, accepted, core1Vars>>

EnqueueBegin(p) ==
  /\ pc0 = "idle"
  /\ Succ(head) # tail
  /\ pc0' = "copy"
  /\ packet' = p
  /\ copied' = 0
  /\ UNCHANGED <<ring, head, accepted, core1Vars>>

CopyByte ==
  /\ pc0 = "copy"
  /\ copied < Bytes
  /\ copied' = copied + 1
  /\ ring' = [ring EXCEPT ![head] = [@ EXCEPT ![copied + 1] = packet]]
  /\ UNCHANGED <<head, pc0, packet, accepted, core1Vars>>

\* Faulty variant: the slot is published before its last byte is stored.
PublishEarly ==
  /\ pc0 = "copy"
  /\ copied = Bytes - 1
  /\ head' = Succ(head)
  /\ pc0' = "idle"
  /\ accepted' = TRUE
  /\ UNCHANGED <<ring, packet, copied, core1Vars>>

Publish ==
  /\ pc0 = "copy"
  /\ copied = Bytes
  /\ head' = Succ(head)
  /\ pc0' = "idle"
  /\ accepted' = TRUE
  /\ UNCHANGED <<ring, packet, copied, core1Vars>>

--------------------------------------------------------------------------------
(* Core 1: the drain loop of loop1.  USBHost.task() and the receive scan   *)
(* come before it in the same pass; mount and unmount callbacks run inside *)
(* USBHost.task(), so the devices cannot change while the ring is drained. *)

UsbTask(mounted) ==
  /\ pc1 = "task"
  /\ pc1' = "test"
  /\ ready' = mounted
  /\ UNCHANGED <<ring, core0Vars, tail, dev, written>>

DrainEnd ==
  /\ pc1 = "test"
  /\ tail = head
  /\ pc1' = "task"
  /\ UNCHANGED <<ring, core0Vars, tail, dev, ready, written>>

\* txPacket points at the slot from here until Advance.
DrainBegin ==
  /\ pc1 = "test"
  /\ tail # head
  /\ pc1' = "write"
  /\ dev' = 0
  /\ UNCHANGED <<ring, core0Vars, tail, ready, written>>

\* tuh_midi_packet_write copies the slot into the endpoint buffer of dev.
WriteDevice ==
  /\ pc1 = "write"
  /\ dev < NumDevices
  /\ dev \in ready
  /\ written' = [written EXCEPT ![dev] = ring[tail]]
  /\ dev' = dev + 1
  /\ UNCHANGED <<ring, core0Vars, tail, pc1, ready>>

\* The device is not mounted, has no output, or its endpoint buffer is full.
SkipDevice ==
  /\ pc1 = "write"
  /\ dev < NumDevices
  /\ dev' = dev + 1
  /\ UNCHANGED <<ring, core0Vars, tail, pc1, ready, written>>

\* Faulty variant: the packet is kept until some device is there to take it,
\* inside the drain loop, where no device can arrive.
AdvanceIfReady ==
  /\ pc1 = "write"
  /\ dev = NumDevices
  /\ ready # {}
  /\ tail' = Succ(tail)
  /\ pc1' = "test"
  /\ UNCHANGED <<ring, core0Vars, dev, ready, written>>

Advance ==
  /\ pc1 = "write"
  /\ dev = NumDevices
  /\ tail' = Succ(tail)
  /\ pc1' = "test"
  /\ UNCHANGED <<ring, core0Vars, dev, ready, written>>

--------------------------------------------------------------------------------
Core0 ==
  \/ EnqueueFull
  \/ \E p \in Packets : EnqueueBegin(p)
  \/ CopyByte
  \/ Publish

Drain ==
  \/ DrainBegin
  \/ WriteDevice
  \/ SkipDevice
  \/ Advance

Core1 ==
  \/ \E mounted \in SUBSET Devices : UsbTask(mounted)
  \/ DrainEnd
  \/ Drain

TxNext == Core0 \/ Core1

\* Core 1 runs loop1() for ever, whatever core 0 does.
TxSpec == TxInit /\ [][TxNext]_txVars /\ WF_txVars(Core1)

--------------------------------------------------------------------------------
(* Properties.                                                             *)

TxTypeOK ==
  /\ ring \in [Slots -> Content]
  /\ head \in Slots
  /\ tail \in Slots
  /\ pc0 \in {"idle", "copy"}
  /\ packet \in Packets \union {NoPacket}
  /\ copied \in 0 .. Bytes
  /\ accepted \in BOOLEAN
  /\ pc1 \in {"task", "test", "write"}
  /\ dev \in 0 .. NumDevices
  /\ ready \in SUBSET Devices
  /\ written \in [Devices -> Content]

\* The packet under txPacket does not change while core 1 writes it to the
\* devices, although core 0 keeps enqueuing: loop1 reads the slot through a
\* pointer, once per device, and frees it only afterwards.
HeldPacketStable == [][pc1 = "write" => ring'[tail] = ring[tail]]_txVars

\* Every packet in the ring leaves it: core 1 never stays on one slot, whether
\* or not a device takes the packet (loop1 advances the tail regardless).
EverySlotReleased ==
  \A s \in Slots : (tail = s /\ head # s) ~> (tail # s)

--------------------------------------------------------------------------------
(* The ring implements a bounded queue: the slots from tail up to head.    *)

Waiting == IF head >= tail THEN head - tail ELSE head - tail + Size

SlotOf(k) == IF tail + k - 1 >= Size THEN tail + k - 1 - Size ELSE tail + k - 1

\* The packet in a slot, or the mixture itself when its bytes disagree.
Whole(content) ==
  IF \A o \in Offsets : content[o] = content[1] THEN content[1] ELSE content

Fifo == INSTANCE BoundedFifo WITH
  Capacity <- Size - 1,
  Readers <- Devices,
  queue <- [k \in 1 .. Waiting |-> Whole(ring[SlotOf(k)])],
  turn <- IF pc1 = "write" THEN 0 .. dev - 1 ELSE {},
  out <- [d \in Devices |-> Whole(written[d])]

\* Packets come out of the ring whole, in the order and as often as they went
\* in, each at most once per device, and one is dropped only when Size - 1
\* packets wait: the contract of usbMidiHostTxEnqueue and the loop1 drain.
ImplementsFifo == Fifo!Spec

================================================================================
