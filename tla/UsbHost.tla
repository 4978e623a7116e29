-------------------------------- MODULE UsbHost --------------------------------
(***************************************************************************)
(* The host side of core 1: loop1() of UsbMidi.ino with the table of       *)
(* hosted devices (usbMidiDevices), over the endpoints of PioEndpoint.     *)
(* Between the two is TinyUSB, which is not in the repository: it gives    *)
(* its events to loop1 in USBHost.task(0), enumerates a device by control  *)
(* requests, mounts it, keeps a receive transfer submitted, and aborts and *)
(* submits it again in tuh_midi_rx_rearm.  It is modelled by what          *)
(* UsbMidi.ino says of it and asks of it.                                  *)
(*                                                                         *)
(* There is one device.  Times are ages in ticks, up to Silence.           *)
(***************************************************************************)
EXTENDS PioEndpoint

CONSTANTS
  Silence,     \* USB_MIDI_RX_SILENCE_MS
  MaxEvents    \* bound: the device is not plugged in again while so many events wait

ASSUME SilenceAssumption == Silence \in Nat \ {0}
ASSUME EventsAssumption == MaxEvents \in Nat

Never == -1   \* the age of a time that is 0 in the table

VARIABLES
  pc,        \* core 1: "task", "reset", "scan", "abort", "marked",
             \* "clear" or "send"
  stage,     \* the stage of the control request TinyUSB waits for
  busy,      \* the endpoints TinyUSB has a transfer on
  slot,      \* usbMidiDevices: mounted, and the ages of referenceMs and lastRearmMs
  handed,    \* the last packet given to usbMidiEnqueuePacket
  sent       \* the last packet given to the OUT endpoint

vars == <<pioVars, pc, stage, busy, slot, handed, sent>>

\* referenceMs is the later of mountedMs and lastRxMs.
Empty == [mounted |-> FALSE, reference |-> Never, rearm |-> Never]

Init ==
  /\ PioInit
  /\ pc = "task"
  /\ stage = "none"
  /\ busy = {}
  /\ slot = Empty
  /\ handed = 0
  /\ sent = 0

--------------------------------------------------------------------------------
(* USBHost.task(0): every queued event, one at a time.                     *)

First(event) == pc = "task" /\ events # << >> /\ Head(events) = event

\* The driver resets the port of a new device and waits.
Attach ==
  /\ First(Root("attach"))
  /\ events' = Tail(events)
  /\ ResetStart
  /\ pc' = "reset"
  /\ UNCHANGED <<ep, stage, busy, slot, handed, sent>>

\* Then it opens the control endpoint and asks for the descriptors.
Enumerate ==
  /\ pc = "reset"
  /\ ResetEnd
  /\ ep' = [ep EXCEPT !["control"] = SetupSent(Opened("control"))]
  /\ stage' = "setup"
  /\ busy' = busy \union {"control"}
  /\ pc' = "task"
  /\ UNCHANGED <<events, dev, slot, handed, sent>>

\* The device is gone: its endpoints are closed; tuh_midi_umount_cb.
Remove ==
  /\ First(Root("remove"))
  /\ events' = Tail(events)
  /\ ep' = AllClosed
  /\ stage' = "none"
  /\ busy' = {}
  /\ slot' = Empty
  /\ handed' = 0
  /\ sent' = 0
  /\ UNCHANGED <<root, dev, pc>>

\* The next event ends a transfer TinyUSB waits for.
Over(e) == pc = "task" /\ events # << >> /\ Head(events).ep = e /\ e \in busy
Succeeded == Head(events).result = "complete"

\* A request that failed is made again.
ControlOver ==
  /\ Over("control")
  /\ \/ ~Succeeded /\ stage' = "setup"
     \/ Succeeded /\ stage = "setup" /\ stage' = "data"
     \/ Succeeded /\ stage = "data" /\ stage' = "status"
  /\ ep' = [ep EXCEPT !["control"] = CASE stage' = "setup" -> SetupSent(@)
                                       [] stage' = "data" -> StageSent(@, "in", 2)
                                       [] stage' = "status" -> StageSent(@, "out", 1)]
  /\ events' = Tail(events)
  /\ UNCHANGED <<root, dev, pc, busy, slot, handed, sent>>

\* The bulk endpoints are opened, a transfer is submitted: tuh_midi_mount_cb.
Mount ==
  /\ Over("control") /\ Succeeded /\ stage = "status"
  /\ ep' = [ep EXCEPT !["in"] = BulkSent(Opened("in"), 0), !["out"] = Opened("out")]
  /\ events' = Tail(events)
  /\ stage' = "none"
  /\ busy' = {"in"}
  /\ slot' = [Empty EXCEPT !.mounted = TRUE, !.reference = 0]
  /\ handed' = Numbers - 1
  /\ sent' = 0
  /\ UNCHANGED <<root, dev, pc>>

\* tuh_midi_rx_cb: the packet goes to the receive ring; the transfer is
\* submitted again.
Receive ==
  /\ Over("in") /\ Succeeded
  /\ handed' = ep["in"].buf
  /\ slot' = [slot EXCEPT !.reference = 0]
  /\ ep' = [ep EXCEPT !["in"] = BulkSent(@, 0)]
  /\ events' = Tail(events)
  /\ UNCHANGED <<root, dev, pc, stage, busy, sent>>

\* A receive transfer that failed is not: the endpoint is idle.  So is the OUT
\* endpoint until there is more to send.
Idle ==
  /\ Over("out") \/ (Over("in") /\ ~Succeeded)
  /\ busy' = busy \ {Head(events).ep}
  /\ events' = Tail(events)
  /\ UNCHANGED <<root, ep, dev, pc, stage, slot, handed, sent>>

\* What a device that is gone had left.
Stale ==
  /\ pc = "task" /\ events # << >>
  /\ Head(events).ep \in Endpoints \ busy
  /\ events' = Tail(events)
  /\ UNCHANGED <<root, ep, dev, pc, stage, busy, slot, handed, sent>>

TaskDone ==
  /\ pc = "task" /\ events = << >>
  /\ pc' = "scan"
  /\ UNCHANGED <<pioVars, stage, busy, slot, handed, sent>>

--------------------------------------------------------------------------------
(* The scan of the table, with tuh_midi_rx_rearm.                          *)

\* Faulty variant: a device is given one chance.
DueOnce == slot.mounted /\ slot.reference >= Silence /\ slot.rearm = Never

Due ==
  /\ slot.mounted
  /\ slot.reference >= Silence
  /\ slot.rearm = Never \/ slot.rearm >= Silence

NotDue ==
  /\ pc = "scan" /\ ~Due
  /\ pc' = "send"
  /\ UNCHANGED <<pioVars, stage, busy, slot, handed, sent>>

\* With no transfer pending, one is submitted, unless the last one has only
\* just ended.
Rearm ==
  /\ pc = "scan" /\ Due
  /\ slot' = [slot EXCEPT !.rearm = 0]
  /\ IF ep["in"].has
     THEN pc' = "abort" /\ UNCHANGED <<ep, busy>>
     ELSE /\ pc' = "send"
          /\ ep' = IF "in" \in busy THEN ep ELSE [ep EXCEPT !["in"] = BulkSent(@, 0)]
          /\ busy' = busy \union {"in"}
  /\ UNCHANGED <<root, events, dev, stage, handed, sent>>

Abort ==
  /\ pc = "abort"
  /\ ep' = [ep EXCEPT !["in"] = AbortMarked(@)]
  /\ pc' = "marked"
  /\ UNCHANGED <<root, events, dev, stage, busy, slot, handed, sent>>

\* Faulty variant: a transfer that ended meanwhile is taken for aborted.
AbortBlindly ==
  /\ pc = "marked"
  /\ pc' = "clear"
  /\ UNCHANGED <<pioVars, stage, busy, slot, handed, sent>>

\* A transfer that ended meanwhile is followed by a new one when its event is read.
AbortCheck ==
  /\ pc = "marked"
  /\ IF StillActive("in") THEN pc' = "clear" /\ UNCHANGED ep
     ELSE pc' = "send" /\ ep' = [ep EXCEPT !["in"] = Unmarked(@)]
  /\ UNCHANGED <<root, events, dev, stage, busy, slot, handed, sent>>

Clear ==
  /\ pc = "clear"
  /\ ep' = [ep EXCEPT !["in"] = BulkSent(Cancelled(@), 0)]
  /\ pc' = "send"
  /\ UNCHANGED <<root, events, dev, stage, busy, slot, handed, sent>>

\* The drain of the transmit ring: tuh_midi_packet_write and tuh_midi_write_flush.
Send ==
  /\ pc = "send"
  /\ pc' = "task"
  /\ \/ /\ slot.mounted /\ "out" \notin busy
        /\ sent' = After(sent)
        /\ ep' = [ep EXCEPT !["out"] = BulkSent(@, After(sent))]
        /\ busy' = busy \union {"out"}
     \/ UNCHANGED <<ep, busy, sent>>
  /\ UNCHANGED <<root, events, dev, stage, slot, handed>>

Core1 ==
  \/ Attach \/ Enumerate \/ Remove \/ ControlOver \/ Mount \/ Receive \/ Idle \/ Stale \/ TaskDone
  \/ NotDue \/ Rearm \/ Abort \/ AbortCheck \/ Clear \/ Send

--------------------------------------------------------------------------------
\* A device is not changed for another within a frame of a running bus.
Plug ==
  /\ ~dev.plugged /\ ~Running
  /\ Len(events) <= MaxEvents
  /\ dev' = [plugged |-> TRUE, side |-> [e \in Endpoints |-> Fresh]]
  /\ UNCHANGED <<root, ep, events, pc, stage, busy, slot, handed, sent>>

Unplug ==
  /\ dev.plugged
  /\ dev' = [plugged |-> FALSE, side |-> [e \in Endpoints |-> Fresh]]
  /\ UNCHANGED <<root, ep, events, pc, stage, busy, slot, handed, sent>>

Older(age) == IF age = Never \/ age = Silence THEN age ELSE age + 1

Tick ==
  /\ slot.mounted
  /\ slot' = [slot EXCEPT !.reference = Older(@), !.rearm = Older(@)]
  /\ UNCHANGED <<pioVars, pc, stage, busy, handed, sent>>

Interrupt == Frame /\ UNCHANGED <<pc, stage, busy, slot, handed, sent>>

Next == Core1 \/ Interrupt \/ Plug \/ Unplug \/ Tick

\* Core 1 never blocks, the timer interrupt comes every millisecond, time passes.
Spec ==
  /\ Init /\ [][Next]_vars
  /\ WF_vars(Core1) /\ WF_vars(Tick)
  /\ WF_vars((FrameConnect \/ FrameDisconnect) /\ Interrupt)

--------------------------------------------------------------------------------
(* Properties.                                                             *)

Ages == {Never} \union 0 .. Silence
Side == [toggle : {0, 1}, number : 0 .. Numbers - 1, unacked : BOOLEAN]
Slot == [mounted : BOOLEAN, reference : Ages, rearm : Ages]
EndpointRecord ==
  [open : BOOLEAN, dir : {"in", "out"}, setup : BOOLEAN, toggle : {0, 1}, has : BOOLEAN,
   aborted : BOOLEAN, left : 0 .. 2, failed : 0 .. Retries - 1, buf : 0 .. Numbers - 1,
   again : BOOLEAN, spoiled : BOOLEAN]

TypeOK ==
  /\ root \in [connected : BOOLEAN, suspended : BOOLEAN]
  /\ ep \in [Endpoints -> EndpointRecord]
  /\ events \in Seq([ep : Endpoints, result : Results, again : BOOLEAN]
                    \union {Root("attach"), Root("remove")})
  /\ dev \in [plugged : BOOLEAN, side : [Endpoints -> Side]]
  /\ pc \in {"task", "reset", "scan", "abort", "marked", "clear", "send"}
  /\ stage \in {"none", "setup", "data", "status"}
  /\ busy \subseteq Endpoints
  /\ slot \in Slot
  /\ handed \in 0 .. Numbers - 1
  /\ sent \in 0 .. Numbers - 1

EventsOf(e) == {k \in 1 .. Len(events) : events[k].ep = e}

\* A transfer the driver waits for is still in the pool or has ended in an event; not
\* both, and not twice, while no removal is on its way; and the interrupt has no
\* transfer, and so no buffer, that the driver does not wait for.  Whenever the frame
\* interrupt falls into an abort, an unplugging or a new submission.
OneOutcome ==
  \A e \in Endpoints :
    /\ ep[e].has => e \in busy
    /\ e \in busy /\ ~ep[e].has => EventsOf(e) # {}
    /\ e \in busy /\ EventsOf("root") = {} =>
         \A k \in EventsOf(e) : EventsOf(e) = {k} /\ ~ep[e].has

\* Packets arrive as they were sent whatever the bus loses: MIDI packets from the
\* device come in order and none is missing, one being repeated only when its
\* acknowledgement was lost; the descriptors are read without gap or repetition; and
\* an OUT transfer that completes has delivered its packet, unless one before it
\* failed.
PacketsAreKept ==
  /\ (Over("in") /\ Succeeded) =>
       ep["in"].buf = IF Head(events).again THEN handed ELSE After(handed)
  /\ (Over("control") /\ Succeeded /\ stage = "data") => ep["control"].buf = 1
  /\ (Over("out") /\ Succeeded /\ Running /\ dev.plugged /\ ~ep["out"].spoiled) =>
       dev.side["out"].number = ep["out"].buf

\* An endpoint left idle by a failed receive transfer does not stay so: the scan
\* notices the silence and submits a transfer again.
SilentEndpointRevived == (slot.mounted /\ "in" \notin busy) ~> ("in" \in busy \/ ~slot.mounted)

\* A device that is pulled out, during enumeration, an abort or a port reset too,
\* leaves the table, and nothing waits for it.
UnplugIsNoticed == ~dev.plugged ~> (dev.plugged \/ (~slot.mounted /\ busy = {}))

================================================================================
