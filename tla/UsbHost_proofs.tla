----------------------------- MODULE UsbHost_proofs ----------------------------
(***************************************************************************)
(* Proofs about what core 1 does for the hosted device, for every number   *)
(* of retries, every silence and every range of packet numbers (UsbHost    *)
(* over PioEndpoint), and about the ring it fills (RxRing), for every size *)
(* of it.                                                                  *)
(*                                                                         *)
(* The host side.  The driver learns what the frame interrupt did from a   *)
(* queue of events, which may lag behind an unplugging and a new device;   *)
(* so the queue may hold events of transfers long forgotten, and a device  *)
(* may be in the table that is no longer on the bus.  The invariant tells  *)
(* the events that still mean something (Stands) from the others: an event *)
(* stands while the bus runs, and after it stopped if it is not the error  *)
(* the disconnection itself reported, or if the removal is still behind    *)
(* it.  Every transfer the driver waits for is in the pool or has exactly  *)
(* one event that stands (Transfers, Standing), also between the steps of  *)
(* tuh_midi_rx_rearm (Aborting); and the device, the transfer and what was *)
(* handed on agree on which packet comes next (InEvents, InSide, OutSide,  *)
(* Requesting, Described).                                                 *)
(*                                                                         *)
(* The receive ring.  Its invariant holds when one of the two USB ports    *)
(* has traffic (OnePortHasTraffic): with both, one call of                 *)
(* usbMidiEnqueue overtakes the other.                                     *)
(***************************************************************************)
EXTENDS UsbHost, RxRing, SequenceTheorems, TLAPS

(***************************************************************************)
(* The inductive invariant.                                                *)
(***************************************************************************)

\* The control endpoint while it reads the two descriptor packets: none yet, or the first
\* one, whether or not the device knows that it has arrived.
Reading(p, d) ==
  /\ ~p.setup /\ p.dir = "in"
  /\ \/ p.left = 2 /\ p.toggle = 1 /\ d.toggle = 1 /\ d.number = 0
     \/ p.left = 1 /\ p.toggle = 0 /\ d.number = 1 - d.toggle

\* The places of the queue of events.
Places == 1 .. Len(events)

\* An event that still stands for how a transfer the driver waits for ended.
Stands(k) ==
  /\ events[k].ep \in Endpoints
  /\ \/ Running
     \/ events[k].result # "error"
     \/ \E l \in Places : k < l /\ events[l] = Root("remove")

\* An event about a transfer on e waits.
Told(e) == \E k \in Places : events[k].ep = e
Completed(e) == \E k \in Places : events[k].ep = e /\ events[k].result = "complete"

\* A connection is the last event of the queue and the bus rests; after a removal the
\* bus rests too, and behind it come only the errors it caused and a new connection.
RootEvents ==
  /\ \A k \in Places : events[k] = Root("attach") =>
       k = Len(events) /\ root.connected /\ root.suspended
  /\ \A k \in Places : events[k] = Root("remove") =>
       /\ ~Running
       /\ \A l \in Places : k < l => events[l].result \in {"error", "attach"}
  /\ pc = "reset" => events = << >> /\ root.connected /\ root.suspended

Removal == \E k \in Places : events[k] = Root("remove")

\* With the bus at rest and no removal to come, nothing is left of a device.
Gone ==
  ~Running /\ ~Removal =>
    ep = AllClosed /\ busy = {} /\ slot = Empty /\ stage = "none"

\* The transfers that can be in the pool, and what is open and awaited at which stage of
\* the enumeration.
Shapes ==
  /\ ~ep["in"].setup /\ ~ep["out"].setup /\ ep["out"].dir = "out"
  /\ \A e \in Endpoints : ep[e].has => ep[e].left > 0
  /\ ep["in"].has => ep["in"].left = 1
  /\ ep["out"].has => ep["out"].left = 1
  /\ stage = "none" <=> "control" \notin busy
  /\ slot.mounted => stage = "none" /\ ep["in"].dir = "in"
  /\ ~slot.mounted => busy \subseteq {"control"} /\ ep["in"] = Closed /\ ep["out"] = Closed

\* Every transfer is awaited, and every one that is awaited and over has its event.
Transfers ==
  \A e \in Endpoints :
    /\ ep[e].has => e \in busy
    /\ e \in busy /\ ~ep[e].has => Told(e)

\* An event that stands ends a transfer that is awaited, and is the only one about it.
Standing ==
  \A k \in Places : Stands(k) =>
    /\ events[k].ep \in busy /\ ~ep[events[k].ep].has
    /\ \A l \in Places : events[l].ep = events[k].ep => l = k

\* What tuh_midi_rx_rearm relies on between the marking and the clearing of a transfer:
\* the endpoint is still marked, and no event ends the transfer it goes on to clear.
Aborting ==
  /\ pc \in {"abort", "marked", "clear"} => slot.mounted /\ "in" \in busy
  /\ pc \in {"marked", "clear"} => ep["in"].aborted
  /\ pc = "clear" => \A k \in Places : events[k].ep = "in" => ~Stands(k)

\* Until it is mounted a device has moved nothing on its bulk endpoints.
Starting ==
  pc = "reset" \/ (Running /\ ~slot.mounted) => dev.side["in"] = Fresh /\ dev.side["out"] = Fresh

\* A packet that waits to be handed on is the next one, or the last one again.
InEvents ==
  \A k \in Places : events[k].ep = "in" /\ events[k].result = "complete" =>
    ep["in"].buf = IF events[k].again THEN handed ELSE After(handed)

\* The last packet of the IN endpoint that the driver has, waiting or handed on.
Got == IF Completed("in") THEN ep["in"].buf ELSE handed

\* The device is at the packet after it, or at it while its acknowledgement is lost.
InSide ==
  Running /\ dev.plugged /\ slot.mounted =>
    dev.side["in"].number = IF dev.side["in"].unacked THEN Got ELSE After(Got)

\* The device has every packet whose transfer is over, and when the toggles differ the
\* one that is in the pool.
OutSide ==
  Running /\ dev.plugged /\ slot.mounted /\ ~ep["out"].spoiled =>
    /\ dev.side["out"].toggle = ep["out"].toggle \/
         (ep["out"].has /\ dev.side["out"].number = ep["out"].buf)
    /\ Completed("out") => dev.side["out"].number = ep["out"].buf

\* The device has answered a request that completed; the descriptors are being read.
Requesting ==
  Running /\ dev.plugged =>
  /\ stage = "setup" =>
       /\ ep["control"].has => ep["control"].setup
       /\ Completed("control") => dev.side["control"].toggle = 1 /\ dev.side["control"].number = 0
  /\ stage = "data" /\ ep["control"].has => Reading(ep["control"], dev.side["control"])

Described == stage = "data" /\ Completed("control") => ep["control"].buf = 1

IndInv ==
  /\ TypeOK /\ RootEvents /\ Gone /\ Shapes /\ Transfers /\ Standing /\ Aborting /\ Starting
  /\ InEvents /\ InSide /\ OutSide /\ Requesting /\ Described

(***************************************************************************)
(* What the operators of PioEndpoint return.                               *)
(***************************************************************************)

NumberSet == 0 .. Numbers - 1

\* Packet numbers wrap within their range.
LEMMA AfterInRange ==
  ASSUME NEW n \in NumberSet
  PROVE  After(n) \in NumberSet
BY NumbersAssumption DEF After, NumberSet

LEMMA AfterOfEnds == After(0) = 1 /\ After(Numbers - 1) = 0
BY NumbersAssumption DEF After

\* pio_usb_ll_transfer_start leaves a transfer that is pending alone; otherwise it starts
\* one of so many packets and leaves the toggle.
LEMMA StartedFields ==
  ASSUME NEW p \in EndpointRecord, NEW packets \in 1 .. 2, NEW number \in NumberSet
  PROVE  LET q == Started(p, packets, number) IN
         /\ q \in EndpointRecord
         /\ q.has
         /\ q.open = p.open /\ q.dir = p.dir /\ q.setup = p.setup /\ q.toggle = p.toggle
         /\ q.again = p.again /\ q.spoiled = p.spoiled
         /\ p.dir = "in" => q.buf = p.buf
         /\ ~p.has => /\ q.left = packets
                      /\ p.dir = "out" => q.buf = number
         /\ p.has => q = p
<1>1. CASE p.has
  BY <1>1 DEF Started
<1>2. CASE ~p.has
  <2>1. Started(p, packets, number) = [p EXCEPT !.left = packets, !.failed = 0, !.aborted = FALSE,
          !.has = TRUE, !.buf = IF p.dir = "out" THEN number ELSE p.buf]
    BY <1>2 DEF Started
  <2>2. packets \in 0 .. 2 /\ 0 \in 0 .. Retries - 1
    BY RetriesAssumption
  <2>3. (IF p.dir = "out" THEN number ELSE p.buf) \in 0 .. Numbers - 1
    BY DEF EndpointRecord, NumberSet
  <2>4. Started(p, packets, number) \in EndpointRecord
    BY <2>1, <2>2, <2>3 DEF EndpointRecord
  <2> QED
    BY <1>2, <2>1, <2>4 DEF EndpointRecord
<1> QED
  BY <1>1, <1>2

\* A SETUP packet is a transfer of one packet.
LEMMA SetupSentFields ==
  ASSUME NEW p \in EndpointRecord
  PROVE  LET q == SetupSent(p) IN
         /\ q \in EndpointRecord
         /\ q.has /\ q.setup
         /\ ~p.has => q.left = 1
         /\ p.has => q.left = p.left
<1> DEFINE r == [p EXCEPT !.dir = "out", !.setup = TRUE]
<1>1. r \in EndpointRecord /\ r.has = p.has /\ r.left = p.left /\ r.setup
  BY DEF EndpointRecord
<1>2. SetupSent(p) = Started(r, 1, 0) /\ 1 \in 1 .. 2 /\ 0 \in NumberSet
  BY NumbersAssumption DEF SetupSent, NumberSet
<1> HIDE DEF r
<1> QED
  BY <1>1, <1>2, StartedFields

\* A stage of a control request starts with toggle 1.
LEMMA StageSentFields ==
  ASSUME NEW p \in EndpointRecord, NEW dir \in {"in", "out"}, NEW packets \in 1 .. 2
  PROVE  LET q == StageSent(p, dir, packets) IN
         /\ q \in EndpointRecord
         /\ q.has /\ ~q.setup /\ q.dir = dir /\ q.toggle = 1
         /\ ~p.has => q.left = packets
         /\ p.has => q.left = p.left
<1> DEFINE r == [p EXCEPT !.dir = dir, !.setup = FALSE, !.toggle = 1]
<1>1. /\ r \in EndpointRecord /\ r.has = p.has /\ r.left = p.left /\ ~r.setup /\ r.dir = dir
      /\ r.toggle = 1
  BY DEF EndpointRecord
<1>2. StageSent(p, dir, packets) = Started(r, packets, 0) /\ 0 \in NumberSet
  BY NumbersAssumption DEF StageSent, NumberSet
<1> HIDE DEF r
<1> QED
  BY <1>1, <1>2, StartedFields

\* The two initial values have their types.
LEMMA ClosedType == Closed \in EndpointRecord
BY RetriesAssumption, NumbersAssumption DEF Closed, EndpointRecord

LEMMA FreshType == Fresh \in Side
BY NumbersAssumption DEF Fresh, Side

(***************************************************************************)
(* The transactions of a frame.                                            *)
(***************************************************************************)

\* What every transaction keeps, and how it can end.
Transacted(p, t) ==
  /\ t.ep \in EndpointRecord
  /\ t.side \in Side
  /\ t.result \in Results \union {"pending"}
  /\ t.result = "pending" => t.ep.has /\ t.ep.left > 0
  /\ t.result # "pending" => ~t.ep.has
  /\ t.ep.dir = p.dir /\ t.ep.open = p.open

\* A transfer taken out of the pool leaves a proper endpoint.
LEMMA EndedType ==
  ASSUME NEW p \in EndpointRecord, NEW b \in BOOLEAN
  PROVE  [p EXCEPT !.has = FALSE, !.left = 0, !.failed = 0, !.spoiled = b] \in EndpointRecord
<1>1. 0 \in 0 .. Retries - 1 /\ 0 \in 0 .. 2
  BY RetriesAssumption
<1> QED
  BY <1>1 DEF EndpointRecord

\* A transfer that is over leaves the pool, the rest of the endpoint is as it was.
LEMMA CompleteFields ==
  ASSUME NEW p \in EndpointRecord, NEW d \in Side, NEW result \in Results
  PROVE  LET t == Complete(p, d, result) IN
         /\ t.ep \in EndpointRecord /\ t.side = d /\ t.result = result
         /\ ~t.ep.has
         /\ t.ep.dir = p.dir /\ t.ep.open = p.open /\ t.ep.setup = p.setup
         /\ t.ep.toggle = p.toggle /\ t.ep.buf = p.buf /\ t.ep.again = p.again
         /\ t.ep.aborted = p.aborted
         /\ t.ep.spoiled = (p.spoiled \/ result # "complete")
<1> DEFINE b == p.spoiled \/ result # "complete"
           q == [p EXCEPT !.has = FALSE, !.left = 0, !.failed = 0, !.spoiled = b]
<1>1. b \in BOOLEAN
  OBVIOUS
<1>2. Complete(p, d, result) = [ep |-> q, side |-> d, result |-> result]
  BY DEF Complete
<1> HIDE DEF b
<1>3. q \in EndpointRecord
  BY <1>1, EndedType
<1>4. /\ ~q.has /\ q.dir = p.dir /\ q.open = p.open /\ q.setup = p.setup /\ q.toggle = p.toggle
      /\ q.buf = p.buf /\ q.again = p.again /\ q.aborted = p.aborted /\ q.spoiled = b
  BY DEF EndpointRecord
<1> HIDE DEF q
<1> QED
  BY <1>2, <1>3, <1>4 DEF b

\* A packet that got through: the toggle changes, and the transfer is over with the last one.
LEMMA ContinueFields ==
  ASSUME NEW p \in EndpointRecord, NEW d \in Side, p.left > 0, p.has
  PROVE  LET t == Continue(p, d) IN
         /\ Transacted(p, t)
         /\ t.side = d
         /\ t.result = IF p.left = 1 THEN "complete" ELSE "pending"
         /\ t.ep.setup = p.setup /\ t.ep.toggle = 1 - p.toggle /\ t.ep.buf = p.buf
         /\ t.ep.again = p.again /\ t.ep.spoiled = p.spoiled
         /\ p.left # 1 => t.ep.left = p.left - 1
<1> DEFINE q == [p EXCEPT !.toggle = 1 - p.toggle, !.left = p.left - 1, !.failed = 0]
<1>1. q \in EndpointRecord
  <2>1. 1 - p.toggle \in {0, 1} /\ p.left - 1 \in 0 .. 2 /\ 0 \in 0 .. Retries - 1
    BY RetriesAssumption DEF EndpointRecord
  <2> QED
    BY <2>1 DEF EndpointRecord
<1>2. /\ q.has /\ q.open = p.open /\ q.dir = p.dir /\ q.setup = p.setup /\ q.toggle = 1 - p.toggle
      /\ q.buf = p.buf /\ q.again = p.again /\ q.spoiled = p.spoiled /\ q.left = p.left - 1
      /\ p.left \in 1 .. 2 /\ p.spoiled \in BOOLEAN
  BY DEF EndpointRecord
<1>3. Continue(p, d) = IF q.left = 0 THEN Complete(q, d, "complete") ELSE Pending(q, d)
  BY DEF Continue
<1> HIDE DEF q
<1>4. CASE p.left = 1
  <2>1. Continue(p, d) = Complete(q, d, "complete") /\ "complete" \in Results
    BY <1>2, <1>3, <1>4 DEF Results
  <2> QED
    BY <1>1, <1>2, <1>4, <2>1, CompleteFields DEF Transacted
<1>5. CASE p.left # 1
  <2>1. Continue(p, d) = Pending(q, d) /\ q.left > 0
    BY <1>2, <1>3, <1>5
  <2> QED
    BY <1>1, <1>2, <1>5, <2>1 DEF Transacted, Pending
<1> QED
  BY <1>4, <1>5

\* A packet that did not: nothing changes until the retries are used up.
LEMMA FailedFields ==
  ASSUME NEW p \in EndpointRecord, NEW d \in Side, p.left > 0, p.has
  PROVE  LET t == Failed(p, d) IN
         /\ Transacted(p, t)
         /\ t.side = d
         /\ t.result \in {"pending", "error"}
         /\ t.ep.setup = p.setup /\ t.ep.toggle = p.toggle /\ t.ep.buf = p.buf
         /\ t.ep.again = p.again
         /\ t.result = "pending" => t.ep.left = p.left /\ t.ep.spoiled = p.spoiled
         /\ t.result = "error" => t.ep.spoiled
<1> DEFINE q == [p EXCEPT !.failed = p.failed + 1]
           r == [p EXCEPT !.has = FALSE, !.left = 0, !.failed = 0, !.spoiled = TRUE]
<1>1. p.failed \in 0 .. Retries - 1 /\ Retries \in Nat \ {0}
  BY RetriesAssumption DEF EndpointRecord
<1>2. q.failed = p.failed + 1
  BY DEF EndpointRecord
<1>3. CASE p.failed + 1 >= Retries
  <2>1. Failed(p, d) = [ep |-> r, side |-> d, result |-> "error"]
    BY <1>2, <1>3 DEF Failed, Complete, EndpointRecord
  <2>2. r \in EndpointRecord
    BY EndedType
  <2>3. /\ r.dir = p.dir /\ r.open = p.open /\ r.setup = p.setup /\ r.toggle = p.toggle
        /\ r.buf = p.buf /\ r.again = p.again /\ ~r.has /\ r.spoiled
    BY DEF EndpointRecord
  <2> HIDE DEF r, q
  <2> QED
    BY <2>1, <2>2, <2>3 DEF Transacted, Results
<1>4. CASE p.failed + 1 < Retries
  <2>1. Failed(p, d) = [ep |-> q, side |-> d, result |-> "pending"]
    BY <1>1, <1>2, <1>4 DEF Failed, Pending
  <2>2. q \in EndpointRecord
    BY <1>1, <1>4 DEF EndpointRecord
  <2>3. /\ q.dir = p.dir /\ q.open = p.open /\ q.setup = p.setup /\ q.toggle = p.toggle
        /\ q.buf = p.buf /\ q.again = p.again /\ q.has /\ q.left = p.left /\ q.spoiled = p.spoiled
    BY DEF EndpointRecord
  <2> HIDE DEF r, q
  <2> QED
    BY <2>1, <2>2, <2>3 DEF Transacted, Results
<1> QED
  BY <1>1, <1>3, <1>4

\* An answer of any kind resets the count of failures, and that is all.
LEMMA SoundFields ==
  ASSUME NEW p \in EndpointRecord
  PROVE  LET q == Sound(p) IN
         /\ q \in EndpointRecord
         /\ q.has = p.has /\ q.left = p.left
         /\ q.open = p.open /\ q.dir = p.dir /\ q.setup = p.setup /\ q.toggle = p.toggle
         /\ q.buf = p.buf /\ q.again = p.again /\ q.spoiled = p.spoiled
<1>1. 0 \in 0 .. Retries - 1
  BY RetriesAssumption
<1> QED
  BY <1>1 DEF Sound, EndpointRecord

\* NAK: the transfer goes on as it was.
LEMMA WaitingFields ==
  ASSUME NEW p \in EndpointRecord, NEW d \in Side, p.left > 0, p.has
  PROVE  LET t == Pending(Sound(p), d) IN
         /\ Transacted(p, t)
         /\ t.side = d /\ t.result = "pending"
         /\ t.ep.setup = p.setup /\ t.ep.left = p.left /\ t.ep.toggle = p.toggle
         /\ t.ep.buf = p.buf /\ t.ep.spoiled = p.spoiled
BY SoundFields DEF Transacted, Pending

\* STALL: the transfer is over.
LEMMA StalledFields ==
  ASSUME NEW p \in EndpointRecord, NEW d \in Side
  PROVE  LET t == Complete(Sound(p), d, "stalled") IN
         /\ Transacted(p, t)
         /\ t.side = d /\ t.result = "stalled"
         /\ t.ep.setup = p.setup /\ t.ep.buf = p.buf /\ t.ep.spoiled
<1> DEFINE q == Sound(p)
<1>1. "stalled" \in Results
  BY DEF Results
<1>2. q \in EndpointRecord /\ q.open = p.open /\ q.dir = p.dir /\ q.setup = p.setup /\ q.buf = p.buf
  BY SoundFields
<1> HIDE DEF q
<1> DEFINE t == Complete(q, d, "stalled")
<1>3. /\ t.ep \in EndpointRecord /\ t.side = d /\ t.result = "stalled"
      /\ ~t.ep.has /\ t.ep.dir = q.dir /\ t.ep.open = q.open /\ t.ep.setup = q.setup
      /\ t.ep.buf = q.buf
      /\ t.ep.spoiled = (q.spoiled \/ "stalled" # "complete")
  BY <1>1, <1>2, CompleteFields
<1> HIDE DEF t
<1>4. t.ep.spoiled
  BY <1>3
<1> QED
  BY <1>1, <1>2, <1>3, <1>4 DEF Transacted, q, t

\* A SETUP transaction that completes leaves the device ready to answer from the start.
LEMMA SetupFields ==
  ASSUME NEW p \in EndpointRecord, NEW d \in Side, p.left > 0, p.has, NEW way \in Ways
  PROVE  LET t == SetupTransaction(p, d, way) IN
         /\ Transacted(p, t)
         /\ t.result = "pending" => t.ep.setup = p.setup
         /\ t.result = "complete" => t.side.toggle = 1 /\ t.side.number = 0
<1> DEFINE ready == [Fresh EXCEPT !.toggle = 1]
           q == [p EXCEPT !.setup = FALSE, !.toggle = 0]
<1>1. ready \in Side /\ ready.toggle = 1 /\ ready.number = 0
  <2>1. 0 \in 0 .. Numbers - 1
    BY NumbersAssumption
  <2> QED
    BY <2>1 DEF Fresh, Side
<1>2. q \in EndpointRecord /\ q.dir = p.dir /\ q.open = p.open
  BY DEF EndpointRecord
<1>3. SetupTransaction(p, d, way) =
        IF way = "good" THEN Complete(q, ready, "complete")
        ELSE IF way = "unheard" THEN Failed(p, ready) ELSE Failed(p, d)
  BY DEF SetupTransaction, Ways
<1>4. "complete" \in Results
  BY DEF Results
<1> HIDE DEF ready, q
<1>5. CASE way = "good"
  BY <1>1, <1>2, <1>3, <1>4, <1>5, CompleteFields DEF Transacted
<1>6. CASE way = "unheard"
  <2>1. SetupTransaction(p, d, way) = Failed(p, ready)
    BY <1>3, <1>6
  <2> QED
    BY <1>1, <2>1, FailedFields
<1>7. CASE way \notin {"good", "unheard"}
  <2>1. SetupTransaction(p, d, way) = Failed(p, d)
    BY <1>3, <1>7
  <2> QED
    BY <2>1, FailedFields
<1> QED
  BY <1>5, <1>6, <1>7

\* What an acknowledgement, received or lost, does to the device.
LEMMA HeardFields ==
  ASSUME NEW d \in Side, NEW way \in Ways
  PROVE  LET heard == IF way = "good" THEN Acked(d) ELSE [d EXCEPT !.unacked = TRUE] IN
         /\ heard \in Side
         /\ way = "good" =>
              ~heard.unacked /\ heard.number = After(d.number) /\ heard.toggle = 1 - d.toggle
         /\ way # "good" => heard.unacked /\ heard.number = d.number /\ heard.toggle = d.toggle
<1>1. After(d.number) \in 0 .. Numbers - 1
  BY AfterInRange DEF Side, NumberSet
<1>2. CASE way = "good"
  <2>1. 1 - d.toggle \in {0, 1}
    BY DEF Side
  <2> QED
    BY <1>1, <1>2, <2>1 DEF Acked, Side
<1>3. CASE way # "good"
  BY <1>3 DEF Side
<1> QED
  BY <1>2, <1>3

\* A packet that is accepted goes to the buffer, the rest of the endpoint is as it was.
LEMMA StoreFields ==
  ASSUME NEW p \in EndpointRecord, NEW d \in Side
  PROVE  LET q == Store(p, d) IN
         /\ q \in EndpointRecord
         /\ q.has = p.has /\ q.left = p.left /\ q.open = p.open /\ q.dir = p.dir
         /\ q.setup = p.setup
         /\ q.spoiled = p.spoiled
         /\ q.toggle = d.toggle /\ q.buf = d.number /\ q.again = d.unacked
BY DEF Store, EndpointRecord, Side

\* A packet that arrives at the host, accepted or not.
LEMMA ArrivedFields ==
  ASSUME NEW e \in Endpoints, NEW p \in EndpointRecord, NEW d \in Side,
         p.left > 0, p.has, NEW heard \in Side
  PROVE  LET t == IF Accepts(e, p, d) THEN Continue(Store(p, d), heard)
                  ELSE Pending(Sound(p), heard) IN
         /\ Transacted(p, t)
         /\ t.side = heard
         /\ t.result = IF Accepts(e, p, d) /\ p.left = 1 THEN "complete" ELSE "pending"
         /\ t.ep.setup = p.setup /\ t.ep.spoiled = p.spoiled
         /\ Accepts(e, p, d) =>
              /\ t.ep.buf = d.number /\ t.ep.again = d.unacked /\ t.ep.toggle = 1 - d.toggle
              /\ p.left # 1 => t.ep.left = p.left - 1
         /\ ~Accepts(e, p, d) =>
              t.ep.buf = p.buf /\ t.ep.toggle = p.toggle /\ t.ep.left = p.left
<1>1. CASE Accepts(e, p, d)
  <2> DEFINE q == Store(p, d)
  <2>1. /\ q \in EndpointRecord
        /\ q.has /\ q.left = p.left /\ q.open = p.open /\ q.dir = p.dir /\ q.setup = p.setup
        /\ q.spoiled = p.spoiled
        /\ q.toggle = d.toggle /\ q.buf = d.number /\ q.again = d.unacked
    BY StoreFields
  <2> HIDE DEF q
  <2> DEFINE t == Continue(q, heard)
  <2>2. /\ Transacted(q, t)
        /\ t.side = heard
        /\ t.result = IF q.left = 1 THEN "complete" ELSE "pending"
        /\ t.ep.setup = q.setup /\ t.ep.toggle = 1 - q.toggle /\ t.ep.buf = q.buf
        /\ t.ep.again = q.again /\ t.ep.spoiled = q.spoiled
        /\ q.left # 1 => t.ep.left = q.left - 1
    BY <2>1, ContinueFields
  <2> HIDE DEF t
  <2>3. Transacted(p, t)
    BY <2>1, <2>2 DEF Transacted
  <2> QED
    BY <1>1, <2>1, <2>2, <2>3 DEF q, t
<1>2. CASE ~Accepts(e, p, d)
  BY <1>2, WaitingFields
<1> QED
  BY <1>1, <1>2

\* An IN transaction brings a packet that is accepted, or one that is not, or none; the
\* device goes on to its next packet when it saw an acknowledgement.
LEMMA InCases ==
  ASSUME NEW e \in Endpoints, NEW p \in EndpointRecord, NEW d \in Side,
         p.left > 0, p.has, NEW way \in Ways
  PROVE  LET t == InTransaction(e, p, d, way) IN
         /\ Transacted(p, t)
         /\ t.ep.setup = p.setup
         /\ \/ /\ way \in {"good", "unheard"} /\ Accepts(e, p, d)
               /\ t.result = IF p.left = 1 THEN "complete" ELSE "pending"
               /\ t.ep.buf = d.number /\ t.ep.again = d.unacked /\ t.ep.toggle = 1 - d.toggle
               /\ p.left # 1 => t.ep.left = p.left - 1
               /\ t.side.number = IF t.side.unacked THEN d.number ELSE After(d.number)
               /\ t.side.toggle = IF t.side.unacked THEN d.toggle ELSE 1 - d.toggle
            \/ /\ way \in {"good", "unheard"} /\ ~Accepts(e, p, d)
               /\ t.result = "pending"
               /\ t.ep.buf = p.buf /\ t.ep.toggle = p.toggle /\ t.ep.left = p.left
               /\ t.side.number = IF t.side.unacked THEN d.number ELSE After(d.number)
               /\ t.side.toggle = IF t.side.unacked THEN d.toggle ELSE 1 - d.toggle
            \/ /\ t.result \in {"pending", "stalled", "error"} /\ (e = "in" => t.result # "error")
               /\ t.side = d
               /\ t.result = "pending" =>
                    t.ep.buf = p.buf /\ t.ep.toggle = p.toggle /\ t.ep.left = p.left
<1> DEFINE t == InTransaction(e, p, d, way)
           heard == IF way = "good" THEN Acked(d) ELSE [d EXCEPT !.unacked = TRUE]
           arrived == IF Accepts(e, p, d) THEN Continue(Store(p, d), heard)
                      ELSE Pending(Sound(p), heard)
<1>1. CASE way \in {"good", "unheard"}
  <2>1. t = arrived
    BY <1>1 DEF InTransaction
  <2>2. /\ heard \in Side
        /\ heard.number = IF heard.unacked THEN d.number ELSE After(d.number)
        /\ heard.toggle = IF heard.unacked THEN d.toggle ELSE 1 - d.toggle
    BY <1>1, HeardFields
  <2> HIDE DEF heard
  <2>3. /\ Transacted(p, arrived)
        /\ arrived.side = heard
        /\ arrived.result = IF Accepts(e, p, d) /\ p.left = 1 THEN "complete" ELSE "pending"
        /\ arrived.ep.setup = p.setup /\ arrived.ep.spoiled = p.spoiled
        /\ Accepts(e, p, d) =>
             /\ arrived.ep.buf = d.number /\ arrived.ep.again = d.unacked
             /\ arrived.ep.toggle = 1 - d.toggle
             /\ p.left # 1 => arrived.ep.left = p.left - 1
        /\ ~Accepts(e, p, d) =>
             arrived.ep.buf = p.buf /\ arrived.ep.toggle = p.toggle /\ arrived.ep.left = p.left
    BY <2>2, ArrivedFields
  <2> HIDE DEF t, arrived
  <2>4. CASE Accepts(e, p, d)
    BY <1>1, <2>1, <2>2, <2>3, <2>4 DEF t
  <2>5. CASE ~Accepts(e, p, d)
    BY <1>1, <2>1, <2>2, <2>3, <2>5 DEF t
  <2> QED
    BY <2>4, <2>5
<1>2. CASE way = "nak" \/ (way = "silent" /\ e = "in")
  <2>1. t = Pending(Sound(p), d)
    BY <1>2 DEF InTransaction
  <2> QED
    BY <2>1, WaitingFields
<1>3. CASE way = "stall"
  <2>1. t = Complete(Sound(p), d, "stalled")
    BY <1>3 DEF InTransaction
  <2> QED
    BY <2>1, StalledFields
<1>4. CASE way = "silent" /\ e # "in"
  <2>1. t = Failed(p, d)
    BY <1>4 DEF InTransaction
  <2> QED
    BY <1>4, <2>1, FailedFields
<1> QED
  BY <1>1, <1>2, <1>3, <1>4 DEF Ways

\* An OUT transaction delivers the packet, or may have delivered it, or fails.
LEMMA OutCases ==
  ASSUME NEW e \in Endpoints, NEW p \in EndpointRecord, NEW d \in Side,
         p.left > 0, p.has, NEW way \in Ways
  PROVE  LET t == OutTransaction(e, p, d, way) IN
         /\ Transacted(p, t)
         /\ t.ep.setup = p.setup
         /\ t.ep.buf = p.buf
         /\ \/ /\ t.side = Taken(e, p, d) /\ t.ep.toggle = 1 - p.toggle /\ t.ep.spoiled = p.spoiled
               /\ t.result = IF p.left = 1 THEN "complete" ELSE "pending"
            \/ /\ t.result = "pending"
               /\ t.side \in {d, Taken(e, p, d)} /\ t.ep.toggle = p.toggle
               /\ t.ep.spoiled = p.spoiled
               /\ t.ep.left = p.left
            \/ /\ t.result \in {"stalled", "error"} /\ t.ep.spoiled
<1> DEFINE t == OutTransaction(e, p, d, way)
           taken == Taken(e, p, d)
<1>1. taken \in Side
  <2>1. 1 - d.toggle \in {0, 1} /\ p.buf \in 0 .. Numbers - 1
    BY DEF Side, EndpointRecord
  <2> QED
    BY <2>1, FreshType DEF Taken, Side
<1> HIDE DEF taken
<1>2. CASE way = "good"
  <2>1. t = Continue(p, taken)
    BY <1>2 DEF OutTransaction, taken
  <2> QED
    BY <1>1, <2>1, ContinueFields DEF taken
<1>3. CASE way = "unheard"
  <2>1. t = Failed(p, taken)
    BY <1>3 DEF OutTransaction, taken
  <2> QED
    BY <1>1, <2>1, FailedFields DEF taken
<1>4. CASE way = "silent"
  <2>1. t = Failed(p, d)
    BY <1>4 DEF OutTransaction
  <2> QED
    BY <2>1, FailedFields
<1>5. CASE way = "nak"
  <2>1. t = Pending(Sound(p), d)
    BY <1>5 DEF OutTransaction
  <2> QED
    BY <2>1, WaitingFields
<1>6. CASE way = "stall"
  <2>1. t = Complete(Sound(p), d, "stalled")
    BY <1>6 DEF OutTransaction
  <2> QED
    BY <2>1, StalledFields
<1> QED
  BY <1>2, <1>3, <1>4, <1>5, <1>6 DEF Ways

\* The two descriptor packets are read in order, each once, whatever is lost.
LEMMA ReadingStep ==
  ASSUME NEW p \in EndpointRecord, NEW d \in Side, p.has, Reading(p, d), NEW way \in Ways
  PROVE  LET t == InTransaction("control", p, d, way) IN
         /\ t.result = "pending" => Reading(t.ep, t.side)
         /\ t.result = "complete" => t.ep.buf = 1
<1> DEFINE t == InTransaction("control", p, d, way)
<1>1. p.left > 0 /\ "control" \in Endpoints /\ p.toggle \in {0, 1} /\ d.toggle \in {0, 1}
  BY DEF Reading, EndpointRecord, Side, Endpoints
<1>2. Accepts("control", p, d) <=> d.toggle = p.toggle
  BY DEF Accepts
<1>3. Transacted(p, t) /\ t.ep.setup = p.setup
  BY <1>1, InCases
<1>4. t.side.unacked \in BOOLEAN
  BY <1>3 DEF Transacted, Side
<1> HIDE DEF t
<1>5. CASE /\ way \in {"good", "unheard"} /\ Accepts("control", p, d)
           /\ t.result = IF p.left = 1 THEN "complete" ELSE "pending"
           /\ t.ep.buf = d.number /\ t.ep.toggle = 1 - d.toggle
           /\ p.left # 1 => t.ep.left = p.left - 1
           /\ t.side.number = IF t.side.unacked THEN d.number ELSE After(d.number)
           /\ t.side.toggle = IF t.side.unacked THEN d.toggle ELSE 1 - d.toggle
  BY <1>1, <1>2, <1>3, <1>4, <1>5, AfterOfEnds DEF Reading, Transacted, t
<1>6. CASE /\ way \in {"good", "unheard"} /\ ~Accepts("control", p, d)
           /\ t.result = "pending"
           /\ t.ep.toggle = p.toggle /\ t.ep.left = p.left
           /\ t.side.number = IF t.side.unacked THEN d.number ELSE After(d.number)
           /\ t.side.toggle = IF t.side.unacked THEN d.toggle ELSE 1 - d.toggle
  BY <1>1, <1>2, <1>3, <1>4, <1>6, AfterOfEnds DEF Reading, Transacted, t
<1>7. CASE /\ t.result \in {"pending", "stalled", "error"}
           /\ t.side = d
           /\ t.result = "pending" => t.ep.toggle = p.toggle /\ t.ep.left = p.left
  BY <1>1, <1>3, <1>7 DEF Reading, Transacted, t
<1> QED
  BY <1>1, <1>5, <1>6, <1>7, InCases DEF t

(***************************************************************************)
(* The events a frame reports.                                             *)
(***************************************************************************)

EventRecord == [ep : Endpoints, result : Results, again : BOOLEAN]

\* s has an event for each transfer of t whose outcome is in S, and no other.
Lists(s, t, S) ==
  /\ s \in Seq(EventRecord)
  /\ \A k \in 1 .. Len(s) :
       /\ <<s[k].ep, s[k].result>> \in S
       /\ s[k].ep \in DOMAIN t /\ s[k].result = t[s[k].ep].result
       /\ s[k].again = t[s[k].ep].ep.again
  /\ \A j, k \in 1 .. Len(s) : s[j].ep = s[k].ep => j = k
  /\ \A e \in DOMAIN t : <<e, t[e].result>> \in S => \E k \in 1 .. Len(s) : s[k].ep = e

\* One endpoint, one outcome.
LEMMA ListsReport ==
  ASSUME NEW t, NEW e \in Endpoints, NEW r \in Results,
         \A f \in DOMAIN t : t[f].ep.again \in BOOLEAN
  PROVE  Lists(Report(t, e, r), t, {<<e, r>>})
<1> DEFINE s == Report(t, e, r)
           event == [ep |-> e, result |-> r, again |-> t[e].ep.again]
<1>1. CASE e \in DOMAIN t /\ t[e].result = r
  <2>1. s = <<event>> /\ event \in EventRecord
    BY <1>1 DEF Report, EventRecord
  <2>2. event.ep = e /\ event.result = r /\ event.again = t[e].ep.again
    OBVIOUS
  <2> HIDE DEF event
  <2>3. s \in Seq(EventRecord) /\ Len(s) = 1 /\ s[1] = event
    BY <2>1
  <2> HIDE DEF s
  <2> QED
    BY <1>1, <2>2, <2>3 DEF Lists, s
<1>2. CASE ~(e \in DOMAIN t /\ t[e].result = r)
  <2>1. s = << >>
    BY <1>2 DEF Report
  <2>2. s \in Seq(EventRecord) /\ Len(s) = 0
    BY <2>1
  <2>3. ASSUME NEW f \in DOMAIN t, <<f, t[f].result>> \in {<<e, r>>} PROVE FALSE
    BY <1>2, <2>3
  <2> HIDE DEF s
  <2> QED
    BY <2>2, <2>3 DEF Lists, s
<1> QED
  BY <1>1, <1>2

\* Lists of different outcomes one after the other.
LEMMA ListsCat ==
  ASSUME NEW t, NEW S, NEW U, NEW s, NEW u, Lists(s, t, S), Lists(u, t, U), S \cap U = {}
  PROVE  Lists(s \o u, t, S \union U)
<1> DEFINE w == s \o u
<1>1. s \in Seq(EventRecord) /\ u \in Seq(EventRecord) /\ Len(s) \in Nat /\ Len(u) \in Nat
  BY DEF Lists
<1>2. /\ w \in Seq(EventRecord) /\ Len(w) = Len(s) + Len(u)
      /\ \A k \in 1 .. Len(s) : w[k] = s[k] /\ k \in 1 .. Len(w)
      /\ \A k \in 1 .. Len(u) : w[Len(s) + k] = u[k] /\ Len(s) + k \in 1 .. Len(w)
      /\ \A k \in 1 .. Len(w) :
           k \in 1 .. Len(s) \/ (k - Len(s) \in 1 .. Len(u) /\ w[k] = u[k - Len(s)])
  BY <1>1
<1> HIDE DEF w
<1>3. ASSUME NEW k \in 1 .. Len(w)
      PROVE  /\ <<w[k].ep, w[k].result>> \in S \union U
             /\ w[k].ep \in DOMAIN t /\ w[k].result = t[w[k].ep].result
             /\ w[k].again = t[w[k].ep].ep.again
  <2>1. CASE k \in 1 .. Len(s)
    BY <1>2, <2>1 DEF Lists
  <2>2. CASE k - Len(s) \in 1 .. Len(u) /\ w[k] = u[k - Len(s)]
    BY <2>2 DEF Lists
  <2> QED
    BY <1>2, <2>1, <2>2
<1>4. ASSUME NEW j \in 1 .. Len(s), NEW k \in 1 .. Len(u), s[j].ep = u[k].ep PROVE FALSE
  <2>1. /\ <<s[j].ep, s[j].result>> \in S /\ <<u[k].ep, u[k].result>> \in U
        /\ s[j].result = u[k].result
    BY <1>4 DEF Lists
  <2> QED
    BY <1>4, <2>1
<1>5. ASSUME NEW j \in 1 .. Len(w), NEW k \in 1 .. Len(w), w[j].ep = w[k].ep PROVE j = k
  <2>1. CASE j \in 1 .. Len(s) /\ k \in 1 .. Len(s)
    BY <1>2, <1>5, <2>1 DEF Lists
  <2>2. CASE j - Len(s) \in 1 .. Len(u) /\ w[j] = u[j - Len(s)] /\ k \in 1 .. Len(s)
    BY <1>2, <1>4, <1>5, <2>2
  <2>3. CASE k - Len(s) \in 1 .. Len(u) /\ w[k] = u[k - Len(s)] /\ j \in 1 .. Len(s)
    BY <1>2, <1>4, <1>5, <2>3
  <2>4. CASE /\ j - Len(s) \in 1 .. Len(u) /\ w[j] = u[j - Len(s)]
             /\ k - Len(s) \in 1 .. Len(u) /\ w[k] = u[k - Len(s)]
    <3>1. j - Len(s) = k - Len(s)
      BY <1>5, <2>4 DEF Lists
    <3> QED
      BY <1>1, <3>1
  <2> QED
    BY <1>2, <2>1, <2>2, <2>3, <2>4
<1>6. ASSUME NEW e \in DOMAIN t, <<e, t[e].result>> \in S \union U
      PROVE  \E k \in 1 .. Len(w) : w[k].ep = e
  <2>1. CASE <<e, t[e].result>> \in S
    <3>1. PICK k \in 1 .. Len(s) : s[k].ep = e
      BY <2>1 DEF Lists
    <3> QED
      BY <1>2, <3>1
  <2>2. CASE <<e, t[e].result>> \in U
    <3>1. PICK k \in 1 .. Len(u) : u[k].ep = e
      BY <2>2 DEF Lists
    <3> QED
      BY <1>2, <3>1
  <2> QED
    BY <1>6, <2>1, <2>2
<1> QED
  BY <1>2, <1>3, <1>5, <1>6 DEF Lists, w

\* The frame reports every transfer that is over once: the interrupt goes through the
\* completions, then the stalls, then the errors, of all endpoints.
LEMMA ReportsListAll ==
  ASSUME NEW t, \A f \in DOMAIN t : t[f].ep.again \in BOOLEAN
  PROVE  Lists(Reports(t), t, Endpoints \X Results)
<1>1. ASSUME NEW r \in Results PROVE Lists(Reported(t, r), t, Endpoints \X {r})
  <2> DEFINE c == Report(t, "control", r)
             i == Report(t, "in", r)
             o == Report(t, "out", r)
  <2>1. /\ Lists(c, t, {<<"control", r>>}) /\ Lists(i, t, {<<"in", r>>})
        /\ Lists(o, t, {<<"out", r>>})
    BY ListsReport DEF Endpoints
  <2> HIDE DEF c, i, o
  <2>2. Lists(c \o i, t, {<<"control", r>>} \union {<<"in", r>>})
    BY <2>1, ListsCat
  <2>3. Lists((c \o i) \o o, t, ({<<"control", r>>} \union {<<"in", r>>}) \union {<<"out", r>>})
    BY <2>1, <2>2, ListsCat
  <2>4. ({<<"control", r>>} \union {<<"in", r>>}) \union {<<"out", r>>} = Endpoints \X {r}
    BY DEF Endpoints
  <2> QED
    BY <2>3, <2>4 DEF Reported, c, i, o
<1> DEFINE c == Reported(t, "complete")
           s == Reported(t, "stalled")
           e == Reported(t, "error")
<1>2. /\ Lists(c, t, Endpoints \X {"complete"}) /\ Lists(s, t, Endpoints \X {"stalled"})
      /\ Lists(e, t, Endpoints \X {"error"})
  BY <1>1 DEF Results
<1> HIDE DEF c, s, e
<1>3. Lists(c \o s, t, (Endpoints \X {"complete"}) \union (Endpoints \X {"stalled"}))
  <2>1. (Endpoints \X {"complete"}) \cap (Endpoints \X {"stalled"}) = {}
    OBVIOUS
  <2> QED
    BY <1>2, <2>1, ListsCat
<1>4. Lists((c \o s) \o e, t, ((Endpoints \X {"complete"}) \union (Endpoints \X {"stalled"}))
                               \union (Endpoints \X {"error"}))
  <2>1. ((Endpoints \X {"complete"}) \union (Endpoints \X {"stalled"}))
          \cap (Endpoints \X {"error"}) = {}
    OBVIOUS
  <2> QED
    BY <1>2, <1>3, <2>1, ListsCat
<1>5. ((Endpoints \X {"complete"}) \union (Endpoints \X {"stalled"})) \union (Endpoints \X {"error"})
        = Endpoints \X Results
  BY DEF Results
<1> QED
  BY <1>4, <1>5 DEF Reports, c, s, e

(***************************************************************************)
(* The steps of core 1: USBHost.task(0).                                   *)
(***************************************************************************)

\* What can be in the queue.
LEMMA EventFacts ==
  ASSUME TypeOK
  PROVE  /\ Len(events) \in Nat
         /\ \A k \in Places :
              events[k] \in EventRecord \/ events[k] = Root("attach") \/ events[k] = Root("remove")
<1>1. events \in Seq(EventRecord \union {Root("attach"), Root("remove")})
  BY DEF TypeOK, EventRecord
<1> QED
  BY <1>1 DEF Places

\* Taking an event from the queue moves the others up.
LEMMA TailFacts ==
  ASSUME TypeOK, events # << >>, events' = Tail(events)
  PROVE  /\ events' \in Seq(EventRecord \union {Root("attach"), Root("remove")})
         /\ Len(events') = Len(events) - 1 /\ Len(events) > 0
         /\ 1 \in Places /\ Head(events) = events[1]
         /\ \A k \in Places' : k + 1 \in Places /\ events'[k] = events[k + 1]
         /\ \A k \in Places : k # 1 => k - 1 \in Places' /\ events'[k - 1] = events[k]
<1>1. events \in Seq(EventRecord \union {Root("attach"), Root("remove")})
  BY DEF TypeOK, EventRecord
<1> QED
  BY <1>1 DEF Places

\* An event about a transfer is taken from the queue.
Taking(e) ==
  /\ pc = "task" /\ events # << >> /\ events' = Tail(events)
  /\ e \in Endpoints /\ Head(events).ep = e
  /\ UNCHANGED <<root, pc>>

\* What a step that takes an event about e leaves: it is the only standing one about e, and
\* nothing else that the invariant says of the queue is disturbed.
LEMMA TakingFacts ==
  ASSUME IndInv, NEW e \in Endpoints, Taking(e)
  PROVE  /\ events' \in Seq(EventRecord \union {Root("attach"), Root("remove")})
         /\ 1 \in Places /\ Head(events) = events[1]
         /\ Running' = Running
         /\ RootEvents'
         /\ Removal => Removal'
         /\ \A f \in Endpoints : f # e => (Told(f) => Told(f)') /\ (Completed(f)' <=> Completed(f))
         /\ ~Completed(e)'
         /\ Running => ~Told(e)'
         /\ \A k \in Places' : k + 1 \in Places /\ events'[k] = events[k + 1]
         /\ \A k \in Places' : Stands(k)' =>
              /\ events'[k].ep # e
              /\ events'[k].ep \in busy /\ ~ep[events'[k].ep].has
              /\ \A l \in Places' : events'[l].ep = events'[k].ep => l = k
<1>1. /\ TypeOK /\ RootEvents /\ Standing
      /\ pc = "task" /\ events # << >> /\ events' = Tail(events) /\ Head(events).ep = e
      /\ UNCHANGED <<root, pc>>
  BY DEF IndInv, Taking
<1>2. /\ events' \in Seq(EventRecord \union {Root("attach"), Root("remove")})
      /\ Len(events') = Len(events) - 1 /\ Len(events) > 0 /\ Len(events) \in Nat
      /\ 1 \in Places /\ Head(events) = events[1]
      /\ \A k \in Places' : k + 1 \in Places /\ events'[k] = events[k + 1]
      /\ \A k \in Places : k # 1 => k - 1 \in Places' /\ events'[k - 1] = events[k]
  BY <1>1, TailFacts, EventFacts
<1>3. Running' = Running
  BY <1>1 DEF Running
<1>4. /\ events[1].ep = e /\ events[1].ep # "root" /\ Root("attach").ep = "root"
      /\ Root("remove").ep = "root"
  BY <1>1, <1>2 DEF Endpoints, Root
<1>5. RootEvents'
  <2>1. ASSUME NEW k \in Places', events'[k] = Root("attach")
        PROVE  k = Len(events') /\ root'.connected /\ root'.suspended
    <3>1. k + 1 \in Places /\ events[k + 1] = Root("attach") /\ k \in Int
      BY <1>2, <2>1 DEF Places
    <3>2. k + 1 = Len(events) /\ root.connected /\ root.suspended
      BY <1>1, <3>1 DEF RootEvents
    <3>3. Len(events') = Len(events) - 1 /\ Len(events) \in Nat
      BY <1>2
    <3>4. k = Len(events')
      BY <3>1, <3>2, <3>3
    <3>5. root' = root
      BY <1>1
    <3> QED
      BY <3>2, <3>4, <3>5
  <2>2. ASSUME NEW k \in Places', events'[k] = Root("remove"), NEW l \in Places', k < l
        PROVE  events'[l].result \in {"error", "attach"}
    <3>1. k + 1 < l + 1 /\ k + 1 \in Places /\ l + 1 \in Places
      BY <1>2, <2>2 DEF Places
    <3>2. events[k + 1] = Root("remove") /\ events'[l] = events[l + 1]
      BY <1>2, <2>2
    <3>3. events[l + 1].result \in {"error", "attach"}
      BY <1>1, <3>1, <3>2 DEF RootEvents
    <3> QED
      BY <3>2, <3>3
  <2>3. ASSUME NEW k \in Places', events'[k] = Root("remove") PROVE ~Running'
    <3>1. k + 1 \in Places /\ events[k + 1] = Root("remove")
      BY <1>2, <2>3
    <3>2. ~Running
      BY <1>1, <3>1 DEF RootEvents
    <3> QED
      BY <1>3, <3>2
  <2> QED
    BY <1>1, <2>1, <2>2, <2>3 DEF RootEvents
<1>6. Removal => Removal'
  BY <1>2, <1>4 DEF Removal
<1>7. ASSUME NEW f \in Endpoints, f # e
      PROVE  (Told(f) => Told(f)') /\ (Completed(f)' <=> Completed(f))
  BY <1>2, <1>4, <1>7 DEF Told, Completed
<1>8. ASSUME NEW k \in Places', Stands(k)'
      PROVE  /\ events'[k].ep # e
             /\ events'[k].ep \in busy /\ ~ep[events'[k].ep].has
             /\ \A l \in Places' : events'[l].ep = events'[k].ep => l = k
  <2>1. k + 1 \in Places /\ events'[k] = events[k + 1] /\ Stands(k + 1)
    <3>1. k + 1 \in Places /\ events'[k] = events[k + 1]
      BY <1>2
    <3>2. CASE \E l \in Places' : k < l /\ events'[l] = Root("remove")
      <4>1. PICK l \in Places' : k < l /\ events'[l] = Root("remove")
        BY <3>2
      <4>2. l + 1 \in Places /\ k + 1 < l + 1 /\ events[l + 1] = Root("remove")
        BY <1>2, <4>1 DEF Places
      <4> QED
        BY <1>8, <3>1, <4>2 DEF Stands
    <3>3. CASE Running' \/ events'[k].result # "error"
      BY <1>3, <1>8, <3>1, <3>3 DEF Stands
    <3> QED
      BY <1>8, <3>1, <3>2, <3>3 DEF Stands
  <2>2. /\ events[k + 1].ep \in busy /\ ~ep[events[k + 1].ep].has
        /\ \A l \in Places : events[l].ep = events[k + 1].ep => l = k + 1
    BY <1>1, <2>1 DEF Standing
  <2>3. k \in Nat /\ k # 0
    BY <1>2 DEF Places
  <2>4. events'[k].ep # e
    BY <1>2, <1>4, <2>1, <2>2, <2>3
  <2>5. ASSUME NEW l \in Places', events'[l].ep = events'[k].ep PROVE l = k
    <3>1. l + 1 = k + 1 /\ l \in Nat
      BY <1>2, <2>1, <2>2, <2>5 DEF Places
    <3> QED
      BY <2>3, <3>1
  <2> QED
    BY <2>1, <2>2, <2>4, <2>5
<1>9. ~Completed(e)'
  BY <1>8 DEF Completed, Stands
<1>10. Running => ~Told(e)'
  BY <1>3, <1>8 DEF Told, Stands
<1> QED
  BY <1>2, <1>3, <1>5, <1>6, <1>7, <1>8, <1>9, <1>10

\* The invariant and its parts.
LEMMA InvParts ==
  ASSUME IndInv
  PROVE  /\ TypeOK /\ RootEvents /\ Gone /\ Shapes /\ Transfers /\ Standing /\ Aborting /\ Starting
         /\ InEvents /\ InSide /\ OutSide /\ Requesting /\ Described
BY DEF IndInv

LEMMA InvWhole ==
  ASSUME TypeOK', RootEvents', Gone', Shapes', Transfers', Standing', Aborting', Starting',
         InEvents', InSide', OutSide', Requesting', Described'
  PROVE  IndInv'
BY DEF IndInv

\* A bulk transfer on an idle endpoint is one packet with the toggle as it was.
LEMMA BulkSentFields ==
  ASSUME NEW p \in EndpointRecord, NEW number \in NumberSet, ~p.has
  PROVE  LET q == BulkSent(p, number) IN
         /\ q \in EndpointRecord
         /\ q.has /\ q.left = 1
         /\ q.open = p.open /\ q.dir = p.dir /\ q.setup = p.setup /\ q.toggle = p.toggle
         /\ q.again = p.again /\ q.spoiled = p.spoiled
         /\ p.dir = "in" => q.buf = p.buf
         /\ p.dir = "out" => q.buf = number
<1>1. 1 \in 1 .. 2
  OBVIOUS
<1> QED
  BY <1>1, StartedFields DEF BulkSent

\* The event that ends a transfer the driver waits for stands.
LEMMA OverFacts ==
  ASSUME IndInv, NEW e \in Endpoints, Taking(e), e \in busy
  PROVE  /\ ~ep[e].has /\ ~Told(e)'
         /\ \A l \in Places : events[l].ep = e => l = 1
<1>1. 1 \in Places /\ events[1].ep = e /\ Root("remove").ep \notin Endpoints
  BY TakingFacts DEF Taking, Root, Endpoints
<1>2. Stands(1)
  <2>1. CASE Running
    BY <1>1, <2>1 DEF Stands
  <2>2. CASE Removal
    <3>1. PICK l \in Places : events[l] = Root("remove")
      BY <2>2 DEF Removal
    <3>2. 1 < l
      BY <1>1, <3>1 DEF Places
    <3> QED
      BY <1>1, <3>1, <3>2 DEF Stands
  <2>3. CASE ~Running /\ ~Removal
    BY <2>3, InvParts DEF Gone
  <2> QED
    BY <2>1, <2>2, <2>3
<1>3. ~ep[e].has /\ \A l \in Places : events[l].ep = e => l = 1
  BY <1>1, <1>2, InvParts DEF Standing
<1>4. ~Told(e)'
  <2>1. ASSUME NEW k \in Places', events'[k].ep = e PROVE FALSE
    <3>1. k + 1 = 1 /\ k \in Nat /\ k > 0
      BY <1>3, <2>1, TakingFacts, EventFacts, InvParts DEF Places
    <3> QED
      BY <3>1
  <2> QED
    BY <2>1 DEF Told
<1> QED
  BY <1>3, <1>4

\* The packet handed on is the one that waited, and there is no event of the new transfer.
LEMMA ReceiveStep ==
  ASSUME IndInv, Receive
  PROVE  IndInv'
<1> USE InvParts
<1>1. /\ Taking("in")
      /\ "in" \in busy /\ Head(events).result = "complete"
      /\ handed' = ep["in"].buf /\ slot' = [slot EXCEPT !.reference = 0]
      /\ ep' = [ep EXCEPT !["in"] = BulkSent(@, 0)]
      /\ UNCHANGED <<root, dev, pc, stage, busy, sent>>
  BY DEF Receive, Over, Succeeded, Taking, Endpoints
<1>2. "in" \in Endpoints /\ "in" # "out" /\ "in" # "control"
  BY DEF Endpoints
<1>3. ~ep["in"].has
  BY <1>1, <1>2, OverFacts
<1>4. /\ slot.mounted /\ ep["in"].dir = "in" /\ stage = "none" /\ ep["in"] \in EndpointRecord
      /\ slot \in Slot
  BY <1>1 DEF Shapes, TypeOK, Endpoints
<1>5. slot' \in Slot /\ slot'.mounted
  <2>1. 0 \in Ages
    BY SilenceAssumption DEF Ages
  <2> QED
    BY <1>1, <1>4, <2>1 DEF Slot
<1> DEFINE q == BulkSent(ep["in"], 0)
<1>6. /\ q \in EndpointRecord /\ q.has /\ q.dir = "in" /\ q.setup = ep["in"].setup /\ q.left = 1
      /\ q.buf = ep["in"].buf
  <2>1. 0 \in NumberSet
    BY NumbersAssumption DEF NumberSet
  <2> QED
    BY <1>3, <1>4, <2>1, BulkSentFields
<1>7. /\ ep' \in [Endpoints -> EndpointRecord] /\ ep'["in"] = q /\ ep'["control"] = ep["control"]
      /\ ep'["out"] = ep["out"]
  BY <1>1, <1>6 DEF TypeOK, Endpoints
<1> HIDE DEF q
<1>8. Running' = Running /\ RootEvents'
  BY <1>1, <1>2, TakingFacts
<1>11. TypeOK'
  <2>1. events' \in Seq(EventRecord \union {Root("attach"), Root("remove")})
    BY <1>1, <1>2, TakingFacts
  <2> QED
    BY <1>1, <1>4, <1>5, <1>7, <2>1 DEF TypeOK, EndpointRecord, EventRecord
<1>13. Gone'
  BY <1>1, <1>2, <1>8, TakingFacts DEF Gone
<1>14. Shapes'
  BY <1>1, <1>4, <1>5, <1>6, <1>7 DEF Shapes, Endpoints
<1>15. Transfers'
  BY <1>1, <1>2, <1>6, <1>7, TakingFacts DEF Transfers, Endpoints
<1>16. Standing'
  BY <1>1, <1>2, <1>7, TakingFacts DEF Standing, Stands, Endpoints
<1>17. Aborting'
  BY <1>1 DEF Aborting, Taking
<1>18. Starting'
  BY <1>1, <1>5, <1>8 DEF Starting, Taking
<1>19. ~Completed("in")' /\ (Completed("out")' <=> Completed("out"))
  BY <1>1, <1>2, TakingFacts DEF Endpoints
<1>20. InEvents'
  BY <1>19 DEF InEvents, Completed
<1>21. InSide'
  <2>1. Completed("in")
    BY <1>1, <1>2, TakingFacts DEF Completed, Taking
  <2> QED
    BY <1>1, <1>4, <1>8, <1>19, <2>1 DEF InSide, Got
<1>22. OutSide'
  BY <1>1, <1>4, <1>7, <1>8, <1>19 DEF OutSide
<1>23. Requesting' /\ Described'
  BY <1>1, <1>4 DEF Requesting, Described
<1> QED
  BY <1>8, <1>11, <1>13, <1>14, <1>15, <1>16, <1>17, <1>18, <1>20, <1>21, <1>22, <1>23, InvWhole

\* An event nobody waits for does not stand, so nothing is lost with it.
LEMMA StaleStep ==
  ASSUME IndInv, Stale
  PROVE  IndInv'
<1> USE InvParts
<1>1. PICK e \in Endpoints : /\ Taking(e) /\ e \notin busy
                             /\ UNCHANGED <<root, ep, dev, pc, stage, busy, slot, handed, sent>>
  BY DEF Stale, Taking
<1>2. ~Completed(e) /\ (Running => ~Told(e))
  BY <1>1 DEF Standing, Stands, Completed, Told
<1>3. Running' = Running /\ RootEvents' /\ (Removal => Removal')
  BY <1>1, TakingFacts
<1>4. \A f \in Endpoints : (f \in busy /\ Told(f) => Told(f)') /\ (Completed(f)' <=> Completed(f))
  BY <1>1, <1>2, TakingFacts
<1>11. TypeOK'
  <2>1. events' \in Seq(EventRecord \union {Root("attach"), Root("remove")})
    BY <1>1, TakingFacts
  <2> QED
    BY <1>1, <2>1 DEF TypeOK, EventRecord
<1>13. Gone'
  BY <1>1, <1>3 DEF Gone
<1>14. Shapes' /\ Transfers'
  BY <1>1, <1>4 DEF Shapes, Transfers
<1>16. Standing'
  BY <1>1, TakingFacts DEF Standing
<1>17. Aborting' /\ Starting'
  BY <1>1, <1>3 DEF Aborting, Starting, Taking
<1>20. InEvents'
  BY <1>1, TakingFacts DEF InEvents
<1>21. InSide' /\ OutSide' /\ Requesting' /\ Described'
  BY <1>1, <1>3, <1>4 DEF InSide, Got, OutSide, Requesting, Described, Endpoints
<1> QED
  BY <1>3, <1>11, <1>13, <1>14, <1>16, <1>17, <1>20, <1>21, InvWhole

\* The transfer that is over is no longer awaited, and there is none in the pool.
LEMMA IdleStep ==
  ASSUME IndInv, Idle
  PROVE  IndInv'
<1> USE InvParts
<1>1. PICK e \in {"in", "out"} :
        /\ Taking(e) /\ e \in busy
        /\ e = "in" => Head(events).result # "complete"
        /\ busy' = busy \ {e}
        /\ UNCHANGED <<root, ep, dev, pc, stage, slot, handed, sent>>
  BY DEF Idle, Over, Succeeded, Taking, Endpoints
<1>2. e \in Endpoints /\ slot.mounted /\ stage = "none"
  BY <1>1 DEF Shapes, Endpoints
<1>3. Running' = Running /\ RootEvents' /\ (Removal => Removal')
  BY <1>1, <1>2, TakingFacts
<1>4. \A f \in Endpoints :
        (f \in busy' /\ Told(f) => Told(f)') /\ (f # e => (Completed(f)' <=> Completed(f)))
  BY <1>1, <1>2, TakingFacts
<1>5. ~ep[e].has /\ ~Completed(e)' /\ (e = "in" => ~Completed("in"))
  <2>1. ~ep[e].has /\ ~Completed(e)' /\ 1 \in Places /\ Head(events) = events[1]
    BY <1>1, <1>2, OverFacts, TakingFacts
  <2>2. \A l \in Places : events[l].ep = e => l = 1
    BY <1>1, <1>2, OverFacts, <2>1 DEF Taking
  <2> QED
    BY <1>1, <2>1, <2>2 DEF Completed
<1>11. TypeOK'
  <2>1. events' \in Seq(EventRecord \union {Root("attach"), Root("remove")})
    BY <1>1, <1>2, TakingFacts
  <2> QED
    BY <1>1, <2>1 DEF TypeOK, EventRecord
<1>13. Gone'
  BY <1>1, <1>3 DEF Gone
<1>14. Shapes'
  BY <1>1, <1>2, <1>4 DEF Shapes
<1>15. Transfers'
  BY <1>1, <1>2, <1>4, <1>5 DEF Transfers
<1>16. Standing'
  BY <1>1, <1>2, TakingFacts DEF Standing
<1>17. Aborting' /\ Starting'
  BY <1>1, <1>3 DEF Aborting, Starting, Taking
<1>20. InEvents'
  BY <1>1, <1>2, TakingFacts DEF InEvents
<1>21. InSide'
  BY <1>1, <1>2, <1>3, <1>4, <1>5 DEF InSide, Got, Endpoints
<1>22. OutSide'
  BY <1>1, <1>2, <1>3, <1>4, <1>5 DEF OutSide, Endpoints
<1>23. Requesting' /\ Described'
  BY <1>1, <1>2 DEF Requesting, Described
<1> QED
  BY <1>3, <1>11, <1>13, <1>14, <1>15, <1>16, <1>17, <1>20, <1>21, <1>22, <1>23, InvWhole

\* Each stage of a request starts the next when no transfer is in the pool.
LEMMA ControlOverStep ==
  ASSUME IndInv, ControlOver
  PROVE  IndInv'
<1> USE InvParts
<1> DEFINE p == ep["control"]
           q == CASE stage' = "setup" -> SetupSent(p)
                  [] stage' = "data" -> StageSent(p, "in", 2)
                  [] stage' = "status" -> StageSent(p, "out", 1)
<1>1. /\ Taking("control") /\ "control" \in busy
      /\ \/ stage' = "setup"
         \/ Head(events).result = "complete" /\ stage = "setup" /\ stage' = "data"
         \/ stage' = "status"
      /\ ep' = [ep EXCEPT !["control"] = q]
      /\ UNCHANGED <<root, dev, pc, busy, slot, handed, sent>>
  BY DEF ControlOver, Over, Succeeded, Taking, Endpoints
<1>2. "control" \in Endpoints /\ "in" # "control" /\ "out" # "control"
  BY DEF Endpoints
<1>3. ~p.has /\ \A l \in Places : events[l].ep = "control" => l = 1
  BY <1>1, <1>2, OverFacts
<1>4. ~slot.mounted /\ stage \in {"setup", "data", "status"} /\ p \in EndpointRecord
  BY <1>1 DEF Shapes, TypeOK, Endpoints
<1>5. /\ stage' \in {"setup", "data", "status"}
      /\ stage' = "data" => Head(events).result = "complete" /\ stage = "setup"
  BY <1>1, <1>4
<1>6. /\ q \in EndpointRecord /\ q.has /\ q.left > 0
      /\ stage' = "setup" => q.setup
      /\ stage' = "data" => ~q.setup /\ q.dir = "in" /\ q.left = 2 /\ q.toggle = 1
  <2>1. 1 \in 1 .. 2 /\ 2 \in 1 .. 2
    OBVIOUS
  <2>2. CASE stage' = "setup"
    BY <1>3, <1>4, <2>2, SetupSentFields
  <2>3. CASE stage' = "data"
    BY <1>3, <1>4, <2>1, <2>3, StageSentFields
  <2>4. CASE stage' = "status"
    BY <1>3, <1>4, <2>1, <2>4, StageSentFields
  <2> QED
    BY <1>5, <2>2, <2>3, <2>4
<1> HIDE DEF q
<1>7. /\ ep' \in [Endpoints -> EndpointRecord] /\ ep'["control"] = q /\ ep'["in"] = ep["in"]
      /\ ep'["out"] = ep["out"]
  BY <1>1, <1>6 DEF TypeOK, Endpoints
<1>8. Running' = Running /\ RootEvents' /\ (Removal => Removal')
  BY <1>1, <1>2, TakingFacts
<1>9. \A f \in Endpoints :
        (f # "control" => (Told(f) => Told(f)') /\ (Completed(f)' <=> Completed(f)))
  BY <1>1, <1>2, TakingFacts
<1>10. ~Completed("control")'
  BY <1>1, <1>2, TakingFacts
<1>11. TypeOK'
  <2>1. events' \in Seq(EventRecord \union {Root("attach"), Root("remove")})
    BY <1>1, <1>2, TakingFacts
  <2> QED
    BY <1>1, <1>5, <1>7, <2>1 DEF TypeOK, EventRecord
<1>13. Gone'
  BY <1>1, <1>8 DEF Gone
<1>14. Shapes'
  BY <1>1, <1>4, <1>5, <1>6, <1>7 DEF Shapes, Endpoints
<1>15. Transfers'
  BY <1>1, <1>2, <1>6, <1>7, <1>9 DEF Transfers, Endpoints
<1>16. Standing'
  BY <1>1, <1>2, <1>7, TakingFacts DEF Standing, Stands, Endpoints
<1>17. Aborting'
  BY <1>1 DEF Aborting, Taking
<1>18. Starting'
  BY <1>1, <1>8 DEF Starting, Taking
<1>20. InEvents'
  BY <1>1, <1>2, <1>7, TakingFacts DEF InEvents
<1>21. InSide' /\ OutSide'
  BY <1>1, <1>4 DEF InSide, OutSide
<1>22. Requesting'
  <2>1. CASE stage' = "setup"
    BY <1>6, <1>7, <1>10, <2>1 DEF Requesting
  <2>2. CASE stage' = "data"
    <3>1. Completed("control") /\ stage = "setup"
      <4>1. 1 \in Places /\ events[1].ep = "control" /\ Head(events) = events[1]
        BY <1>1, <1>2, TakingFacts DEF Taking
      <4> QED
        BY <1>5, <2>2, <4>1 DEF Completed
    <3>2. Running /\ dev.plugged => dev.side["control"].toggle = 1 /\ dev.side["control"].number = 0
      BY <3>1 DEF Requesting
    <3> QED
      BY <1>1, <1>6, <1>7, <1>8, <2>2, <3>2 DEF Requesting, Reading
  <2>3. CASE stage' = "status"
    BY <2>3 DEF Requesting
  <2> QED
    BY <1>5, <2>1, <2>2, <2>3
<1>23. Described'
  BY <1>10 DEF Described
<1> QED
  BY <1>8, <1>11, <1>13, <1>14, <1>15, <1>16, <1>17, <1>18, <1>20, <1>21, <1>22, <1>23, InvWhole

\* The bulk endpoints start with the toggles of a device that has moved nothing.
LEMMA MountStep ==
  ASSUME IndInv, Mount
  PROVE  IndInv'
<1> USE InvParts
<1> DEFINE i == BulkSent(Opened("in"), 0)
           o == Opened("out")
<1>1. /\ Taking("control") /\ "control" \in busy /\ stage = "status"
      /\ ep' = [ep EXCEPT !["in"] = i, !["out"] = o]
      /\ stage' = "none" /\ busy' = {"in"}
      /\ slot' = [Empty EXCEPT !.mounted = TRUE, !.reference = 0]
      /\ handed' = Numbers - 1 /\ sent' = 0
      /\ UNCHANGED <<root, dev, pc>>
  BY DEF Mount, Over, Taking, Endpoints
<1>2. "control" \in Endpoints /\ "in" # "control" /\ "out" # "control"
  BY DEF Endpoints
<1>3. ~ep["control"].has
  BY <1>1, <1>2, OverFacts
<1>4. /\ ~slot.mounted /\ ep["in"] = Closed /\ ep["out"] = Closed /\ "in" \notin busy
      /\ "out" \notin busy
  BY <1>1 DEF Shapes, TypeOK, Endpoints
<1>5. /\ i \in EndpointRecord /\ i.has /\ i.left = 1 /\ i.dir = "in" /\ ~i.setup
      /\ o \in EndpointRecord /\ ~o.has /\ o.dir = "out" /\ ~o.setup /\ o.toggle = 0
  <2>1. /\ Opened("in") = [Closed EXCEPT !.open = TRUE, !.toggle = 0, !.setup = FALSE,
          !.spoiled = FALSE, !.dir = "in"]
        /\ o = [Closed EXCEPT !.open = TRUE, !.toggle = 0, !.setup = FALSE,
          !.spoiled = FALSE, !.dir = "out"]
    BY <1>4 DEF Opened, Closed
  <2>2. /\ Opened("in") \in EndpointRecord /\ o \in EndpointRecord
    BY <2>1, ClosedType DEF EndpointRecord
  <2>3. /\ ~Opened("in").has /\ Opened("in").dir = "in" /\ ~Opened("in").setup
        /\ ~o.has /\ o.dir = "out" /\ ~o.setup /\ o.toggle = 0
    BY <2>1 DEF Closed
  <2>4. 0 \in NumberSet
    BY NumbersAssumption DEF NumberSet
  <2> QED
    BY <2>2, <2>3, <2>4, BulkSentFields
<1> HIDE DEF i, o
<1>6. slot' \in Slot /\ slot'.mounted
  <2>1. 0 \in Ages /\ Never \in Ages
    BY SilenceAssumption DEF Ages
  <2> QED
    BY <1>1, <2>1 DEF Slot, Empty
<1>7. /\ ep' \in [Endpoints -> EndpointRecord] /\ ep'["control"] = ep["control"] /\ ep'["in"] = i
      /\ ep'["out"] = o
  BY <1>1, <1>5 DEF TypeOK, Endpoints
<1>8. Running' = Running /\ RootEvents' /\ (Removal => Removal')
  BY <1>1, <1>2, TakingFacts
<1>9. ~Completed("in")' /\ ~Completed("out")'
  <2>1. ASSUME NEW e \in {"in", "out"} PROVE ~Completed(e)'
    BY <1>1, <1>2, <1>4, TakingFacts DEF Completed, Stands, Endpoints
  <2> QED
    BY <2>1
<1>11. TypeOK'
  <2>1. events' \in Seq(EventRecord \union {Root("attach"), Root("remove")})
    BY <1>1, <1>2, TakingFacts
  <2>2. 0 \in 0 .. Numbers - 1 /\ Numbers - 1 \in 0 .. Numbers - 1
    BY NumbersAssumption
  <2> QED
    BY <1>1, <1>6, <1>7, <2>1, <2>2 DEF TypeOK, EventRecord, Endpoints
<1>13. Gone'
  BY <1>1, <1>8 DEF Gone
<1>14. Shapes'
  BY <1>1, <1>5, <1>6, <1>7 DEF Shapes, Endpoints
<1>15. Transfers'
  BY <1>1, <1>3, <1>5, <1>7 DEF Transfers, Endpoints
<1>16. Standing'
  BY <1>1, <1>2, <1>4, TakingFacts DEF Standing, Shapes
<1>17. Aborting' /\ Starting'
  BY <1>1, <1>6 DEF Aborting, Starting, Taking
<1>20. InEvents'
  BY <1>9 DEF InEvents, Completed
<1>21. InSide' /\ OutSide'
  <2>1. Running /\ ~slot.mounted => dev.side["in"] = Fresh /\ dev.side["out"] = Fresh
    BY DEF Starting
  <2>2. Fresh.toggle = 0 /\ Fresh.number = 0 /\ ~Fresh.unacked
    BY DEF Fresh
  <2>3. InSide'
    BY <1>1, <1>4, <1>8, <1>9, <2>1, <2>2, AfterOfEnds DEF InSide, Got
  <2>4. OutSide'
    BY <1>1, <1>4, <1>5, <1>7, <1>8, <1>9, <2>1, <2>2 DEF OutSide
  <2> QED
    BY <2>3, <2>4
<1>22. Requesting' /\ Described'
  BY <1>1 DEF Requesting, Described
<1> QED
  BY <1>8, <1>11, <1>13, <1>14, <1>15, <1>16, <1>17, <1>20, <1>21, <1>22, InvWhole

\* With everything closed the events behind the removal end nothing.
LEMMA RemoveStep ==
  ASSUME IndInv, Remove
  PROVE  IndInv'
<1> USE InvParts
<1>1. /\ pc = "task" /\ events # << >> /\ Head(events) = Root("remove") /\ events' = Tail(events)
      /\ ep' = AllClosed /\ stage' = "none" /\ busy' = {} /\ slot' = Empty /\ handed' = 0
      /\ sent' = 0
      /\ UNCHANGED <<root, dev, pc>>
  BY DEF Remove, First
<1>2. /\ events' \in Seq(EventRecord \union {Root("attach"), Root("remove")})
      /\ Len(events') = Len(events) - 1 /\ Len(events) > 0 /\ Len(events) \in Nat
      /\ 1 \in Places /\ events[1] = Root("remove")
      /\ \A k \in Places' : k + 1 \in Places /\ events'[k] = events[k + 1]
  BY <1>1, TailFacts, EventFacts
<1>3. ~Running /\ ~Running'
  BY <1>1, <1>2 DEF RootEvents, Running
<1>4. \A k \in Places' : 1 < k + 1 /\ events'[k].result \in {"error", "attach"}
  BY <1>2 DEF RootEvents, Places
<1>5. Root("remove").result = "remove"
  BY DEF Root
<1>6. \A k \in Places' : events'[k] # Root("remove")
  BY <1>4, <1>5
<1>7. ep' \in [Endpoints -> EndpointRecord] /\ \A e \in Endpoints : ep'[e] = Closed
  BY <1>1, ClosedType DEF AllClosed
<1>8. ~Closed.has /\ ~Closed.setup /\ Closed.dir = "out" /\ ~Empty.mounted
  BY DEF Closed, Empty
<1>9. \A k \in Places' : ~Stands(k)'
  <2>1. ASSUME NEW k \in Places', Stands(k)' PROVE FALSE
    <3>1. events'[k].ep \in Endpoints /\ events'[k].result # "error"
      BY <1>3, <1>6, <2>1 DEF Stands
    <3>2. events[k + 1] \in EventRecord
      BY <1>2, <3>1, EventFacts DEF Root, Endpoints
    <3> QED
      BY <1>2, <1>4, <3>1, <3>2 DEF EventRecord, Results
  <2> QED
    BY <2>1
<1>10. \A e \in Endpoints : ~Completed(e)'
  BY <1>9 DEF Completed, Stands
<1>11. TypeOK'
  <2>1. Empty \in Slot
    BY DEF Empty, Slot, Ages
  <2>2. 0 \in 0 .. Numbers - 1
    BY NumbersAssumption
  <2> QED
    BY <1>1, <1>2, <1>7, <2>1, <2>2 DEF TypeOK, EventRecord
<1>12. RootEvents'
  <2>1. ASSUME NEW k \in Places', events'[k] = Root("attach")
        PROVE  k = Len(events') /\ root'.connected /\ root'.suspended
    <3>1. k + 1 = Len(events) /\ root.connected /\ root.suspended
      BY <1>2, <2>1 DEF RootEvents
    <3>2. k \in Int
      BY DEF Places
    <3>3. k = Len(events')
      BY <1>2, <3>1, <3>2
    <3> QED
      BY <1>1, <3>1, <3>3
  <2> QED
    BY <1>1, <1>6, <2>1 DEF RootEvents
<1>13. Gone'
  BY <1>1 DEF Gone
<1>14. Shapes'
  BY <1>1, <1>7, <1>8 DEF Shapes, Endpoints
<1>15. Transfers'
  BY <1>1, <1>7, <1>8 DEF Transfers
<1>16. Standing'
  BY <1>9 DEF Standing
<1>17. Aborting' /\ Starting'
  BY <1>1, <1>3 DEF Aborting, Starting
<1>20. InEvents'
  BY <1>10 DEF InEvents, Completed, Endpoints
<1>21. InSide' /\ OutSide' /\ Requesting'
  BY <1>3 DEF InSide, OutSide, Requesting
<1>22. Described'
  BY <1>1 DEF Described
<1> QED
  BY <1>11, <1>12, <1>13, <1>14, <1>15, <1>16, <1>17, <1>20, <1>21, <1>22, InvWhole

\* The port is reset with no other event waiting.
LEMMA AttachStep ==
  ASSUME IndInv, Attach
  PROVE  IndInv'
<1> USE InvParts
<1>1. /\ pc = "task" /\ events # << >> /\ Head(events) = Root("attach") /\ events' = Tail(events)
      /\ root' = [root EXCEPT !.suspended = TRUE]
      /\ dev' = [dev EXCEPT !.side = [e \in Endpoints |-> Fresh]]
      /\ pc' = "reset"
      /\ UNCHANGED <<ep, stage, busy, slot, handed, sent>>
  BY DEF Attach, First, ResetStart
<1>2. /\ events' \in Seq(EventRecord \union {Root("attach"), Root("remove")})
      /\ Len(events') = Len(events) - 1 /\ Len(events) \in Nat
      /\ 1 \in Places /\ events[1] = Root("attach")
  BY <1>1, TailFacts, EventFacts
<1>3. Len(events) = 1 /\ root.connected /\ root.suspended
  BY <1>2 DEF RootEvents
<1>4. events' = << >> /\ Places' = {}
  <2>1. Len(events') = 0
    BY <1>2, <1>3
  <2>2. events' = << >>
    BY <1>2, <2>1, EmptySeq
  <2>3. Places' = {}
    BY <2>1 DEF Places
  <2> QED
    BY <2>2, <2>3
<1>5. root' = root /\ ~Running /\ ~Running'
  <2>1. root' = root
    BY <1>1, <1>3 DEF TypeOK
  <2> QED
    BY <1>3, <2>1 DEF Running
<1>6. ~Removal
  <2>1. ASSUME NEW k \in Places PROVE events[k] # Root("remove")
    <3>1. k = 1
      BY <1>3 DEF Places
    <3> QED
      BY <1>2, <3>1 DEF Root
  <2> QED
    BY <2>1 DEF Removal
<1>7. ep = AllClosed /\ busy = {} /\ slot = Empty /\ stage = "none"
  BY <1>5, <1>6 DEF Gone
<1>8. dev' \in [plugged : BOOLEAN, side : [Endpoints -> Side]] /\ \A e \in Endpoints : dev'.side[e] = Fresh
  BY <1>1, FreshType DEF TypeOK
<1>11. TypeOK'
  BY <1>1, <1>2, <1>5, <1>8 DEF TypeOK, EventRecord
<1>12. RootEvents'
  BY <1>3, <1>4, <1>5 DEF RootEvents
<1>13. Gone' /\ Shapes'
  BY <1>1, <1>7 DEF Gone, Shapes
<1>15. Transfers'
  BY <1>1, <1>7 DEF Transfers, AllClosed, Closed
<1>16. Standing' /\ InEvents'
  BY <1>4 DEF Standing, InEvents
<1>17. Aborting'
  BY <1>1 DEF Aborting
<1>18. Starting'
  BY <1>8 DEF Starting, Endpoints
<1>21. InSide' /\ OutSide' /\ Requesting'
  BY <1>5 DEF InSide, OutSide, Requesting
<1>22. Described'
  BY <1>1, <1>7 DEF Described
<1> QED
  BY <1>11, <1>12, <1>13, <1>15, <1>16, <1>17, <1>18, <1>21, <1>22, InvWhole

\* The first request is sent to a device that has nothing of an earlier one.
LEMMA EnumerateStep ==
  ASSUME IndInv, Enumerate
  PROVE  IndInv'
<1> USE InvParts
<1> DEFINE q == SetupSent(Opened("control"))
<1>1. /\ pc = "reset" /\ root' = [root EXCEPT !.suspended = FALSE]
      /\ ep' = [ep EXCEPT !["control"] = q]
      /\ stage' = "setup" /\ busy' = busy \union {"control"} /\ pc' = "task"
      /\ UNCHANGED <<events, dev, slot, handed, sent>>
  BY DEF Enumerate, ResetEnd
<1>2. events = << >> /\ Places = {} /\ root.suspended
  BY <1>1 DEF RootEvents, Places
<1>3. ep = AllClosed /\ busy = {} /\ slot = Empty /\ stage = "none"
  BY <1>2 DEF Gone, Running, Removal
<1>4. ep["control"] = Closed /\ ep["in"] = Closed /\ ep["out"] = Closed
  BY <1>3 DEF AllClosed, Endpoints
<1>5. q \in EndpointRecord /\ q.has /\ q.setup /\ q.left = 1
  <2>1. Opened("control") = [Closed EXCEPT !.open = TRUE, !.toggle = 0, !.setup = FALSE,
          !.spoiled = FALSE, !.dir = "out"]
    BY <1>4 DEF Opened, Closed
  <2>2. Opened("control") \in EndpointRecord /\ ~Opened("control").has
    BY <2>1, ClosedType DEF EndpointRecord, Closed
  <2> QED
    BY <2>2, SetupSentFields
<1> HIDE DEF q
<1>6. /\ ep' \in [Endpoints -> EndpointRecord] /\ ep'["control"] = q /\ ep'["in"] = Closed
      /\ ep'["out"] = Closed
  BY <1>1, <1>4, <1>5 DEF TypeOK, Endpoints
<1>7. root' \in [connected : BOOLEAN, suspended : BOOLEAN]
  BY <1>1 DEF TypeOK
<1>8. ~Closed.has /\ ~Closed.setup /\ Closed.dir = "out" /\ ~Empty.mounted
  BY DEF Closed, Empty
<1>9. events' = << >> /\ Places' = {}
  BY <1>1, <1>2 DEF Places
<1>11. TypeOK'
  BY <1>1, <1>6, <1>7 DEF TypeOK, Endpoints
<1>12. RootEvents'
  BY <1>1, <1>9 DEF RootEvents
<1>13. Gone'
  <2>1. root'.connected /\ ~root'.suspended
    BY <1>1, <1>2 DEF RootEvents, TypeOK
  <2> QED
    BY <2>1 DEF Gone, Running
<1>14. Shapes'
  BY <1>1, <1>3, <1>5, <1>6, <1>8 DEF Shapes, Endpoints
<1>15. Transfers'
  BY <1>1, <1>3, <1>5, <1>6, <1>8 DEF Transfers, Endpoints
<1>16. Standing' /\ InEvents'
  BY <1>9 DEF Standing, InEvents
<1>17. Aborting'
  BY <1>1 DEF Aborting
<1>18. Starting'
  BY <1>1 DEF Starting
<1>21. InSide' /\ OutSide'
  BY <1>1, <1>3, <1>8 DEF InSide, OutSide
<1>22. Requesting' /\ Described'
  BY <1>1, <1>5, <1>6, <1>9 DEF Requesting, Described, Completed
<1> QED
  BY <1>11, <1>12, <1>13, <1>14, <1>15, <1>16, <1>17, <1>18, <1>21, <1>22, InvWhole

(***************************************************************************)
(* The steps of core 1: the scan and the drain; time and the device.       *)
(***************************************************************************)

\* A step that leaves the root port and the queue alone changes none of their meaning.
LEMMA QuietFacts ==
  ASSUME UNCHANGED <<root, events>>
  PROVE  /\ Places' = Places /\ (Running' <=> Running) /\ (Removal' <=> Removal)
         /\ \A e \in Endpoints : (Told(e)' <=> Told(e)) /\ (Completed(e)' <=> Completed(e))
         /\ \A k \in Places : Stands(k)' <=> Stands(k)
BY DEF Places, Running, Removal, Told, Completed, Stands

\* The steps of loop1 that only go on.
LEMMA TurnStep ==
  ASSUME IndInv, TaskDone \/ NotDue
  PROVE  IndInv'
<1> USE InvParts
<1>1. /\ pc' \in {"scan", "send"}
      /\ UNCHANGED <<root, ep, events, dev, stage, busy, slot, handed, sent>>
  BY DEF TaskDone, NotDue, pioVars
<1>2. /\ Places' = Places /\ (Running' <=> Running) /\ (Removal' <=> Removal)
      /\ \A e \in Endpoints : (Told(e)' <=> Told(e)) /\ (Completed(e)' <=> Completed(e))
      /\ \A k \in Places : Stands(k)' <=> Stands(k)
  BY <1>1, QuietFacts
<1>11. TypeOK'
  BY <1>1 DEF TypeOK
<1>12. RootEvents'
  BY <1>1, <1>2 DEF RootEvents
<1>13. Gone' /\ Shapes' /\ Transfers'
  BY <1>1, <1>2 DEF Gone, Shapes, Transfers
<1>16. Standing' /\ InEvents'
  BY <1>1, <1>2 DEF Standing, InEvents
<1>17. Aborting' /\ Starting'
  BY <1>1, <1>2 DEF Aborting, Starting
<1>21. InSide' /\ OutSide' /\ Requesting' /\ Described'
  BY <1>1, <1>2 DEF InSide, Got, OutSide, Requesting, Described, Endpoints
<1> QED
  BY <1>11, <1>12, <1>13, <1>16, <1>17, <1>21, InvWhole

\* The passing of time.
LEMMA TickStep ==
  ASSUME IndInv, Tick
  PROVE  IndInv'
<1> USE InvParts
<1>1. /\ slot.mounted
      /\ slot' = [slot EXCEPT !.reference = Older(@), !.rearm = Older(@)]
      /\ UNCHANGED <<root, ep, events, dev, pc, stage, busy, handed, sent>>
  BY DEF Tick, pioVars
<1>2. /\ Places' = Places /\ (Running' <=> Running) /\ (Removal' <=> Removal)
      /\ \A e \in Endpoints : (Told(e)' <=> Told(e)) /\ (Completed(e)' <=> Completed(e))
      /\ \A k \in Places : Stands(k)' <=> Stands(k)
  BY <1>1, QuietFacts
<1>3. slot' \in Slot /\ slot'.mounted
  <2>1. slot \in Slot
    BY DEF TypeOK
  <2>2. \A age \in Ages : Older(age) \in Ages
    BY SilenceAssumption DEF Ages, Older, Never
  <2> QED
    BY <1>1, <2>1, <2>2 DEF Slot
<1>11. TypeOK'
  BY <1>1, <1>3 DEF TypeOK
<1>12. RootEvents'
  BY <1>1, <1>2 DEF RootEvents
<1>13. Gone' /\ Shapes' /\ Transfers'
  BY <1>1, <1>2, <1>3 DEF Gone, Shapes, Transfers, Empty
<1>16. Standing' /\ InEvents'
  BY <1>1, <1>2 DEF Standing, InEvents
<1>17. Aborting' /\ Starting'
  BY <1>1, <1>2, <1>3 DEF Aborting, Starting
<1>21. InSide' /\ OutSide' /\ Requesting' /\ Described'
  BY <1>1, <1>2, <1>3 DEF InSide, Got, OutSide, Requesting, Described, Endpoints
<1> QED
  BY <1>11, <1>12, <1>13, <1>16, <1>17, <1>21, InvWhole

\* A device comes or goes while the host has not noticed.
LEMMA PlugStep ==
  ASSUME IndInv, Plug \/ Unplug
  PROVE  IndInv'
<1> USE InvParts
<1>1. PICK there \in BOOLEAN :
        /\ there => ~Running
        /\ dev' = [plugged |-> there, side |-> [e \in Endpoints |-> Fresh]]
        /\ UNCHANGED <<root, ep, events, pc, stage, busy, slot, handed, sent>>
  <2>1. CASE Plug
    BY <2>1 DEF Plug
  <2>2. CASE Unplug
    BY <2>2 DEF Unplug
  <2> QED
    BY <2>1, <2>2
<1>2. /\ Places' = Places /\ (Running' <=> Running) /\ (Removal' <=> Removal)
      /\ \A e \in Endpoints : (Told(e)' <=> Told(e)) /\ (Completed(e)' <=> Completed(e))
      /\ \A k \in Places : Stands(k)' <=> Stands(k)
  BY <1>1, QuietFacts
<1>3. dev' \in [plugged : BOOLEAN, side : [Endpoints -> Side]] /\ \A e \in Endpoints : dev'.side[e] = Fresh
  BY <1>1, FreshType
<1>11. TypeOK'
  BY <1>1, <1>3 DEF TypeOK
<1>12. RootEvents'
  BY <1>1, <1>2 DEF RootEvents
<1>13. Gone' /\ Shapes' /\ Transfers'
  BY <1>1, <1>2 DEF Gone, Shapes, Transfers
<1>16. Standing' /\ InEvents'
  BY <1>1, <1>2 DEF Standing, InEvents
<1>17. Aborting'
  BY <1>1, <1>2 DEF Aborting
<1>18. Starting'
  BY <1>3 DEF Starting, Endpoints
<1>21. InSide' /\ OutSide' /\ Requesting'
  BY <1>1, <1>2 DEF InSide, OutSide, Requesting
<1>22. Described'
  BY <1>1, <1>2 DEF Described, Endpoints
<1> QED
  BY <1>11, <1>12, <1>13, <1>16, <1>17, <1>18, <1>21, <1>22, InvWhole

\* What the scan of the table may do to the IN endpoint of a mounted device.
LEMMA InEndpointStep ==
  ASSUME IndInv, NEW q \in EndpointRecord,
         slot.mounted, slot' \in Slot, slot'.mounted,
         pc' \in {"abort", "marked", "clear", "send"}, Aborting',
         ep' = [ep EXCEPT !["in"] = q], busy' = busy \union {"in"},
         UNCHANGED <<root, events, dev, stage, handed, sent>>,
         q.dir = "in", ~q.setup, q.buf = ep["in"].buf, q.has => q.left = 1,
         \/ "in" \in busy /\ (q.has <=> ep["in"].has)
         \/ q.has /\ \A k \in Places : events[k].ep = "in" => ~Stands(k)
  PROVE  IndInv'
<1> USE InvParts
<1>1. /\ ep' \in [Endpoints -> EndpointRecord] /\ ep'["in"] = q /\ ep'["control"] = ep["control"]
      /\ ep'["out"] = ep["out"]
  BY DEF TypeOK, Endpoints
<1>2. /\ Places' = Places /\ (Running' <=> Running) /\ (Removal' <=> Removal)
      /\ \A e \in Endpoints : (Told(e)' <=> Told(e)) /\ (Completed(e)' <=> Completed(e))
      /\ \A k \in Places : Stands(k)' <=> Stands(k)
  BY QuietFacts
<1>3. stage = "none"
  BY DEF Shapes
<1>11. TypeOK'
  BY <1>1 DEF TypeOK, Endpoints
<1>12. RootEvents'
  BY <1>2 DEF RootEvents
<1>13. Gone'
  BY <1>2 DEF Gone, Empty
<1>14. Shapes'
  BY <1>1, <1>3 DEF Shapes, Endpoints
<1>15. Transfers'
  BY <1>1, <1>2 DEF Transfers, Endpoints
<1>16. Standing'
  <2>1. ASSUME NEW k \in Places', Stands(k)'
        PROVE  events'[k].ep \in busy' /\ ~ep'[events'[k].ep].has
    <3>1. /\ Stands(k) /\ k \in Places /\ events'[k] = events[k]
          /\ events[k].ep \in Endpoints /\ events[k].ep \in busy /\ ~ep[events[k].ep].has
      BY <1>2, <2>1 DEF Standing, Stands
    <3>2. CASE events[k].ep = "in"
      BY <1>1, <3>1, <3>2
    <3>3. CASE events[k].ep # "in"
      BY <1>1, <3>1, <3>3 DEF Endpoints
    <3> QED
      BY <3>2, <3>3
  <2> QED
    BY <1>2, <2>1 DEF Standing
<1>18. Starting' /\ InEvents' /\ InSide'
  BY <1>1, <1>2 DEF Starting, InEvents, InSide, Got, Endpoints
<1>22. OutSide' /\ Requesting' /\ Described'
  BY <1>1, <1>2, <1>3 DEF OutSide, Requesting, Described, Endpoints
<1> QED
  BY <1>11, <1>12, <1>13, <1>14, <1>15, <1>16, <1>18, <1>22, InvWhole

\* A receive transfer is submitted only when none is awaited.
LEMMA RearmStep ==
  ASSUME IndInv, Rearm
  PROVE  IndInv'
<1> USE InvParts
<1> DEFINE p == ep["in"]
           q == IF p.has \/ "in" \in busy THEN p ELSE BulkSent(p, 0)
<1>1. /\ slot.mounted /\ p \in EndpointRecord /\ slot \in Slot
      /\ p.has => "in" \in busy
      /\ p.dir = "in" /\ ~p.setup
  BY DEF Rearm, Due, TypeOK, Endpoints, Transfers, Shapes
<1>2. slot' \in Slot /\ slot'.mounted
  <2>1. 0 \in Ages /\ slot' = [slot EXCEPT !.rearm = 0]
    BY SilenceAssumption DEF Ages, Rearm
  <2> QED
    BY <1>1, <2>1 DEF Slot
<1>3. ep = [ep EXCEPT !["in"] = p]
  BY DEF TypeOK, Endpoints
<1>4. /\ ep' = [ep EXCEPT !["in"] = q] /\ busy' = busy \union {"in"}
      /\ UNCHANGED <<root, events, dev, stage, handed, sent>>
  BY <1>1, <1>3 DEF Rearm
<1>5. pc' = (IF p.has THEN "abort" ELSE "send")
  BY DEF Rearm
<1>6. Aborting'
  BY <1>1, <1>2, <1>4, <1>5 DEF Aborting
<1>7. CASE p.has \/ "in" \in busy
  BY <1>1, <1>2, <1>4, <1>5, <1>6, <1>7, InEndpointStep DEF Shapes
<1>8. CASE ~p.has /\ "in" \notin busy
  <2>1. q \in EndpointRecord /\ q.has /\ q.left = 1 /\ q.dir = "in" /\ ~q.setup /\ q.buf = p.buf
    <3>1. 0 \in NumberSet
      BY NumbersAssumption DEF NumberSet
    <3> QED
      BY <1>1, <1>8, <3>1, BulkSentFields
  <2>2. \A k \in Places : events[k].ep = "in" => ~Stands(k)
    BY <1>8 DEF Standing
  <2> HIDE DEF q
  <2> QED
    BY <1>1, <1>2, <1>4, <1>5, <1>6, <2>1, <2>2, InEndpointStep
<1> QED
  BY <1>7, <1>8

\* A transfer is submitted in place of the cleared one only while it is still in the pool.
LEMMA AbortStep ==
  ASSUME IndInv, Abort \/ AbortCheck \/ Clear
  PROVE  IndInv'
<1> USE InvParts
<1> DEFINE p == ep["in"]
<1>1. /\ pc \in {"abort", "marked", "clear"}
      /\ UNCHANGED <<root, events, dev, stage, busy, slot, handed, sent>>
  BY DEF Abort, AbortCheck, Clear
<1>2. /\ slot.mounted /\ slot \in Slot /\ "in" \in busy /\ p \in EndpointRecord
      /\ p.dir = "in" /\ ~p.setup /\ (p.has => p.left = 1)
      /\ slot' \in Slot /\ slot'.mounted /\ busy' = busy \union {"in"}
  BY <1>1 DEF Aborting, TypeOK, Shapes, Endpoints
<1>3. /\ Places' = Places /\ \A k \in Places : (Stands(k)' <=> Stands(k)) /\ events'[k] = events[k]
  BY <1>1, QuietFacts
<1>4. CASE Abort
  <2> DEFINE q == AbortMarked(p)
  <2>1. /\ q \in EndpointRecord /\ q.has = p.has /\ q.left = p.left /\ q.dir = "in" /\ ~q.setup
        /\ q.buf = p.buf
    BY <1>2 DEF AbortMarked, EndpointRecord
  <2>2. pc' = "marked" /\ ep' = [ep EXCEPT !["in"] = q]
    BY <1>4 DEF Abort
  <2>3. q.aborted /\ ep'["in"] = q
    BY <1>2, <2>2 DEF AbortMarked, EndpointRecord, TypeOK, Endpoints
  <2>4. Aborting'
    BY <1>2, <2>2, <2>3 DEF Aborting
  <2> HIDE DEF q
  <2> QED
    BY <1>1, <1>2, <2>1, <2>2, <2>4, InEndpointStep
<1>5. CASE AbortCheck
  <2> DEFINE q == IF p.has THEN p ELSE Unmarked(p)
  <2>1. /\ q \in EndpointRecord /\ q.has = p.has /\ q.left = p.left /\ q.dir = "in" /\ ~q.setup
        /\ q.buf = p.buf
    BY <1>2 DEF Unmarked, EndpointRecord
  <2>2. ep = [ep EXCEPT !["in"] = p]
    BY DEF TypeOK, Endpoints
  <2>3. pc = "marked" /\ pc' = (IF p.has THEN "clear" ELSE "send") /\ ep' = [ep EXCEPT !["in"] = q]
    BY <1>5, <2>2 DEF AbortCheck, StillActive
  <2>4. Aborting'
    <3>1. CASE p.has
      <4>1. ep' = ep /\ pc' = "clear" /\ p.aborted
        BY <2>2, <2>3, <3>1 DEF Aborting
      <4>2. \A k \in Places : events[k].ep = "in" => ~Stands(k)
        BY <3>1 DEF Standing
      <4> QED
        BY <1>1, <1>2, <1>3, <4>1, <4>2 DEF Aborting
    <3>2. CASE ~p.has
      BY <1>2, <2>3, <3>2 DEF Aborting
    <3> QED
      BY <3>1, <3>2
  <2> HIDE DEF q
  <2> QED
    BY <1>1, <1>2, <2>1, <2>3, <2>4, InEndpointStep
<1>6. CASE Clear
  <2> DEFINE c == Cancelled(p)
             q == BulkSent(c, 0)
  <2>1. c \in EndpointRecord /\ ~c.has /\ c.dir = "in" /\ ~c.setup /\ c.buf = p.buf
    BY <1>2 DEF Cancelled, EndpointRecord
  <2>2. 0 \in NumberSet
    BY NumbersAssumption DEF NumberSet
  <2>3. ep' = [ep EXCEPT !["in"] = q] /\ pc = "clear" /\ pc' = "send"
    BY <1>6 DEF Clear
  <2> HIDE DEF c
  <2>4. q \in EndpointRecord /\ q.has /\ q.left = 1 /\ q.dir = "in" /\ ~q.setup /\ q.buf = p.buf
    BY <2>1, <2>2, BulkSentFields
  <2> HIDE DEF q
  <2>5. \A k \in Places : events[k].ep = "in" => ~Stands(k)
    BY <2>3 DEF Aborting
  <2>6. Aborting'
    BY <2>3 DEF Aborting
  <2> QED
    BY <1>1, <1>2, <2>3, <2>4, <2>5, <2>6, InEndpointStep
<1> QED
  BY <1>4, <1>5, <1>6

\* An OUT transfer is submitted only when none is awaited.
LEMMA SendStep ==
  ASSUME IndInv, Send
  PROVE  IndInv'
<1> USE InvParts
<1> DEFINE p == ep["out"]
           q == BulkSent(p, After(sent))
<1>1. pc' = "task" /\ UNCHANGED <<root, events, dev, stage, slot, handed>>
  BY DEF Send
<1>2. /\ Places' = Places /\ (Running' <=> Running) /\ (Removal' <=> Removal)
      /\ \A e \in Endpoints : (Told(e)' <=> Told(e)) /\ (Completed(e)' <=> Completed(e))
      /\ \A k \in Places : Stands(k)' <=> Stands(k)
  BY <1>1, QuietFacts
<1>3. RootEvents' /\ Aborting'
  BY <1>1, <1>2 DEF RootEvents, Aborting
<1>4. CASE UNCHANGED <<ep, busy, sent>>
  <2>1. TypeOK'
    BY <1>1, <1>4 DEF TypeOK
  <2>2. Gone' /\ Shapes' /\ Transfers'
    BY <1>1, <1>2, <1>4 DEF Gone, Shapes, Transfers
  <2>3. Standing' /\ InEvents' /\ Starting'
    BY <1>1, <1>2, <1>4 DEF Standing, InEvents, Starting
  <2>4. InSide' /\ OutSide' /\ Requesting' /\ Described'
    BY <1>1, <1>2, <1>4 DEF InSide, Got, OutSide, Requesting, Described, Endpoints
  <2> QED
    BY <1>3, <2>1, <2>2, <2>3, <2>4, InvWhole
<1>5. CASE /\ slot.mounted /\ "out" \notin busy /\ sent' = After(sent)
           /\ ep' = [ep EXCEPT !["out"] = q] /\ busy' = busy \union {"out"}
  <2>1. p \in EndpointRecord /\ ~p.has /\ ~p.setup /\ p.dir = "out" /\ After(sent) \in NumberSet
    BY <1>5, AfterInRange DEF TypeOK, Transfers, Shapes, Endpoints, NumberSet
  <2>2. /\ q \in EndpointRecord /\ q.has /\ q.left = 1 /\ q.dir = "out" /\ ~q.setup
        /\ q.toggle = p.toggle /\ q.spoiled = p.spoiled
    BY <2>1, BulkSentFields
  <2> HIDE DEF q
  <2>3. /\ ep' \in [Endpoints -> EndpointRecord] /\ ep'["out"] = q /\ ep'["control"] = ep["control"]
        /\ ep'["in"] = ep["in"]
    BY <1>5, <2>2 DEF TypeOK, Endpoints
  <2>4. ~Completed("out")
    BY <1>5 DEF Standing, Stands, Completed, Endpoints
  <2>5. TypeOK'
    BY <1>1, <1>5, <2>1, <2>3 DEF TypeOK, NumberSet, Endpoints
  <2>6. Gone'
    BY <1>1, <1>2, <1>5 DEF Gone, Empty
  <2>7. Shapes' /\ Transfers'
    BY <1>1, <1>2, <1>5, <2>2, <2>3 DEF Shapes, Transfers, Endpoints
  <2>8. Standing'
    BY <1>1, <1>2, <1>5, <2>3 DEF Standing, Stands, Endpoints
  <2>9. InEvents' /\ Starting' /\ InSide'
    BY <1>1, <1>2, <1>5, <2>3 DEF InEvents, Starting, InSide, Got, Endpoints
  <2>10. OutSide'
    BY <1>1, <1>2, <2>1, <2>2, <2>3, <2>4 DEF OutSide, Endpoints
  <2>11. Requesting' /\ Described'
    BY <1>1, <1>2, <1>5, <2>3 DEF Requesting, Described, Shapes
  <2> QED
    BY <1>3, <2>5, <2>6, <2>7, <2>8, <2>9, <2>10, <2>11, InvWhole
<1> QED
  BY <1>4, <1>5 DEF Send

(***************************************************************************)
(* The frame interrupt.                                                    *)
(***************************************************************************)

\* A sequence made of two.
LEMMA CatFacts ==
  ASSUME NEW S, NEW s \in Seq(S), NEW u \in Seq(S), NEW w, w = s \o u
  PROVE  /\ w \in Seq(S) /\ Len(w) = Len(s) + Len(u) /\ Len(s) \in Nat /\ Len(u) \in Nat
         /\ \A k \in 1 .. Len(s) : k \in 1 .. Len(w) /\ w[k] = s[k]
         /\ \A k \in 1 .. Len(u) : Len(s) + k \in 1 .. Len(w) /\ w[Len(s) + k] = u[k]
         /\ \A k \in 1 .. Len(w) :
              k \in 1 .. Len(s) \/ (k - Len(s) \in 1 .. Len(u) /\ w[k] = u[k - Len(s)])
OBVIOUS

\* While the bus runs, no event of the root port waits.
LEMMA RunningFacts ==
  ASSUME IndInv, Running
  PROVE  /\ \A k \in Places : events[k] \in EventRecord /\ Stands(k)
         /\ pc # "reset" /\ ~Removal
<1>1. root.connected /\ ~root.suspended
  BY DEF Running
<1>2. \A k \in Places : events[k] # Root("attach") /\ events[k] # Root("remove")
  BY <1>1, InvParts DEF RootEvents
<1>3. \A k \in Places : events[k] \in EventRecord
  BY <1>2, EventFacts, InvParts
<1> QED
  BY <1>1, <1>2, <1>3, InvParts DEF RootEvents, Removal, Stands, EventRecord

\* The frame that finds a device: the connection goes behind all that an earlier one left.
LEMMA ConnectStep ==
  ASSUME IndInv, FrameConnect, UNCHANGED <<pc, stage, busy, slot, handed, sent>>
  PROVE  IndInv'
<1> USE InvParts
<1> DEFINE attach == Root("attach")
<1>1. /\ ~root.connected /\ root' = [connected |-> TRUE, suspended |-> TRUE]
      /\ events' = Append(events, attach) /\ UNCHANGED <<ep, dev>>
  BY DEF FrameConnect
<1>2. ~Running /\ ~Running' /\ root'.connected /\ root'.suspended
  BY <1>1 DEF Running
<1>3. /\ attach.ep = "root" /\ attach.ep \notin Endpoints /\ attach.result = "attach"
      /\ attach # Root("remove")
  BY DEF Root, Endpoints
<1>4. events \in Seq(EventRecord \union {Root("attach"), Root("remove")})
  BY DEF TypeOK, EventRecord
<1>5. /\ events' \in Seq(EventRecord \union {Root("attach"), Root("remove")})
      /\ Len(events') = Len(events) + 1 /\ Len(events) \in Nat
      /\ \A k \in Places : k \in Places' /\ events'[k] = events[k]
      /\ Len(events) + 1 \in Places' /\ events'[Len(events) + 1] = attach
      /\ \A k \in Places' : k \in Places \/ k = Len(events) + 1
  BY <1>1, <1>4 DEF Places
<1> HIDE DEF attach
<1>6. Removal' <=> Removal
  BY <1>3, <1>5 DEF Removal
<1>7. \A e \in Endpoints : (Told(e)' <=> Told(e)) /\ (Completed(e)' <=> Completed(e))
  BY <1>3, <1>5 DEF Told, Completed
<1>8. \A k \in Places' : Stands(k)' => k \in Places /\ Stands(k) /\ events'[k] = events[k]
  BY <1>2, <1>3, <1>5 DEF Stands
<1>11. TypeOK'
  BY <1>1, <1>5 DEF TypeOK, EventRecord
<1>12. RootEvents'
  <2>1. ASSUME NEW k \in Places', events'[k] = Root("attach") PROVE k = Len(events')
    BY <1>1, <1>5, <2>1 DEF RootEvents
  <2>2. ASSUME NEW k \in Places', events'[k] = Root("remove"), NEW l \in Places', k < l
        PROVE  events'[l].result \in {"error", "attach"}
    <3>1. k \in Places /\ events[k] = Root("remove")
      BY <1>3, <1>5, <2>2
    <3>2. CASE l = Len(events) + 1
      BY <1>3, <1>5, <3>2
    <3>3. CASE l \in Places
      BY <1>5, <2>2, <3>1, <3>3 DEF RootEvents
    <3> QED
      BY <1>5, <3>2, <3>3
  <2>3. pc' # "reset"
    BY <1>1 DEF RootEvents
  <2> QED
    BY <1>2, <2>1, <2>2, <2>3 DEF RootEvents
<1>13. Gone' /\ Shapes' /\ Transfers'
  BY <1>1, <1>2, <1>6, <1>7 DEF Gone, Shapes, Transfers
<1>16. Standing'
  <2>1. ASSUME NEW k \in Places', Stands(k)', NEW l \in Places', events'[l].ep = events'[k].ep
        PROVE  l = k
    <3>1. l \in Places /\ events'[l] = events[l]
      BY <1>3, <1>5, <2>1 DEF Stands
    <3> QED
      BY <1>8, <2>1, <3>1 DEF Standing
  <2> QED
    BY <1>1, <1>8, <2>1 DEF Standing
<1>17. Aborting'
  BY <1>1, <1>8 DEF Aborting
<1>18. Starting'
  BY <1>1, <1>2 DEF Starting, RootEvents
<1>20. InEvents'
  BY <1>1, <1>3, <1>5 DEF InEvents, Endpoints
<1>21. InSide' /\ OutSide' /\ Requesting'
  BY <1>2 DEF InSide, OutSide, Requesting
<1>22. Described'
  BY <1>1, <1>7 DEF Described, Endpoints
<1> QED
  BY <1>11, <1>12, <1>13, <1>16, <1>17, <1>18, <1>20, <1>21, <1>22, InvWhole

\* The frame that finds it gone: a removal, and an error for each transfer in the pool.
LEMMA DisconnectStep ==
  ASSUME IndInv, FrameDisconnect, UNCHANGED <<pc, stage, busy, slot, handed, sent>>
  PROVE  IndInv'
<1> USE InvParts
<1> DEFINE t == LostTransfers
           R == Reports(t)
           base == Append(events, Root("remove"))
           remove == Len(events) + 1
<1>1. /\ Running /\ root' = [connected |-> FALSE, suspended |-> TRUE]
      /\ ep' = Apply(t) /\ events' = base \o R /\ dev' = dev
  BY DEF FrameDisconnect
<1>2. /\ ~Running' /\ root' \in [connected : BOOLEAN, suspended : BOOLEAN]
      /\ pc # "reset" /\ \A k \in Places : events[k] \in EventRecord /\ Stands(k)
  BY <1>1, RunningFacts DEF Running
<1>3. /\ DOMAIN t = {e \in Endpoints : ep[e].open /\ ep[e].has}
      /\ \A e \in DOMAIN t : t[e] = Complete(ep[e], dev.side[e], "error")
  BY DEF LostTransfers
<1>4. ASSUME NEW e \in DOMAIN t
      PROVE  /\ t[e].ep \in EndpointRecord /\ t[e].result = "error" /\ ~t[e].ep.has
             /\ t[e].ep.dir = ep[e].dir /\ t[e].ep.setup = ep[e].setup
             /\ t[e].ep.aborted = ep[e].aborted
             /\ e \in Endpoints /\ ep[e].has
  <2>1. /\ ep[e] \in EndpointRecord /\ dev.side[e] \in Side /\ "error" \in Results
        /\ e \in Endpoints /\ ep[e].has
    BY <1>3 DEF TypeOK, Results
  <2> QED
    BY <1>3, <2>1, CompleteFields
<1>5. Lists(R, t, Endpoints \X Results)
  BY <1>4, ReportsListAll DEF EndpointRecord
<1> HIDE DEF t, R
<1>6. /\ R \in Seq(EventRecord)
      /\ \A j \in 1 .. Len(R) :
           R[j].ep \in DOMAIN t /\ R[j].result = "error" /\ R[j] \in EventRecord
      /\ \A e \in DOMAIN t : \E j \in 1 .. Len(R) : R[j].ep = e
  <2>1. \A j \in 1 .. Len(R) : R[j].ep \in DOMAIN t /\ R[j].result = t[R[j].ep].result
    BY <1>5 DEF Lists
  <2>2. R \in Seq(EventRecord)
    BY <1>5 DEF Lists
  <2>3. \A e \in DOMAIN t : <<e, t[e].result>> \in Endpoints \X Results
    BY <1>4 DEF Results
  <2>4. \A e \in DOMAIN t : \E j \in 1 .. Len(R) : R[j].ep = e
    BY <1>5, <2>3 DEF Lists
  <2>5. \A j \in 1 .. Len(R) : R[j] \in EventRecord
    BY <2>2
  <2>6. \A j \in 1 .. Len(R) : R[j].result = "error"
    BY <1>4, <2>1
  <2> QED
    BY <2>1, <2>2, <2>4, <2>5, <2>6
<1>7. events \in Seq(EventRecord \union {Root("attach"), Root("remove")}) /\ Len(events) \in Nat
  BY DEF TypeOK, EventRecord
<1>8. /\ base \in Seq(EventRecord \union {Root("attach"), Root("remove")}) /\ Len(base) = remove
      /\ \A k \in Places : base[k] = events[k] /\ k < remove
      /\ \A k \in 1 .. remove : k \in Places \/ k = remove
      /\ base[remove] = Root("remove")
  BY <1>7 DEF Places
<1> HIDE DEF base
<1>9. R \in Seq(EventRecord \union {Root("attach"), Root("remove")})
  BY <1>6
<1>10. /\ events' \in Seq(EventRecord \union {Root("attach"), Root("remove")})
       /\ \A k \in Places : k \in Places' /\ events'[k] = events[k] /\ k < remove
       /\ remove \in Places' /\ events'[remove] = Root("remove")
       /\ \A j \in 1 .. Len(R) : remove + j \in Places' /\ events'[remove + j] = R[j]
       /\ \A k \in Places' :
            k \in Places \/ k = remove \/ (remove < k /\ \E j \in 1 .. Len(R) : events'[k] = R[j])
  <2>1. /\ events' \in Seq(EventRecord \union {Root("attach"), Root("remove")})
        /\ Len(events') = Len(base) + Len(R) /\ Len(base) \in Nat /\ Len(R) \in Nat
        /\ \A k \in 1 .. Len(base) : k \in 1 .. Len(events') /\ events'[k] = base[k]
        /\ \A j \in 1 .. Len(R) :
             Len(base) + j \in 1 .. Len(events') /\ events'[Len(base) + j] = R[j]
        /\ \A k \in 1 .. Len(events') :
             k \in 1 .. Len(base) \/ (k - Len(base) \in 1 .. Len(R) /\ events'[k] = R[k - Len(base)])
    <3> DEFINE S == EventRecord \union {Root("attach"), Root("remove")}
    <3>1. events' = base \o R /\ base \in Seq(S) /\ R \in Seq(S)
      BY <1>1, <1>8, <1>9
    <3> HIDE DEF S
    <3>2. /\ events' \in Seq(S)
          /\ Len(events') = Len(base) + Len(R) /\ Len(base) \in Nat /\ Len(R) \in Nat
          /\ \A k \in 1 .. Len(base) : k \in 1 .. Len(events') /\ events'[k] = base[k]
          /\ \A j \in 1 .. Len(R) :
               Len(base) + j \in 1 .. Len(events') /\ events'[Len(base) + j] = R[j]
          /\ \A k \in 1 .. Len(events') :
               k \in 1 .. Len(base) \/ (k - Len(base) \in 1 .. Len(R) /\ events'[k] = R[k - Len(base)])
      BY <3>1, CatFacts
    <3> QED
      BY <3>2 DEF S
  <2>2. Len(base) = remove /\ remove \in Nat /\ remove \in 1 .. remove /\ \A k \in Places : k \in 1 .. remove
    BY <1>7, <1>8 DEF Places
  <2> HIDE DEF remove
  <2>3. ASSUME NEW k \in Places'
        PROVE  k \in Places \/ k = remove \/ (remove < k /\ \E j \in 1 .. Len(R) : events'[k] = R[j])
    <3>1. CASE k \in 1 .. remove
      BY <1>8, <3>1
    <3>2. CASE k - remove \in 1 .. Len(R) /\ events'[k] = R[k - remove]
      <4>1. k \in Int
        BY DEF Places
      <4> QED
        BY <2>2, <3>2, <4>1
    <3> QED
      BY <2>1, <2>2, <3>1, <3>2 DEF Places
  <2>4. \A k \in Places : k \in Places' /\ events'[k] = events[k] /\ k < remove
    BY <1>8, <2>1, <2>2 DEF Places
  <2>5. remove \in Places' /\ events'[remove] = Root("remove")
    BY <1>8, <2>1, <2>2 DEF Places
  <2>6. \A j \in 1 .. Len(R) : remove + j \in Places' /\ events'[remove + j] = R[j]
    BY <2>1, <2>2 DEF Places
  <2>7. events' \in Seq(EventRecord \union {Root("attach"), Root("remove")})
    BY <2>1
  <2> QED
    BY <2>3, <2>4, <2>5, <2>6, <2>7
<1> HIDE DEF remove
<1>11. ASSUME NEW k \in Places', k \notin Places, k # remove
       PROVE  /\ remove < k /\ events'[k].ep \in DOMAIN t /\ events'[k].result = "error"
              /\ events'[k] \in EventRecord
  <2>1. remove < k /\ \E j \in 1 .. Len(R) : events'[k] = R[j]
    BY <1>10, <1>11
  <2>2. PICK j \in 1 .. Len(R) : events'[k] = R[j]
    BY <2>1
  <2>3. R[j].ep \in DOMAIN t /\ R[j].result = "error" /\ R[j] \in EventRecord
    BY <1>6
  <2> QED
    BY <2>1, <2>2, <2>3
<1>12. Root("remove").ep \notin Endpoints /\ Root("remove").result = "remove"
  BY DEF Root, Endpoints
<1>13. \A e \in Endpoints : ep'[e] = IF e \in DOMAIN t THEN t[e].ep ELSE ep[e]
  BY <1>1 DEF Apply
<1>14. \A e \in Endpoints :
         (Told(e) => Told(e)') /\ (e \in DOMAIN t => Told(e)') /\ (Completed(e)' <=> Completed(e))
  <2>1. ASSUME NEW e \in Endpoints PROVE Told(e) => Told(e)'
    BY <1>10 DEF Told
  <2>2. ASSUME NEW e \in Endpoints, e \in DOMAIN t PROVE Told(e)'
    <3>1. PICK j \in 1 .. Len(R) : R[j].ep = e
      BY <1>6, <2>2
    <3>2. remove + j \in Places' /\ events'[remove + j].ep = e
      BY <1>10, <3>1
    <3> QED
      BY <3>2 DEF Told
  <2>3. ASSUME NEW e \in Endpoints PROVE Completed(e)' <=> Completed(e)
    BY <1>10, <1>11, <1>12 DEF Completed
  <2> QED
    BY <2>1, <2>2, <2>3
<1>15. \A k \in Places : events[k].ep \notin DOMAIN t
  BY <1>2, <1>4 DEF Standing
<1>16. \A k \in Places' : Stands(k)' => k \in Places /\ events'[k] = events[k]
  <2>1. ASSUME NEW k \in Places', Stands(k)', k \notin Places PROVE FALSE
    <3>1. events'[k].ep \in Endpoints
      BY <2>1 DEF Stands
    <3>2. k # remove
      BY <1>10, <1>12, <3>1
    <3>3. remove < k /\ events'[k].result = "error"
      BY <1>11, <2>1, <3>2
    <3>4. PICK l \in Places' : k < l /\ events'[l] = Root("remove")
      BY <1>2, <2>1, <3>3 DEF Stands
    <3>5. remove < l /\ l \notin Places /\ l # remove
      <4>1. k \in Int /\ l \in Int /\ remove \in Int
        BY <1>7, <2>1, <3>4 DEF Places, remove
      <4>2. remove < l
        BY <3>3, <3>4, <4>1
      <4> QED
        BY <1>10, <4>1, <4>2
    <3> QED
      BY <1>11, <1>12, <3>4, <3>5
  <2> QED
    BY <1>10, <2>1
<1>20. TypeOK'
  <2>1. ep' \in [Endpoints -> EndpointRecord]
    BY <1>1, <1>4, <1>13 DEF TypeOK, Apply
  <2> QED
    BY <1>1, <1>2, <1>10, <2>1 DEF TypeOK, EventRecord
<1>21. RootEvents'
  <2>1. ASSUME NEW k \in Places' PROVE events'[k] # Root("attach")
    <3>1. events'[k] \in EventRecord \/ events'[k] = Root("remove")
      BY <1>2, <1>10, <1>11
    <3>2. Root("attach") \notin EventRecord /\ Root("attach") # Root("remove")
      BY DEF Root, EventRecord, Endpoints
    <3> QED
      BY <3>1, <3>2
  <2>2. ASSUME NEW k \in Places', events'[k] = Root("remove") PROVE k = remove
    BY <1>2, <1>10, <1>11, <1>12, <2>2 DEF EventRecord
  <2>3. ASSUME NEW l \in Places', remove < l PROVE events'[l].result = "error"
    <3>1. l \notin Places /\ l # remove
      <4>1. l \in Int /\ remove \in Int
        BY <1>7, <2>3 DEF Places, remove
      <4> QED
        BY <1>10, <2>3, <4>1
    <3> QED
      BY <1>11, <3>1
  <2> QED
    BY <1>2, <2>1, <2>2, <2>3 DEF RootEvents
<1>22. Gone'
  BY <1>10 DEF Gone, Removal
<1>23. Shapes'
  BY <1>4, <1>13 DEF Shapes, Endpoints, Closed
<1>24. Transfers'
  BY <1>4, <1>13, <1>14 DEF Transfers
<1>25. Standing'
  <2>1. ASSUME NEW k \in Places', Stands(k)'
        PROVE  /\ events'[k].ep \in busy' /\ ~ep'[events'[k].ep].has
               /\ \A l \in Places' : events'[l].ep = events'[k].ep => l = k
    <3>1. /\ k \in Places /\ events'[k] = events[k] /\ events[k].ep \in Endpoints
          /\ events[k].ep \notin DOMAIN t
          /\ events[k].ep \in busy /\ ~ep[events[k].ep].has
          /\ \A l \in Places : events[l].ep = events[k].ep => l = k
      BY <1>2, <1>15, <1>16, <2>1 DEF Standing, EventRecord
    <3>2. ASSUME NEW l \in Places', events'[l].ep = events'[k].ep PROVE l = k
      BY <1>10, <1>11, <1>12, <3>1, <3>2
    <3> QED
      BY <1>13, <3>1, <3>2
  <2> QED
    BY <2>1 DEF Standing
<1>26. Aborting'
  <2>1. pc \in {"marked", "clear"} => ep'["in"].aborted
    BY <1>4, <1>13 DEF Aborting, Endpoints
  <2>2. pc = "clear" => \A k \in Places' : events'[k].ep = "in" => ~Stands(k)'
    BY <1>2, <1>16 DEF Aborting
  <2> QED
    BY <2>1, <2>2 DEF Aborting
<1>27. Starting' /\ InSide' /\ OutSide' /\ Requesting'
  BY <1>2 DEF Starting, InSide, OutSide, Requesting
<1>28. InEvents'
  <2>1. ASSUME NEW k \in Places', events'[k].ep = "in", events'[k].result = "complete"
        PROVE  ep'["in"].buf = IF events'[k].again THEN handed' ELSE After(handed)'
    <3>1. k \in Places /\ events'[k] = events[k]
      BY <1>10, <1>11, <1>12, <2>1 DEF Endpoints
    <3>2. ep'["in"] = ep["in"]
      BY <1>13, <1>15, <2>1, <3>1 DEF Endpoints
    <3> QED
      BY <2>1, <3>1, <3>2 DEF InEvents, After
  <2> QED
    BY <2>1 DEF InEvents
<1>29. Described'
  <2>1. Completed("control") => "control" \notin DOMAIN t
    BY <1>15 DEF Completed
  <2> QED
    BY <1>13, <1>14, <2>1 DEF Described, Endpoints
<1> QED
  BY <1>20, <1>21, <1>22, <1>23, <1>24, <1>25, <1>26, <1>27, <1>28, <1>29, InvWhole

\* A transaction, of any of the three kinds, on an endpoint of the pool.
LEMMA TransactionFacts ==
  ASSUME TypeOK, NEW e \in Endpoints, ep[e].has, ep[e].left > 0, NEW w \in Ways
  PROVE  Transacted(ep[e], Transaction(e, w))
<1>1. ep[e] \in EndpointRecord /\ dev.side[e] \in Side
  BY DEF TypeOK
<1>2. CASE ep[e].setup
  <2>1. Transaction(e, w) = SetupTransaction(ep[e], dev.side[e], w)
    BY <1>2 DEF Transaction
  <2> QED
    BY <1>1, <2>1, SetupFields
<1>3. CASE ~ep[e].setup /\ ep[e].dir = "in"
  <2>1. Transaction(e, w) = InTransaction(e, ep[e], dev.side[e], w)
    BY <1>3 DEF Transaction
  <2> QED
    BY <1>1, <2>1, InCases
<1>4. CASE ~ep[e].setup /\ ep[e].dir # "in"
  <2>1. Transaction(e, w) = OutTransaction(e, ep[e], dev.side[e], w)
    BY <1>4 DEF Transaction
  <2> QED
    BY <1>1, <2>1, OutCases
<1> QED
  BY <1>2, <1>3, <1>4

\* What a frame of transactions does to every endpoint and to the queue.
LEMMA FrameFacts ==
  ASSUME IndInv, NEW way \in [Active -> Ways], FrameTransactions(way),
         NEW t, t = [e \in Active |-> Transaction(e, way[e])]
  PROVE  /\ Running /\ dev.plugged /\ root' = root
         /\ ep' \in [Endpoints -> EndpointRecord]
         /\ dev' \in [plugged : BOOLEAN, side : [Endpoints -> Side]]
         /\ \A e \in Active :
              /\ e \in Endpoints /\ way[e] \in Ways /\ t[e] = Transaction(e, way[e])
              /\ ep[e].open /\ ep[e].has /\ ~ep[e].aborted /\ ep[e].left > 0
              /\ Transacted(ep[e], t[e])
              /\ ep'[e] = t[e].ep /\ dev'.side[e] = t[e].side
         /\ \A e \in Endpoints \ Active : ep'[e] = ep[e] /\ dev'.side[e] = dev.side[e]
         /\ events' = events \o Reports(t) /\ DOMAIN t = Active
<1> USE InvParts
<1>1. /\ Running /\ dev.plugged /\ root' = root
      /\ ep' = Apply(t) /\ events' = events \o Reports(t)
      /\ dev' = [dev EXCEPT !.side =
                   [e \in Endpoints |-> IF e \in Active THEN t[e].side ELSE dev.side[e]]]
  BY DEF FrameTransactions
<1>2. DOMAIN t = Active
  OBVIOUS
<1>3. ASSUME NEW e \in Active
      PROVE  /\ e \in Endpoints /\ way[e] \in Ways /\ t[e] = Transaction(e, way[e])
             /\ ep[e].open /\ ep[e].has /\ ~ep[e].aborted /\ ep[e].left > 0
             /\ Transacted(ep[e], t[e])
  <2>1. e \in Endpoints /\ ep[e].open /\ ep[e].has /\ ~ep[e].aborted
    BY <1>3 DEF Active
  <2>2. way[e] \in Ways /\ t[e] = Transaction(e, way[e]) /\ ep[e].left > 0
    BY <2>1 DEF Shapes
  <2> QED
    BY <2>1, <2>2, TransactionFacts
<1>4. \A e \in Active : t[e].ep \in EndpointRecord /\ t[e].side \in Side
  BY <1>3 DEF Transacted
<1>5. /\ ep' \in [Endpoints -> EndpointRecord]
      /\ \A e \in Endpoints : ep'[e] = IF e \in Active THEN t[e].ep ELSE ep[e]
  BY <1>1, <1>2, <1>4 DEF Apply, TypeOK
<1> DEFINE sides == [e \in Endpoints |-> IF e \in Active THEN t[e].side ELSE dev.side[e]]
<1>6. sides \in [Endpoints -> Side] /\ dev' = [dev EXCEPT !.side = sides]
  BY <1>1, <1>4 DEF TypeOK
<1>7. \A e \in Endpoints : sides[e] = IF e \in Active THEN t[e].side ELSE dev.side[e]
  OBVIOUS
<1> HIDE DEF sides
<1>8. dev' \in [plugged : BOOLEAN, side : [Endpoints -> Side]] /\ dev'.side = sides
  BY <1>6 DEF TypeOK
<1> QED
  BY <1>1, <1>2, <1>3, <1>5, <1>7, <1>8

\* What the events of a frame say.
LEMMA FrameEvents ==
  ASSUME IndInv, NEW way \in [Active -> Ways], FrameTransactions(way),
         NEW t, t = [e \in Active |-> Transaction(e, way[e])]
  PROVE  /\ events' \in Seq(EventRecord \union {Root("attach"), Root("remove")})
         /\ \A k \in Places' : events'[k] \in EventRecord
         /\ \A k \in Places' : events'[k].ep \in Active =>
              /\ events'[k].result = t[events'[k].ep].result
              /\ events'[k].again = t[events'[k].ep].ep.again
         /\ \A k \in Places' : events'[k].ep \notin Active => k \in Places /\ events'[k] = events[k]
         /\ \A k \in Places : k \in Places' /\ events'[k] = events[k] /\ events[k].ep \notin Active
         /\ \A k, l \in Places' : events'[k].ep = events'[l].ep => k = l
         /\ \A e \in Active : /\ ~Told(e) /\ ~Completed(e)
                              /\ Told(e)' <=> t[e].result # "pending"
                              /\ Completed(e)' <=> t[e].result = "complete"
         /\ \A e \in Endpoints \ Active : (Told(e)' <=> Told(e)) /\ (Completed(e)' <=> Completed(e))
<1> USE InvParts
<1> DEFINE R == Reports(t)
           S == EventRecord \union {Root("attach"), Root("remove")}
<1>1. \A e \in Active : /\ e \in Endpoints /\ ep[e].has /\ t[e].ep.again \in BOOLEAN
                        /\ t[e].result \in Results \union {"pending"}
  BY FrameFacts DEF Transacted, EndpointRecord
<1>2. DOMAIN t = Active /\ Lists(R, t, Endpoints \X Results) /\ events' = events \o R
  <2>1. DOMAIN t = Active /\ events' = events \o R
    BY FrameFacts
  <2> QED
    BY <1>1, <2>1, ReportsListAll
<1> HIDE DEF R
<1>3. /\ R \in Seq(EventRecord)
      /\ \A j \in 1 .. Len(R) : /\ R[j] \in EventRecord /\ R[j].ep \in Active
                                /\ R[j].result = t[R[j].ep].result
                                /\ R[j].again = t[R[j].ep].ep.again
      /\ \A j, k \in 1 .. Len(R) : R[j].ep = R[k].ep => j = k
      /\ \A e \in Active : t[e].result # "pending" => \E j \in 1 .. Len(R) : R[j].ep = e
  <2>1. R \in Seq(EventRecord)
    BY <1>2 DEF Lists
  <2>2. \A j \in 1 .. Len(R) : R[j] \in EventRecord
    BY <2>1
  <2>3. \A e \in Active : t[e].result # "pending" => <<e, t[e].result>> \in Endpoints \X Results
    BY <1>1
  <2>4. \A e \in Active : t[e].result # "pending" => \E j \in 1 .. Len(R) : R[j].ep = e
    BY <1>2, <2>3 DEF Lists
  <2>5. \A j \in 1 .. Len(R) : /\ R[j].ep \in Active
                               /\ R[j].result = t[R[j].ep].result
                               /\ R[j].again = t[R[j].ep].ep.again
    BY <1>2 DEF Lists
  <2>6. \A j, k \in 1 .. Len(R) : R[j].ep = R[k].ep => j = k
    BY <1>2 DEF Lists
  <2> QED
    BY <2>1, <2>2, <2>4, <2>5, <2>6
<1>4. events \in Seq(S) /\ R \in Seq(S)
  <2>1. events \in Seq(S)
    BY DEF TypeOK, EventRecord
  <2>2. R \in Seq(S)
    BY <1>3
  <2> QED
    BY <2>1, <2>2
<1>5. /\ events' \in Seq(S)
      /\ Len(events') = Len(events) + Len(R) /\ Len(events) \in Nat /\ Len(R) \in Nat
      /\ \A k \in 1 .. Len(events) : k \in 1 .. Len(events') /\ events'[k] = events[k]
      /\ \A j \in 1 .. Len(R) :
           Len(events) + j \in 1 .. Len(events') /\ events'[Len(events) + j] = R[j]
      /\ \A k \in 1 .. Len(events') :
           k \in 1 .. Len(events) \/ (k - Len(events) \in 1 .. Len(R) /\ events'[k] = R[k - Len(events)])
  <2> HIDE DEF S
  <2> QED
    BY <1>2, <1>4, CatFacts
<1>6. \A k \in Places : /\ events[k] \in EventRecord /\ events[k].ep \notin Active
                        /\ \A l \in Places : events[l].ep = events[k].ep => l = k
  <2>1. \A k \in Places : events[k] \in EventRecord /\ Stands(k)
    BY FrameFacts, RunningFacts
  <2> QED
    BY <1>1, <2>1 DEF Standing
<1>7. \A k \in Places : k \in Places' /\ events'[k] = events[k]
  BY <1>5 DEF Places
<1>8. \A j \in 1 .. Len(R) : Len(events) + j \in Places' /\ events'[Len(events) + j] = R[j]
  BY <1>5 DEF Places
<1>9. \A k \in Places' :
        k \in Int /\ (k \in Places \/ (k - Len(events) \in 1 .. Len(R) /\ events'[k] = R[k - Len(events)]))
  BY <1>5 DEF Places
<1>10. ASSUME NEW k \in Places'
       PROVE  /\ events'[k] \in EventRecord
              /\ events'[k].ep \in Active =>
                   /\ events'[k].result = t[events'[k].ep].result
                   /\ events'[k].again = t[events'[k].ep].ep.again
              /\ events'[k].ep \notin Active => k \in Places /\ events'[k] = events[k]
  BY <1>3, <1>6, <1>7, <1>9
<1>11. ASSUME NEW k \in Places', NEW l \in Places', events'[k].ep = events'[l].ep PROVE k = l
  <2>1. CASE events'[k].ep \notin Active
    BY <1>6, <1>10, <1>11, <2>1
  <2>2. CASE events'[k].ep \in Active
    <3>1. k \notin Places /\ l \notin Places
      BY <1>6, <1>7, <1>11, <2>2
    <3>2. k - Len(events) = l - Len(events)
      BY <1>3, <1>9, <1>11, <3>1
    <3> QED
      BY <1>5, <1>9, <3>2
  <2> QED
    BY <2>1, <2>2
<1>12. ASSUME NEW e \in Active
       PROVE  /\ ~Told(e) /\ ~Completed(e)
              /\ Told(e)' <=> t[e].result # "pending"
              /\ Completed(e)' <=> t[e].result = "complete"
  <2>1. ~Told(e) /\ ~Completed(e)
    BY <1>6 DEF Told, Completed
  <2>2. t[e].result # "pending" =>
          \E k \in Places' : events'[k].ep = e /\ events'[k].result = t[e].result
    <3>1. ASSUME t[e].result # "pending"
          PROVE  \E k \in Places' : events'[k].ep = e /\ events'[k].result = t[e].result
      <4>1. PICK j \in 1 .. Len(R) : R[j].ep = e
        BY <1>3, <3>1
      <4>2. /\ Len(events) + j \in Places' /\ events'[Len(events) + j] = R[j]
            /\ R[j].result = t[e].result
        BY <1>3, <1>8, <4>1
      <4> QED
        BY <4>1, <4>2
    <3> QED
      BY <3>1
  <2>3. \A k \in Places' :
          events'[k].ep = e => events'[k].result = t[e].result /\ t[e].result \in Results
    BY <1>10 DEF EventRecord
  <2> QED
    BY <2>1, <2>2, <2>3 DEF Told, Completed, Results
<1>13. ASSUME NEW e \in Endpoints \ Active
       PROVE  (Told(e)' <=> Told(e)) /\ (Completed(e)' <=> Completed(e))
  BY <1>7, <1>10 DEF Told, Completed
<1> QED
  BY <1>5, <1>6, <1>7, <1>10, <1>11, <1>12, <1>13

\* The frame that runs a transaction for every transfer in the pool.
LEMMA TransactionsStep ==
  ASSUME IndInv, NEW way \in [Active -> Ways], FrameTransactions(way),
         UNCHANGED <<pc, stage, busy, slot, handed, sent>>
  PROVE  IndInv'
<1> USE InvParts
<1> DEFINE t == [e \in Active |-> Transaction(e, way[e])]
<1>0. t = [e \in Active |-> Transaction(e, way[e])]
  OBVIOUS
<1> HIDE DEF t
<1>1. /\ Running /\ dev.plugged /\ root' = root
      /\ ep' \in [Endpoints -> EndpointRecord]
      /\ dev' \in [plugged : BOOLEAN, side : [Endpoints -> Side]]
      /\ \A e \in Active :
           /\ e \in Endpoints /\ way[e] \in Ways /\ t[e] = Transaction(e, way[e])
           /\ ep[e].open /\ ep[e].has /\ ~ep[e].aborted /\ ep[e].left > 0
           /\ Transacted(ep[e], t[e])
           /\ ep'[e] = t[e].ep /\ dev'.side[e] = t[e].side
      /\ \A e \in Endpoints \ Active : ep'[e] = ep[e] /\ dev'.side[e] = dev.side[e]
  BY <1>0, FrameFacts
<1>2. /\ events' \in Seq(EventRecord \union {Root("attach"), Root("remove")})
      /\ \A k \in Places' : events'[k] \in EventRecord
      /\ \A k \in Places' : events'[k].ep \in Active =>
           /\ events'[k].result = t[events'[k].ep].result
           /\ events'[k].again = t[events'[k].ep].ep.again
      /\ \A k \in Places' : events'[k].ep \notin Active => k \in Places /\ events'[k] = events[k]
      /\ \A k \in Places : k \in Places' /\ events'[k] = events[k] /\ events[k].ep \notin Active
      /\ \A k, l \in Places' : events'[k].ep = events'[l].ep => k = l
      /\ \A e \in Active : /\ ~Told(e) /\ ~Completed(e)
                           /\ Told(e)' <=> t[e].result # "pending"
                           /\ Completed(e)' <=> t[e].result = "complete"
      /\ \A e \in Endpoints \ Active : (Told(e)' <=> Told(e)) /\ (Completed(e)' <=> Completed(e))
  BY <1>0, FrameEvents
<1>3. /\ Running' /\ ~Removal' /\ pc # "reset"
      /\ \A k \in Places' : events'[k] # Root("remove") /\ events'[k] # Root("attach")
  <2>1. Root("attach") \notin EventRecord /\ Root("remove") \notin EventRecord
    BY DEF Root, EventRecord, Endpoints
  <2> QED
    BY <1>1, <1>2, <2>1, RunningFacts DEF Running, Removal
<1>4. \A e \in Endpoints : ep[e] \in EndpointRecord /\ dev.side[e] \in Side
  BY DEF TypeOK
<1>5. \A e \in {"in", "out"} : ep[e] = Closed => e \notin Active
  BY <1>1 DEF Closed
<1>6. ASSUME "in" \in Active
      PROVE  /\ slot.mounted /\ ep["in"].left = 1 /\ ~ep["in"].setup
             /\ t["in"] = InTransaction("in", ep["in"], dev.side["in"], way["in"])
             /\ ~t["in"].ep.setup
             /\ t["in"].result = "pending" =>
                  /\ t["in"].ep.left = 1 /\ t["in"].ep.buf = ep["in"].buf
                  /\ t["in"].side = dev.side["in"]
             /\ t["in"].result # "pending" =>
                  \/ /\ t["in"].result = "complete"
                     /\ t["in"].ep.buf = dev.side["in"].number
                     /\ t["in"].ep.again = dev.side["in"].unacked
                     /\ t["in"].side.number = IF t["in"].side.unacked THEN dev.side["in"].number
                                                 ELSE After(dev.side["in"].number)
                  \/ t["in"].result = "stalled" /\ t["in"].side = dev.side["in"]
  <2>1. slot.mounted /\ ep["in"].left = 1 /\ ~ep["in"].setup /\ ep["in"].dir = "in"
    BY <1>1, <1>5, <1>6 DEF Shapes
  <2>2. t["in"] = InTransaction("in", ep["in"], dev.side["in"], way["in"])
    BY <1>1, <1>6, <2>1 DEF Transaction
  <2> DEFINE p == ep["in"]
             d == dev.side["in"]
             u == InTransaction("in", p, d, way["in"])
  <2>3. /\ Transacted(p, u)
        /\ u.ep.setup = p.setup
        /\ \/ /\ Accepts("in", p, d)
              /\ u.result = IF p.left = 1 THEN "complete" ELSE "pending"
              /\ u.ep.buf = d.number /\ u.ep.again = d.unacked
              /\ u.side.number = IF u.side.unacked THEN d.number ELSE After(d.number)
           \/ ~Accepts("in", p, d)
           \/ /\ u.result \in {"pending", "stalled"} /\ u.side = d
              /\ u.result = "pending" => u.ep.buf = p.buf /\ u.ep.left = p.left
    BY <1>1, <1>4, <1>6, InCases DEF Endpoints
  <2>4. Accepts("in", p, d)
    BY DEF Accepts
  <2> HIDE DEF u
  <2> QED
    BY <2>1, <2>2, <2>3, <2>4 DEF u
<1>7. ASSUME "out" \in Active
      PROVE  /\ slot.mounted /\ ep["out"].left = 1
             /\ LET p == ep["out"]  d == dev.side["out"]  u == t["out"] IN
                /\ ~u.ep.setup /\ u.ep.buf = p.buf
                /\ \/ /\ u.side = Taken("out", p, d) /\ u.ep.toggle = 1 - p.toggle
                      /\ u.ep.spoiled = p.spoiled
                      /\ u.result = "complete"
                   \/ /\ u.result = "pending"
                      /\ u.side \in {d, Taken("out", p, d)} /\ u.ep.toggle = p.toggle
                      /\ u.ep.spoiled = p.spoiled
                      /\ u.ep.left = p.left
                   \/ u.result \in {"stalled", "error"} /\ u.ep.spoiled
  <2>1. slot.mounted /\ ep["out"].left = 1 /\ ~ep["out"].setup /\ ep["out"].dir = "out"
    BY <1>1, <1>5, <1>7 DEF Shapes
  <2>2. t["out"] = OutTransaction("out", ep["out"], dev.side["out"], way["out"])
    BY <1>1, <1>7, <2>1 DEF Transaction
  <2> QED
    BY <1>1, <1>4, <1>7, <2>1, <2>2, OutCases DEF Endpoints
<1>11. TypeOK'
  BY <1>1, <1>2 DEF TypeOK, EventRecord
<1>12. RootEvents'
  BY <1>3 DEF RootEvents
<1>13. Gone'
  BY <1>3 DEF Gone
<1>14. Shapes'
  <2>1. \A e \in Endpoints : ep'[e].has => ep'[e].left > 0
    BY <1>1 DEF Transacted, Shapes
  <2>2. /\ ~ep'["in"].setup
        /\ ep'["in"].has => ep'["in"].left = 1
        /\ slot.mounted => ep'["in"].dir = "in"
    BY <1>1, <1>6 DEF Transacted, Shapes, Endpoints
  <2>3. ~ep'["out"].setup /\ (ep'["out"].has => ep'["out"].left = 1) /\ ep'["out"].dir = "out"
    BY <1>1, <1>7 DEF Transacted, Shapes, Endpoints
  <2>4. ~slot.mounted => ep'["in"] = Closed /\ ep'["out"] = Closed
    BY <1>1, <1>6, <1>7 DEF Shapes, Endpoints
  <2> QED
    BY <2>1, <2>2, <2>3, <2>4 DEF Shapes
<1>15. Transfers'
  BY <1>1, <1>2 DEF Transfers, Transacted
<1>16. Standing'
  <2>1. ASSUME NEW k \in Places' PROVE events'[k].ep \in busy /\ ~ep'[events'[k].ep].has
    <3>1. CASE events'[k].ep \in Active
      <4>1. events'[k].result \in Results /\ "pending" \notin Results
        BY <1>2 DEF EventRecord, Results
      <4> QED
        BY <1>1, <1>2, <3>1, <4>1 DEF Transacted, Transfers
    <3>2. CASE events'[k].ep \notin Active
      <4>1. k \in Places /\ events'[k] = events[k] /\ Stands(k) /\ events[k].ep \in Endpoints
        BY <1>1, <1>2, <3>2, RunningFacts DEF Stands
      <4> QED
        BY <1>1, <3>2, <4>1 DEF Standing
    <3> QED
      BY <3>1, <3>2
  <2> QED
    BY <1>2, <2>1 DEF Standing
<1>17. Aborting'
  <2>1. pc \in {"marked", "clear"} => "in" \notin Active
    BY <1>1 DEF Aborting
  <2>2. pc = "clear" => \A k \in Places' : events'[k].ep = "in" => FALSE
    <3>1. ASSUME pc = "clear", NEW k \in Places', events'[k].ep = "in" PROVE FALSE
      BY <1>1, <1>2, <2>1, <3>1, RunningFacts DEF Aborting
    <3> QED
      BY <3>1
  <2> QED
    BY <1>1, <2>1, <2>2 DEF Aborting, Endpoints
<1>18. Starting'
  BY <1>1, <1>3, <1>6, <1>7 DEF Starting, Endpoints
<1>19. dev.side["in"].unacked \in BOOLEAN /\ dev.side["in"].number \in 0 .. Numbers - 1
  BY <1>4 DEF Side, Endpoints
<1>20. InEvents'
  <2>1. ASSUME NEW k \in Places', events'[k].ep = "in", events'[k].result = "complete"
        PROVE  ep'["in"].buf = IF events'[k].again THEN handed ELSE After(handed)
    <3>1. CASE "in" \in Active
      <4>1. t["in"].result = "complete" /\ events'[k].again = t["in"].ep.again
        BY <1>2, <2>1, <3>1
      <4>2. t["in"].ep.buf = dev.side["in"].number /\ t["in"].ep.again = dev.side["in"].unacked
        BY <1>6, <3>1, <4>1
      <4>3. dev.side["in"].number = IF dev.side["in"].unacked THEN handed ELSE After(handed)
        BY <1>1, <1>2, <1>6, <3>1 DEF InSide, Got
      <4> QED
        BY <1>1, <3>1, <4>1, <4>2, <4>3
    <3>2. CASE "in" \notin Active
      BY <1>1, <1>2, <2>1, <3>2 DEF InEvents, Endpoints
    <3> QED
      BY <3>1, <3>2
  <2> QED
    BY <2>1 DEF InEvents, After
<1>21. InSide'
  <2>1. CASE "in" \in Active
    <3>1. /\ slot.mounted
          /\ dev.side["in"].number = IF dev.side["in"].unacked THEN handed ELSE After(handed)
      BY <1>1, <1>2, <1>6, <2>1 DEF InSide, Got
    <3>2. /\ ep'["in"] = t["in"].ep /\ dev'.side["in"] = t["in"].side
          /\ Completed("in")' <=> t["in"].result = "complete"
      BY <1>1, <1>2, <2>1
    <3>3. CASE t["in"].result = "complete"
      BY <1>6, <2>1, <3>1, <3>2, <3>3 DEF InSide, Got, After
    <3>4. CASE t["in"].result # "complete"
      BY <1>6, <2>1, <3>1, <3>2, <3>4 DEF InSide, Got, After
    <3> QED
      BY <3>3, <3>4
  <2>2. CASE "in" \notin Active
    BY <1>1, <1>2, <2>2 DEF InSide, Got, After, Endpoints
  <2> QED
    BY <2>1, <2>2
<1>22. OutSide'
  <2>1. CASE "out" \in Active
    <3> DEFINE p == ep["out"]
               d == dev.side["out"]
               u == t["out"]
    <3>1. p \in EndpointRecord /\ d \in Side /\ p.toggle \in {0, 1} /\ d.toggle \in {0, 1} /\ p.has
      BY <1>1, <1>4, <2>1 DEF EndpointRecord, Side, Endpoints
    <3>2. Running /\ dev.plugged /\ slot.mounted
      BY <1>1, <1>7, <2>1
    <3>3. ~p.spoiled => d.toggle = p.toggle \/ d.number = p.buf
      BY <3>2 DEF OutSide
    <3>4. Taken("out", p, d) =
            IF p.toggle = d.toggle THEN [d EXCEPT !.toggle = 1 - d.toggle, !.number = p.buf] ELSE d
      BY DEF Taken
    <3>5. /\ Taken("out", p, d).toggle = 1 - p.toggle
          /\ ~p.spoiled => Taken("out", p, d).number = p.buf
      <4>1. CASE p.toggle = d.toggle
        <5>1. Taken("out", p, d) = [d EXCEPT !.toggle = 1 - d.toggle, !.number = p.buf]
          BY <3>4, <4>1
        <5>2. [d EXCEPT !.toggle = 1 - d.toggle, !.number = p.buf].toggle = 1 - d.toggle
          BY <3>1 DEF Side
        <5>3. [d EXCEPT !.toggle = 1 - d.toggle, !.number = p.buf].number = p.buf
          BY <3>1 DEF Side
        <5> QED
          BY <4>1, <5>1, <5>2, <5>3
      <4>2. CASE p.toggle # d.toggle
        <5>1. Taken("out", p, d) = d /\ d.toggle = 1 - p.toggle
          BY <3>1, <3>4, <4>2
        <5> QED
          BY <3>3, <4>2, <5>1
      <4> QED
        BY <4>1, <4>2
    <3>6. /\ ep'["out"] = u.ep /\ dev'.side["out"] = u.side
          /\ Completed("out")' <=> u.result = "complete"
          /\ (u.result = "pending" => u.ep.has)
      BY <1>1, <1>2, <2>1 DEF Transacted
    <3> HIDE DEF p, d, u
    <3>7. CASE /\ u.side = Taken("out", p, d) /\ u.ep.toggle = 1 - p.toggle
               /\ u.ep.spoiled = p.spoiled
               /\ u.result = "complete" /\ u.ep.buf = p.buf
      BY <3>5, <3>6, <3>7 DEF OutSide
    <3>8. CASE /\ u.result = "pending" /\ u.ep.buf = p.buf
               /\ u.side \in {d, Taken("out", p, d)} /\ u.ep.toggle = p.toggle
               /\ u.ep.spoiled = p.spoiled
      BY <3>3, <3>5, <3>6, <3>8 DEF OutSide
    <3>9. CASE u.ep.spoiled
      BY <3>6, <3>9 DEF OutSide
    <3> QED
      BY <1>7, <2>1, <3>7, <3>8, <3>9 DEF p, d, u
  <2>2. CASE "out" \notin Active
    BY <1>1, <1>2, <2>2 DEF OutSide, Endpoints
  <2> QED
    BY <2>1, <2>2
<1>23. Requesting' /\ Described'
  <2>1. CASE "control" \notin Active
    BY <1>1, <1>2, <2>1 DEF Requesting, Described, Endpoints
  <2>2. CASE "control" \in Active
    <3> DEFINE p == ep["control"]
               d == dev.side["control"]
               u == t["control"]
    <3>1. p \in EndpointRecord /\ d \in Side /\ p.has /\ p.left > 0 /\ way["control"] \in Ways
      BY <1>1, <1>4, <2>2
    <3>2. /\ ep'["control"] = u.ep /\ dev'.side["control"] = u.side
          /\ Completed("control")' <=> u.result = "complete"
          /\ u.ep.has => u.result = "pending"
          /\ u = Transaction("control", way["control"])
      BY <1>1, <1>2, <2>2 DEF Transacted
    <3> HIDE DEF u
    <3>3. CASE stage = "setup"
      <4>1. p.setup
        BY <1>1, <2>2, <3>3 DEF Requesting
      <4>2. u = SetupTransaction(p, d, way["control"])
        BY <3>2, <4>1 DEF Transaction
      <4>3. /\ u.result = "pending" => u.ep.setup
            /\ u.result = "complete" => u.side.toggle = 1 /\ u.side.number = 0
        BY <3>1, <4>1, <4>2, SetupFields
      <4> QED
        BY <3>2, <3>3, <4>3 DEF Requesting, Described
    <3>4. CASE stage = "data"
      <4>1. Reading(p, d)
        BY <1>1, <2>2, <3>4 DEF Requesting
      <4>2. u = InTransaction("control", p, d, way["control"])
        BY <3>2, <4>1 DEF Transaction, Reading
      <4>3. /\ u.result = "pending" => Reading(u.ep, u.side)
            /\ u.result = "complete" => u.ep.buf = 1
        BY <3>1, <4>1, <4>2, ReadingStep
      <4> QED
        BY <3>2, <3>4, <4>3 DEF Requesting, Described
    <3>5. CASE stage \notin {"setup", "data"}
      BY <3>5 DEF Requesting, Described
    <3> QED
      BY <3>3, <3>4, <3>5
  <2> QED
    BY <2>1, <2>2
<1> QED
  BY <1>11, <1>12, <1>13, <1>14, <1>15, <1>16, <1>17, <1>18, <1>20, <1>21, <1>22, <1>23, InvWhole

(***************************************************************************)
(* The theorems about the host side.                                       *)
(***************************************************************************)

\* The invariant holds initially.
LEMMA InitInv == Init => IndInv
<1> SUFFICES ASSUME Init PROVE IndInv
  OBVIOUS
<1>1. /\ root = [connected |-> FALSE, suspended |-> FALSE]
      /\ ep = [e \in Endpoints |-> Closed] /\ events = << >>
      /\ dev = [plugged |-> FALSE, side |-> [e \in Endpoints |-> Fresh]]
      /\ pc = "task" /\ stage = "none" /\ busy = {} /\ slot = Empty /\ handed = 0 /\ sent = 0
  BY DEF Init, PioInit
<1>2. Places = {} /\ ~Running
  BY <1>1 DEF Places, Running
<1>3. TypeOK
  <2>1. 0 \in 0 .. Numbers - 1 /\ Empty \in Slot
    BY NumbersAssumption DEF Empty, Slot, Ages
  <2>2. /\ ep \in [Endpoints -> EndpointRecord]
        /\ dev \in [plugged : BOOLEAN, side : [Endpoints -> Side]]
    BY <1>1, ClosedType, FreshType
  <2> QED
    BY <1>1, <2>1, <2>2 DEF TypeOK
<1>4. RootEvents /\ Gone
  BY <1>1, <1>2 DEF RootEvents, Gone, AllClosed
<1>5. Shapes
  BY <1>1 DEF Shapes, Closed, Empty, Endpoints
<1>6. Transfers /\ Standing /\ Aborting
  BY <1>1, <1>2 DEF Transfers, Standing, Aborting, Closed
<1>7. Starting /\ InEvents /\ InSide /\ OutSide /\ Requesting /\ Described
  BY <1>1, <1>2 DEF Starting, InEvents, InSide, OutSide, Requesting, Described, Empty
<1> QED
  BY <1>3, <1>4, <1>5, <1>6, <1>7 DEF IndInv

\* Every step keeps it.
LEMMA NextInv == IndInv /\ [Next]_vars => IndInv'
<1> SUFFICES ASSUME IndInv, [Next]_vars PROVE IndInv'
  OBVIOUS
<1>1. CASE Attach
  BY <1>1, AttachStep
<1>2. CASE Enumerate
  BY <1>2, EnumerateStep
<1>3. CASE Remove
  BY <1>3, RemoveStep
<1>4. CASE ControlOver
  BY <1>4, ControlOverStep
<1>5. CASE Mount
  BY <1>5, MountStep
<1>6. CASE Receive
  BY <1>6, ReceiveStep
<1>7. CASE Idle
  BY <1>7, IdleStep
<1>8. CASE Stale
  BY <1>8, StaleStep
<1>9. CASE TaskDone \/ NotDue
  BY <1>9, TurnStep
<1>10. CASE Rearm
  BY <1>10, RearmStep
<1>11. CASE Abort \/ AbortCheck \/ Clear
  BY <1>11, AbortStep
<1>12. CASE Send
  BY <1>12, SendStep
<1>13. CASE Interrupt
  <2>1. UNCHANGED <<pc, stage, busy, slot, handed, sent>>
    BY <1>13 DEF Interrupt
  <2>2. CASE FrameDisconnect
    BY <2>1, <2>2, DisconnectStep
  <2>3. CASE FrameConnect
    BY <2>1, <2>3, ConnectStep
  <2>4. CASE \E way \in [Active -> Ways] : FrameTransactions(way)
    BY <2>1, <2>4, TransactionsStep
  <2> QED
    BY <1>13, <2>2, <2>3, <2>4 DEF Interrupt, Frame
<1>14. CASE Plug \/ Unplug
  BY <1>14, PlugStep
<1>15. CASE Tick
  BY <1>15, TickStep
<1>16. CASE UNCHANGED vars
  BY <1>16 DEF vars, pioVars, IndInv, TypeOK, RootEvents, Gone, Removal, Shapes, Transfers, Told,
               Standing,
       Stands, Aborting, Starting, InEvents, InSide, Got, OutSide, Completed, Requesting, Described,
       Reading, Places, Running, After, AllClosed, Closed, Empty, Fresh
<1> QED
  BY <1>1, <1>2, <1>3, <1>4, <1>5, <1>6, <1>7, <1>8, <1>9, <1>10, <1>11, <1>12, <1>13, <1>14, <1>15,
     <1>16
  DEF Next, Core1

\* It says that no transfer has two outcomes.
LEMMA InvOutcome == IndInv => OneOutcome
<1> SUFFICES ASSUME IndInv, NEW e \in Endpoints
             PROVE  /\ ep[e].has => e \in busy
                    /\ e \in busy /\ ~ep[e].has => EventsOf(e) # {}
                    /\ e \in busy /\ EventsOf("root") = {} =>
                         \A k \in EventsOf(e) : EventsOf(e) = {k} /\ ~ep[e].has
  BY DEF OneOutcome
<1> USE InvParts
<1>1. ep[e].has => e \in busy
  BY DEF Transfers
<1>2. e \in busy /\ ~ep[e].has => EventsOf(e) # {}
  BY DEF Transfers, Told, EventsOf, Places
<1>3. ASSUME e \in busy, EventsOf("root") = {}, NEW k \in EventsOf(e)
      PROVE  EventsOf(e) = {k} /\ ~ep[e].has
  <2>1. ~Removal
    BY <1>3 DEF Removal, EventsOf, Places, Root
  <2>2. Running
    BY <1>3, <2>1 DEF Gone
  <2>3. k \in Places /\ events[k].ep = e /\ Stands(k)
    BY <1>3, <2>2 DEF EventsOf, Places, Stands
  <2> QED
    BY <1>3, <2>3 DEF Standing, EventsOf, Places
<1> QED
  BY <1>1, <1>2, <1>3

\* And that no packet is lost.
LEMMA InvPackets == IndInv => PacketsAreKept
<1> SUFFICES ASSUME IndInv PROVE PacketsAreKept
  OBVIOUS
<1> USE InvParts
<1>1. ASSUME NEW e, Over(e)
      PROVE  1 \in Places /\ Head(events) = events[1] /\ events[1].ep = e /\ e \in busy
  <2>1. Len(events) \in Nat /\ events \in Seq(EventRecord \union {Root("attach"), Root("remove")})
    BY EventFacts DEF TypeOK, EventRecord
  <2> QED
    BY <1>1, <2>1 DEF Over, Places
<1>2. ASSUME Over("in"), Succeeded
      PROVE  ep["in"].buf = IF Head(events).again THEN handed ELSE After(handed)
  BY <1>1, <1>2 DEF InEvents, Succeeded
<1>3. ASSUME Over("control"), Succeeded, stage = "data" PROVE ep["control"].buf = 1
  BY <1>1, <1>3 DEF Described, Completed, Succeeded
<1>4. ASSUME Over("out"), Succeeded, Running, dev.plugged, ~ep["out"].spoiled
      PROVE  dev.side["out"].number = ep["out"].buf
  <2>1. Completed("out") /\ slot.mounted
    BY <1>1, <1>4 DEF Completed, Succeeded, Shapes
  <2> QED
    BY <1>4, <2>1 DEF OutSide
<1> QED
  BY <1>2, <1>3, <1>4 DEF PacketsAreKept

\* The invariant holds in every state: of the queue of events, the pool and the table.
THEOREM IndInvHolds == Spec => []IndInv
BY InitInv, NextInv, PTL DEF Spec

\* The variables keep their types: the count of failures stays below the retries, a
\* transfer never has more packets than it was started with.
THEOREM TypeCorrect == Spec => []TypeOK
<1>1. IndInv => TypeOK
  BY DEF IndInv
<1> QED
  BY <1>1, IndInvHolds, PTL

\* Whenever the frame interrupt falls into an abort, an unplugging or a new submission,
\* a transfer that core 1 waits for is pending or has one outcome, not both and not two.
THEOREM TransfersHaveOneOutcome == Spec => []OneOutcome
BY InvOutcome, IndInvHolds, PTL

\* Packets of the device, its descriptors and what is sent to it arrive in order and
\* none is missing, whatever the bus loses.
THEOREM PacketsKept == Spec => []PacketsAreKept
BY InvPackets, IndInvHolds, PTL

(***************************************************************************)
(* The receive ring: the inductive invariant.                              *)
(***************************************************************************)

\* One USB port carries traffic in a behaviour, whichever it is.
OnePortHasTraffic == \A ports \in Traffic : \E p \in Sources : ports = {p}

\* The types.
RxTypeOK ==
  /\ traffic \in Traffic
  /\ ring \in [Slots -> Words]
  /\ head \in Slots
  /\ tail \in Slots
  /\ at \in [Sources -> {"out", "test", "body", "source", "publish"}]
  /\ packet \in [Sources -> Packets \union {NoPacket}]
  /\ next \in [Sources -> Slots]
  /\ accepted \in BOOLEAN
  /\ pc0 \in {"poll", "test", "copied", "forward"}
  /\ msg \in Words

\* The slots with messages: from the tail up to the head.
InUse(s) ==
  IF tail <= head THEN tail <= s /\ s < head ELSE tail <= s \/ s < head

\* The index after i.
RxSucc(i) == (i + 1) % Size

\* A message and the port it came in by, of one enqueuing.
WholeWords == {words \in Words : words.body \in Packets /\ words.source = Origin(words.body)}

\* What the port inside usbMidiEnqueue relies on: the slot after head is still the
\* one it computed, there is room, and what it stored is there.
Enqueuing ==
  \A p \in Sources : at[p] # "out" =>
    /\ p \in traffic
    /\ packet[p] \in Packets /\ Origin(packet[p]) = p
    /\ next[p] = RxSucc(head)
    /\ at[p] # "test" => next[p] # tail
    /\ at[p] \in {"source", "publish"} => ring[head].body = packet[p]
    /\ at[p] = "publish" => ring[head].source = p

\* The copy core 0 works on is the slot at the tail, still in use.
CopiedSlot == pc0 = "copied" => tail # head /\ msg = ring[tail]

\* Every used slot holds a whole message.
UsedWhole == \A s \in Slots : InUse(s) => ring[s] \in WholeWords

RxIndInv == RxTypeOK /\ Enqueuing /\ CopiedSlot /\ UsedWhole

\* (i + 1) % Size is i + 1, or 0 after the last slot.
LEMMA RxSuccWraps ==
  ASSUME NEW i \in Slots
  PROVE  RxSucc(i) = (IF i = Size - 1 THEN 0 ELSE i + 1) /\ RxSucc(i) \in Slots
BY SizeAssumption DEF RxSucc, Slots

\* Two ports with traffic are the same port.
LEMMA OneProducer ==
  ASSUME OnePortHasTraffic, RxTypeOK, NEW p \in traffic, NEW q \in traffic
  PROVE  p = q
BY DEF OnePortHasTraffic, RxTypeOK

\* The slot a port fills is not in use.
LEMMA HeadUnused == RxTypeOK => ~InUse(head)
BY DEF RxTypeOK, InUse, Slots

\* A step of the port that is enqueuing: no other one is.
LEMMA Alone ==
  ASSUME OnePortHasTraffic, RxIndInv, NEW p \in Sources, at[p] # "out"
  PROVE  p \in traffic /\ \A q \in Sources : q # p => at[q] = "out"
<1>1. p \in traffic /\ RxTypeOK
  BY DEF RxIndInv, Enqueuing
<1> QED
  BY <1>1, OneProducer DEF RxIndInv, Enqueuing

\* The invariant holds initially.
LEMMA RxInitInv == RxInit => RxIndInv
<1> SUFFICES ASSUME RxInit PROVE RxIndInv
  OBVIOUS
<1>1. RxTypeOK
  BY SizeAssumption DEF RxInit, RxTypeOK, Slots, Words, NoWords
<1>2. Enqueuing /\ CopiedSlot /\ UsedWhole
  BY DEF RxInit, Enqueuing, CopiedSlot, UsedWhole, InUse, Slots
<1> QED
  BY <1>1, <1>2 DEF RxIndInv

\* Every step keeps the types.
LEMMA RxTypesKept ==
  ASSUME RxIndInv, RxNext
  PROVE  RxTypeOK'
<1> USE DEF RxIndInv, RxTypeOK
<1>1. ASSUME NEW p \in Sources, NEW payload \in Payloads, EnqueueCall(p, payload) PROVE RxTypeOK'
  <2>1. <<p, payload>> \in Packets /\ (head + 1) % Size \in Slots
    BY RxSuccWraps DEF Packets, RxSucc
  <2> QED
    BY <1>1, <2>1 DEF EnqueueCall
<1>2. ASSUME NEW p \in Sources, EnqueueFull(p) \/ EnqueueRoom(p) PROVE RxTypeOK'
  BY <1>2 DEF EnqueueFull, EnqueueRoom
<1>3. ASSUME NEW p \in Sources, StoreBody(p) PROVE RxTypeOK'
  <2>1. [ring[head] EXCEPT !.body = packet[p]] \in Words
    BY DEF Words
  <2> QED
    BY <1>3, <2>1 DEF StoreBody
<1>4. ASSUME NEW p \in Sources, StoreSource(p) PROVE RxTypeOK'
  <2>1. [ring[head] EXCEPT !.source = p] \in Words
    BY DEF Words
  <2> QED
    BY <1>4, <2>1 DEF StoreSource
<1>5. ASSUME NEW p \in Sources, Publish(p) PROVE RxTypeOK'
  BY <1>5 DEF Publish
<1>6. CASE PollEnd \/ ReadEmpty \/ ReadCopy \/ Forward
  BY <1>6 DEF PollEnd, ReadEmpty, ReadCopy, Forward, producerVars
<1>7. CASE ReadAdvance
  <2>1. (tail + 1) % Size \in Slots
    BY RxSuccWraps DEF RxSucc
  <2> QED
    BY <1>7, <2>1 DEF ReadAdvance, producerVars
<1> QED
  BY <1>1, <1>2, <1>3, <1>4, <1>5, <1>6, <1>7 DEF RxNext, Enqueue, Read

\* A port stores in the slot at head, which is not in use.
LEMMA StoreKeepsOthers ==
  ASSUME RxTypeOK, NEW p \in Sources, StoreBody(p) \/ StoreSource(p), NEW s \in Slots, InUse(s)
  PROVE  ring'[s] = ring[s]
BY HeadUnused DEF RxTypeOK, StoreBody, StoreSource

\* What the two stores put there.
LEMMA StoredWords ==
  ASSUME RxTypeOK, NEW p \in Sources
  PROVE  /\ StoreBody(p) => ring'[head].body = packet[p]
         /\ StoreSource(p) => ring'[head].body = ring[head].body /\ ring'[head].source = p
BY DEF RxTypeOK, StoreBody, StoreSource, Words

\* Publishing adds the slot at head to the used ones.
LEMMA UsedAfterPublish ==
  ASSUME RxIndInv, NEW p \in Sources, Publish(p), NEW s \in Slots, InUse(s)'
  PROVE  InUse(s) \/ s = head
<1>1. head' = RxSucc(head) /\ head' # tail /\ tail' = tail /\ head \in Slots /\ tail \in Slots
  BY DEF RxIndInv, RxTypeOK, Enqueuing, Publish
<1> QED
  BY <1>1, RxSuccWraps, SizeAssumption DEF InUse, Slots

\* Advancing the tail takes only the slot at the tail away.
LEMMA UsedAfterAdvance ==
  ASSUME RxTypeOK, ReadAdvance, tail # head, NEW s \in Slots, InUse(s)'
  PROVE  InUse(s)
<1>1. tail' = RxSucc(tail) /\ head' = head /\ head \in Slots /\ tail \in Slots
  BY DEF RxTypeOK, ReadAdvance, RxSucc
<1> QED
  BY <1>1, RxSuccWraps, SizeAssumption DEF InUse, Slots

\* Every step keeps the invariant, when one port has traffic.
LEMMA RxNextInv ==
  ASSUME OnePortHasTraffic, RxIndInv, [RxNext]_rxVars
  PROVE  RxIndInv'
<1>1. RxTypeOK /\ Enqueuing /\ CopiedSlot /\ UsedWhole
  BY DEF RxIndInv
<1>2. CASE UNCHANGED rxVars
  BY <1>1, <1>2 DEF rxVars, producerVars, RxIndInv, RxTypeOK, Enqueuing, CopiedSlot, UsedWhole,
                    InUse, RxSucc
<1>3. CASE RxNext
  <2>types. RxTypeOK'
    BY <1>3, RxTypesKept
  <2>call. ASSUME NEW p \in Sources, NEW payload \in Payloads, EnqueueCall(p, payload)
        PROVE  Enqueuing' /\ CopiedSlot' /\ UsedWhole'
    <3>1. <<p, payload>> \in Packets /\ Origin(<<p, payload>>) = p
      BY DEF Packets, Origin
    <3>2. Enqueuing'
      BY <1>1, <2>call, <3>1 DEF EnqueueCall, MayEnqueue, Enqueuing, RxTypeOK, RxSucc
    <3> QED
      BY <1>1, <2>call, <3>2 DEF EnqueueCall, CopiedSlot, UsedWhole, InUse
  <2>test. ASSUME NEW p \in Sources, EnqueueFull(p) \/ EnqueueRoom(p)
        PROVE  Enqueuing' /\ CopiedSlot' /\ UsedWhole'
    BY <1>1, <2>test DEF EnqueueFull, EnqueueRoom, Enqueuing, CopiedSlot, UsedWhole, InUse, RxTypeOK,
                      RxSucc
  <2>fill. ASSUME NEW p \in Sources, StoreBody(p) \/ StoreSource(p)
        PROVE  Enqueuing' /\ CopiedSlot' /\ UsedWhole'
    <3>1. \A q \in Sources : q # p => at[q] = "out"
      BY <2>fill, Alone DEF StoreBody, StoreSource
    <3>2. Enqueuing'
      BY <1>1, <2>fill, <3>1, StoredWords DEF StoreBody, StoreSource, Enqueuing, RxTypeOK, RxSucc
    <3>3. \A s \in Slots : InUse(s) => ring'[s] = ring[s]
      BY <1>1, <2>fill, StoreKeepsOthers
    <3>4. CopiedSlot' /\ UsedWhole'
      <4>1. tail # head => InUse(tail) /\ tail \in Slots
        BY <1>1 DEF InUse, RxTypeOK, Slots
      <4> QED
        BY <1>1, <2>fill, <3>3, <4>1 DEF StoreBody, StoreSource, CopiedSlot, UsedWhole, InUse
    <3> QED
      BY <3>2, <3>4
  <2>publish. ASSUME NEW p \in Sources, Publish(p)
        PROVE  Enqueuing' /\ CopiedSlot' /\ UsedWhole'
    <3>1. \A q \in Sources : q # p => at[q] = "out"
      BY <2>publish, Alone DEF Publish
    <3>2. Enqueuing'
      BY <1>1, <2>publish, <3>1 DEF Publish, Enqueuing, RxTypeOK
    <3>3. head' # tail /\ ring[head] \in WholeWords
      BY <1>1, <2>publish DEF Publish, Enqueuing, WholeWords, RxTypeOK
    <3>4. UsedWhole'
      BY <1>1, <2>publish, <3>3, UsedAfterPublish DEF Publish, UsedWhole, RxIndInv
    <3> QED
      BY <1>1, <2>publish, <3>2, <3>3, <3>4 DEF Publish, CopiedSlot
  <2>poll. CASE PollEnd \/ ReadEmpty \/ ReadCopy \/ Forward
    <3>1. Enqueuing' /\ UsedWhole'
      BY <1>1, <2>poll DEF PollEnd, ReadEmpty, ReadCopy, Forward, producerVars, Enqueuing, UsedWhole,
                        InUse, RxSucc
    <3>2. CopiedSlot'
      BY <1>1, <2>poll DEF PollEnd, ReadEmpty, ReadCopy, Forward, CopiedSlot
    <3> QED
      BY <2>types, <3>1, <3>2 DEF RxIndInv
  <2>advance. CASE ReadAdvance
    <3>1. tail # head
      BY <1>1, <2>advance DEF ReadAdvance, CopiedSlot
    <3>2. UsedWhole' /\ CopiedSlot'
      BY <1>1, <2>advance, <3>1, UsedAfterAdvance DEF ReadAdvance, UsedWhole, CopiedSlot
    <3>3. RxSucc(head) # RxSucc(tail)
      <4>1. head \in Slots /\ tail \in Slots
        BY <1>1 DEF RxTypeOK
      <4> QED
        BY <3>1, <4>1, RxSuccWraps, SizeAssumption DEF Slots
    <3>4. Enqueuing'
      BY <1>1, <2>advance, <3>3 DEF ReadAdvance, producerVars, Enqueuing, RxSucc
    <3> QED
      BY <2>types, <3>2, <3>4 DEF RxIndInv
  <2> QED
    BY <1>3, <2>types, <2>call, <2>test, <2>fill, <2>publish, <2>poll, <2>advance
    DEF RxNext, Enqueue, Read, RxIndInv
<1> QED
  BY <1>2, <1>3

(***************************************************************************)
(* The receive ring implements a bounded queue.                            *)
(***************************************************************************)

\* The abstract queue, and who has read its first message.
Contents == [k \in 1 .. Waiting |-> Whole(ring[SlotOf(k)])]
Turn == IF pc0 = "copied" THEN {"core0"} ELSE {}
Outputs == [r \in {"core0"} |-> Whole(msg)]

\* The positions of the queue are the used slots, in order from the tail.
LEMMA PositionsAreSlots ==
  ASSUME RxTypeOK
  PROVE  /\ Waiting \in 0 .. Size - 1
         /\ \A k \in 1 .. Waiting : SlotOf(k) \in Slots /\ InUse(SlotOf(k))
         /\ Waiting # 0 <=> tail # head
BY SizeAssumption DEF RxTypeOK, Slots, Waiting, SlotOf, InUse

\* Whole words stand for the message they hold.
LEMMA WholeIsBody ==
  ASSUME NEW words \in WholeWords
  PROVE  Whole(words) = words.body /\ Whole(words) \in Packets
<1>1. words.body # NoPacket /\ NoWords.body = NoPacket
  BY PacketsAssumption DEF WholeWords, Packets, NoWords
<1>2. words # NoWords
  BY <1>1
<1> QED
  BY <1>1, <1>2 DEF Whole, WholeWords

\* The queue is one, of packets.
QueueOK == Contents \in Seq(Packets) /\ Len(Contents) = Waiting

\* The used slots hold whole messages, so the abstract queue holds packets.
LEMMA ContentsArePackets ==
  ASSUME RxIndInv
  PROVE  QueueOK
<1>1. Waiting \in Nat
  BY PositionsAreSlots, SizeAssumption DEF RxIndInv
<1>2. \A k \in 1 .. Waiting : Whole(ring[SlotOf(k)]) \in Packets
  BY PositionsAreSlots, WholeIsBody DEF RxIndInv, UsedWhole
<1>3. Contents \in [1 .. Waiting -> Packets]
  BY <1>2 DEF Contents
<1> QED
  BY <1>1, <1>3 DEF QueueOK

\* The queue changes only with the indices or with a used slot.
LEMMA ContentsUnchanged ==
  ASSUME RxTypeOK, UNCHANGED <<head, tail>>,
         \A s \in Slots : InUse(s) => ring'[s] = ring[s]
  PROVE  Contents' = Contents
<1>1. Waiting' = Waiting
  BY DEF Waiting
<1>2. \A k \in 1 .. Waiting : Whole(ring[SlotOf(k)])' = Whole(ring[SlotOf(k)])
  <2> TAKE k \in 1 .. Waiting
  <2>1. SlotOf(k)' = SlotOf(k)
    BY DEF SlotOf
  <2>2. ring'[SlotOf(k)] = ring[SlotOf(k)]
    BY PositionsAreSlots
  <2> QED
    BY <2>1, <2>2 DEF Whole
<1> QED
  BY <1>1, <1>2 DEF Contents

\* Publishing the filled slot appends its message to the queue.
LEMMA PublishAppends ==
  ASSUME RxIndInv, QueueOK', NEW p \in Sources, Publish(p)
  PROVE  /\ packet[p] \in Packets
         /\ Waiting < Size - 1
         /\ Contents' = Append(Contents, packet[p])
<1> USE DEF RxIndInv
<1> DEFINE m == packet[p]
<1>1. /\ m \in Packets /\ head' = RxSucc(head) /\ head' # tail /\ tail' = tail /\ ring' = ring
      /\ head \in Slots /\ tail \in Slots
  BY DEF Publish, Enqueuing, RxTypeOK
<1>2. head' = IF head = Size - 1 THEN 0 ELSE head + 1
  BY <1>1, RxSuccWraps
<1>3. Waiting' = Waiting + 1 /\ Waiting < Size - 1
  BY <1>1, <1>2, SizeAssumption DEF Waiting, Slots
<1>4. Waiting \in Nat /\ SlotOf(Waiting + 1) = head
  BY <1>1, SizeAssumption DEF Waiting, SlotOf, Slots
<1>5. Whole(ring[head]) = m
  <2>1. ring[head] \in WholeWords /\ ring[head].body = m
    BY DEF Publish, Enqueuing, WholeWords, RxTypeOK
  <2> QED
    BY <2>1, WholeIsBody
<1>6. Contents' = [k \in 1 .. Waiting + 1 |-> Whole(ring[SlotOf(k)])]
  BY <1>1, <1>3 DEF Contents, Whole, SlotOf
<1>7. /\ Contents \in Seq(Packets) /\ Len(Contents) = Waiting
      /\ Contents' \in Seq(Packets) /\ Len(Contents') = Waiting + 1
  BY <1>3, ContentsArePackets DEF QueueOK
<1> HIDE DEF m
<1>8. /\ Append(Contents, m) \in Seq(Packets)
      /\ Len(Append(Contents, m)) = Waiting + 1
  BY <1>1, <1>7, AppendProperties
<1>9. \A k \in 1 .. Waiting + 1 : Contents'[k] = Append(Contents, m)[k]
  <2> TAKE k \in 1 .. Waiting + 1
  <2>1. CASE k = Waiting + 1
    BY <2>1, <1>1, <1>4, <1>5, <1>6, <1>7, AppendProperties
  <2>2. CASE k # Waiting + 1
    <3>1. k \in 1 .. Waiting
      BY <2>2, <1>4
    <3>2. Append(Contents, m)[k] = Contents[k]
      BY <3>1, <1>1, <1>7, AppendProperties
    <3> QED
      BY <3>1, <3>2, <1>6 DEF Contents
  <2> QED
    BY <2>1, <2>2
<1>10. Contents' = Append(Contents, m)
  BY <1>7, <1>8, <1>9, SeqEqual
<1> QED
  BY <1>1, <1>3, <1>10 DEF m

\* Advancing the tail takes the oldest message off the queue.
LEMMA AdvanceRemoves ==
  ASSUME RxIndInv, QueueOK', ReadAdvance
  PROVE  Contents # <<>> /\ Contents' = Tail(Contents)
<1> USE DEF RxIndInv
<1>1. /\ tail # head /\ tail' = RxSucc(tail) /\ head' = head /\ ring' = ring
      /\ head \in Slots /\ tail \in Slots
  BY DEF ReadAdvance, CopiedSlot, RxSucc, RxTypeOK
<1>2. tail' = IF tail = Size - 1 THEN 0 ELSE tail + 1
  BY <1>1, RxSuccWraps
<1>3. Waiting \in 1 .. Size - 1 /\ Waiting' = Waiting - 1
  BY <1>1, <1>2, SizeAssumption DEF Waiting, Slots
<1>4. \A k \in 1 .. Waiting' : SlotOf(k)' = SlotOf(k + 1)
  BY <1>1, <1>2, <1>3, SizeAssumption DEF SlotOf, Slots
<1>5. /\ Contents \in Seq(Packets) /\ Len(Contents) = Waiting
      /\ Contents' \in Seq(Packets) /\ Len(Contents') = Waiting - 1
  BY <1>3, ContentsArePackets DEF QueueOK
<1>6. Contents # <<>>
  BY <1>3, <1>5, EmptySeq
<1>7. /\ Tail(Contents) \in Seq(Packets)
      /\ Len(Tail(Contents)) = Waiting - 1
      /\ \A k \in 1 .. Waiting - 1 : Tail(Contents)[k] = Contents[k + 1]
  BY <1>5, <1>6, HeadTailProperties
<1>8. \A k \in 1 .. Waiting - 1 : Contents'[k] = Contents[k + 1]
  <2> TAKE k \in 1 .. Waiting - 1
  <2>1. Contents'[k] = Whole(ring[SlotOf(k + 1)])
    BY <1>1, <1>3, <1>4 DEF Contents, Whole
  <2> QED
    BY <2>1, <1>3 DEF Contents
<1>9. Contents' = Tail(Contents)
  BY <1>3, <1>5, <1>7, <1>8, SeqEqual
<1> QED
  BY <1>6, <1>9

\* What core 0 copies is the message at the front of the queue.
LEMMA CopyTakesHead ==
  ASSUME RxIndInv, ReadCopy
  PROVE  Contents # <<>> /\ Head(Contents) = Whole(ring[tail])
<1>1. tail # head /\ RxTypeOK
  BY DEF ReadCopy, RxIndInv
<1>2. Waiting \in Nat \ {0} /\ SlotOf(1) = tail
  BY <1>1, SizeAssumption DEF Waiting, SlotOf, RxTypeOK, Slots
<1>3. Contents \in Seq(Packets) /\ Len(Contents) = Waiting
  BY ContentsArePackets DEF QueueOK
<1>4. Contents # <<>>
  BY <1>2, <1>3, EmptySeq
<1>5. Head(Contents) = Contents[1]
  BY <1>2, <1>3, <1>4
<1> QED
  BY <1>2, <1>4, <1>5 DEF Contents

\* The initial states are those of the queue.
LEMMA RxInitMaps == RxInit => Fifo!Init
<1> SUFFICES ASSUME RxInit PROVE Fifo!Init
  OBVIOUS
<1>1. Waiting = 0
  BY DEF RxInit, Waiting
<1>2. Contents = <<>>
  BY <1>1 DEF Contents
<1>3. Outputs = [r \in {"core0"} |-> NoPacket] /\ Turn = {} /\ accepted = TRUE
  BY DEF RxInit, Outputs, Whole, Turn
<1> QED
  BY <1>2, <1>3 DEF Fifo!Init, Contents, Outputs, Turn

\* Every step is a step of the queue or changes nothing of it.
LEMMA RxNextMaps ==
  ASSUME RxIndInv, QueueOK', [RxNext]_rxVars
  PROVE  [Fifo!Next]_(Fifo!vars)
<1> SUFFICES Fifo!Next \/ UNCHANGED <<Contents, Turn, Outputs, accepted>>
  BY DEF Fifo!vars, Contents, Turn, Outputs
<1>1. RxTypeOK /\ Enqueuing /\ CopiedSlot
  BY DEF RxIndInv
<1>2. Contents \in Seq(Packets) /\ Len(Contents) = Waiting
  BY ContentsArePackets DEF QueueOK
<1>3. ASSUME NEW p \in Sources, NEW payload \in Payloads, EnqueueCall(p, payload)
      PROVE  UNCHANGED <<Contents, Turn, Outputs, accepted>>
  BY <1>3 DEF EnqueueCall, Contents, Turn, Outputs, Waiting, SlotOf, Whole
<1>4. ASSUME NEW p \in Sources, EnqueueFull(p) PROVE Fifo!Next
  <2>1. UNCHANGED <<Contents, Turn, Outputs>> /\ accepted' = FALSE
    BY <1>4 DEF EnqueueFull, Contents, Turn, Outputs, Waiting, SlotOf, Whole
  <2>2. RxSucc(head) = tail /\ head \in Slots /\ tail \in Slots
    BY <1>1, <1>4 DEF EnqueueFull, Enqueuing, RxTypeOK
  <2>3. Waiting = Size - 1
    BY <2>2, RxSuccWraps, SizeAssumption DEF Waiting, Slots
  <2>4. Fifo!Refuse
    BY <1>2, <2>1, <2>3 DEF Fifo!Refuse, Contents, Turn, Outputs
  <2> QED
    BY <2>4 DEF Fifo!Next
<1>5. ASSUME NEW p \in Sources, EnqueueRoom(p) PROVE UNCHANGED <<Contents, Turn, Outputs, accepted>>
  BY <1>5 DEF EnqueueRoom, Contents, Turn, Outputs, Waiting, SlotOf, Whole
<1>6. ASSUME NEW p \in Sources, StoreBody(p) \/ StoreSource(p)
      PROVE  UNCHANGED <<Contents, Turn, Outputs, accepted>>
  <2>1. \A s \in Slots : InUse(s) => ring'[s] = ring[s]
    BY <1>1, <1>6, StoreKeepsOthers
  <2>2. Contents' = Contents
    BY <1>1, <1>6, <2>1, ContentsUnchanged DEF StoreBody, StoreSource
  <2> QED
    BY <1>6, <2>2 DEF StoreBody, StoreSource, Turn, Outputs, Whole
<1>7. ASSUME NEW p \in Sources, Publish(p) PROVE Fifo!Next
  <2>1. /\ packet[p] \in Packets
        /\ Waiting < Size - 1
        /\ Contents' = Append(Contents, packet[p])
    BY <1>7, PublishAppends
  <2>2. UNCHANGED <<Turn, Outputs>> /\ accepted' = TRUE
    BY <1>7 DEF Publish, Turn, Outputs, Whole
  <2>3. Fifo!Put(packet[p])
    BY <1>2, <2>1, <2>2 DEF Fifo!Put, Contents, Turn, Outputs
  <2> QED
    BY <2>1, <2>3 DEF Fifo!Next
<1>8. CASE PollEnd \/ ReadEmpty \/ Forward
  <2>1. UNCHANGED <<Turn, Outputs, accepted>>
    BY <1>8 DEF PollEnd, ReadEmpty, Forward, Turn, Outputs, Whole
  <2>2. UNCHANGED Contents
    BY <1>8 DEF PollEnd, ReadEmpty, Forward, Contents, Waiting, SlotOf, Whole
  <2> QED
    BY <2>1, <2>2
<1>9. CASE ReadCopy
  <2>1. UNCHANGED <<Contents, accepted>>
    BY <1>9 DEF ReadCopy, Contents, Waiting, SlotOf, Whole, producerVars
  <2>2. Contents # <<>> /\ Head(Contents) = Whole(ring[tail])
    BY <1>9, CopyTakesHead
  <2>3. Turn = {} /\ Turn' = {"core0"} /\ Outputs' = [Outputs EXCEPT !["core0"] = Head(Contents)]
    BY <1>9, <2>2 DEF ReadCopy, Turn, Outputs, Whole
  <2>4. Fifo!Take("core0")
    BY <2>1, <2>2, <2>3 DEF Fifo!Take, Contents, Turn, Outputs
  <2> QED
    BY <2>4 DEF Fifo!Next
<1>10. CASE ReadAdvance
  <2>1. Contents # <<>> /\ Contents' = Tail(Contents)
    BY <1>10, AdvanceRemoves
  <2>2. Turn = {"core0"} /\ Turn' = {} /\ UNCHANGED <<Outputs, accepted>>
    BY <1>10 DEF ReadAdvance, Turn, Outputs, Whole
  <2>3. Fifo!Remove
    BY <2>1, <2>2 DEF Fifo!Remove, Contents, Turn, Outputs
  <2> QED
    BY <2>3 DEF Fifo!Next
<1>11. CASE UNCHANGED rxVars
  BY <1>11 DEF rxVars, producerVars, Contents, Turn, Outputs, Waiting, SlotOf, Whole
<1> QED
  BY <1>3, <1>4, <1>5, <1>6, <1>7, <1>8, <1>9, <1>10, <1>11 DEF RxNext, Enqueue, Read

\* With one port in use the port inside usbMidiEnqueue has room in the ring, fills a slot
\* core 0 is not looking at, and leaves it whole.
THEOREM RxIndInvHolds == ASSUME OnePortHasTraffic PROVE RxSpec => []RxIndInv
BY RxInitInv, RxNextInv, PTL DEF RxSpec

\* With one port in use messages come out of the ring whole, in order, each once, and one
\* is dropped only when the ring is full.
THEOREM RxRingImplementsFifo == ASSUME OnePortHasTraffic PROVE RxSpec => ImplementsFifo
<1>1. RxIndInv /\ QueueOK' /\ [RxNext]_rxVars => [Fifo!Next]_(Fifo!vars)
  BY RxNextMaps
<1>2. RxIndInv => QueueOK
  BY ContentsArePackets
<1> QED
  BY <1>1, <1>2, RxInitMaps, RxIndInvHolds, PTL DEF RxSpec, ImplementsFifo, Fifo!Spec

================================================================================
