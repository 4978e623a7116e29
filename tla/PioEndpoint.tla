------------------------------ MODULE PioEndpoint ------------------------------
(***************************************************************************)
(* The endpoints of the PIO USB host controller: pio_usb_host.c and the    *)
(* host half of pio_usb.c, against a device on a bus that loses packets.   *)
(*                                                                         *)
(* The driver thread and the 1 ms timer interrupt that runs the bus are    *)
(* both on core 1, so a frame is one step between two steps of the thread, *)
(* and transfer_started, which is set only inside a frame, is never seen.  *)
(*                                                                         *)
(* One device, with a control endpoint, a bulk IN and a bulk OUT endpoint; *)
(* each keeps one slot of pio_usb_ep_pool.  A packet is its number modulo  *)
(* Numbers, which tells it from the packets next to it.                    *)
(* Token, data and handshake packets with their timeouts and checksums     *)
(* come down to the five ways a transaction can go.                        *)
(***************************************************************************)
EXTENDS Integers, Sequences

CONSTANTS
  Retries,   \* TRANSACTION_MAX_RETRY
  Numbers    \* packets are numbered modulo this

ASSUME RetriesAssumption == Retries \in Nat \ {0}
ASSUME NumbersAssumption == Numbers \in Nat /\ Numbers >= 2

Endpoints == {"control", "in", "out"}
Ways == {"silent",    \* the packet, or the answer to it, is not received
         "unheard",   \* the data arrives, its acknowledgement does not
         "good", "nak", "stall"}
Results == {"complete", "stalled", "error"}

VARIABLES
  root,     \* root_port_t: connected, suspended
  ep,       \* pio_usb_ep_pool, a record for each endpoint
  events,   \* what the interrupt handler has queued for the driver
  dev       \* the device: plugged in, and its side of each endpoint

(* Fields of ep[e]:                                                        *)
(*   open      size # 0                                                    *)
(*   dir       "in" or "out": the direction bit of ep_num, and is_tx       *)
(*   setup     data_id is USB_PID_SETUP                                    *)
(*   toggle    data_id, when it is 0 or 1                                  *)
(*   has, aborted   has_transfer, transfer_aborted                         *)
(*   left      packets of the transfer still to go (total_len, actual_len) *)
(*   failed    failed_count; like left it is 0 between transfers           *)
(*   buf       the number of the last packet in app_buf                    *)
(*   again     history: that packet had been accepted once before          *)
(*   spoiled   history: a transfer failed since size was set               *)
(* Fields of dev.side[e]: toggle, the number of the packet to send (or     *)
(* accepted last), and whether it was sent before and not acknowledged.    *)
Fresh == [toggle |-> 0, number |-> 0, unacked |-> FALSE]
Closed == [open |-> FALSE, dir |-> "out", setup |-> FALSE, toggle |-> 0, has |-> FALSE,
           aborted |-> FALSE, left |-> 0, failed |-> 0, buf |-> 0,
           again |-> FALSE, spoiled |-> FALSE]

pioVars == <<root, ep, events, dev>>

PioInit ==
  /\ root = [connected |-> FALSE, suspended |-> FALSE]
  /\ ep = [e \in Endpoints |-> Closed]
  /\ events = << >>
  /\ dev = [plugged |-> FALSE, side |-> [e \in Endpoints |-> Fresh]]

After(n) == (n + 1) % Numbers

--------------------------------------------------------------------------------
(* Calls of the driver thread.                                             *)

\* pio_usb_host_endpoint_open, pio_usb_ll_configure_endpoint: the slot keeps
\* has_transfer from its last use.
Opened(e) ==
  IF ep[e].open THEN ep[e]
  ELSE [ep[e] EXCEPT !.open = TRUE, !.toggle = 0, !.setup = FALSE,
                     !.spoiled = FALSE, !.dir = IF e = "in" THEN "in" ELSE "out"]

\* pio_usb_ll_transfer_start on a record whose control fields are set.
Started(p, packets, number) ==
  IF p.has THEN p
  ELSE [p EXCEPT !.left = packets, !.failed = 0, !.aborted = FALSE, !.has = TRUE,
                 !.buf = IF p.dir = "out" THEN number ELSE p.buf]

\* pio_usb_host_send_setup
SetupSent(p) == Started([p EXCEPT !.dir = "out", !.setup = TRUE], 1, 0)

\* pio_usb_host_endpoint_transfer on the control endpoint: data and status
\* stages start with DATA1.
StageSent(p, dir, packets) ==
  Started([p EXCEPT !.dir = dir, !.setup = FALSE, !.toggle = 1], packets, 0)

\* pio_usb_host_endpoint_transfer on a bulk endpoint
BulkSent(p, number) == Started(p, 1, number)

\* pio_usb_host_close_device: size and has_transfer are cleared; what else is in the
\* slot is set again before it is used.
AllClosed == [e \in Endpoints |-> Closed]

\* pio_usb_host_port_reset_start and _end, around which the driver waits: the
\* bus is quiet, and a device that is there starts afresh.
ResetStart ==
  /\ root' = [root EXCEPT !.suspended = TRUE]
  /\ dev' = [dev EXCEPT !.side = [e \in Endpoints |-> Fresh]]

\* Faulty variant: the port stays suspended.
ResetEndForgotten == UNCHANGED root

ResetEnd == root' = [root EXCEPT !.suspended = FALSE]

(* pio_usb_host_endpoint_abort_transfer: when there is a transfer, mark    *)
(* it, see whether it is still there, and cancel it.  A frame may come     *)
(* before each of these.                                                   *)

AbortMarked(p) == [p EXCEPT !.aborted = TRUE]

StillActive(e) == ep[e].has

Unmarked(p) == [p EXCEPT !.aborted = FALSE]
Cancelled(p) == [p EXCEPT !.has = FALSE, !.aborted = FALSE]

--------------------------------------------------------------------------------
(* One transaction.  Each gives the endpoint and the device's side after   *)
(* it, and the result when the transfer is over, else "pending".           *)

Pending(p, d) == [ep |-> p, side |-> d, result |-> "pending"]

\* pio_usb_ll_transfer_complete
Complete(p, d, result) ==
  [ep |-> [p EXCEPT !.has = FALSE, !.left = 0, !.failed = 0, !.spoiled = p.spoiled \/ result # "complete"],
   side |-> d, result |-> result]

\* pio_usb_ll_transfer_continue: a packet is through.
Continue(p, d) ==
  LET q == [p EXCEPT !.toggle = 1 - p.toggle, !.left = p.left - 1, !.failed = 0]
  IN IF q.left = 0 THEN Complete(q, d, "complete") ELSE Pending(q, d)

\* Faulty variant: one failure more.
FailedLate(p, d) ==
  LET q == [p EXCEPT !.failed = p.failed + 1]
  IN IF q.failed > Retries THEN Complete(q, d, "error") ELSE Pending(q, d)

\* A transaction without a sound answer; transfers fail at the third in a row.
Failed(p, d) ==
  LET q == [p EXCEPT !.failed = p.failed + 1]
  IN IF q.failed >= Retries THEN Complete(q, d, "error") ELSE Pending(q, d)

Sound(p) == [p EXCEPT !.failed = 0]

\* The device's side once its packet was acknowledged.
Acked(d) == [toggle |-> 1 - d.toggle, number |-> After(d.number), unacked |-> FALSE]

\* Packet d.number is copied to app_buf, and its toggle taken over.
Store(p, d) == [p EXCEPT !.buf = d.number, !.again = d.unacked, !.toggle = d.toggle]

\* Faulty variant: a packet sent again is taken for new on every endpoint.
AcceptsAll(e, p, d) == TRUE

\* PIO_USB_BULK_IN_ACCEPT_ANY_DATA_PID
Accepts(e, p, d) == d.toggle = p.toggle \/ e = "in"

\* usb_in_transaction: what arrives whole is acknowledged, accepted or not.
InTransaction(e, p, d, way) ==
  LET heard == IF way = "good" THEN Acked(d) ELSE [d EXCEPT !.unacked = TRUE]
  IN CASE way \in {"good", "unheard"} ->
            IF Accepts(e, p, d) THEN Continue(Store(p, d), heard) ELSE Pending(Sound(p), heard)
       [] way = "nak" -> Pending(Sound(p), d)
       [] way = "stall" -> Complete(Sound(p), d, "stalled")
       [] way = "silent" -> IF e = "in" THEN Pending(Sound(p), d) ELSE Failed(p, d)

\* The device takes a data packet whose toggle it expects, and acknowledges any.
\* On the control endpoint it is the status stage, which ends the request.
Taken(e, p, d) ==
  IF e = "control" THEN Fresh
  ELSE IF p.toggle = d.toggle THEN [d EXCEPT !.toggle = 1 - d.toggle, !.number = p.buf]
  ELSE d

\* usb_out_transaction
OutTransaction(e, p, d, way) ==
  CASE way = "good" -> Continue(p, Taken(e, p, d))
    [] way = "unheard" -> Failed(p, Taken(e, p, d))
    [] way = "nak" -> Pending(Sound(p), d)
    [] way = "stall" -> Complete(Sound(p), d, "stalled")
    [] way = "silent" -> Failed(p, d)

\* usb_setup_transaction: DATA0; the device starts the request afresh.
SetupTransaction(p, d, way) ==
  LET ready == [Fresh EXCEPT !.toggle = 1]
  IN CASE way = "good" ->
            Complete([p EXCEPT !.setup = FALSE, !.toggle = 0], ready, "complete")
       [] way = "unheard" -> Failed(p, ready)
       [] OTHER -> Failed(p, d)

Transaction(e, way) ==
  LET p == ep[e]
      d == dev.side[e]
  IN IF p.setup THEN SetupTransaction(p, d, way)
     ELSE IF p.dir = "in" THEN InTransaction(e, p, d, way)
     ELSE OutTransaction(e, p, d, way)

--------------------------------------------------------------------------------
(* pio_usb_host_frame, with the events of pio_usb_host_irq_handler.        *)

Running == root.connected /\ ~root.suspended

\* What the frame runs a transaction for.
Active == {e \in Endpoints : ep[e].open /\ ep[e].has /\ ~ep[e].aborted}

\* The event of e's transfer, when it is over with this result; t[e] has the endpoint
\* after the frame and the result.
Report(t, e, result) ==
  IF e \in DOMAIN t /\ t[e].result = result
  THEN <<[ep |-> e, result |-> result, again |-> t[e].ep.again]>>
  ELSE << >>

\* First the completed transfers, then the stalled, then the failed.
Reported(t, result) == Report(t, "control", result) \o Report(t, "in", result) \o Report(t, "out", result)
Reports(t) == Reported(t, "complete") \o Reported(t, "stalled") \o Reported(t, "error")

Root(result) == [ep |-> "root", result |-> result, again |-> FALSE]

\* What the endpoints are after the frame.
Apply(t) == [e \in Endpoints |-> IF e \in DOMAIN t THEN t[e].ep ELSE ep[e]]

\* connection_check: every transfer, one being aborted too, ends in error.
LostTransfers ==
  [e \in {f \in Endpoints : ep[f].open /\ ep[f].has} |-> Complete(ep[e], dev.side[e], "error")]

\* The line is SE0 for longer than PIO_USB_DISCONNECT_DEBOUNCE_US.
FrameDisconnect ==
  /\ Running /\ ~dev.plugged
  /\ root' = [connected |-> FALSE, suspended |-> TRUE]
  /\ ep' = Apply(LostTransfers)
  /\ events' = Append(events, Root("remove")) \o Reports(LostTransfers)
  /\ UNCHANGED dev

\* A transaction for every queued endpoint, each going its own way.
FrameTransactions(way) ==
  LET t == [e \in Active |-> Transaction(e, way[e])]
  IN /\ Running /\ dev.plugged
     /\ ep' = Apply(t)
     /\ dev' = [dev EXCEPT !.side = [e \in Endpoints |-> IF e \in Active THEN t[e].side ELSE @[e]]]
     /\ events' = events \o Reports(t)
     /\ UNCHANGED root

\* A device appears on the idle line: connected, and suspended until it is reset.
FrameConnect ==
  /\ ~root.connected /\ dev.plugged
  /\ root' = [connected |-> TRUE, suspended |-> TRUE]
  /\ events' = Append(events, Root("attach"))
  /\ UNCHANGED <<ep, dev>>

Frame ==
  \/ FrameDisconnect
  \/ FrameConnect
  \/ \E way \in [Active -> Ways] : FrameTransactions(way)

================================================================================
