------------------------------ MODULE BoundedFifo ------------------------------
(***************************************************************************)
(* What a packet queue between two cores of the firmware promises, without *)
(* its array, its indices or its cores.  A packet is accepted at the back  *)
(* of the queue or refused because the queue is full; the packet at the    *)
(* front is shown to each reader at most once, whole, and leaves only      *)
(* after every reader had its turn.  Nothing is lost, doubled, reordered   *)
(* or mixed once it has been accepted.                                     *)
(*                                                                         *)
(* UsbMidi.ino holds two such queues: the one to the hosted USB devices    *)
(* (HostTxRing, readers: the hosted devices) and the one that collects     *)
(* what arrives over USB (RxRing, reader: the mode loop on core 0).        *)
(***************************************************************************)
EXTENDS Naturals, Sequences

CONSTANTS
  Packets,    \* what can be queued
  Capacity,   \* how many packets can wait at once
  Readers,    \* who is shown the packet at the front
  NoPacket    \* the output of a reader that was shown nothing yet

VARIABLES
  queue,      \* the packets waiting, oldest first
  turn,       \* the readers that had their turn with the packet at the front
  out,        \* the last packet each reader took
  accepted    \* the answer given to the last packet offered

vars == <<queue, turn, out, accepted>>

Init ==
  /\ queue = <<>>
  /\ turn = {}
  /\ out = [r \in Readers |-> NoPacket]
  /\ accepted = TRUE

Put(p) ==
  /\ Len(queue) < Capacity
  /\ queue' = Append(queue, p)
  /\ accepted' = TRUE
  /\ UNCHANGED <<turn, out>>

\* A packet is turned away only while Capacity packets wait.
Refuse ==
  /\ Len(queue) = Capacity
  /\ accepted' = FALSE
  /\ UNCHANGED <<queue, turn, out>>

Take(r) ==
  /\ queue # <<>>
  /\ r \notin turn
  /\ turn' = turn \union {r}
  /\ out' = [out EXCEPT ![r] = Head(queue)]
  /\ UNCHANGED <<queue, accepted>>

\* A reader that is absent, or has no room, lets its turn pass.
Pass(r) ==
  /\ queue # <<>>
  /\ r \notin turn
  /\ turn' = turn \union {r}
  /\ UNCHANGED <<queue, out, accepted>>

Remove ==
  /\ queue # <<>>
  /\ turn = Readers
  /\ queue' = Tail(queue)
  /\ turn' = {}
  /\ UNCHANGED <<out, accepted>>

Next ==
  \/ \E p \in Packets : Put(p)
  \/ Refuse
  \/ \E r \in Readers : Take(r) \/ Pass(r)
  \/ Remove

Spec == Init /\ [][Next]_vars

================================================================================
