------------------------------- MODULE MCUsbHost -------------------------------
(* The host side and the receive ring that core 1 fills from it.  They     *)
(* share nothing in these models, so a behaviour is one of either.         *)
EXTENDS UsbHost, RxRing

VARIABLE part

\* One USB port in use, either of them.
OnePort == {{"DEVICE"}, {"HOST"}}

MCInit == part \in {"host", "ring"} /\ Init /\ RxInit

OfHost(action) == part = "host" /\ action /\ UNCHANGED <<part, rxVars>>
OfRing(action) == part = "ring" /\ action /\ UNCHANGED <<part, vars>>

MCNext == OfHost(Next) \/ OfRing(RxNext)

MCSpec ==
  /\ MCInit /\ [][MCNext]_<<part, vars, rxVars>>
  /\ WF_vars(OfHost(Core1)) /\ WF_vars(OfHost(Tick))
  /\ WF_vars(OfHost((FrameConnect \/ FrameDisconnect) /\ Interrupt))

================================================================================
