------------------------------- MODULE MCRxRing --------------------------------
(* Instances of RxRing: three slots, so that two messages can wait and the
   indices wrap, and two payloads, so that messages of one port differ.    *)
EXTENDS RxRing

\* A computer on the device port and a keyboard on the host port at once.
BothPorts == {{"DEVICE", "HOST"}}

================================================================================
