------------------------------ MODULE MCMgbLink -------------------------------
(* mGB mode, and the transmit ring its thru packets go into.  They share   *)
(* nothing in these models, so a behaviour is one of either.               *)
EXTENDS MgbLink, HostTxRing

VARIABLE part

(* Two of the five channels of mGB, one of them with a message of one data *)
(* byte, and one channel that is not its own.                              *)
MCOwnChannels == <<3, 5>>
MCStatuses == {147, 197, 229, 150}     \* note on channel 3, program and bend on 5, note on 6
MCSystemCommon == {241, 242, 246}
MCData == {0, 64}

MCInit == part \in {"link", "ring"} /\ Init /\ TxInit

OfLink(action) == part = "link" /\ action /\ UNCHANGED <<part, txVars>>
OfRing(action) == part = "ring" /\ action /\ UNCHANGED <<part, vars>>

MCNext == OfLink(Next) \/ OfRing(TxNext)

MCSpec == MCInit /\ [][MCNext]_<<part, vars, txVars>> /\ WF_txVars(OfRing(Core1))

===============================================================================
