------------------------------ MODULE MCGbReaders ------------------------------
EXTENDS GbReaders

VARIABLE used     \* what a behaviour uses

(* All modes with one channel, or MIDI out alone with two: what the        *)
(* channels do to each other has nothing to do with master sync.           *)
Uses == {[modes |-> {"master", "midiout", "other"}, channels |-> {0}, kinds |-> {0, 4, 8}],
         [modes |-> {"midiout", "other"}, channels |-> {0, 1}, kinds |-> {0}]}

MCModes == {"master", "midiout", "other"}
MCMidioutOnly == {"midiout", "other"}

(* A value that plays no note, two notes, and the largest value.           *)
MCValues == {0, 60, 111}

MCInit == Init /\ used \in Uses

MCNext ==
  /\ Next
  /\ mode' \in used.modes
  /\ command' \in {Spoilt} \union {m + k : m \in used.channels, k \in used.kinds}
  /\ UNCHANGED used

MCSpec == MCInit /\ [][MCNext]_<<vars, used>> /\ WF_vars(Device /\ UNCHANGED <<midioutVars, used>>)
================================================================================
