------------------------------ MODULE MCNoteModes ------------------------------
(* Notes of the keyboard's first octaves, and one above the last octave,   *)
(* which is above the last instrument too and, on the map's second         *)
(* channel, stands for the stop.                                           *)
EXTENDS NoteModes

MCData == {0, 48, 60, 126}
MCUsbNotes == {36, 127}

================================================================================
