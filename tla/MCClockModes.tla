----------------------------- MODULE MCClockModes -----------------------------
(* One note of each effect the code tells apart, note 0, which the parser  *)
(* takes for none, and a velocity of 0, which is a note-off.               *)
EXTENDS ClockModes

MCNotes == {0, 48, 49, 50, 51, 53}
MCVelocities == {0, 51}
===============================================================================
