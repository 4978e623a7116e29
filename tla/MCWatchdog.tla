------------------------------- MODULE MCWatchdog -------------------------------
(* The times of the code in ticks of 50 ms.                                *)
EXTENDS Watchdog

================================================================================
