------------------------------ MODULE MasterSync ------------------------------
(***************************************************************************)
(* LSDJ master sync (Mode_LSDJ_MasterSync.ino): LSDJ drives the clock, and *)
(* each eight of its pulses become one MIDI clock, the first also a        *)
(* transport start.  The device polls the line; a line that has been high  *)
(* for PauseLimit polls means that LSDJ has stopped.                       *)
(*                                                                         *)
(* The row that goes with a start is left out, and so are the bytes of the *)
(* DIN port, which are passed on unread.                                   *)
(***************************************************************************)
EXTENDS Integers, Sequences

CONSTANT PauseLimit     \* polls

ASSUME PauseLimitAssumption == PauseLimit \in Nat \ {0}

VARIABLES
  mode,                 \* "master", "midiout" or "other"
  sequencerStarted,
  countGbClockTicks,
  countClockPause,
  waiting,              \* in the loop that waits for the clock line to fall
  line,                 \* the line is high
  lsdjPlays,
  sent                  \* the transport and clock messages of the last step

masterVars == <<sequencerStarted, countGbClockTicks, countClockPause, waiting, line, lsdjPlays>>

MasterInit ==
  /\ sequencerStarted = FALSE
  /\ countGbClockTicks = 0 /\ countClockPause = 0
  /\ waiting = FALSE /\ line = TRUE /\ lsdjPlays = FALSE

(* sendMidiClockSlaveFromLSDJ, for a pulse or what is taken for one, with  *)
(* the sequencer running or not: whether it is after it.                   *)
Pulse(ticks, started, before) ==
  /\ countGbClockTicks' = (ticks + 1) % 8
  /\ sequencerStarted' = (started \/ ticks = 0)
  /\ sent' = before \o (IF ticks = 0 /\ ~started THEN <<"start">> ELSE <<>>)
                    \o (IF ticks = 0 THEN <<"clock">> ELSE <<>>)

(* modeLSDJMasterSync: with the line low it only looks again.              *)
Look ==
  /\ mode = "master" /\ ~waiting /\ line
  /\ waiting' = TRUE
  /\ sent' = <<>>
  /\ UNCHANGED <<mode, sequencerStarted, countGbClockTicks, countClockPause, line, lsdjPlays>>

LongPause == countClockPause >= PauseLimit

(* Faulty variant: the bits of the next byte are counted afresh.           *)
StoppedAfresh ==
  /\ mode = "master" /\ waiting /\ LongPause /\ sequencerStarted
  /\ Pulse(0, FALSE, <<"stop">>)
  /\ waiting' = FALSE /\ countClockPause' = 0
  /\ UNCHANGED <<mode, line, lsdjPlays>>

(* checkLSDJStopped ends the wait, and modeLSDJMasterSync goes on as if    *)
(* there had been a pulse.                                                 *)
Stopped ==
  /\ mode = "master" /\ waiting /\ LongPause /\ sequencerStarted
  /\ Pulse(countGbClockTicks, FALSE, <<"stop">>)
  /\ waiting' = FALSE /\ countClockPause' = 0
  /\ UNCHANGED <<mode, line, lsdjPlays>>

Fallen ==
  /\ mode = "master" /\ waiting /\ ~line
  /\ ~(LongPause /\ sequencerStarted)
  /\ Pulse(countGbClockTicks, sequencerStarted, <<>>)
  /\ waiting' = FALSE /\ countClockPause' = 0
  /\ UNCHANGED <<mode, line, lsdjPlays>>

Poll ==
  /\ mode = "master" /\ waiting /\ line
  /\ ~LongPause
  /\ countClockPause' = countClockPause + 1
  /\ sent' = <<>>
  /\ UNCHANGED <<mode, sequencerStarted, countGbClockTicks, waiting, line, lsdjPlays>>

(* The Game Boy: pulses while LSDJ plays, else the line is high.           *)
Play ==
  /\ lsdjPlays' = ~lsdjPlays
  /\ line' = TRUE
  /\ UNCHANGED <<mode, sequencerStarted, countGbClockTicks, countClockPause, waiting>>

Toggle ==
  /\ lsdjPlays /\ line' = ~line
  /\ UNCHANGED <<mode, sequencerStarted, countGbClockTicks, countClockPause, waiting, lsdjPlays>>

===============================================================================
