-------------------------------- MODULE Watchdog --------------------------------
(***************************************************************************)
(* The hardware watchdog and the flash commit: how core 0 survives a stall *)
(* of core 1, which runs the USB host stack.  Watchdog_Diagnostics.ino     *)
(* (wdSetup, wdFeed), Memory_Functions.ino (commitMemoryToFlash), and the  *)
(* places of setup(), setMode(), modeProgrammer(), showSelectedMode() and  *)
(* modeLSDJKeyboard() that feed the watchdog or block.                     *)
(*                                                                         *)
(* core1LoopCount is only ever compared with a copy of it, so it is two    *)
(* flags here: fresh (it differs from wdLastCore1LoopCount) and counted    *)
(* (it differs from startLoops).  memory[] and the RAM copy that           *)
(* EEPROM.write fills are written together on every path and are one       *)
(* variable, settings.                                                     *)
(*                                                                         *)
(* Time advances in ticks (50 ms in the checked instance), and only when   *)
(* core 0 has gone round its loop in this tick and nothing else is due.    *)
(* A running core 1 completes a pass in each tick; one that stalls may     *)
(* stall for ever.  Of the library, EEPROM.commit() is taken to wait until *)
(* core 1 answers, which it does unless it is stalled, and to erase the    *)
(* flash before it writes it, with core 1 idle.                            *)
(***************************************************************************)
EXTENDS Integers

CONSTANTS
  WatchdogTime,   \* the argument of watchdog_enable
  Core1Timeout,   \* CORE1_LIVENESS_TIMEOUT_MS
  CommitWait,     \* how long commitMemoryToFlash waits for a pass
  WriteTime,      \* erasing and programming the flash
  StartupTime,    \* startupSequence
  BlinkTime,      \* showSelectedMode and the setup of the mode shown
  Settings,       \* the values of memory[]
  Default,        \* defaultMemoryMap
  Blank           \* flash without the bytes checkMemory looks for

ASSUME TimesAssumption ==
  {WatchdogTime, Core1Timeout, CommitWait, WriteTime, StartupTime, BlinkTime} \subseteq Nat \ {0}
\* The order of the code's times: the light show after a boot that waited for
\* core 1, a blink, and a write of the flash each end before the watchdog does; a
\* write is no stall; and the wait is no longer than a blink.
ASSUME TimingAssumption ==
  /\ CommitWait + StartupTime < WatchdogTime
  /\ BlinkTime < WatchdogTime
  /\ WriteTime < WatchdogTime
  /\ WriteTime <= Core1Timeout
  /\ CommitWait <= BlinkTime
ASSUME SettingsAssumption == Default \in Settings /\ Blank \notin Settings

Off == -1   \* sinceFeed while the watchdog is not armed

VARIABLES
  \* core 0
  loc,            \* "boot", "startup", "blink", "start", "loop", "programmer", "keys"
                  \* (keyboard mode sends keys), "wait", "commit" (in idleOtherCore) or "write"
  left,           \* what is left of startup, blink, wait or write
  after,          \* where core 0 goes when a commit is over
  round,          \* core 0 has gone round its loop in this tick
  recovering,     \* wdRecoveringFromStall
  settings,
  flash,
  \* the watchdog
  sinceFeed,      \* time since watchdog_update
  crumb,          \* watchdog_hw->scratch[0]
  sinceProgress,  \* time since wdLastCore1ProgressMs
  fresh,
  counted,
  \* core 1
  core1,          \* "off", "running" or "stalled"
  mounted,        \* usbMidiHostDeviceMounted()
  \* history
  stalls,         \* core 1 has stalled since the last boot
  stalledFor      \* age of a stall that wdFeed must not let pass

memoryVars == <<settings, flash>>
feedVars == <<sinceFeed, crumb, sinceProgress, fresh>>
core1Vars == <<core1, mounted, stalls, stalledFor>>
vars == <<loc, left, after, round, recovering, memoryVars, feedVars, counted, core1Vars>>

Init ==
  /\ loc = "boot"
  /\ left = 0
  /\ after = "startup"
  /\ round = FALSE
  /\ recovering = FALSE
  /\ settings = Default
  /\ flash \in Settings \union {Blank}
  /\ sinceFeed = Off
  /\ crumb = "BOOT"
  /\ sinceProgress = 0
  /\ fresh = FALSE
  /\ counted = FALSE
  /\ core1 = "off"
  /\ mounted = FALSE
  /\ stalls = FALSE
  /\ stalledFor = 0

Expired == sinceFeed = WatchdogTime
At(place) == loc = place /\ ~Expired

--------------------------------------------------------------------------------
(* wdFeed.  Two calls in a row decide alike, so of the calls an action     *)
(* makes only the last is written; exempt says that one for the programmer *)
(* phase came just before and has set wdLastCore1ProgressMs.               *)

\* watchdog_update() starts the countdown again, if the watchdog is armed.
Fed == IF sinceFeed = Off THEN Off ELSE 0

\* Faulty variant: a stalled core 1 is tolerated.
FeedUngated(phase, exempt) ==
  /\ sinceProgress' = 0
  /\ fresh' = FALSE
  /\ sinceFeed' = Fed
  /\ crumb' = phase

\* Faulty variant: the programmer phase is not exempt.
FeedNeverExempt(phase, exempt) ==
  LET progress == IF fresh \/ ~mounted THEN 0 ELSE sinceProgress IN
  /\ sinceProgress' = progress
  /\ fresh' = FALSE
  /\ IF mounted /\ progress > Core1Timeout
     THEN sinceFeed' = sinceFeed /\ crumb' = "CORE1_STALLED"
     ELSE sinceFeed' = Fed /\ crumb' = phase

\* Faulty variant: the reason for not feeding is not recorded.
FeedNoCrumb(phase, exempt) ==
  LET enforce == mounted /\ ~exempt
      progress == IF fresh \/ ~enforce THEN 0 ELSE sinceProgress IN
  /\ sinceProgress' = progress
  /\ fresh' = FALSE
  /\ crumb' = phase
  /\ sinceFeed' = IF progress > Core1Timeout THEN sinceFeed ELSE Fed

Feed(phase, exempt) ==
  LET enforceCore1 == mounted /\ ~exempt
      progress == IF fresh \/ ~enforceCore1 THEN 0 ELSE sinceProgress IN
  /\ sinceProgress' = progress
  /\ fresh' = FALSE
  /\ IF progress > Core1Timeout
     THEN sinceFeed' = sinceFeed /\ crumb' = "CORE1_STALLED"
     ELSE sinceFeed' = Fed /\ crumb' = phase

\* The first half of commitMemoryToFlash: startLoops and startTime are taken.
CommitBegins(return) ==
  /\ loc' = "wait"
  /\ left' = CommitWait
  /\ after' = return
  /\ counted' = FALSE

\* Faulty variant: showSelectedMode does not feed the watchdog.
ShowModeUnfed(exempt) ==
  /\ loc' = "blink"
  /\ left' = BlinkTime
  /\ UNCHANGED feedVars

ShowModeBegins(exempt) ==
  /\ loc' = "blink"
  /\ left' = BlinkTime
  /\ Feed("SHOW_MODE", exempt)

--------------------------------------------------------------------------------
(* setup()                                                                 *)

\* Faulty variant: with the light show the start of the USB host is left out.
AfterMemoryUnstarted == IF recovering THEN "loop" ELSE "startup"

\* After a reset by the watchdog the light show and the blink are left out.
AfterMemory == IF recovering THEN "start" ELSE "startup"
TimeOf(place) == IF place = "startup" THEN StartupTime ELSE 0

\* Faulty variant: the check bytes are not looked at.
BootUnchecked ==
  /\ At("boot")
  /\ settings' = flash
  /\ loc' = AfterMemory /\ left' = TimeOf(AfterMemory)
  /\ sinceFeed' = 0
  /\ UNCHANGED <<after, counted, crumb, sinceProgress, fresh, round, recovering, flash, core1Vars>>

\* Faulty variant: the watchdog is not armed.
BootUnarmed ==
  /\ At("boot")
  /\ settings' = IF flash = Blank THEN Default ELSE flash
  /\ loc' = AfterMemory /\ left' = TimeOf(AfterMemory)
  /\ UNCHANGED <<after, counted, feedVars, round, recovering, flash, core1Vars>>

\* wdSetup and initMemory(0); nobody has started core 1 yet.
Boot ==
  /\ At("boot")
  /\ sinceFeed' = 0
  /\ IF flash = Blank
     THEN /\ settings' = Default
          /\ CommitBegins(AfterMemory)
          /\ crumb' = "COMMIT_WAIT"
     ELSE /\ settings' = flash
          /\ loc' = AfterMemory /\ left' = TimeOf(AfterMemory)
          /\ UNCHANGED <<after, counted, crumb>>
  /\ UNCHANGED <<sinceProgress, fresh, round, recovering, flash, core1Vars>>

StartupEnds ==
  /\ At("startup")
  /\ left = 0
  /\ ShowModeBegins(FALSE)
  /\ UNCHANGED <<after, round, recovering, memoryVars, counted, core1Vars>>

\* usbMidiStartHost, which lets setup1 run, and the setMode() loop() begins with.
StartHost ==
  /\ At("start")
  /\ core1' = "running"
  /\ loc' = "loop"
  /\ Feed("SETMODE", FALSE)
  /\ UNCHANGED <<left, after, round, recovering, memoryVars, counted, mounted, stalls, stalledFor>>

--------------------------------------------------------------------------------
(* The loops of the modes and of the programmer.  Each round begins with a *)
(* feed, so whatever happens in it happens just after one.                 *)

InLoop == At("loop") \/ At("programmer")

GoRound ==
  /\ InLoop
  /\ ~round
  /\ round' = TRUE
  /\ Feed("SETMODE", loc = "programmer")
  /\ UNCHANGED <<loc, left, after, recovering, memoryVars, counted, core1Vars>>

\* Keyboard mode sends the keys its messages stand for, about 5 ms each: a handful
\* for a note, and of notes as many as USB has, which modeLSDJKeyboardMidiReceive
\* takes in one go while the queue fills again.  It feeds before, and when the queue
\* is empty.  (Programs come from the DIN port, one in a round of the loop.)
SendKeys ==
  /\ At("loop")
  /\ ~round
  /\ loc' = "keys"
  /\ Feed("MODE_LOOP", FALSE)
  /\ UNCHANGED <<left, after, round, recovering, memoryVars, counted, core1Vars>>

KeysSent ==
  /\ At("keys")
  /\ loc' = "loop"
  /\ round' = TRUE
  /\ Feed("SETMODE", FALSE)
  /\ UNCHANGED <<left, after, recovering, memoryVars, counted, core1Vars>>

\* The commands of the editor come from USB, between two messages too.
Polling == InLoop \/ At("keys")

Commits(m, return) ==
  /\ Polling
  /\ settings' = m
  /\ CommitBegins(return)
  /\ Feed("COMMIT_WAIT", loc = "programmer")
  /\ round' = FALSE
  /\ stalledFor' = IF loc = "programmer" THEN 0 ELSE stalledFor
  /\ UNCHANGED <<recovering, flash, core1, mounted, stalls>>

\* A press of the button, or the command that selects a mode.
ChangeMode(m) == Commits(m, "blink")

\* setProgrammerMemorySave and setProgrammerRestoreMemory, and setMidioutDelay, whose
\* command is obeyed outside a session too.
SaveMemory(m) == Commits(m, loc)

\* An ENTER command: modeProgrammer is called from the mode's loop.
EnterProgrammer ==
  /\ At("loop") \/ At("keys")
  /\ loc' = "programmer"
  /\ Feed("PROGRAMMER", TRUE)
  /\ round' = FALSE
  /\ stalledFor' = 0
  /\ UNCHANGED <<left, after, recovering, memoryVars, counted, core1, mounted, stalls>>

\* The session has timed out.
LeaveProgrammer ==
  /\ At("programmer")
  /\ ShowModeBegins(TRUE)
  /\ round' = FALSE
  /\ UNCHANGED <<after, recovering, memoryVars, counted, core1Vars>>

BlinkEnds ==
  /\ At("blink")
  /\ left = 0
  /\ loc' = IF core1 = "off" THEN "start" ELSE "loop"
  /\ UNCHANGED <<left, after, round, recovering, memoryVars, feedVars, counted, core1Vars>>

--------------------------------------------------------------------------------
(* The rest of commitMemoryToFlash.                                        *)

CommitReturn ==
  IF after = "blink"
  THEN ShowModeBegins(FALSE)
  ELSE /\ loc' = after
       /\ left' = TimeOf(after)
       /\ UNCHANGED feedVars

\* Core 1 has completed a pass: EEPROM.commit() is called.
CommitGo ==
  /\ At("wait")
  /\ counted
  /\ loc' = "commit"
  /\ Feed("EEPROM_COMMIT", FALSE)
  /\ UNCHANGED <<left, after, round, recovering, memoryVars, counted, core1Vars>>

CommitSkip ==
  /\ At("wait")
  /\ ~counted
  /\ left = 0
  /\ CommitReturn
  /\ UNCHANGED <<after, round, recovering, memoryVars, counted, core1Vars>>

\* idleOtherCore returns and the flash is erased.
WriteBegins ==
  /\ At("commit")
  /\ core1 = "running"
  /\ loc' = "write"
  /\ left' = WriteTime
  /\ flash' = Blank
  /\ UNCHANGED <<after, round, recovering, settings, feedVars, counted, core1Vars>>

WriteEnds ==
  /\ At("write")
  /\ left = 0
  /\ flash' = settings
  /\ CommitReturn
  /\ UNCHANGED <<after, round, recovering, settings, counted, core1Vars>>

Core0 ==
  \/ Boot \/ StartupEnds \/ StartHost
  \/ GoRound \/ BlinkEnds
  \/ CommitGo \/ CommitSkip \/ WriteBegins \/ WriteEnds

\* What the player and the editor may do.
User ==
  \/ \E m \in Settings : ChangeMode(m) \/ SaveMemory(m)
  \/ EnterProgrammer
  \/ LeaveProgrammer
  \/ SendKeys \/ KeysSent

--------------------------------------------------------------------------------
(* Core 1, which does nothing while the flash is written.                  *)

Passing == core1 = "running" /\ loc # "write"

Pass ==
  /\ Passing
  /\ fresh' = TRUE
  /\ counted' = TRUE
  /\ UNCHANGED <<loc, left, after, round, recovering, memoryVars, sinceFeed, crumb,
                 sinceProgress, core1Vars>>

Stall ==
  /\ Passing
  /\ core1' = "stalled"
  /\ stalls' = TRUE
  /\ UNCHANGED <<loc, left, after, round, recovering, memoryVars, feedVars, counted, mounted,
                 stalledFor>>

Resume ==
  /\ core1 = "stalled"
  /\ ~Expired
  /\ core1' = "running"
  /\ stalledFor' = 0
  /\ UNCHANGED <<loc, left, after, round, recovering, memoryVars, feedVars, counted, mounted,
                 stalls>>

\* tuh_midi_mount_cb and tuh_midi_umount_cb, for the first and the last device.
Plug ==
  /\ Passing
  /\ mounted' = ~mounted
  /\ UNCHANGED <<loc, left, after, round, recovering, memoryVars, feedVars, counted, core1, stalls,
                 stalledFor>>

Core1 == Pass \/ Stall \/ Resume \/ Plug

--------------------------------------------------------------------------------
(* Time and the watchdog.                                                  *)

Reset ==
  /\ Expired
  /\ loc' = "boot"
  /\ left' = 0
  /\ after' = "startup"
  /\ round' = FALSE
  /\ recovering' = TRUE
  /\ settings' = Default
  /\ sinceFeed' = Off
  /\ sinceProgress' = 0
  /\ fresh' = FALSE
  /\ counted' = FALSE
  /\ core1' = "off"
  /\ mounted' = FALSE
  /\ stalls' = FALSE
  /\ stalledFor' = 0
  /\ UNCHANGED <<flash, crumb>>

SomethingIsDue ==
  \/ loc \in {"boot", "start"}
  \/ InLoop /\ ~round
  \/ loc \in {"startup", "blink", "wait", "write"} /\ left = 0
  \/ loc = "wait" /\ counted
  \/ loc = "commit" /\ core1 = "running"

\* A stall is watched while a device is mounted, outside the programmer's loop.
Watched == core1 = "stalled" /\ mounted /\ loc # "programmer"

\* Until the first feed that can see it, until the first that is refused, and until
\* the reset.
LongestStall == WatchdogTime + Core1Timeout + WatchdogTime

Older(age, limit) == IF age > limit THEN age ELSE age + 1

Tick ==
  /\ ~Expired
  /\ ~SomethingIsDue
  /\ round' = FALSE
  /\ left' = IF left = 0 THEN 0 ELSE left - 1
  /\ sinceFeed' = IF sinceFeed = Off THEN Off ELSE sinceFeed + 1
  /\ sinceProgress' = Older(sinceProgress, Core1Timeout)
  /\ fresh' = (fresh \/ Passing)
  /\ counted' = (counted \/ Passing)
  /\ stalledFor' = IF Watched THEN Older(stalledFor, LongestStall) ELSE 0
  /\ UNCHANGED <<loc, after, recovering, memoryVars, crumb, core1, mounted, stalls>>

Next == Core0 \/ User \/ Core1 \/ Reset \/ Tick

\* Core 0 executes, the watchdog is hardware, and time passes; nothing makes a
\* stall end.
Spec ==
  /\ Init /\ [][Next]_vars
  /\ WF_vars(Core0)
  /\ SF_vars(Tick)
  /\ WF_vars(Reset)

--------------------------------------------------------------------------------
(* Properties.                                                             *)

TypeOK ==
  /\ loc \in {"boot", "startup", "blink", "start", "loop", "programmer", "keys", "wait", "commit",
             "write"}
  /\ core1 = "off" => loc \in {"boot", "startup", "blink", "start", "wait"}
  /\ left \in 0 .. StartupTime + BlinkTime + WriteTime
  /\ after \in {"startup", "start", "blink", "programmer", "loop", "keys"}
  /\ {round, recovering, fresh, counted, mounted, stalls} \subseteq BOOLEAN
  /\ settings \in Settings \union {Blank}
  /\ flash \in Settings \union {Blank}
  /\ sinceFeed \in Off .. WatchdogTime
  /\ crumb \in {"BOOT", "SETMODE", "MODE_LOOP", "SHOW_MODE", "COMMIT_WAIT",
               "EEPROM_COMMIT", "PROGRAMMER", "CORE1_STALLED"}
  /\ sinceProgress \in 0 .. Core1Timeout + 1
  /\ core1 \in {"off", "running", "stalled"}
  /\ stalledFor \in 0 .. LongestStall + 1

\* A stall of core 1 with a device on the host port is over within twice the
\* watchdog's countdown and CORE1_LIVENESS_TIMEOUT_MS: core 1 comes back or the
\* chip is reset, although it is core 0 that feeds, and does not while it blinks,
\* commits or sends keys.
StallIsOver == stalledFor <= LongestStall

\* While core 1 makes its passes no chain of blocking calls on core 0 (light show,
\* blink, commit) outlasts the watchdog.  The keys of keyboard mode may.
ResetOnlyAfterStall == [][Reset => stalls \/ loc = "keys"]_vars

\* The chip is not reset in the middle of the programmer's loop, although
\* setMode feeds there too, without the programmer's exemption.
ProgrammerNotReset == [][Reset => loc # "programmer"]_vars

\* The phase that survives a reset says where core 0 was: inside EEPROM.commit,
\* or refusing to feed.  Of keys it does not tell, since a commit that a command
\* brings about between them leaves its own phase behind.
CrumbTellsCause ==
  [][(Reset /\ loc # "keys") =>
       crumb = IF loc \in {"commit", "write"} THEN "EEPROM_COMMIT" ELSE "CORE1_STALLED"]_vars

\* commitMemoryToFlash does not freeze the device: it returns, or the watchdog
\* ends it, even when core 1 stalls for ever right after its pass.
CommitIsOver == (loc \in {"wait", "commit", "write"}) ~> (loc \notin {"wait", "commit", "write"})

\* A reset while the flash is erased leaves settings the next boot recovers
\* from: memory[] never holds what an erased flash reads as.
SettingsAreValid == settings # Blank

================================================================================
