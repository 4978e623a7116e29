---------------------------- MODULE Watchdog_proofs ----------------------------
(***************************************************************************)
(* Proofs about the watchdog, for all times that keep the order of the     *)
(* code's (TimingAssumption).  The argument counts: how long ago the last  *)
(* feed can be at each place of core 0, and how long a stall can last      *)
(* before a feed is refused.                                               *)
(***************************************************************************)
EXTENDS Watchdog, TLAPS

Times ==
  /\ WatchdogTime \in Nat /\ Core1Timeout \in Nat /\ CommitWait \in Nat \ {0}
  /\ WriteTime \in Nat \ {0} /\ StartupTime \in Nat \ {0} /\ BlinkTime \in Nat \ {0}
  /\ CommitWait + StartupTime < WatchdogTime
  /\ BlinkTime < WatchdogTime
  /\ WriteTime < WatchdogTime
  /\ WriteTime <= Core1Timeout
  /\ CommitWait <= BlinkTime

Values ==
  /\ loc \in {"boot", "startup", "blink", "start", "loop", "programmer", "keys", "wait", "commit",
             "write"}
  /\ after \in {"startup", "start", "blink", "programmer", "loop", "keys"}
  /\ round \in BOOLEAN /\ recovering \in BOOLEAN
  /\ fresh \in BOOLEAN /\ counted \in BOOLEAN
  /\ mounted \in BOOLEAN /\ stalls \in BOOLEAN
  /\ settings \in Settings
  /\ flash \in Settings \union {Blank}
  /\ crumb \in {"BOOT", "SETMODE", "MODE_LOOP", "SHOW_MODE", "COMMIT_WAIT",
               "EEPROM_COMMIT", "PROGRAMMER", "CORE1_STALLED"}
  /\ core1 \in {"off", "running", "stalled"}

Numbers ==
  /\ left \in 0 .. StartupTime + BlinkTime + WriteTime
  /\ sinceFeed \in Off .. WatchdogTime
  /\ sinceProgress \in 0 .. Core1Timeout + 1
  /\ stalledFor \in Nat

(* Where core 0 can be, and with what, before and after core 1 is started. *)
Places ==
  /\ loc = "boot" <=> sinceFeed = Off
  /\ round => loc \in {"loop", "programmer"}
  /\ loc \in {"start", "loop", "programmer", "keys"} => left = 0
  /\ loc = "startup" => left <= StartupTime
  /\ loc = "blink" => left <= BlinkTime
  /\ loc = "wait" => left <= CommitWait
  /\ loc = "write" => left <= WriteTime /\ core1 = "running"
  /\ loc \in {"boot", "startup", "start"} => core1 = "off"
  /\ core1 = "off" =>
       /\ loc \in {"boot", "startup", "blink", "start", "wait"}
       /\ ~mounted /\ ~fresh /\ ~stalls
       /\ loc = "wait" => after \in {"startup", "start"} /\ ~counted
  /\ core1 # "off" /\ loc \in {"wait", "commit", "write"} =>
       after \in {"blink", "programmer", "loop", "keys"}
  /\ core1 = "stalled" => stalls
  /\ loc = "wait" => (counted <=> fresh)

(* How long ago the last feed can be, unless one was refused since.        *)
InTime ==
  /\ loc = "wait" => sinceFeed + left <= CommitWait
  /\ loc = "startup" => sinceFeed + left <= CommitWait + StartupTime
  /\ loc = "blink" => sinceFeed + left <= BlinkTime
  /\ loc = "start" => ~Expired
  /\ loc = "loop" => ~Expired /\ (round => sinceFeed = 0)

FedInTime ==
  /\ loc = "programmer" => ~Expired /\ (round => sinceFeed = 0)
  /\ loc \in {"commit", "write"} => crumb = "EEPROM_COMMIT"
  /\ core1 = "off" \/ crumb # "CORE1_STALLED" => InTime

(* As long as core 1 has not stalled, no feed is refused.                  *)
NeverRefused ==
  ~stalls =>
    /\ core1 = "running" => crumb # "CORE1_STALLED"
    /\ core1 = "running" /\ ~fresh => sinceProgress <= WriteTime
    /\ loc = "commit" => sinceFeed = 0 /\ sinceProgress = 0
    /\ loc = "write" => sinceFeed + left <= WriteTime /\ sinceProgress + left <= WriteTime

(* A stall lasts at most WatchdogTime until the first feed after it, which *)
(* starts sinceProgress at 0 (FirstFeed; only keys make it more than       *)
(* BlinkTime); from then on at most as long as sinceProgress says; and     *)
(* what is left is the time since the last feed.                           *)
FirstFeed ==
  /\ loc = "programmer" => stalledFor <= BlinkTime
  /\ loc = "wait" /\ after = "programmer" => stalledFor + left <= CommitWait
  /\ loc = "wait" /\ fresh => stalledFor = 0
  /\ loc = "blink" /\ fresh => stalledFor + left <= BlinkTime
  /\ loc = "loop" /\ fresh => stalledFor <= BlinkTime /\ (round => stalledFor = 0)
  /\ loc = "keys" /\ fresh => stalledFor <= sinceFeed
  /\ loc = "commit" => stalledFor <= sinceFeed

StallTime ==
  /\ core1 # "stalled" \/ ~mounted => stalledFor = 0
  /\ FirstFeed
  /\ loc \notin {"programmer", "commit"} /\ ~fresh /\ sinceProgress <= Core1Timeout =>
       stalledFor <= WatchdogTime + sinceProgress
  /\ loc # "programmer" => stalledFor <= WatchdogTime + Core1Timeout + sinceFeed \/ stalledFor = 0

IndInv == Values /\ Numbers /\ Places /\ FedInTime /\ NeverRefused /\ StallTime

(* The times are in the order the proofs need.                            *)
LEMMA TimesHold == Times
BY TimesAssumption, TimingAssumption DEF Times

--------------------------------------------------------------------------------
(* A feed.                                                                 *)

Refused == sinceProgress' > Core1Timeout

(* What wdFeed does: it is refused only when core 1 is watched, has made   *)
(* no pass since the last feed, and has made none for too long.            *)
LEMMA FeedEffect ==
  ASSUME Values, Numbers, NEW phase, NEW exempt \in BOOLEAN, Feed(phase, exempt)
  PROVE  /\ fresh' = FALSE
         /\ sinceProgress' = IF fresh \/ ~mounted \/ exempt THEN 0 ELSE sinceProgress
         /\ ~Refused => crumb' = phase /\ sinceFeed' = Fed
         /\ Refused => crumb' = "CORE1_STALLED" /\ sinceFeed' = sinceFeed
BY TimesHold DEF Feed, Refused, Times, Values, Numbers

--------------------------------------------------------------------------------
(* The steps that feed.                                                    *)

(* The light show is over, and the blink begins.                           *)
LEMMA StartupEndsStep ==
  ASSUME IndInv, StartupEnds
  PROVE  IndInv'
<1> USE TimesHold DEF Times, StartupEnds, InLoop, At, Expired, ShowModeBegins,
                      memoryVars, core1Vars, Fed, Off, Refused
<1>1. Feed("SHOW_MODE", FALSE)
  BY DEF StartupEnds, ShowModeBegins
<1>2. /\ fresh' = FALSE
      /\ sinceProgress' = IF fresh \/ ~mounted THEN 0 ELSE sinceProgress
      /\ ~Refused => crumb' = "SHOW_MODE" /\ sinceFeed' = Fed
      /\ Refused => crumb' = "CORE1_STALLED" /\ sinceFeed' = sinceFeed
  BY <1>1, FeedEffect DEF IndInv
<1>3. Values'
  BY <1>2 DEF IndInv, Values
<1>4. Numbers'
  BY <1>2 DEF IndInv, Values, Numbers, Places, FedInTime, InTime
<1>5. Places'
  BY <1>2 DEF IndInv, Values, Numbers, Places
<1>6. FedInTime'
  BY <1>2 DEF IndInv, Values, Numbers, Places, FedInTime, InTime
<1>7. NeverRefused'
  BY <1>2 DEF IndInv, Values, Numbers, Places, FedInTime, NeverRefused
<1>8. StallTime'
  BY <1>2 DEF IndInv, Values, Numbers, Places, FedInTime, FirstFeed, StallTime
<1> QED
  BY <1>3, <1>4, <1>5, <1>6, <1>7, <1>8 DEF IndInv

(* Core 1 is started, which nobody has watched before.                     *)
LEMMA StartHostStep ==
  ASSUME IndInv, StartHost
  PROVE  IndInv'
<1> USE TimesHold DEF Times, StartHost, InLoop, At, Expired, memoryVars,
                      core1Vars, Fed, Off, Refused
<1>1. Feed("SETMODE", FALSE)
  BY DEF StartHost
<1>2. /\ fresh' = FALSE
      /\ sinceProgress' = IF fresh \/ ~mounted THEN 0 ELSE sinceProgress
      /\ ~Refused => crumb' = "SETMODE" /\ sinceFeed' = Fed
      /\ Refused => crumb' = "CORE1_STALLED" /\ sinceFeed' = sinceFeed
  BY <1>1, FeedEffect DEF IndInv
<1>3. Values'
  BY <1>2 DEF IndInv, Values
<1>4. Numbers'
  BY <1>2 DEF IndInv, Values, Numbers, Places, FedInTime, InTime
<1>5. Places'
  BY <1>2 DEF IndInv, Values, Numbers, Places
<1>6. FedInTime'
  BY <1>2 DEF IndInv, Values, Numbers, Places, FedInTime, InTime
<1>7. NeverRefused'
  BY <1>2 DEF IndInv, Values, Numbers, Places, FedInTime, NeverRefused
<1>8. StallTime'
  BY <1>2 DEF IndInv, Values, Numbers, Places, FedInTime, FirstFeed, StallTime
<1> QED
  BY <1>3, <1>4, <1>5, <1>6, <1>7, <1>8 DEF IndInv

(* A round of a loop.                                                      *)
LEMMA GoRoundStep ==
  ASSUME IndInv, GoRound
  PROVE  IndInv'
<1> USE TimesHold DEF Times, GoRound, InLoop, At, Expired, memoryVars,
                      core1Vars, Fed, Off, Refused
<1>1. Feed("SETMODE", loc = "programmer")
  BY DEF GoRound
<1>2. /\ fresh' = FALSE
      /\ sinceProgress' = IF fresh \/ ~mounted \/ loc = "programmer" THEN 0 ELSE sinceProgress
      /\ ~Refused => crumb' = "SETMODE" /\ sinceFeed' = Fed
      /\ Refused => crumb' = "CORE1_STALLED" /\ sinceFeed' = sinceFeed
  BY <1>1, FeedEffect DEF IndInv
<1>3. Values'
  BY <1>2 DEF IndInv, Values
<1>4. Numbers'
  BY <1>2 DEF IndInv, Values, Numbers, Places, FedInTime, InTime
<1>5. Places'
  BY <1>2 DEF IndInv, Values, Numbers, Places
<1>6. FedInTime'
  BY <1>2 DEF IndInv, Values, Numbers, Places, FedInTime, InTime
<1>7. NeverRefused'
  BY <1>2 DEF IndInv, Values, Numbers, Places, FedInTime, NeverRefused
<1>8. StallTime'
  BY <1>2 DEF IndInv, Values, Numbers, Places, FedInTime, FirstFeed, StallTime
<1> QED
  BY <1>3, <1>4, <1>5, <1>6, <1>7, <1>8 DEF IndInv

(* Keyboard mode begins to send keys.                                      *)
LEMMA SendKeysStep ==
  ASSUME IndInv, SendKeys
  PROVE  IndInv'
<1> USE TimesHold DEF Times, SendKeys, InLoop, At, Expired, memoryVars,
                      core1Vars, Fed, Off, Refused
<1>1. Feed("MODE_LOOP", FALSE)
  BY DEF SendKeys
<1>2. /\ fresh' = FALSE
      /\ sinceProgress' = IF fresh \/ ~mounted THEN 0 ELSE sinceProgress
      /\ ~Refused => crumb' = "MODE_LOOP" /\ sinceFeed' = Fed
      /\ Refused => crumb' = "CORE1_STALLED" /\ sinceFeed' = sinceFeed
  BY <1>1, FeedEffect DEF IndInv
<1>3. Values'
  BY <1>2 DEF IndInv, Values
<1>4. Numbers'
  BY <1>2 DEF IndInv, Values, Numbers, Places, FedInTime, InTime
<1>5. Places'
  BY <1>2 DEF IndInv, Values, Numbers, Places
<1>6. FedInTime'
  BY <1>2 DEF IndInv, Values, Numbers, Places, FedInTime, InTime
<1>7. NeverRefused'
  BY <1>2 DEF IndInv, Values, Numbers, Places, FedInTime, NeverRefused
<1>8. StallTime'
  BY <1>2 DEF IndInv, Values, Numbers, Places, FedInTime, FirstFeed, StallTime
<1> QED
  BY <1>3, <1>4, <1>5, <1>6, <1>7, <1>8 DEF IndInv

(* Keyboard mode has sent its keys, and the loop goes on.                  *)
LEMMA KeysSentStep ==
  ASSUME IndInv, KeysSent
  PROVE  IndInv'
<1> USE TimesHold DEF Times, KeysSent, InLoop, At, Expired, memoryVars,
                      core1Vars, Fed, Off, Refused
<1>1. Feed("SETMODE", FALSE)
  BY DEF KeysSent
<1>2. /\ fresh' = FALSE
      /\ sinceProgress' = IF fresh \/ ~mounted THEN 0 ELSE sinceProgress
      /\ ~Refused => crumb' = "SETMODE" /\ sinceFeed' = Fed
      /\ Refused => crumb' = "CORE1_STALLED" /\ sinceFeed' = sinceFeed
  BY <1>1, FeedEffect DEF IndInv
<1>3. Values'
  BY <1>2 DEF IndInv, Values
<1>4. Numbers'
  BY <1>2 DEF IndInv, Values, Numbers, Places, FedInTime, InTime
<1>5. Places'
  BY <1>2 DEF IndInv, Values, Numbers, Places
<1>6. FedInTime'
  BY <1>2 DEF IndInv, Values, Numbers, Places, FedInTime, InTime
<1>7. NeverRefused'
  BY <1>2 DEF IndInv, Values, Numbers, Places, FedInTime, NeverRefused
<1>8. StallTime'
  BY <1>2 DEF IndInv, Values, Numbers, Places, FedInTime, FirstFeed, StallTime
<1> QED
  BY <1>3, <1>4, <1>5, <1>6, <1>7, <1>8 DEF IndInv

(* A command or a button that ends in a commit, which goes to the blink of *)
(* a new mode or back to where it came from.                               *)
LEMMA CommitsStep ==
  ASSUME IndInv, NEW m \in Settings, NEW return \in {"blink", loc}, Commits(m, return)
  PROVE  IndInv'
<1> USE TimesHold DEF Times, Commits, Polling, InLoop, At, Expired, CommitBegins,
                      memoryVars, core1Vars, Fed, Off, Refused
<1>1. Feed("COMMIT_WAIT", loc = "programmer")
  BY DEF Commits
<1>2. /\ fresh' = FALSE
      /\ sinceProgress' = IF fresh \/ ~mounted \/ loc = "programmer" THEN 0 ELSE sinceProgress
      /\ ~Refused => crumb' = "COMMIT_WAIT" /\ sinceFeed' = Fed
      /\ Refused => crumb' = "CORE1_STALLED" /\ sinceFeed' = sinceFeed
  BY <1>1, FeedEffect DEF IndInv
<1>3. Values'
  BY <1>2 DEF IndInv, Values
<1>4. Numbers'
  BY <1>2 DEF IndInv, Values, Numbers, Places, FedInTime, InTime
<1>5. Places'
  BY <1>2 DEF IndInv, Values, Numbers, Places
<1>6. FedInTime'
  BY <1>2 DEF IndInv, Values, Numbers, Places, FedInTime, InTime
<1>7. NeverRefused'
  BY <1>2 DEF IndInv, Values, Numbers, Places, FedInTime, NeverRefused
<1>8. StallTime'
  BY <1>2 DEF IndInv, Values, Numbers, Places, FedInTime, FirstFeed, StallTime
<1> QED
  BY <1>3, <1>4, <1>5, <1>6, <1>7, <1>8 DEF IndInv

(* The programmer's loop is entered.                                       *)
LEMMA EnterProgrammerStep ==
  ASSUME IndInv, EnterProgrammer
  PROVE  IndInv'
<1> USE TimesHold DEF Times, EnterProgrammer, InLoop, At, Expired, memoryVars,
                      core1Vars, Fed, Off, Refused
<1>1. Feed("PROGRAMMER", TRUE)
  BY DEF EnterProgrammer
<1>2. /\ fresh' = FALSE
      /\ sinceProgress' = IF fresh \/ ~mounted \/ TRUE THEN 0 ELSE sinceProgress
      /\ ~Refused => crumb' = "PROGRAMMER" /\ sinceFeed' = Fed
      /\ Refused => crumb' = "CORE1_STALLED" /\ sinceFeed' = sinceFeed
  BY <1>1, FeedEffect DEF IndInv
<1>3. Values'
  BY <1>2 DEF IndInv, Values
<1>4. Numbers'
  BY <1>2 DEF IndInv, Values, Numbers, Places, FedInTime, InTime
<1>5. Places'
  BY <1>2 DEF IndInv, Values, Numbers, Places
<1>6. FedInTime'
  BY <1>2 DEF IndInv, Values, Numbers, Places, FedInTime, InTime
<1>7. NeverRefused'
  BY <1>2 DEF IndInv, Values, Numbers, Places, FedInTime, NeverRefused
<1>8. StallTime'
  BY <1>2 DEF IndInv, Values, Numbers, Places, FedInTime, FirstFeed, StallTime
<1> QED
  BY <1>3, <1>4, <1>5, <1>6, <1>7, <1>8 DEF IndInv

(* The programmer's loop is left.                                          *)
LEMMA LeaveProgrammerStep ==
  ASSUME IndInv, LeaveProgrammer
  PROVE  IndInv'
<1> USE TimesHold DEF Times, LeaveProgrammer, InLoop, At, Expired,
                      ShowModeBegins, memoryVars, core1Vars, Fed, Off, Refused
<1>1. Feed("SHOW_MODE", TRUE)
  BY DEF LeaveProgrammer, ShowModeBegins
<1>2. /\ fresh' = FALSE
      /\ sinceProgress' = IF fresh \/ ~mounted \/ TRUE THEN 0 ELSE sinceProgress
      /\ ~Refused => crumb' = "SHOW_MODE" /\ sinceFeed' = Fed
      /\ Refused => crumb' = "CORE1_STALLED" /\ sinceFeed' = sinceFeed
  BY <1>1, FeedEffect DEF IndInv
<1>3. Values'
  BY <1>2 DEF IndInv, Values
<1>4. Numbers'
  BY <1>2 DEF IndInv, Values, Numbers, Places, FedInTime, InTime
<1>5. Places'
  BY <1>2 DEF IndInv, Values, Numbers, Places
<1>6. FedInTime'
  BY <1>2 DEF IndInv, Values, Numbers, Places, FedInTime, InTime
<1>7. NeverRefused'
  BY <1>2 DEF IndInv, Values, Numbers, Places, FedInTime, NeverRefused
<1>8. StallTime'
  BY <1>2 DEF IndInv, Values, Numbers, Places, FedInTime, FirstFeed, StallTime
<1> QED
  BY <1>3, <1>4, <1>5, <1>6, <1>7, <1>8 DEF IndInv

(* The commit goes on to the library: core 1 has made a pass.              *)
LEMMA CommitGoStep ==
  ASSUME IndInv, CommitGo
  PROVE  IndInv'
<1> USE TimesHold DEF Times, CommitGo, InLoop, At, Expired, memoryVars,
                      core1Vars, Fed, Off, Refused
<1>1. Feed("EEPROM_COMMIT", FALSE)
  BY DEF CommitGo
<1>2. /\ fresh' = FALSE
      /\ sinceProgress' = IF fresh \/ ~mounted THEN 0 ELSE sinceProgress
      /\ ~Refused => crumb' = "EEPROM_COMMIT" /\ sinceFeed' = Fed
      /\ Refused => crumb' = "CORE1_STALLED" /\ sinceFeed' = sinceFeed
  BY <1>1, FeedEffect DEF IndInv
<1>3. Values'
  BY <1>2 DEF IndInv, Values
<1>4. Numbers'
  BY <1>2 DEF IndInv, Values, Numbers, Places, FedInTime, InTime
<1>5. Places'
  BY <1>2 DEF IndInv, Values, Numbers, Places
<1>6. FedInTime'
  BY <1>2 DEF IndInv, Values, Numbers, Places, FedInTime, InTime
<1>7. NeverRefused'
  BY <1>2 DEF IndInv, Values, Numbers, Places, FedInTime, NeverRefused
<1>8. StallTime'
  BY <1>2 DEF IndInv, Values, Numbers, Places, FedInTime, FirstFeed, StallTime
<1> QED
  BY <1>3, <1>4, <1>5, <1>6, <1>7, <1>8 DEF IndInv

--------------------------------------------------------------------------------
(* The other steps of core 0.                                              *)

(* The chip boots.                                                         *)
LEMMA BootStep ==
  ASSUME IndInv, Boot
  PROVE  IndInv'
<1> USE TimesHold DEF Times, Boot, InLoop, At, Expired, AfterMemory, TimeOf,
                      CommitBegins, memoryVars, feedVars, core1Vars, Off
<1>1. Values'
  <2>1. settings' \in Settings
    BY SettingsAssumption DEF IndInv, Values
  <2>2. /\ loc' \in {"wait", "startup", "start"} /\ after' \in {"startup", "start", after}
        /\ counted' \in {FALSE, counted} /\ crumb' \in {"COMMIT_WAIT", crumb}
    BY DEF IndInv, Values, Places
  <2>3. UNCHANGED <<round, recovering, fresh, flash, core1, mounted, stalls>>
    OBVIOUS
  <2>4. Values
    BY DEF IndInv
  <2> HIDE DEF Boot, CommitBegins, AfterMemory, TimeOf, InLoop, At, Expired, Times
  <2>5. /\ loc' \in {"boot", "startup", "blink", "start", "loop", "programmer", "keys", "wait",
                     "commit", "write"}
        /\ after' \in {"startup", "start", "blink", "programmer", "loop", "keys"}
    BY <2>2, <2>4 DEF Values
  <2>6. /\ counted' \in BOOLEAN
        /\ crumb' \in {"BOOT", "SETMODE", "MODE_LOOP", "SHOW_MODE", "COMMIT_WAIT",
                      "EEPROM_COMMIT", "PROGRAMMER", "CORE1_STALLED"}
    BY <2>2, <2>4 DEF Values
  <2> QED
    BY <2>1, <2>3, <2>4, <2>5, <2>6, Zenon DEF Values
<1>2. Numbers'
  BY DEF IndInv, Values, Numbers, Places, FedInTime, InTime
<1>3. Places'
  BY DEF IndInv, Values, Numbers, Places
<1>4. FedInTime'
  BY DEF IndInv, Values, Numbers, Places, FedInTime, InTime
<1>5. NeverRefused'
  BY DEF IndInv, Values, Numbers, Places, FedInTime, NeverRefused
<1>6. StallTime'
  BY DEF IndInv, Values, Numbers, Places, FedInTime, FirstFeed, StallTime
<1> QED
  BY <1>1, <1>2, <1>3, <1>4, <1>5, <1>6 DEF IndInv

(* The blink is over.                                                      *)
LEMMA BlinkEndsStep ==
  ASSUME IndInv, BlinkEnds
  PROVE  IndInv'
<1> USE TimesHold DEF Times, BlinkEnds, InLoop, At, Expired, memoryVars,
                      feedVars, core1Vars, Off
<1>1. Values'
  BY DEF IndInv, Values
<1>2. Numbers'
  BY DEF IndInv, Values, Numbers, Places, FedInTime, InTime
<1>3. Places'
  BY DEF IndInv, Values, Numbers, Places
<1>4. FedInTime'
  BY DEF IndInv, Values, Numbers, Places, FedInTime, InTime
<1>5. NeverRefused'
  BY DEF IndInv, Values, Numbers, Places, FedInTime, NeverRefused
<1>6. StallTime'
  BY DEF IndInv, Values, Numbers, Places, FedInTime, FirstFeed, StallTime
<1> QED
  BY <1>1, <1>2, <1>3, <1>4, <1>5, <1>6 DEF IndInv

(* The commit is given up.                                                 *)
LEMMA CommitSkipStep ==
  ASSUME IndInv, CommitSkip
  PROVE  IndInv'
<1> USE TimesHold DEF Times, CommitSkip, InLoop, At, Expired, CommitReturn,
                      TimeOf, ShowModeBegins, Feed, Fed, memoryVars, feedVars,
                      core1Vars, Off
<1>1. Values'
  <2>1. loc' \in {"blink", after} /\ fresh' \in BOOLEAN /\ crumb' \in {"SHOW_MODE", "CORE1_STALLED", crumb}
    BY DEF IndInv, Values
  <2>2. UNCHANGED <<after, round, recovering, settings, flash, counted, core1, mounted, stalls>>
    OBVIOUS
  <2> HIDE DEF CommitSkip, CommitReturn, ShowModeBegins, Feed, TimeOf
  <2> QED
    BY <2>1, <2>2 DEF IndInv, Values
<1>2. Numbers'
  BY DEF IndInv, Values, Numbers, Places, FedInTime, InTime
<1>3. Places'
  BY DEF IndInv, Values, Numbers, Places
<1>4. FedInTime'
  BY DEF IndInv, Values, Numbers, Places, FedInTime, InTime
<1>5. NeverRefused'
  BY DEF IndInv, Values, Numbers, Places, FedInTime, NeverRefused
<1>6. StallTime'
  BY DEF IndInv, Values, Numbers, Places, FedInTime, FirstFeed, StallTime
<1> QED
  BY <1>1, <1>2, <1>3, <1>4, <1>5, <1>6 DEF IndInv

(* The flash is erased.                                                    *)
LEMMA WriteBeginsStep ==
  ASSUME IndInv, WriteBegins
  PROVE  IndInv'
<1> USE TimesHold DEF Times, WriteBegins, InLoop, At, Expired, memoryVars,
                      feedVars, core1Vars, Off
<1>1. Values'
  BY DEF IndInv, Values
<1>2. Numbers'
  BY DEF IndInv, Values, Numbers, Places, FedInTime, InTime
<1>3. Places'
  BY DEF IndInv, Values, Numbers, Places
<1>4. FedInTime'
  BY DEF IndInv, Values, Numbers, Places, FedInTime, InTime
<1>5. NeverRefused'
  BY DEF IndInv, Values, Numbers, Places, FedInTime, NeverRefused
<1>6. StallTime'
  BY DEF IndInv, Values, Numbers, Places, FedInTime, FirstFeed, StallTime
<1> QED
  BY <1>1, <1>2, <1>3, <1>4, <1>5, <1>6 DEF IndInv

(* The flash is written.                                                   *)
LEMMA WriteEndsStep ==
  ASSUME IndInv, WriteEnds
  PROVE  IndInv'
<1> USE TimesHold DEF Times, WriteEnds, InLoop, At, Expired, CommitReturn,
                      TimeOf, ShowModeBegins, Feed, Fed, memoryVars, feedVars,
                      core1Vars, Off
<1>1. Values'
  <2>1. loc' \in {"blink", after} /\ fresh' \in BOOLEAN /\ crumb' \in {"SHOW_MODE", "CORE1_STALLED", crumb}
    BY DEF IndInv, Values
  <2>2. flash' = settings /\ UNCHANGED <<after, round, recovering, settings, counted, core1, mounted, stalls>>
    OBVIOUS
  <2> HIDE DEF WriteEnds, CommitReturn, ShowModeBegins, Feed, TimeOf
  <2> QED
    BY <2>1, <2>2 DEF IndInv, Values
<1>2. Numbers'
  BY DEF IndInv, Values, Numbers, Places, FedInTime, InTime
<1>3. Places'
  BY DEF IndInv, Values, Numbers, Places
<1>4. FedInTime'
  BY DEF IndInv, Values, Numbers, Places, FedInTime, InTime
<1>5. NeverRefused'
  BY DEF IndInv, Values, Numbers, Places, FedInTime, NeverRefused
<1>6. StallTime'
  BY DEF IndInv, Values, Numbers, Places, FedInTime, FirstFeed, StallTime
<1> QED
  BY <1>1, <1>2, <1>3, <1>4, <1>5, <1>6 DEF IndInv

--------------------------------------------------------------------------------
(* Core 1, the watchdog and time.                                          *)

(* Core 1 completes a pass.                                                *)
LEMMA PassStep ==
  ASSUME IndInv, Pass
  PROVE  IndInv'
<1> USE TimesHold DEF Times, Pass, InLoop, At, Expired, Passing, memoryVars,
                      feedVars, core1Vars, Off
<1>1. Values'
  BY DEF IndInv, Values
<1>2. Numbers'
  BY DEF IndInv, Values, Numbers, Places, FedInTime, InTime
<1>3. Places'
  BY DEF IndInv, Values, Numbers, Places
<1>4. FedInTime'
  BY DEF IndInv, Values, Numbers, Places, FedInTime, InTime
<1>5. NeverRefused'
  BY DEF IndInv, Values, Numbers, Places, FedInTime, NeverRefused
<1>6. StallTime'
  BY DEF IndInv, Values, Numbers, Places, FedInTime, FirstFeed, StallTime
<1> QED
  BY <1>1, <1>2, <1>3, <1>4, <1>5, <1>6 DEF IndInv

(* Core 1 stalls: the age of the stall starts at 0.                        *)
LEMMA StallStep ==
  ASSUME IndInv, Stall
  PROVE  IndInv'
<1> USE TimesHold DEF Times, Stall, InLoop, At, Expired, Passing, memoryVars,
                      feedVars, core1Vars, Off
<1>1. Values'
  BY DEF IndInv, Values
<1>2. Numbers'
  BY DEF IndInv, Values, Numbers, Places, FedInTime, InTime
<1>3. Places'
  BY DEF IndInv, Values, Numbers, Places
<1>4. FedInTime'
  BY DEF IndInv, Values, Numbers, Places, FedInTime, InTime
<1>5. NeverRefused'
  BY DEF IndInv, Values, Numbers, Places, FedInTime, NeverRefused
<1>6. StallTime'
  BY DEF IndInv, Values, Numbers, Places, FedInTime, FirstFeed, StallTime
<1> QED
  BY <1>1, <1>2, <1>3, <1>4, <1>5, <1>6 DEF IndInv

(* Core 1 comes back.                                                      *)
LEMMA ResumeStep ==
  ASSUME IndInv, Resume
  PROVE  IndInv'
<1> USE TimesHold DEF Times, Resume, InLoop, At, Expired, memoryVars, feedVars,
                      core1Vars, Off
<1>1. Values'
  BY DEF IndInv, Values
<1>2. Numbers'
  BY DEF IndInv, Values, Numbers, Places, FedInTime, InTime
<1>3. Places'
  BY DEF IndInv, Values, Numbers, Places
<1>4. FedInTime'
  BY DEF IndInv, Values, Numbers, Places, FedInTime, InTime
<1>5. NeverRefused'
  BY DEF IndInv, Values, Numbers, Places, FedInTime, NeverRefused
<1>6. StallTime'
  BY DEF IndInv, Values, Numbers, Places, FedInTime, FirstFeed, StallTime
<1> QED
  BY <1>1, <1>2, <1>3, <1>4, <1>5, <1>6 DEF IndInv

(* A device is plugged in or out.                                          *)
LEMMA PlugStep ==
  ASSUME IndInv, Plug
  PROVE  IndInv'
<1> USE TimesHold DEF Times, Plug, InLoop, At, Expired, Passing, memoryVars,
                      feedVars, core1Vars, Off
<1>1. Values'
  BY DEF IndInv, Values
<1>2. Numbers'
  BY DEF IndInv, Values, Numbers, Places, FedInTime, InTime
<1>3. Places'
  BY DEF IndInv, Values, Numbers, Places
<1>4. FedInTime'
  BY DEF IndInv, Values, Numbers, Places, FedInTime, InTime
<1>5. NeverRefused'
  BY DEF IndInv, Values, Numbers, Places, FedInTime, NeverRefused
<1>6. StallTime'
  BY DEF IndInv, Values, Numbers, Places, FedInTime, FirstFeed, StallTime
<1> QED
  BY <1>1, <1>2, <1>3, <1>4, <1>5, <1>6 DEF IndInv

(* The watchdog resets the chip.                                           *)
LEMMA ResetStep ==
  ASSUME IndInv, Reset
  PROVE  IndInv'
<1> USE TimesHold DEF Times, Reset, InLoop, At, Expired, memoryVars, feedVars,
                      core1Vars, Off
<1>1. Values'
  BY SettingsAssumption DEF IndInv, Values
<1>2. Numbers'
  BY DEF IndInv, Values, Numbers, Places, FedInTime, InTime
<1>3. Places'
  BY DEF IndInv, Values, Numbers, Places
<1>4. FedInTime'
  BY DEF IndInv, Values, Numbers, Places, FedInTime, InTime
<1>5. NeverRefused'
  BY DEF IndInv, Values, Numbers, Places, FedInTime, NeverRefused
<1>6. StallTime'
  BY DEF IndInv, Values, Numbers, Places, FedInTime, FirstFeed, StallTime
<1> QED
  BY <1>1, <1>2, <1>3, <1>4, <1>5, <1>6 DEF IndInv

(* Time passes.                                                            *)
LEMMA TickStep ==
  ASSUME IndInv, Tick
  PROVE  IndInv'
<1> USE TimesHold DEF Times
<1>1. Values'
  <2>1. Values
    BY DEF IndInv
  <2>2. /\ round' \in BOOLEAN /\ fresh' \in BOOLEAN /\ counted' \in BOOLEAN
        /\ UNCHANGED <<loc, after, recovering, settings, flash, crumb, core1, mounted, stalls>>
    BY DEF Tick, memoryVars
  <2> QED
    BY <2>1, <2>2 DEF Values
<1>2. Numbers'
  BY DEF Tick, Expired, Watched, Older, LongestStall, IndInv, Numbers, Off
<1>3. Places'
  BY DEF Tick, InLoop, SomethingIsDue, Passing, IndInv, Values, Numbers, Places, Off
<1>4. FedInTime'
  BY DEF Tick, InLoop, At, Expired, SomethingIsDue, Passing, IndInv, Values, Numbers, Places,
         FedInTime, InTime, Off
<1>5. NeverRefused'
  <2>1. SUFFICES ASSUME ~stalls
        PROVE  NeverRefused'
    BY DEF NeverRefused, Tick
  <2>2. loc # "commit" /\ core1 # "stalled"
    BY <2>1 DEF Tick, SomethingIsDue, IndInv, Places, Values
  <2>3. loc = "write" => left > 0
    BY DEF Tick, SomethingIsDue, IndInv, Numbers
  <2>4. core1 = "running" /\ ~fresh' => loc = "write"
    BY DEF Tick, Passing, IndInv, Values
  <2>5. loc = "write" => (sinceFeed + left <= WriteTime /\ sinceProgress + left <= WriteTime)'
    BY <2>1, <2>3 DEF Tick, Older, Off, IndInv, Numbers, Places, NeverRefused
  <2>6. loc = "write" => sinceProgress' <= WriteTime
    BY <2>1, <2>3 DEF Tick, Older, Off, IndInv, Numbers, Places, NeverRefused
  <2> QED
    BY <2>1, <2>2, <2>4, <2>5, <2>6 DEF Tick, IndInv, NeverRefused, core1Vars
<1>6. StallTime'
  BY DEF Tick, InLoop, At, Expired, SomethingIsDue, Passing, Watched, Older, LongestStall, IndInv,
         Values, Numbers, Places, FedInTime, FirstFeed, StallTime, Off
<1> QED
  BY <1>1, <1>2, <1>3, <1>4, <1>5, <1>6 DEF IndInv

--------------------------------------------------------------------------------
(* The theorems.                                                           *)

(* The chip is off and everything else at its start.                       *)
LEMMA InitIndInv == Init => IndInv
<1> SUFFICES ASSUME Init
    PROVE  IndInv
  OBVIOUS
<1>1. Values
  BY SettingsAssumption DEF Init, Values
<1>2. Numbers
  BY TimesHold DEF Init, Numbers, Off, Times
<1>3. Places
  BY DEF Init, Places, Off
<1>4. FedInTime /\ NeverRefused /\ StallTime
  BY TimesHold DEF Init, FedInTime, InTime, NeverRefused, StallTime, FirstFeed, Off, Times
<1> QED
  BY <1>1, <1>2, <1>3, <1>4 DEF IndInv

(* Every step of a core, of the user and of time keeps the invariant.      *)
LEMMA NextIndInv == IndInv /\ [Next]_vars => IndInv'
<1> SUFFICES ASSUME IndInv, [Next]_vars
    PROVE  IndInv'
  OBVIOUS
<1>1. CASE Core0
  BY <1>1, BootStep, StartupEndsStep, StartHostStep, GoRoundStep, BlinkEndsStep, CommitGoStep,
     CommitSkipStep, WriteBeginsStep, WriteEndsStep DEF Core0
<1>2. CASE User
  BY <1>2, CommitsStep, EnterProgrammerStep, LeaveProgrammerStep, SendKeysStep,
     KeysSentStep DEF User, ChangeMode, SaveMemory
<1>3. CASE Core1
  BY <1>3, PassStep, StallStep, ResumeStep, PlugStep DEF Core1
<1>4. CASE Reset \/ Tick
  BY <1>4, ResetStep, TickStep
<1>5. CASE UNCHANGED vars
  BY <1>5 DEF vars, memoryVars, feedVars, core1Vars, IndInv, Values, Numbers, Places, FedInTime,
       InTime, Expired, NeverRefused, StallTime, FirstFeed
<1> QED
  BY <1>1, <1>2, <1>3, <1>4, <1>5 DEF Next

(* The inductive invariant holds.                                          *)
THEOREM IndInvHolds == Spec => []IndInv
BY InitIndInv, NextIndInv, PTL DEF Spec

(* A stall ends in time, for all times in the order of TimingAssumption:   *)
(* what has passed until the first feed, until the last one that was not   *)
(* refused, and since, adds up to LongestStall.                            *)
LEMMA StallBound == IndInv => StallIsOver
<1> SUFFICES ASSUME IndInv
    PROVE  stalledFor <= WatchdogTime + Core1Timeout + WatchdogTime
  BY DEF StallIsOver, LongestStall
<1>1. stalledFor \in Nat /\ sinceFeed \in Int /\ sinceFeed <= WatchdogTime
  BY TimesHold DEF IndInv, Numbers, Off, Times
<1>2. \/ stalledFor <= BlinkTime \/ stalledFor <= sinceFeed \/ stalledFor = 0
      \/ stalledFor <= WatchdogTime + Core1Timeout + sinceFeed
  BY DEF IndInv, StallTime, FirstFeed
<1> QED
  BY <1>1, <1>2, TimesHold DEF Times

(* wdFeed, wdSetup, commitMemoryToFlash: whenever core 1 dies with a       *)
(* device on the host port, it comes back or the chip is reset in time.    *)
THEOREM StallEnds == Spec => []StallIsOver
BY IndInvHolds, StallBound, PTL

(* Type correctness.                                                       *)
THEOREM TypeCorrect == Spec => []TypeOK
<1>1. IndInv => TypeOK
  <2> SUFFICES ASSUME IndInv
      PROVE  TypeOK
    OBVIOUS
  <2>1. {round, recovering, fresh, counted, mounted, stalls} \subseteq BOOLEAN
    BY DEF IndInv, Values
  <2>2. stalledFor \in 0 .. LongestStall + 1
    BY StallBound, TimesHold DEF IndInv, Numbers, StallIsOver, LongestStall, Times
  <2>3. core1 = "off" => loc \in {"boot", "startup", "blink", "start", "wait"}
    BY DEF IndInv, Places
  <2> QED
    BY <2>1, <2>2, <2>3 DEF IndInv, Values, Numbers, TypeOK
<1> QED
  BY <1>1, IndInvHolds, PTL

(* initMemory, checkMemory: memory[] never holds what erased flash reads   *)
(* as, in whatever place a reset cuts a commit.                            *)
THEOREM SettingsStayValid == Spec => []SettingsAreValid
<1>1. IndInv => SettingsAreValid
  BY SettingsAssumption DEF IndInv, Values, SettingsAreValid
<1> QED
  BY <1>1, IndInvHolds, PTL

(* Where core 0 can be when the watchdog's time is over.                   *)
LEMMA WhereExpired ==
  ASSUME IndInv, Expired
  PROVE  /\ loc # "programmer"
         /\ loc # "keys" => stalls
         /\ loc # "keys" =>
              crumb = IF loc \in {"commit", "write"} THEN "EEPROM_COMMIT" ELSE "CORE1_STALLED"
<1> USE TimesHold DEF Times
<1>1. loc # "boot" /\ loc # "programmer"
  BY DEF IndInv, Places, FedInTime, Expired, Off
<1>2. loc \in {"commit", "write"} => crumb = "EEPROM_COMMIT"
  BY DEF IndInv, FedInTime
<1>3. loc \notin {"commit", "write", "keys"} => ~InTime
  BY <1>1 DEF IndInv, Values, Numbers, InTime, Expired
<1>4. loc \notin {"commit", "write", "keys"} => core1 # "off" /\ crumb = "CORE1_STALLED"
  BY <1>3 DEF IndInv, FedInTime
<1>5. loc # "keys" => stalls
  <2>1. SUFFICES ASSUME loc # "keys", ~stalls
        PROVE  FALSE
    BY DEF IndInv, Values
  <2>2. loc \notin {"commit", "write"}
    BY <2>1 DEF IndInv, Numbers, NeverRefused, Expired
  <2>3. core1 = "running"
    BY <1>4, <2>1, <2>2 DEF IndInv, Values, Places
  <2> QED
    BY <1>4, <2>1, <2>2, <2>3 DEF IndInv, NeverRefused
<1> QED
  BY <1>1, <1>2, <1>4, <1>5

(* While core 1 makes its passes, the watchdog resets the chip only in     *)
(* keyboard mode's drain of USB: boots, light shows, blinks and commits    *)
(* all end in time, whichever follows which.                               *)
THEOREM OnlyStallsReset == Spec => ResetOnlyAfterStall
<1>1. IndInv /\ [Next]_vars => [Reset => stalls \/ loc = "keys"]_vars
  BY WhereExpired DEF Reset
<1> QED
  BY <1>1, IndInvHolds, PTL DEF Spec, ResetOnlyAfterStall

(* wdFeed's exemption does what it is for, although setMode, which is      *)
(* called in that loop, feeds without it.                                  *)
THEOREM ProgrammerIsExempt == Spec => ProgrammerNotReset
<1>1. IndInv /\ [Next]_vars => [Reset => loc # "programmer"]_vars
  BY WhereExpired DEF Reset
<1> QED
  BY <1>1, IndInvHolds, PTL DEF Spec, ProgrammerNotReset

(* The phase in the scratch register says after a reset what the cause     *)
(* was, unless keyboard mode was sending keys.                             *)
THEOREM CauseIsTold == Spec => CrumbTellsCause
<1>1. IndInv /\ [Next]_vars =>
        [(Reset /\ loc # "keys") =>
           crumb = IF loc \in {"commit", "write"} THEN "EEPROM_COMMIT" ELSE "CORE1_STALLED"]_vars
  BY WhereExpired DEF Reset
<1> QED
  BY <1>1, IndInvHolds, PTL DEF Spec, CrumbTellsCause

================================================================================
