--------------------------- MODULE ProgrammerSession ---------------------------
(***************************************************************************)
(* The programmer session between the firmware (Mode_Programmer.ino) and   *)
(* the web editor (WebEditor/js/sysex.js, driven by app.js): a handshake   *)
(*     editor ENTER -> device BEACON -> editor REQUEST -> device ACK ->    *)
(*     editor CONFIRM -> device DUMP (the settings)                        *)
(* and then a session the editor keeps alive by sending CONFIRM again and  *)
(* the device drops after a silence.  Both sides act on timers only; each  *)
(* keeps its own idea of being connected.                                  *)
(*                                                                         *)
(* The device runs on one thread that never unwinds: a mode loop or        *)
(* modeProgrammer() is left by calling the next one, so frames counts the  *)
(* loops that are suspended under the one running, itself included.        *)
(*                                                                         *)
(* Time advances in ticks (200 ms in the checked instance) and only when   *)
(* nothing is due: a message on an idle receiver or an expired timer is    *)
(* handled within its tick.  The device compares its clock with >, one     *)
(* millisecond after the tick at which the model lets its timers expire.   *)
(* It does not read USB while it blinks the selected mode                  *)
(* (showSelectedMode).  USB delivers in order and loses nothing.           *)
(***************************************************************************)
EXTENDS Integers, Sequences

CONSTANTS
  WaitTime,      \* sysexProgrammerWaitTime: silence after which the device drops a session
  CallTime,      \* sysexProgrammerCallTime: time between beacons
  BlinkTime,     \* how long showSelectedMode() blocks
  KeepaliveTime, \* CONNECTED_KEEPALIVE_MS
  ReloadTime,    \* the pause of reloadFromDevice()
  GiveUpTime,    \* CONNECT_BEACON_TIMEOUT_MS + 2 * HANDSHAKE_STEP_TIMEOUT_MS
  Modes,         \* the modes of the Game Boy interface, 0 .. n
  Values,        \* the other settings, as one value
  Factory,       \* the default settings
  NoSettings,    \* what the editor shows before the first dump
  EventSets,     \* the sets of outside events a behaviour may contain
  MaxFrames,     \* bound: frames stops counting here
  MaxInFlight    \* bound: the user waits while this many commands are unread

Memory == [mode : Modes, rest : Values]
Events == {"button", "remote", "ports", "stopped"}
MasterSync == 1    \* the mode in which LSDJ drives the clock

ASSUME TimesAssumption ==
  {WaitTime, CallTime, BlinkTime, KeepaliveTime, ReloadTime, GiveUpTime} \subseteq Nat \ {0}
ASSUME SettingsAssumption ==
  /\ Modes \subseteq Nat /\ 0 \in Modes
  /\ Factory \in Memory /\ EventSets \subseteq SUBSET Events
\* A keepalive comes, and a beacon goes out, before the silence ends a session; a
\* reload outlasts that silence; and an attempt to connect outlasts a blink and the
\* wait for a beacon.
ASSUME TimingAssumption ==
  /\ KeepaliveTime < WaitTime /\ CallTime < WaitTime
  /\ WaitTime < ReloadTime
  /\ BlinkTime + CallTime < GiveUpTime
ASSUME BoundsAssumption == {MaxFrames, MaxInFlight} \subseteq Nat \ {0}

Off == -1          \* a timer that is not running

VARIABLES
  events,         \* what may happen besides clicks in the editor
  \* the device
  loc,            \* "mode", "programmer", "leaving" (flags cleared, loop not left), "blink"
  programming,    \* sysexProgrammingMode
  connected,      \* sysexProgrammingConnected
  sinceResponse,  \* time since sysexProgrammerLastResponse
  sinceSent,      \* time since sysexProgrammerLastSent
  blink,          \* what is left of showSelectedMode
  frames,         \* loops on the call stack
  memory,         \* memory[]
  running,        \* the mode whose loop was called last
  \* the editor
  open,           \* input and output are set
  handshaking,    \* link.handshaking
  linked,         \* link.connected
  version,        \* link.deviceVersion is known
  settings,       \* link.settings
  keepalive,      \* _keepaliveTimer
  giveUp,         \* _watchdogTimer
  reload,         \* the timeout of reloadFromDevice
  saving,         \* a save or a restore waits for its answer
  reloaded,       \* the current connection attempt was started by a reload
  failed,         \* the last connection attempt was given up
  \* USB MIDI
  toDevice,
  toEditor

deviceVars ==
  <<loc, programming, connected, sinceResponse, sinceSent, blink, frames, memory, running>>
timerVars == <<keepalive, giveUp, reload>>
editorVars == <<open, handshaking, linked, version, settings, timerVars, saving, reloaded, failed>>
vars == <<events, deviceVars, editorVars, toDevice, toEditor>>

Init ==
  /\ events \in EventSets
  /\ loc = "mode"
  /\ programming = FALSE
  /\ connected = FALSE
  /\ sinceResponse = WaitTime
  /\ sinceSent = CallTime
  /\ blink = 0
  /\ frames = 1
  /\ memory = Factory
  /\ running = Factory.mode
  /\ open = FALSE
  /\ handshaking = FALSE
  /\ linked = FALSE
  /\ version = FALSE
  /\ settings = NoSettings
  /\ keepalive = Off
  /\ giveUp = Off
  /\ reload = Off
  /\ saving = FALSE
  /\ reloaded = FALSE
  /\ failed = FALSE
  /\ toDevice = <<>>
  /\ toEditor = <<>>

Deeper == IF frames < MaxFrames THEN frames + 1 ELSE frames

Command(kind) == [kind |-> kind]
WithMemory(kind, m) == [kind |-> kind, memory |-> m]

--------------------------------------------------------------------------------
(* The device.                                                             *)

\* The loop of modeLSDJMasterSync spins inside while(readgbClockLine) as long as
\* the Game Boy's clock line is high, which it is while LSDJ is stopped; it
\* looks at the button there, but not at USB.
Spinning == loc = "mode" /\ running = MasterSync /\ "stopped" \in events

Listening == loc # "blink" /\ ~Spinning

\* programmerSendConnectRequest, in the programmer loop only.
BeaconDue == loc = "programmer" /\ sinceSent >= CallTime

SendBeacon ==
  /\ BeaconDue
  /\ toEditor' = Append(toEditor, Command("BEACON"))
  /\ sinceSent' = 0
  /\ UNCHANGED <<events, loc, programming, connected, sinceResponse, blink, frames,
                 memory, running, editorVars, toDevice>>

\* programmerCheckTimeout comes after the beacon in each round of the loop.
TimeoutDue ==
  /\ loc = "programmer"
  /\ ~BeaconDue
  /\ connected \/ programming
  /\ sinceResponse >= WaitTime

\* Faulty variant: only one of the two flags is cleared.
DropProgrammingOnly ==
  /\ TimeoutDue
  /\ programming' = FALSE
  /\ loc' = "leaving"
  /\ UNCHANGED <<events, connected, sinceResponse, sinceSent, blink, frames, memory,
                 running, editorVars, toDevice, toEditor>>

DropSession ==
  /\ TimeoutDue
  /\ connected' = FALSE
  /\ programming' = FALSE
  /\ loc' = "leaving"
  /\ UNCHANGED <<events, sinceResponse, sinceSent, blink, frames, memory, running,
                 editorVars, toDevice, toEditor>>

\* The loop of modeProgrammer ends: showSelectedMode(), then switchMode(),
\* which calls the mode's loop from here.
LeaveProgrammer ==
  /\ loc = "leaving"
  /\ loc' = "blink"
  /\ blink' = BlinkTime
  /\ running' = memory.mode
  /\ UNCHANGED <<events, programming, connected, sinceResponse, sinceSent, frames,
                 memory, editorVars, toDevice, toEditor>>

EnterMode ==
  /\ loc = "blink"
  /\ blink = 0
  /\ loc' = "mode"
  /\ UNCHANGED <<events, programming, connected, sinceResponse, sinceSent, blink, frames,
                 memory, running, editorVars, toDevice, toEditor>>

\* Both setMode() and setMode(byte) store the mode, blink it and call its loop,
\* whatever loop is running and whether or not a session is open.
SwitchTo(mode) ==
  /\ memory' = [memory EXCEPT !.mode = mode]
  /\ running' = mode
  /\ loc' = "blink"
  /\ blink' = BlinkTime
  /\ frames' = Deeper

\* Faulty variant: the mode after the last one is not the first.
NextModeUnwrapped == memory.mode + 1

\* The mode a press of the button selects.
NextMode == IF memory.mode + 1 \in Modes THEN memory.mode + 1 ELSE 0

\* A mode's loop reads all there is on USB before it looks at the button.
PressModeButton ==
  /\ "button" \in events
  /\ loc # "blink"
  /\ loc = "mode" => toDevice = <<>> \/ Spinning
  /\ SwitchTo(NextMode)
  /\ UNCHANGED <<events, programming, connected, sinceResponse, sinceSent, editorVars,
                 toDevice, toEditor>>

\* getSysexData, one disjunct per command; each has taken the message off the bus.

OnEnter ==
  /\ programming' = TRUE
  /\ sinceResponse' = 0
  /\ loc' = "programmer"
  /\ frames' = Deeper
  /\ UNCHANGED <<connected, sinceSent, blink, memory, running, toEditor>>

OnRequest ==
  /\ toEditor' = IF programming THEN Append(toEditor, Command("ACK")) ELSE toEditor
  /\ UNCHANGED deviceVars

\* Faulty variant: a repeated CONFIRM does not refresh the session.
OnConfirmFirstOnly ==
  IF programming /\ ~connected
  THEN /\ sinceResponse' = 0
       /\ connected' = TRUE
       /\ toEditor' = Append(toEditor, WithMemory("DUMP", memory))
       /\ UNCHANGED <<loc, programming, sinceSent, blink, frames, memory, running>>
  ELSE UNCHANGED <<deviceVars, toEditor>>

\* setProgrammerConnected: the settings are sent on the first CONFIRM only.
OnConfirm ==
  IF programming
  THEN /\ sinceResponse' = 0
       /\ connected' = TRUE
       /\ toEditor' = IF connected THEN toEditor
                      ELSE Append(toEditor, WithMemory("DUMP", memory))
       /\ UNCHANGED <<loc, programming, sinceSent, blink, frames, memory, running>>
  ELSE UNCHANGED <<deviceVars, toEditor>>

\* Faulty variant: the settings sent back are those from before the save.
OnStoreStale(m) ==
  IF programming
  THEN /\ memory' = m
       /\ toEditor' = Append(toEditor, WithMemory("DUMP", memory))
       /\ UNCHANGED <<loc, programming, connected, sinceResponse, sinceSent, blink, frames,
                      running>>
  ELSE UNCHANGED <<deviceVars, toEditor>>

\* Faulty variant: the settings are stored but not sent back.
OnStoreSilent(m) ==
  IF programming
  THEN /\ memory' = m
       /\ UNCHANGED <<loc, programming, connected, sinceResponse, sinceSent, blink, frames,
                      running, toEditor>>
  ELSE UNCHANGED <<deviceVars, toEditor>>

\* setProgrammerMemorySave and setProgrammerRestoreMemory.
OnStore(m) ==
  IF programming
  THEN /\ memory' = m
       /\ toEditor' = Append(toEditor, WithMemory("DUMP", m))
       /\ UNCHANGED <<loc, programming, connected, sinceResponse, sinceSent, blink, frames,
                      running>>
  ELSE UNCHANGED <<deviceVars, toEditor>>

OnSetMode(mode) ==
  /\ SwitchTo(mode)
  /\ UNCHANGED <<programming, connected, sinceResponse, sinceSent, toEditor>>

DeviceReceives ==
  /\ Listening
  /\ toDevice # <<>>
  /\ toDevice' = Tail(toDevice)
  /\ LET c == Head(toDevice) IN
       \/ c.kind = "ENTER" /\ OnEnter
       \/ c.kind = "REQUEST" /\ OnRequest
       \/ c.kind = "CONFIRM" /\ OnConfirm
       \/ c.kind = "SAVE" /\ OnStore(c.memory)
       \/ c.kind = "RESTORE" /\ OnStore(Factory)
       \/ c.kind = "SET_MODE" /\ OnSetMode(c.memory.mode)
  /\ UNCHANGED <<events, editorVars>>

Device ==
  \/ SendBeacon
  \/ DropSession
  \/ LeaveProgrammer
  \/ EnterMode
  \/ DeviceReceives

--------------------------------------------------------------------------------
(* The editor.                                                             *)

\* ArduinoboyLink.connect
Connect(byReload) ==
  /\ open' = TRUE
  /\ handshaking' = TRUE
  /\ linked' = FALSE
  /\ settings' = NoSettings
  /\ keepalive' = Off
  /\ giveUp' = GiveUpTime
  /\ saving' = FALSE
  /\ reloaded' = byReload
  /\ failed' = FALSE
  /\ toDevice' = Append(toDevice, Command("ENTER"))
  /\ UNCHANGED <<events, deviceVars, version, toEditor>>

\* ArduinoboyLink.disconnect
Disconnect ==
  /\ open' = FALSE
  /\ handshaking' = FALSE
  /\ linked' = FALSE
  /\ keepalive' = Off
  /\ giveUp' = Off
  /\ saving' = FALSE
  /\ UNCHANGED <<events, deviceVars, version, settings, reload, reloaded, toDevice, toEditor>>

\* The user clicks when the page is not busy, and no faster than the device reads.
MayClick == ~saving /\ reload = Off /\ Len(toDevice) < MaxInFlight

ClickConnect ==
  /\ MayClick
  /\ ~linked /\ ~handshaking
  /\ Connect(FALSE)
  /\ UNCHANGED reload

ClickDisconnect ==
  /\ MayClick
  /\ linked \/ handshaking
  /\ Disconnect
  /\ UNCHANGED failed

\* The timers and the ports are dropped and connect() is left to a timeout.
ReloadAfter(pause) ==
  /\ MayClick
  /\ linked
  /\ open' = FALSE
  /\ handshaking' = FALSE
  /\ linked' = FALSE
  /\ keepalive' = Off
  /\ giveUp' = Off
  /\ reload' = pause
  /\ UNCHANGED <<events, deviceVars, version, settings, saving, reloaded,
                 failed, toDevice, toEditor>>

\* Faulty variant: the editor does not wait for the device to drop the session.
ClickReloadAtOnce == ReloadAfter(0)

\* reloadFromDevice
ClickReload == ReloadAfter(ReloadTime)

FinishReload ==
  /\ reload = 0
  /\ reload' = Off
  /\ Connect(TRUE)

\* A MIDI port comes or goes: maybeAutoConnect connects unless a connection is
\* up or under way, and a reload that waits is neither.
PortsChange ==
  /\ "ports" \in events
  /\ reload # Off
  /\ ~linked /\ ~handshaking
  /\ Connect(TRUE)
  /\ UNCHANGED reload

Sending(queue) ==
  /\ toDevice' = queue
  /\ UNCHANGED <<events, deviceVars, open, handshaking, linked, version, settings, giveUp,
                 reload, reloaded, failed, toEditor>>

Send(command) == Sending(Append(toDevice, command))

ClickSave(m) ==
  /\ MayClick
  /\ linked
  /\ saving' = TRUE
  /\ Send(WithMemory("SAVE", m))
  /\ UNCHANGED keepalive

ClickRestore ==
  /\ MayClick
  /\ linked
  /\ saving' = TRUE
  /\ Send(Command("RESTORE"))
  /\ UNCHANGED keepalive

\* setModeRemote, or the same command from another controller.
RemoteSetMode(m) ==
  /\ "remote" \in events
  /\ MayClick
  /\ linked
  /\ Send(WithMemory("SET_MODE", m))
  /\ UNCHANGED <<keepalive, saving>>

\* While the device does not read USB keepalives pile up.  They are read in one go,
\* and the second of two in a row changes nothing: it is not put into the queue.
ConfirmWaits == toDevice # <<>> /\ toDevice[Len(toDevice)].kind = "CONFIRM"

SendKeepalive ==
  /\ keepalive = 0
  /\ keepalive' = KeepaliveTime
  /\ \/ ConfirmWaits /\ Sending(toDevice)
     \/ ~ConfirmWaits /\ Send(Command("CONFIRM"))
  /\ UNCHANGED saving

\* The timer armed by connect() expires: the attempt is abandoned.
GiveUp ==
  /\ giveUp = 0
  /\ Disconnect
  /\ failed' = TRUE

\* _onMessage, one disjunct per message.

OnBeacon ==
  /\ IF linked
     THEN UNCHANGED <<version, toDevice>>
     ELSE /\ version' = TRUE
          /\ toDevice' = Append(toDevice, Command("REQUEST"))
  /\ UNCHANGED <<handshaking, linked, settings, timerVars, saving>>

OnAck ==
  /\ toDevice' = IF linked \/ ~version THEN toDevice
                 ELSE Append(toDevice, Command("CONFIRM"))
  /\ UNCHANGED <<handshaking, linked, version, settings, timerVars, saving>>

OnDump(m) ==
  /\ settings' = m
  /\ linked' = TRUE
  /\ handshaking' = FALSE
  /\ giveUp' = Off
  /\ keepalive' = IF linked THEN keepalive ELSE KeepaliveTime
  /\ saving' = FALSE
  /\ UNCHANGED <<version, reload, toDevice>>

\* Without an open port nobody listens, and the message is gone.
EditorReceives ==
  /\ toEditor # <<>>
  /\ toEditor' = Tail(toEditor)
  /\ LET c == Head(toEditor) IN
       \/ /\ ~open
          /\ UNCHANGED <<handshaking, linked, version, settings, timerVars, saving, toDevice>>
       \/ open /\ c.kind = "BEACON" /\ OnBeacon
       \/ open /\ c.kind = "ACK" /\ OnAck
       \/ open /\ c.kind = "DUMP" /\ OnDump(c.memory)
  /\ UNCHANGED <<events, deviceVars, open, reloaded, failed>>

Editor ==
  \/ FinishReload
  \/ SendKeepalive
  \/ GiveUp
  \/ EditorReceives

User ==
  \/ ClickConnect
  \/ ClickDisconnect
  \/ ClickReload
  \/ \E m \in Memory : ClickSave(m) \/ RemoteSetMode(m)
  \/ ClickRestore
  \/ PortsChange
  \/ PressModeButton

--------------------------------------------------------------------------------
(* Time.                                                                   *)

SomethingIsDue ==
  \/ BeaconDue \/ TimeoutDue
  \/ loc = "leaving"
  \/ loc = "blink" /\ blink = 0
  \/ Listening /\ toDevice # <<>>
  \/ toEditor # <<>>
  \/ 0 \in {keepalive, giveUp, reload}

Older(age, limit) == IF age = limit THEN age ELSE age + 1
Sooner(timer) == IF timer = Off THEN Off ELSE timer - 1

Tick ==
  /\ ~SomethingIsDue
  /\ sinceResponse' = Older(sinceResponse, WaitTime)
  /\ sinceSent' = Older(sinceSent, CallTime)
  /\ blink' = IF loc = "blink" THEN blink - 1 ELSE blink
  /\ keepalive' = Sooner(keepalive)
  /\ giveUp' = Sooner(giveUp)
  /\ reload' = Sooner(reload)
  /\ UNCHANGED <<events, loc, programming, connected, frames, memory, running, open,
                 handshaking, linked, version, settings, saving, reloaded, failed, toDevice, toEditor>>

Next == Device \/ Editor \/ User \/ Tick

\* The device's loops and the editor's event loop keep running, a mode's loop
\* polls USB before it looks at the button, and time passes.
Spec ==
  /\ Init /\ [][Next]_vars
  /\ WF_vars(SendBeacon \/ DropSession \/ LeaveProgrammer \/ EnterMode)
  /\ SF_vars(DeviceReceives)
  /\ WF_vars(Editor)
  /\ SF_vars(Tick)

--------------------------------------------------------------------------------
(* Properties.                                                             *)

Commands == {"ENTER", "REQUEST", "CONFIRM", "SAVE", "RESTORE", "SET_MODE"}
Replies == {"BEACON", "ACK", "DUMP"}

TypeOK ==
  /\ events \in EventSets
  /\ loc \in {"mode", "programmer", "leaving", "blink"}
  /\ {programming, connected, open, handshaking, linked, version, saving, reloaded, failed}
       \subseteq BOOLEAN
  /\ sinceResponse \in 0 .. WaitTime
  /\ sinceSent \in 0 .. CallTime
  /\ blink \in 0 .. BlinkTime
  /\ frames \in 1 .. MaxFrames
  /\ memory \in Memory
  /\ running \in Modes
  /\ settings \in Memory \union {NoSettings}
  /\ keepalive \in Off .. KeepaliveTime
  /\ giveUp \in Off .. GiveUpTime
  /\ reload \in Off .. ReloadTime
  /\ \A i \in DOMAIN toDevice : toDevice[i].kind \in Commands
  /\ \A i \in DOMAIN toEditor : toEditor[i].kind \in Replies

\* As long as the editor believes it is connected the device does too: the
\* keepalive comes often enough that no session times out under the editor,
\* through blinks, saves and mode changes.
SessionKeptAlive == linked => connected /\ programming

\* A save or a restore is always answered with the settings, so the editor does
\* not stay busy: also when the mode is changed with the save on its way, and the
\* device blinks and goes on in a mode's loop.  The one loop that does not answer
\* is that of master sync while LSDJ is stopped.
SaveAnswered == saving ~> (~saving \/ Spinning)

\* When the editor goes silent the device drops the session by itself.
AbandonedSessionDropped ==
  (events = {} /\ ~open /\ connected) ~> (~connected \/ open)

\* With nothing under way, the settings the editor shows are the device's.
ShownSettingsAreReal ==
  (events = {} /\ linked /\ toDevice = <<>> /\ toEditor = <<>>) => settings = memory

\* Reloading from the device ends with the settings, never with the message
\* that there is no response from the device.
ReloadReconnects == ~(failed /\ reloaded)

\* The same when nothing but the editor acts on the device.
UndisturbedReloadReconnects == events = {} => ReloadReconnects

================================================================================
