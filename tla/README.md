# Arduinoboy RP2040 with USB MIDI host: verification project

TLA+ models of the firmware in `src/Arduinoboy` and of the web editor in `src/WebEditor`, the TLC
configurations that check them, and TLAPS proofs about them. Line numbers refer to this commit.

## 1. The system

The firmware connects a Game Boy's link port with three MIDI ports: DIN (UART), USB device (a
computer sees it as "Game Boy") and USB host (keyboards plugged into a second port that is driven
by two PIO blocks). It runs on the two cores of an RP2040, without an operating system:

* **core 0** runs `setup()` and then, for ever, the loop of one *mode*. A mode is left only by
  calling the next one (`setMode`, `switchMode`), so its loop never returns.
* **core 1** runs `loop1()`: the USB host stack, the scan of the hosted devices, and the drain of the
  transmit ring. A hardware timer interrupts it every millisecond to run the USB frame.

The cores share memory without locks: two rings, a table of hosted devices, a loop counter.

### Inventory

| Component | State | Operations | Interacts with | Hard because | Correct when |
|---|---|---|---|---|---|
| Receive ring (`UsbMidi.ino` 120-199) | `usbMidiQueue`, head, tail | `usbMidiEnqueue` (both cores), `usbMidiReadMessage` (core 0) | modes, `loop1`, TinyUSB callbacks | two producers, interrupt masks per core | messages whole, in order, with the right source |
| Host transmit ring (218-244, 406-415) | `usbMidiHostTxQueue`, head, tail | `usbMidiHostTxEnqueue` (core 0), drain (core 1) | mGB thru, hosted devices | no lock, pointer into the ring | a bounded queue; no slot changes while it is read |
| Hosted devices (424-481) | `usbMidiDevices` | mount, unmount, receive callbacks, re-arm | TinyUSB, PIO USB, watchdog | silence cannot be told from a stuck transfer | a silent endpoint gets a transfer again; an unplugged device leaves the table |
| Sysex parser (`Mode_Programmer.ino` 107-235) | `sysexReceiveMode`, `sysexPosition`, `sysexData` | `checkForProgrammerSysex`, `getSysexData` | DIN, USB, session; the dump is built in the same buffer | two ports, one buffer; what one message leaves the next finds | what is obeyed is what the messages say |
| Programmer session (`Mode_Programmer.ino`, `sysex.js`) | two flags, two time stamps; the editor's flags and timers | ENTER, REQUEST, CONFIRM, SAVE, RESTORE, SET_MODE, beacon, timeout | button, modes, flash | two sides with timers only, dump on first CONFIRM, nested loops | a session lives while the editor does, ends when it does not; shown settings are real |
| Watchdog and commit (`Watchdog_Diagnostics.ino`, `Memory_Functions.ino`) | time stamps, loop counter copies, scratch registers, flash | `wdSetup`, `wdFeed`, `commitMemoryToFlash` | every mode loop, core 1 | a core that stalls at any moment, reset in the middle of anything; keys sent for as long as USB has messages | a stalled core 1 leads to a reset in bounded time, a healthy one does not |
| Mode selection (`Mode.ino`) | `memory[MEM_MODE]`, button | `setMode`, `switchMode` | all | stack depth, state left behind | - |
| mGB (`Mode_MidiGb.ino`) | two parsers of the DIN bytes, one for the Game Boy, one for USB | read, translate, send to Game Boy, thru | both rings | two inputs, one link; a MIDI stream that may interleave, cut and abbreviate messages | complete messages on each output |
| LSDJ slave sync, Nanoloop | one tick counter, shared with the beat light; tempo effect; note parser | clock, start, stop, notes | Game Boy clock | the counter is used for three things and reset at different times, and survives a mode change | pulses evenly spaced, at the tempo asked for, locked to the beat; settings as sent |
| LSDJ master sync | counters of pulses and polls, `sequencerStarted` | clock edges | Game Boy clock, MIDI out (same counter) | waits on the Game Boy without polling USB; a stop ends the wait like a pulse | a stop of LSDJ is told, and is the last thing told |
| LSDJ map | the row playing, a queue of one message, its time | notes, clock, transport, timer | Game Boy; the parser it shares with keyboard mode | a late stop may hit a newer row; a tick and a stop share the queue | LSDJ plays the row asked for |
| LSDJ MIDI out | per channel: last note, four held notes, their timer | commands of one and two bytes | DIN, USB | order and pace of notes and stops, chords longer than a row, mode changes | exactly the last chord sounds; a note off silences |
| LSDJ keyboard | octave and instrument LSDJ is believed to be in | notes and programs to PS/2 keys | Game Boy; shared parser | the keyboard only steps up or down, and LSDJ answers nothing | LSDJ is in the octave and on the instrument asked for |
| PIO USB host (`libraries/Pico_PIO_USB`, vendored) | endpoint pool, root port, event flags | open, transfer, abort, close, 1 ms frame interrupt | core 1, TinyUSB | interrupt against abort, lost packets, retries, unplugging at any point | each transfer ends once; nothing lost or doubled |

### Hazards

`PROJECT.json` lists them by line. The most important ones, in the order of this project's work:
the rings shared by the cores; the session and its timers; core 1 dying between any two lines of
core 0; the counter the sync modes share; the two parsers of mGB mode; endpoint aborts against the
frame interrupt; the queue of map mode; the notes held in MIDI out and the rows they are held in; the one sysex
buffer of two ports and what stays in it.
`PROJECT.json` says at each entry that no property covers why that is so.

## 2. Modules

| Module | Stands for |
|---|---|
| `BoundedFifo` | the promise of a packet queue between cores: accepted packets come out whole, once per reader, in order; refused only when full |
| `HostTxRing` | the host transmit ring: one action per access to the shared words; the copy of a packet byte by byte; the device loop of the drain |
| `RxRing` | the receive ring with its two producers |
| `ProgrammerSession` | device and editor, both sides with their timers, the USB messages between them, the user |
| `ProgrammerSession_proofs` | its invariants, proved |
| `Watchdog` | the watchdog, `wdFeed`, the commit, boot, blink, and core 1 as something that passes, stalls, resumes |
| `Watchdog_proofs` | its invariants and its action properties, proved |
| `ClockModes` | LSDJ slave sync and Nanoloop with their shared counters, fed by a MIDI sender, changing into each other |
| `ClockModes_proofs` | its invariants and its tempo property, proved |
| `MgbLink` | mGB mode: the DIN parser, the serial thru parser, messages from USB, and the Game Boy at the end of the link |
| `MgbLink_proofs` | its invariants, proved; and those of `HostTxRing`, which its thru packets go through, with the refinement of `BoundedFifo` |
| `PioEndpoint` | the endpoints of the PIO USB controller: what the thread does to them, and the frame interrupt with its transactions on a bus that loses packets |
| `UsbHost` | core 1's loop with the device table, over `PioEndpoint`; TinyUSB in between is external |
| `UsbHost_proofs` | its invariants, proved; and those of `RxRing`, which core 1 fills, with the refinement of `BoundedFifo` |
| `NoteGlobals` | the parser globals map and keyboard mode share, and the MIDI sender |
| `MapMode`, `KeyboardMode` | LSDJ map and LSDJ keyboard |
| `NoteModes` | their composition, with changes of mode between any two bytes |
| `NoteModes_proofs` | its invariants, proved |
| `MasterSync`, `Midiout` | LSDJ master sync and LSDJ MIDI out |
| `GbReaders` | their composition: the two modes that read the Game Boy |
| `GbReaders_proofs` | its invariants, proved |
| `SysexParser` | the byte parser of the programmer's messages, its buffer, its commands, and the editor's messages |
| `SysexParser_proofs` | its invariants, proved |
| `MC...` | instances for TLC |

An action is a handler, or the part of a handler between two accesses to memory the other core can
see. Definitions marked *Faulty variant* model a plausible mistake and occur in no specification;
each shows that the property beside it can fail (`mutants` in `PROJECT.json`).

**HostTxRing.** `EnqueueBegin`, `CopyByte`, `Publish` are lines 220, 223, 224; `EnqueueFull` is 221.
`UsbTask` stands for `USBHost.task()`, where mounts happen, and the scan that follows;
`DrainBegin`, `WriteDevice`, `SkipDevice`, `Advance`, `DrainEnd` are the loop of lines 406-415. A byte
of a slot is represented by the packet it belongs to, so that a torn packet is visible.

**RxRing.** `EnqueueCall` reads `usbMidiHead`, `EnqueueFull` and `EnqueueRoom` read `usbMidiTail`,
`StoreBody` and `StoreSource` write through `usbMidiHead` *as it is then* (it is volatile), `Publish`
stores `next`. The six fields are two words here: what was received, and the port it is said to come
from.

**ProgrammerSession.** `loc` is where core 0 is; `frames` counts the loops on its stack. The
handlers of `getSysexData` are `OnEnter` to `OnSetMode`; those of `_onMessage` are `OnBeacon` to
`OnDump`. Timers count ticks. While the device does not read USB the editor's keepalives pile up; as a second
CONFIRM in a row changes nothing, only the first is put into the queue (`ConfirmWaits`). `Spinning` is
master sync with LSDJ stopped.

**Watchdog.** `loc` is the blocking call or loop core 0 is in and `left` how long it still takes.
`core1LoopCount` is compared only for equality with copies, so the model keeps the two comparisons
(`fresh`, `counted`). `Feed` is `wdFeed`; the programmer's exemption is its second argument. A round of a
mode's loop takes no time, except in keyboard mode, which may be sending keys for any time (`keys`,
`SendKeys`, `KeysSent`) and obeys the editor's commands between them. `Commits` is a commit by the button,
by the session or by command 75, which is obeyed in a mode's loop too and returns there (`SaveMemory`).

**ClockModes.** One action per byte the sender may send (`SendRealTime`, `SendStatus`, `SendNote`,
`SendVelocity`), each with the whole round of the mode's loop that handles it (`SlaveReceive`,
`NanoloopReceive`), and `SelectMode`. A pulse is what the last step clocked out (`toGameboy`):
eight zero bits of `sendGBClockTick`, or the two bits of `sendTickToNanoloop`. `wanted` is what the
sender's messages ask for, computed from the messages and not from the parser; `gap` counts the
clocks since the last pulse, and `spacings` collects the distances since the sender's last request, as
seen on the link: no divisor of the code is in them.

**MgbLink.** One action per kind of byte from the DIN port; `Receive` runs both parsers on it, as
`modeMidiGb` does. `LinkStatus`, `LinkAddress`, `LinkValue` and `LinkIgnore` are the branches of
lines 51-103, `ThruSysex`, `ThruStatus` and `ThruData` those of `modeMidiGbThruSerialByte`. The
Game Boy is a MIDI receiver (`GbByte`, external). What should come out (`due`, `dueGb`) is computed
from whole messages as the sender means them.

**PioEndpoint, UsbHost.** `Frame` is one run of `pio_usb_host_frame`: the connection check, one
transaction per active endpoint (`Transaction`, in one of the `Ways` a bus can answer), retries and
the event flags. It comes between any two steps of the thread (`pc` says where `loop1` is), and
`AbortMarked`, `Cancelled` and `Unmarked` cut `pio_usb_host_endpoint_abort_transfer` where the interrupt
can fall. `Attach`, `Enumerate`, `Mount`, `Receive`, `Remove` handle one event each in
`USBHost.task(0)`, `Rearm` is the scan of lines 386-404, `Send` the drain of the transmit ring.

**NoteModes.** One action per kind of byte and mode: `MapReceive` and `KeyboardReceive` are the branches of
the two loops for a DIN byte. `MapFlush` is the check of the queue in an idle turn, `MapTick` the time it
waits. `SetMapByte`, `CheckMapQueue`, `ResetMapCue`, `PlayLSDJNote` and others have the code's names. LSDJ
is external: it plays a row, or moves by one octave or instrument per key, and stops at the ends of its
ranges. `asked` and `wanted` are computed from the sender's messages. `reached` remembers whether the entry
of the mode could find LSDJ's place at all, and whether all that was asked for since was in LSDJ's ranges.

**GbReaders.** `Look`, `Poll`, `Fallen` and `Stopped` in `MasterSync` are what the mode's loop may find: a
low or high clock line, and in the inner loop (`waiting`) another poll, the next pulse, or the end of the wait.
In `Midiout`, one action per kind of command
(`PlayNote`, `StopNote`, a control change), of one byte or of two. `hold` is `midioutNoteHold` as it lies in
memory, row after row, so that a note past the end of its row is stored over the next one's. What sounds is
computed from the MIDI that goes out, `chord` from LSDJ's commands; `leftOver` is what a change of mode left
sounding, and `overrun` that a row has been written past its end.

**SysexParser.** `Parse` is `checkForProgrammerSysex` on one byte, `GetSysexData` runs the checksum and
the commands. DIN gives single bytes, USB packets of up to three, and they interleave. The buffer keeps
the four bytes commands read (two settings stand for 61). The loop over the bytes of a packet is written
out for the three it can have (`ParseAll`), which keeps it within reach of the prover. `clear` and `blamed` tell messages that came
through alone from mixed ones, `Short` those that lack bytes, which the buffer's old ones complete.

## 3. What is checked

| Run | Shows |
|---|---|
| `rx_ring_both_ports` | **violated**: with both ports in use a message goes back out of its own port |
| `session` | no session times out under a connected editor, whatever the button or remote mode changes do, also into a stopped master sync; shown settings are the device's when nothing is under way and the editor is alone with it; a reload that nobody disturbs ends with settings; saves are answered, unless the device sits in master sync with LSDJ stopped; abandoned sessions end |
| `session_button` | **violated**: a button press during a reload makes it fail |
| `watchdog` | a watched stall is over in 400 ms and two countdowns (3400 ms); a core 1 that never stalled causes no reset (boot included), but in keyboard mode's drain of USB; no reset inside the programmer's loop; the breadcrumb tells the cause, again but there; a commit returns or is ended; erased flash is recovered from |
| `clock_modes` | in slave sync the settings in force are those sent; from one request to the next the pulses are evenly spaced, whatever comes between; Nanoloop is never out of lock for a whole quarter note, and each downbeat sends the same bits |
| `clock_tempo` | **violated**: the effects do not give 1/2, 1/4 and 1/8 of the tempo |
| `mgb_link` | each DIN message becomes exactly one USB packet at its last byte (system exclusive: one for three bytes), from the first message after the mode was entered; the Game Boy completes exactly the messages of its channels unless a USB, system or real-time message came in between. The transmit ring those packets go into: its types; the slot under core 1's pointer does not change; every slot is released; the ring implements `BoundedFifo` |
| `usb_host` | each transfer ends in exactly one outcome, whatever moment an abort or an unplugging comes at; packets are neither lost nor repeated (but for a lost acknowledgement after an abort); a silent receive endpoint gets a transfer again; a device that was pulled out leaves the table. The receive ring core 1 fills: with one port in use it implements `BoundedFifo` (which fixes the types of its words as well) |
| `note_modes` | LSDJ plays the row that was asked for last, delayed stops included, but for the two notes that stand for no row; LSDJ is in the octave and on the instrument that were asked for, until something beyond its ranges was, and the instrument until a program comes from USB |
| `gb_readers` | types and ranges of both modes; exactly LSDJ's last chord sounds, and what a mode change left sounding, as long as no row is written past its end; a stop of LSDJ is told, and nothing after it for good |
| `gb_readers_overrun` | **violated**: a fifth note of a chord takes the place of another channel's, whose note off then does not silence it |
| `sysex_parser` | the device does what each unmixed message with all its bytes asks for, whatever the buffer holds, and nothing for other makers' or too long ones; the position stays in the buffer; the checksum's scan ends for every message the editor builds |

Two runs have two parts, which share nothing in these models: a behaviour of `mgb_link` is one of the link
or one of the transmit ring, one of `usb_host` is one of the host side or one of the receive ring (`part` in
`MCMgbLink` and `MCUsbHost`). In `gb_readers` a behaviour uses all modes with one channel or MIDI out with two
(`used`).

### Findings

Where the code does not do what the repository says of it. The first four have a run that ends in a
violation:

1. `UsbMidi.ino:122` (`rx_ring_both_ports`): `noInterrupts()` does not exclude the other core. Two producers
   write one slot.
2. `Mode_Programmer.ino:10` (`session_button`): the button (or a SET_MODE command) leaves the programmer's
   loop with the session flags set; nothing in a mode loop times them out; the next handshake gets no settings,
   and the editor gives up after 5.5 s. The same follows from a disconnect and connect within 2 s, or a
   port change in the 2.2 s of a reload: in both the device still holds the session.
3. `Mode_LSDJ_SlaveSync.ino:59` (`clock_tempo`): `updateVisualSync()` increments the counter of the tempo
   effect too. A cycle of 2, 4 or 8 is a clock short: "1/2" is full speed, "1/4" is 1/3, "1/8" is 1/7 (lines
   121, 126, 131 and both manuals promise otherwise). What does hold is that the pulses are even
   (`EvenTempo`, checked and proved).
4. `Mode_LSDJ_Midiout.ino:172` (`gb_readers_overrun`): `midioutNoteHold` has four columns and `playNote` does
   not look at the end of its row. A fifth note within 10 ms goes into the next channel's row.

The others are in the models, and a property names each as its exception:

5. `Mode_LSDJ_MasterSync.ino:50`: the wait for the Game Boy's clock line polls the button but not USB, so
   nothing from the editor is read while LSDJ is stopped, although the comment of line 34 says that without
   `usbMidiUpdate` sysex were "never read at all while sitting in this mode". The button or a SET_MODE takes a
   session there, and a linked editor's save stays unanswered (`SaveAnswered` excepts `Spinning`).
6. `Mode_LSDJ_Keyboard.ino:247`: keyboard mode drains USB in one go, at about 5 ms a key and without a feed. A
   stream that does not pause resets the chip, although `Watchdog_Diagnostics.ino:79-80` has the blink as the
   longest blocking call (`ResetOnlyAfterStall` and `CrumbTellsCause` except `keys`).
7. `Mode_LSDJ_Map.ino:84`: on the second channel the notes 126 and 127 become 0xFE and 0xFF, which mean stop
   and tick (`RowIsTheOneAsked` says nothing of them).
8. `Mode_LSDJ_Keyboard.ino:261`: a program change from USB is given to `changeLSDJInstrument` with a status
   (0xC0) it does not compare with, and so is ignored, although `src/README.md:105` and `Instructions.md:57`
   say that program changes select the instrument. It counts as asked for (`wanted`); `LsdjFollows` then says
   nothing of the instrument (`usb`).
9. `Mode_LSDJ_Keyboard.ino:204`: the octave of any note is remembered, also of one LSDJ has no octave for
   (line 161 expects 0 to 4). LSDJ saturates, the count does not, and the next notes come in another octave
   (`LsdjFollows` holds while `reached`).
10. `Mode_Programmer.ino:171`: a good message sets `sysexPosition` to 0 before the buffer is cleared, so it is
    not cleared. An empty message, or one of the identifier alone, runs the previous command again (`Obeyed`
    says nothing of messages that are `Short`).

The following were met while modelling and are in the models; no doc, comment or test promises the
contrary, or a property states what does hold and makes an exception of the case, named here.

Session and parser:

* `Mode_Programmer.ino:14`: `modeProgrammer` ends in `switchMode()`, which never returns, so each timed-out
  session leaves a frame on the stack (`frames` in `ProgrammerSession`).
* `Mode_Programmer.ino:226`: the byte at index 128 is stored before the length is checked.
* DIN and USB bytes mix in one buffer. A MIDI clock within a DIN sysex message is stored as data; the
  checksum, which could reject the result, is computed and ignored (`checkSysexChecksum` returns true on
  every path).
* For messages of fewer than four bytes the scan starts past its end and never meets it. The editor never
  sends any (`sysex.js` 10-13 explains why); other senders may. A build may drop the scan, as nothing uses it.

Clock modes and mGB:

* `Mode_MidiGb.ino:241`: the thru parser keeps the status in `mgbThruStatus` from one message to the next,
  which gives it running status; the branch that falls back on `mgbThruRunningStatus` is never taken with a
  sender that keeps to MIDI (`ThruInStep`, proved: data bytes that belong to a message find `mgbThruStatus` set).
* `Mode_MidiGb.ino:54`: real-time bytes clear `midiValueMode`. When a MIDI clock falls between the two
  data bytes of a note the Game Boy never gets the velocity. The thru parser (line 192) does it
  right. The same happens when a USB message replaces the Game Boy's running status in the middle of a
  DIN message, and after system messages, whose data bytes are forwarded. `UndisturbedReachesGameboy`
  excepts exactly these (`disturbed`).

USB host:

* A failed OUT transfer leaves the data toggle of the device in doubt; the next packet may be taken for a
  repetition (`spoiled`, which `PacketsAreKept` excepts).
* `connection_check` reports lost transfers without looking at `transfer_aborted`.
* The frame interrupt runs on the core of the thread, so `transfer_started` is never seen from it.

Map and keyboard:

* The row queued for a stop is always the current one; a tick that waits is overwritten by a row stop, and
  dropped by `resetMapCue`. Ticks less than 2 ms apart postpone each other.
* Real-time bytes other than the clock replace the running status.
* On the RP2040 map mode does not read notes from USB.
* Keyboard mode begins with 5 octaves down and 41 instruments down, to be sure where it is (comment lines
  24-27); from octave 6 or an instrument above 41 that does not suffice (`reached`). Programs above 63 stick
  at LSDJ's last instrument.
* Note 0 is taken for no note; data bytes of system exclusive messages are played.

Master sync and MIDI out:

* The wait ends when LSDJ has stopped, and the loop goes on as after a pulse: the stop may be followed by a
  start, a clock and one more stop. `TransportSettles` says that the last one is a stop.
* A mode left while LSDJ plays never sends its stop. Notes keep sounding while another mode runs, and after it
  until the channel's next note or stop in MIDI out: `ChordSounds` names them (`leftOver`) and excepts them.
* What a fifth note of the last channel overwrites is the linker's choice, and left out of the model. From a
  note past the end of a row to LSDJ's next stop `ChordSounds` says nothing (`overrun`).
* If the editor changes a channel's MIDI channel while a note sounds there, its note-off goes to the new
  channel. The model's channels are fixed.

Watchdog: the recovery time after a stall can exceed the "about 2 seconds" of the comment at
`Watchdog_Diagnostics.ino:34-38`, since progress is noticed only at the next feed: by a blink (2800 ms, and
3050 ms with the keys keyboard mode begins with), and in keyboard mode, while it sends keys, by as much as a
countdown (3400 ms). `StallIsOver` states the bound that holds everywhere.

### Bounds, and why they are enough

* Rings: three slots, so two packets wait, the ring fills, empties and wraps. The proofs cover any size.
  Packets of two bytes are the smallest that can be torn; two devices allow one to be served and one
  skipped.
* Session: ticks of 200 ms; times rounded up, which keeps their order (800 < 1000 < 2000 < 2200 < 5500 ms)
  and the distance of keepalive plus blink (1700 ms) from the timeout. Two modes, since a mode is only
  compared and incremented; one value for the other settings, the modes already tell two settings apart.
  `MaxFrames` = 2 tells depth one from more. `MaxInFlight` = 2 commands: the user does not click faster than
  that; timers may add to them. `EventSets` lists what may come from outside in one behaviour: nothing, the
  button, remote mode changes, changing ports, a stopped LSDJ, or a stopped LSDJ with the button or with remote
  mode changes, which take a session into master sync's wait. 453,000 states.
* Watchdog: ticks of 50 ms, all times of the code are multiples of it except the 51 ms of the wait and the
  flash write, which take one tick. `BlinkTime` is 23 ticks: the blink of 900 ms and the keys with which keyboard
  mode begins. Two settings. 1.69 million states; the proofs take any times in the order of
  `TimingAssumption`, and any settings.
* Sync modes: one note for each effect the code tells apart, note 0 and a velocity of 0. No counter needs a
  bound: all of them wrap in the code. The state space is complete (1.49 million states).
* USB host: `Retries` = 3 as in the code; packets numbered modulo 2, which tells a packet from its
  neighbours; one tick of silence for 2 s, as only its end matters; up to four events wait when the device
  is plugged in again. 949,624 states, half of them of the receive ring.
* Map and keyboard: note 0, which the parser takes for none, the first notes of two octaves, and 126, which is
  above LSDJ's octaves and instruments and on map's second channel stands for the stop; as a program 60 is
  beyond the reach of the mode's entry; USB notes of the first octave and beyond the last; two ticks of delay;
  octaves 0 to 5 and instruments 0 to 63. 2.03 million states; the proof covers all 128 notes, any delay and
  any number of octaves and instruments.
* Game Boy readers: two polls for the pause; one channel with all kinds of command, or two with notes (`used`);
  three values, of which 0 plays nothing. Rows of two notes (`HoldSize`), and at most three notes in a chord
  (`MaxHeld`), one more than its row has room for; the code's rows of four, and five notes, in
  `gb_readers_overrun`. 2.16 million states; the proof covers any size of the rows and any larger `MaxHeld`.
  In the code the limit is that notes 10 ms apart join a chord, and 255 of a counter of 8 bits.
* Sysex: a buffer of six bytes, four messages, one non-zero value, the editor on USB. Four messages are
  enough for a session to begin, two messages to mix in it and one to come after. 4.5 million states; the
  proof covers any of these.
* mGB: two own channels of the five and one foreign one, messages of one and two data bytes, system common
  messages of no, one and two data bytes, two data values. The buffers are the code's. The state space is
  complete, and the proof covers all channels and values. The sender ends its system exclusive messages with F7; a stream that never does is swallowed by
  the thru parser until the mode is left.

### Fairness

* `HostTxRing`: weak fairness of core 1, which runs `loop1()` whatever core 0 does. None of core 0.
* `ProgrammerSession`: the device's loop and the browser's event loop run on; a message is eventually
  taken when the device listens again and again (its loops poll USB each round before they look at the
  button); time passes. The user is never obliged to click.
* `Watchdog`: core 0 executes, the watchdog is hardware, time passes (strongly fair because core 1 may
  disturb infinitely often). Nothing makes a stalled core 1 come back.
* `UsbHost`: core 1 never blocks; time passes; the timer interrupt, with its connection check, comes every
  millisecond. Nothing makes the bus deliver.
* `GbReaders`: the polling loop goes on. LSDJ is not obliged to anything.
* `RxRing`, `ClockModes`, `MgbLink`, `NoteModes`, `SysexParser`: none; their properties are safety properties.

## 4. What is proved

Every invariant, action property and refinement that a passing run checks is also proved. Nothing is assumed
but what the modules assume, by name, about their constants and, for the receive ring, that one port is in use.

Transmit ring (`HostTxRing`, proved in `MgbLink_proofs`), for every ring size of at least two, packet size,
number of devices and set of packets (`SizeAssumption`, `BytesAssumption`, `DevicesAssumption`,
`PacketsAssumption`):

* `TxTypeCorrect`, `HeldPacketIsStable`, `RingImplementsFifo`, from the inductive invariant `TxIndInv`
  (`TxIndInvHolds`).

`TxTypeOK` alone is not inductive for what matters: `TxIndInv` adds that core 0 fills a slot outside those that
wait (`FreeSlot`), that the bytes copied so far are the packet's (`CopiedSoFar`), that core 1
holds a slot only while the ring is not empty (`HeldSlot`), and that all waiting slots
(`SlotsWhole`) and all packets sent (`SentWhole`) are whole. With these, a publish appends one element to the
mapped queue, an advance removes its head (lemmas `PublishAppends`, `AdvanceRemoves`), a write takes the
head (`WriteTakesHead`), a byte copied changes nothing the mapping sees (`CopyKeepsOthers`,
`ContentsUnchanged`), and every other step is a stutter.

Receive ring (`RxRing`, proved in `UsbHost_proofs`), for every ring size of at least two and every set of
payloads (`SizeAssumption`, `TrafficAssumption`, `PacketsAssumption`), when in each behaviour one of the two USB ports carries
traffic (`OnePortHasTraffic`, the hypothesis of both theorems):

* `RxRingImplementsFifo`, from the inductive invariant `RxIndInv` (`RxIndInvHolds`).

The hypothesis is what the code needs, and the run `rx_ring_both_ports` shows what happens without it: an
enqueue of one core overtakes that of the other. With it, the port that is inside `usbMidiEnqueue` is alone
there (`Alone`), so that `next` is still the slot after the head, which was free when it looked, and what it
stored is still there (`Enqueuing`); the slots in use are whole (`UsedWhole`), and what core 0 has copied
is the slot at the tail (`CopiedSlot`). The steps then map to those of the queue as in the transmit ring.

`UsbHost_proofs`, for every number of retries, silence, range of packet numbers and bound on the events
waiting at a new plug-in (`RetriesAssumption`, `SilenceAssumption`, `NumbersAssumption`, `EventsAssumption`):

* `TypeCorrect`, `TransfersHaveOneOutcome`, `PacketsKept`, from the inductive invariant `IndInv`
  (`IndInvHolds`).

What makes this hard is that core 1 learns of the frame interrupt's work from a queue, and the queue lags: a
device may be gone, and another one plugged in, while the queue still holds the events of transfers of the first
and core 1 still has it in its table. `OneOutcome` says nothing about the time in which a removal waits,
but its events are still there when the removal has been handled, and must not be taken for those of the
next device's transfers. `Stands` tells the events that still end a transfer from those that do not: all of
them while the bus runs; when it does not, those that are not an error of the disconnection, and those
that the removal is still behind. `Transfers` and `Standing` say that every transfer core 1 waits for is in
the pool or has one event that stands, and no more; `RootEvents` where in the queue connections and removals
can be, `Gone` that nothing is left after the last of them. `Aborting` carries this over the three
steps of `tuh_midi_rx_rearm`, between which a frame may fall: the transfer that is going to be cleared
is still in the pool, or its events are all stale. For the packets, `InSide` and `OutSide` say for each bulk
endpoint how the device's number and toggle stand to the buffer of the transfer and to what was handed on
(`Got`), with an acknowledgement lost or not; `Requesting` and `Described` say the same of the stages of a
control request. One lemma says what each kind of transaction returns (`InCases`, `OutCases`, `SetupFields`),
one what the interrupt reports (`ReportsListAll`: each transfer that is over once, whatever the order),
and one for each action that the action keeps the invariant. Before the proof TLC found
each part of `IndInv` to hold with three retries and three packet numbers.

`ClockModes_proofs`, for every set of notes and velocities (`NotesAssumption`,
`VelocitiesAssumption`):

* `TypeCorrect`, `SenderFollowed`, `TempoIsEven`, `NanoloopAlwaysLocks`, `DownbeatsAlwaysAlike`, from
  the inductive invariant `IndInv` (`IndInvHolds`).

`IndInv` says what ties the one counter to its three uses: in slave mode how `gap` follows from
`countSyncTime` while an effect is on (`TempoPhase`: this is where the clock that a pulse costs twice shows),
and that each distance in `spacings` is the one this gives, so that there is no second; in
Nanoloop how long the signal can be out of lock at each count of the beat; which phase `nanoSkipSync`
has at a downbeat already seen; and, for the parser, that while it is in step it holds the note the
sender has just sent. The counter and the flags are proved in separate lemmas.

`GbReaders_proofs`, for every number of polls, sets of channels, of kinds of command and of values, and size of
the rows (`PauseLimitAssumption`, `ChannelsAssumption`, `KindsAssumption`, `ValuesAssumption`,
`HoldAssumption`, `ModesAssumption`):

* `TypeCorrect`, `ChordsSound`, from the inductive invariant `IndInv` (`IndInvHolds`).

What must be added to the types is the bookkeeping (`HeldSounds`): as long as no row has been written past its
end, the notes held in a channel's row are those of LSDJ's chord and those a change of mode left sounding, and a
last note is remembered only while some are held. Then a stop, or a note after the threshold, silences all of
them, and a note within it joins them. Once a row has been written past its end (`overrun`) nothing is claimed
until LSDJ's next stop, which empties all rows. That no row is longer than `MaxHeld` is the model's bound, not
a result.

`NoteModes_proofs`, for every set of notes and programs, delay and range of LSDJ (`DataAssumption`, which
allows all of 0 to 127, `UsbNotesAssumption`, `WaitAssumption`, `TopsAssumption`):

* `TypeCorrect`, `RowIsAsked`, `LsdjFollowsWithinRange`, from the inductive invariant `IndInv`
  (`IndInvHolds`).

`IndInv` has three layers: the types; the parser against the sender (`MapParse`, `KeyParse`: while they
are in step, the flags say which byte comes next and the note kept is the one sent); and the queue against
the row that plays and was asked for (`Consistent`, `AskedInv`), or LSDJ's place against the
remembered one (`KeyPlace`, as long as `reached`). The exceptions are part of the statements: a row of 126 or
127 of the second channel, whatever was above LSDJ's last octave or instrument since the mode was entered, and
the instrument after a program change from USB.

`Watchdog_proofs`, for all settings (`SettingsAssumption`) and all times in the order of `TimingAssumption`:

* `TypeCorrect`, `StallEnds`, `SettingsStayValid`, and the action properties `OnlyStallsReset`,
  `ProgrammerIsExempt`, `CauseIsTold`, from the inductive invariant `IndInv` (`IndInvHolds`).

The code's times (a wait of 51 ms, a light show of 1400 ms, a blink of 900 ms, or 1150 with the keys of
keyboard mode, 400 ms for core 1 and 1500 ms for the watchdog) are in that order: the assumption says only that the watchdog outlasts the wait
and the light show together, the blink, and a write of the flash; that the write is no stall for `wdFeed`;
and that the wait is no longer than a blink. `IndInv` says for each place core 0 can be in how long ago the last
feed can be (`FedInTime`), which in keyboard mode's drain is any time up to the countdown; that no feed is
refused before core 1 has stalled (`NeverRefused`); and splits a stall in the time to the first feed, at most a
countdown, the time to the first refused one (`Core1Timeout`), and the rest, which is the watchdog's own count
(`StallTime`). `OnlyStallsReset` and `CauseIsTold` except resets in that drain. One lemma says what a feed does
(`FeedEffect`), and one for each action that the action keeps the invariant.

`MgbLink_proofs`, for all settings of the five channels, and all statuses and data bytes of the sender
(`OwnChannelsAssumption`, `StatusesAssumption`, `SystemCommonAssumption`, `DataAssumption`):

* `TypeCorrect`, `ThruAlwaysWhole`, `GameboyHearsUndisturbed`, from the inductive invariant `IndInv`
  (`IndInvHolds`).

`IndInv` says how each parser stands to the sender. The thru parser knows, from the first message begun in
the mode, what the sender knows: its status, its data so far, whether it is in a system exclusive message
(`ThruInStep`); before that it keeps nothing (`ThruIdle`). The link's two flags and the Game Boy's status
and data follow the sender as long as nothing has disturbed them (`LinkInStep`).

`SysexParser_proofs`, for every size of the buffer the dump fits in, every set of settings, the editor on either
port, any messages of other senders and any number of messages (`LongestAssumption`, `ValuesAssumption`,
`EditorPortAssumption`, `OthersAssumption`, `MaxMessagesAssumption`):

* `TypeCorrect`, `MessagesAreObeyed`, `ScanAlwaysEnds`, from the inductive invariant `IndInv` (`IndInvHolds`).

What is added to the types is where in its message each port is (`Midway`), and, for the port that alone
has sent since the last F0, that the buffer holds just what it has sent, or that the message was given up as
too long (`Tracks`). Lemmas say what each command does to the memory, what one byte of a message does (`OneByte`),
what a packet of up to three does (`PacketDoes`), and that the F7 at the end of a message tracked makes
the device do what the message asks for (`EndObeys`), whatever earlier messages left behind it in the buffer.
For messages that are mixed or `Short`, the empty one included, `wanted` is set to what the device does, so
the theorem says nothing of them.
That the scan ends rests on the padding of `buildMessage`: every message of the editor has four bytes or
more (`MessageFacts`).

`ProgrammerSession_proofs`, for all modes and settings, every set of outside events, all bounds
(`SettingsAssumption`, `BoundsAssumption`) and all times in the order of `TimingAssumption`:

* `TypeCorrect`, `SessionLives`, `SettingsAreReal`, `ReloadEnds`, from the inductive invariant `IndInv`
  (`IndInvHolds`).

The code's times are in that order: a keepalive every 800 ms and a beacon every 1000 ms against a silence of
2000 ms, a pause of 2200 ms in a reload, 5500 ms until an attempt is given up against a blink of 900 ms and
a beacon. The parts of `IndInv` are: the editor's flags and timers (`EditorInv`); at most one save, restore
or dump is under way, and while it is the editor neither disconnects nor reloads (`OneAnswer`); the silence the
device has measured and the time to the next keepalive are together at most one keepalive period, or a CONFIRM
is in the queue (`InTime`), which needs only hold in the programmer's loop, since no other loop
times a session out (`Alive`); a dump under way carries the memory as it is (`Shown`). For reloads `Reloading`
says that the device's session ends before the pause does, and `Calling` that the rest of `giveUp` exceeds
the wait for the blink and the beacon until a message of the handshake is under way, after which no time
passes. The first two theorems hold whatever happens outside; the other two are about an editor that
is alone with the device, and the run `session_button` shows that `ReloadEnds` needs that.

Only model-checked: the liveness properties, since fairness and ENABLED are beyond the prover:
`EverySlotReleased`, `SaveAnswered`, `AbandonedSessionDropped`, `CommitIsOver`, `SilentEndpointRevived`,
`UnplugIsNoticed`, `TransportSettles`; and the four runs that end in a violation,
which are finite traces.

## 5. Assumptions

* Stores of one core reach the other in program order: true of the RP2040; that the compiler keeps the order
  of the copy and the volatile index is trusted.
* USB delivers the editor's commands in order and without loss. In `ProgrammerSession` a sysex message is
  one unit, which `SysexParser` justifies as long as one port is used.
* `EEPROM.commit()` waits for core 1 without a timeout (the comment in `Memory_Functions.ino` 8-14 says so),
  and erases before it programs. Interrupted between the two, flash fails `checkMemory`.
* In slave sync, map, keyboard and mGB a byte is handled before the next arrives: the UART's buffer is not
  modelled, and neither is the polling of USB between bytes, but for the messages mGB takes from it.
* The sender at the DIN port keeps to MIDI.
* TinyUSB's host stack is not in the repository. `UsbHost` takes it to keep one receive transfer submitted,
  to enumerate by three-stage control requests and to handle one event at a time.
* LSDJ and the USB device are modelled as their protocols describe them; LSDJ stops at the ends of its
  ranges.

## 6. Plan

1. *(done)* rings and the proof of the transmit ring; session; watchdog; sync modes with their
   proofs; mGB link.
2. *(done)* map and keyboard, with their proofs; MIDI out and master sync, with their proofs; the sysex
   parser; the PIO endpoints with the device table.
3. `MEM_FORCE_MODE`, which pins the mode against the button but not against the editor; the row that
   master sync sends with a start.
4. The rest of the PIO host: interrupt endpoints with their intervals, hubs, low speed, suspend.
5. `MgbThru`: `MgbLink` between the two rings at their abstract level, `BoundedFifo`.
6. *(done)* Proofs of `UsbHost` and of `RxRing` with one producer.

## 7. Not modelled, and why

Other boards (Teensy, Leonardo, Due) are branches of the same `#if`. LED patterns, forms and presets are
layout. Key codes of the PS/2 keyboard and program changes of MIDI out keep no state.
PIO programs, CRC tables and generated headers are timing on the level of bits. The vendored device
controller is not used: the device port is the RP2040's own. `handle_endpoint_irq` of the vendored host is
overridden by TinyUSB's driver. `usbMidiHandleSysEx` is not called on the RP2040.
The Max patch and the schematics are not programs TLA+ could say anything about.
