----------------------- MODULE ProgrammerSession_proofs -----------------------
(***************************************************************************)
(* Proofs about the programmer session, for all modes and settings, all    *)
(* sets of outside events and all times that satisfy TimingAssumption.     *)
(*                                                                         *)
(* The invariant says what each side may conclude from its own flags, its  *)
(* timers and the messages in flight.                                      *)
(***************************************************************************)
EXTENDS ProgrammerSession, TLAPS, SequenceTheorems

(* A queue holds a message of some kinds; no more than one of them.        *)
Has(q, kinds) == \E i \in 1 .. Len(q) : q[i].kind \in kinds
Single(q, kinds) == \A i, j \in 1 .. Len(q) : q[i].kind \in kinds /\ q[j].kind \in kinds => i = j

Stores == {"SAVE", "RESTORE"}
Dump == {"DUMP"}

--------------------------------------------------------------------------------
(* The types, in the groups the two sides change.                          *)

ToDevice == [kind : {"ENTER", "REQUEST", "CONFIRM", "RESTORE"}]
            \union [kind : {"SAVE", "SET_MODE"}, memory : Memory]
ToEditor == [kind : {"BEACON", "ACK"}] \union [kind : Dump, memory : Memory]

DeviceTypes ==
  /\ loc \in {"mode", "programmer", "leaving", "blink"}
  /\ programming \in BOOLEAN /\ connected \in BOOLEAN
  /\ sinceResponse \in 0 .. WaitTime
  /\ sinceSent \in 0 .. CallTime
  /\ blink \in 0 .. BlinkTime
  /\ frames \in 1 .. MaxFrames
  /\ memory \in Memory
  /\ running \in Modes

EditorTypes ==
  /\ open \in BOOLEAN /\ handshaking \in BOOLEAN /\ linked \in BOOLEAN /\ version \in BOOLEAN
  /\ saving \in BOOLEAN /\ reloaded \in BOOLEAN /\ failed \in BOOLEAN
  /\ settings \in Memory \union {NoSettings}
  /\ keepalive \in Off .. KeepaliveTime
  /\ giveUp \in Off .. GiveUpTime
  /\ reload \in Off .. ReloadTime

Types ==
  /\ events \in EventSets
  /\ DeviceTypes /\ EditorTypes
  /\ toDevice \in Seq(ToDevice) /\ toEditor \in Seq(ToEditor)

(* The editor's flags and timers.                                          *)
EditorInv ==
  /\ linked => open /\ ~handshaking /\ keepalive # Off
  /\ handshaking => open /\ giveUp # Off
  /\ ~handshaking => giveUp = Off
  /\ ~linked => keepalive = Off
  /\ open => linked \/ handshaking
  /\ saving => linked /\ reload = Off

(* The editor waits while a save or its answer is under way, and no other  *)
(* settings come.                                                          *)
OneAnswer ==
  /\ Single(toDevice, Stores) /\ Single(toEditor, Dump)
  /\ Has(toDevice, Stores) => saving /\ ~Has(toEditor, Dump)
  /\ Has(toEditor, Dump) /\ linked => saving

(* The silence the device measures and the time to the next keepalive are  *)
(* together no more than a period.                                         *)
InTime == /\ sinceResponse <= KeepaliveTime
          /\ Has(toDevice, {"CONFIRM"}) \/ sinceResponse + keepalive <= KeepaliveTime

Alive ==
  /\ loc = "programmer" => programming
  /\ linked => connected /\ programming
  /\ Has(toEditor, Dump) => connected /\ programming /\ (linked \/ sinceResponse = 0)
  /\ linked /\ loc = "programmer" => InTime

(* Nothing but the editor acts on the device: the settings are those under *)
(* way to the editor, or those it has.                                     *)
Carries(q, m) == \A i \in 1 .. Len(q) : q[i].kind \in Dump => q[i].memory = m

Shown ==
  events = {} =>
    /\ ~Has(toDevice, {"SET_MODE"})
    /\ Carries(toEditor, memory)
    /\ linked /\ ~Has(toEditor, Dump) => settings = memory

(* A reload waits: the device drops the session before it goes on.         *)
Reloading ==
  /\ ~handshaking /\ ~linked
  /\ programming => connected
  /\ connected => reload + sinceResponse >= ReloadTime
  /\ \/ reload = ReloadTime /\ loc = "programmer" /\ sinceResponse <= KeepaliveTime
     \/ reload < ReloadTime /\ toDevice = << >>

(* It has gone on: the device has not yet read ENTER; or the two shake     *)
(* hands, within a tick once the beacon is sent; or the settings are on    *)
(* their way.  The attempt is not given up before.                         *)
Handshake == Has(toDevice, {"REQUEST", "CONFIRM"}) \/ Has(toEditor, {"BEACON", "ACK"})

Busy == CASE loc = "leaving" -> BlinkTime
          [] loc = "blink" -> blink
          [] OTHER -> 0

Entering == /\ ~programming
            /\ toDevice # << >> /\ Head(toDevice).kind = "ENTER"
            /\ giveUp > Busy + CallTime

Greeting == /\ programming /\ ~connected
            /\ sinceResponse <= CallTime
            /\ Handshake \/ (sinceResponse <= sinceSent /\ giveUp + sinceSent > CallTime)

Calling == giveUp > 0 /\ (Entering \/ Greeting \/ (connected /\ Has(toEditor, Dump)))

Reconnects ==
  events = {} =>
    /\ programming <=> loc = "programmer"
    /\ connected => programming
    /\ Has(toDevice, {"REQUEST"}) \/ Has(toEditor, {"ACK"}) => version
    /\ reload # Off => Reloading
    /\ reloaded /\ handshaking => Calling
    /\ ~(failed /\ reloaded)

IndInv == Types /\ EditorInv /\ OneAnswer /\ Alive /\ Shown /\ Reconnects

--------------------------------------------------------------------------------
(* The queues.                                                             *)

(* What a message at the end of a queue adds to it.                        *)
LEMMA HasAppend ==
  ASSUME NEW M, NEW q \in Seq(M), NEW m \in M, NEW kinds
  PROVE  Has(Append(q, m), kinds) <=> Has(q, kinds) \/ m.kind \in kinds
<1> DEFINE r == Append(q, m)
<1>1. /\ Len(q) \in Nat /\ Len(r) = Len(q) + 1
      /\ \A i \in 1 .. Len(q) : r[i] = q[i]
      /\ r[Len(q) + 1] = m
  BY AppendProperties
<1>2. \A i \in 1 .. Len(r) : i \in 1 .. Len(q) \/ i = Len(q) + 1
  BY <1>1
<1>3. Len(q) + 1 \in 1 .. Len(r)
  BY <1>1
<1>4. \A i \in 1 .. Len(q) : i \in 1 .. Len(r)
  BY <1>1
<1> HIDE DEF r
<1>5. Has(r, kinds) => Has(q, kinds) \/ m.kind \in kinds
  BY <1>1, <1>2 DEF Has
<1>6. Has(q, kinds) => Has(r, kinds)
  BY <1>1, <1>4 DEF Has
<1>7. m.kind \in kinds => Has(r, kinds)
  BY <1>1, <1>3 DEF Has
<1> QED
  BY <1>5, <1>6, <1>7 DEF r

(* The first message stays the first.                                      *)
LEMMA HeadAppend ==
  ASSUME NEW M, NEW q \in Seq(M), NEW m \in M
  PROVE  /\ Append(q, m) \in Seq(M) /\ Append(q, m) # << >>
         /\ Head(Append(q, m)) = IF q = << >> THEN m ELSE Head(q)
<1> DEFINE r == Append(q, m)
<1>1. /\ Len(q) \in Nat /\ r \in Seq(M) /\ Len(r) = Len(q) + 1
      /\ \A i \in 1 .. Len(q) : r[i] = q[i]
      /\ r[Len(q) + 1] = m
  BY AppendProperties
<1>2. q = << >> <=> Len(q) = 0
  BY EmptySeq, LenProperties
<1>3. r # << >> /\ Head(r) = r[1]
  <2>1. r # << >>
    BY <1>1, LenProperties, EmptySeq
  <2> QED
    BY <1>1, <2>1, HeadTailProperties
<1>4. r[1] = IF q = << >> THEN m ELSE q[1]
  BY <1>1, <1>2
<1>5. q # << >> => Head(q) = q[1]
  BY HeadTailProperties
<1> QED
  BY <1>1, <1>3, <1>4, <1>5

(* A queue with one message of some kinds takes no second.                 *)
LEMMA SingleAppend ==
  ASSUME NEW M, NEW q \in Seq(M), NEW m \in M, NEW kinds,
         Single(q, kinds), m.kind \in kinds => ~Has(q, kinds)
  PROVE  Single(Append(q, m), kinds)
<1> DEFINE r == Append(q, m)
<1>1. /\ Len(q) \in Nat /\ Len(r) = Len(q) + 1
      /\ \A i \in 1 .. Len(q) : r[i] = q[i]
      /\ r[Len(q) + 1] = m
  BY AppendProperties
<1>2. \A i \in 1 .. Len(r) : i \in 1 .. Len(q) \/ i = Len(q) + 1
  BY <1>1
<1> HIDE DEF r
<1> SUFFICES ASSUME NEW i \in 1 .. Len(r), NEW j \in 1 .. Len(r),
                    r[i].kind \in kinds, r[j].kind \in kinds
             PROVE  i = j
  BY DEF Single, r
<1>3. CASE m.kind \in kinds
  BY <1>1, <1>2, <1>3 DEF Has
<1>4. CASE m.kind \notin kinds
  <2>1. i \in 1 .. Len(q) /\ j \in 1 .. Len(q)
    BY <1>1, <1>2, <1>4
  <2> QED
    BY <1>1, <2>1 DEF Single
<1> QED
  BY <1>3, <1>4

(* All settings in the queue are the same.                                 *)
LEMMA CarriesAppend ==
  ASSUME NEW M, NEW q \in Seq(M), NEW m \in M, NEW kept,
         Carries(q, kept), m.kind \in Dump => m.memory = kept
  PROVE  Carries(Append(q, m), kept)
<1> DEFINE r == Append(q, m)
<1>1. /\ Len(q) \in Nat /\ Len(r) = Len(q) + 1
      /\ \A i \in 1 .. Len(q) : r[i] = q[i]
      /\ r[Len(q) + 1] = m
  BY AppendProperties
<1>2. \A i \in 1 .. Len(r) : i \in 1 .. Len(q) \/ i = Len(q) + 1
  BY <1>1
<1> HIDE DEF r
<1>3. Carries(r, kept)
  BY <1>1, <1>2 DEF Carries
<1> QED
  BY <1>3 DEF r

(* What taking the first message off leaves.                               *)
LEMMA TailKeeps ==
  ASSUME NEW M, NEW q \in Seq(M), q # << >>
  PROVE  /\ Tail(q) \in Seq(M) /\ Head(q) \in M
         /\ \A kinds : Has(q, kinds) <=> Head(q).kind \in kinds \/ Has(Tail(q), kinds)
         /\ \A kinds : Single(q, kinds) =>
              Single(Tail(q), kinds) /\ (Head(q).kind \in kinds => ~Has(Tail(q), kinds))
         /\ \A m : Carries(q, m) =>
              Carries(Tail(q), m) /\ (Head(q).kind \in Dump => Head(q).memory = m)
<1> DEFINE r == Tail(q)
<1>1. /\ Len(q) \in Nat /\ Len(r) \in Nat /\ Len(r) = Len(q) - 1 /\ Len(q) > 0
      /\ \A i \in 1 .. Len(r) : r[i] = q[i + 1]
      /\ Head(q) = q[1] /\ r \in Seq(M) /\ Head(q) \in M
  BY HeadTailProperties, EmptySeq, LenProperties
<1>2. /\ 1 \in 1 .. Len(q)
      /\ \A i \in 1 .. Len(r) : i + 1 \in 1 .. Len(q) /\ i + 1 # 1
      /\ \A i \in 1 .. Len(q) : i = 1 \/ (i - 1 \in 1 .. Len(r) /\ (i - 1) + 1 = i)
  BY <1>1
<1> HIDE DEF r
<1>3. \A i \in 1 .. Len(q) : i = 1 \/ \E j \in 1 .. Len(r) : i = j + 1 /\ r[j] = q[i]
  BY <1>1, <1>2
<1>4. ASSUME NEW kinds
      PROVE  Has(q, kinds) <=> Head(q).kind \in kinds \/ Has(r, kinds)
  BY <1>1, <1>2, <1>3 DEF Has
<1>5. ASSUME NEW kinds, Single(q, kinds)
      PROVE  Single(r, kinds) /\ (Head(q).kind \in kinds => ~Has(r, kinds))
  <2>1. ASSUME NEW i \in 1 .. Len(r), NEW j \in 1 .. Len(r),
               r[i].kind \in kinds, r[j].kind \in kinds
        PROVE  i = j
    <3>1. i + 1 = j + 1
      BY <1>1, <1>2, <1>5, <2>1 DEF Single
    <3> QED
      BY <1>1, <3>1
  <2>2. Head(q).kind \in kinds => ~Has(r, kinds)
    BY <1>1, <1>2, <1>5 DEF Single, Has
  <2> QED
    BY <2>1, <2>2 DEF Single
<1>6. ASSUME NEW m, Carries(q, m)
      PROVE  Carries(r, m) /\ (Head(q).kind \in Dump => Head(q).memory = m)
  BY <1>1, <1>2, <1>6 DEF Carries
<1> QED
  BY <1>1, <1>4, <1>5, <1>6 DEF r

(* An empty queue.                                                         *)
LEMMA EmptyQueue ==
  /\ \A M : << >> \in Seq(M)
  /\ \A kinds : ~Has(<< >>, kinds) /\ Single(<< >>, kinds)
  /\ \A m : Carries(<< >>, m)
BY DEF Has, Single, Carries

(* The same of the queues of the model.                                    *)
LEMMA Commanded ==
  ASSUME IndInv, NEW m \in ToDevice, toDevice' = Append(toDevice, m),
         m.kind \in Stores => ~Has(toDevice, Stores)
  PROVE  /\ toDevice' \in Seq(ToDevice) /\ toDevice' # << >>
         /\ \A kinds : Has(toDevice', kinds) <=> Has(toDevice, kinds) \/ m.kind \in kinds
         /\ Single(toDevice', Stores)
         /\ Head(toDevice') = IF toDevice = << >> THEN m ELSE Head(toDevice)
BY HasAppend, SingleAppend DEF IndInv, Types, OneAnswer

(* And when the device answers.                                            *)
LEMMA Answered ==
  ASSUME IndInv, NEW m \in ToEditor, toEditor' = Append(toEditor, m),
         m.kind \in Dump => ~Has(toEditor, Dump)
  PROVE  /\ toEditor' \in Seq(ToEditor)
         /\ \A kinds : Has(toEditor', kinds) <=> Has(toEditor, kinds) \/ m.kind \in kinds
         /\ Single(toEditor', Dump)
         /\ \A x : Carries(toEditor, x) /\ (m.kind \in Dump => m.memory = x)
                => Carries(toEditor', x)
BY HasAppend, SingleAppend, CarriesAppend DEF IndInv, Types, OneAnswer

(* Settings that are on their way are the only ones.                       *)
LEMMA NoDump ==
  \A q, x : ~Has(q, Dump) => Carries(q, x)
BY DEF Has, Carries

--------------------------------------------------------------------------------
(* Each step keeps the invariant.                                          *)

(* The assumptions, one fact each.                                         *)
LEMMA TimesHold ==
  /\ WaitTime \in Nat /\ CallTime \in Nat /\ BlinkTime \in Nat /\ KeepaliveTime \in Nat
  /\ ReloadTime \in Nat /\ GiveUpTime \in Nat
  /\ WaitTime > 0 /\ CallTime > 0 /\ BlinkTime > 0 /\ KeepaliveTime > 0
  /\ ReloadTime > 0 /\ GiveUpTime > 0
  /\ KeepaliveTime < WaitTime /\ CallTime < WaitTime /\ WaitTime < ReloadTime
  /\ BlinkTime + CallTime < GiveUpTime
  /\ MaxFrames \in Nat /\ MaxFrames > 0
BY TimesAssumption, TimingAssumption, BoundsAssumption

(* The values the timers are set to.                                       *)
LEMMA TimersHold ==
  /\ Off \in Off .. KeepaliveTime /\ KeepaliveTime \in Off .. KeepaliveTime
  /\ Off \in Off .. GiveUpTime /\ GiveUpTime \in Off .. GiveUpTime
  /\ Off \in Off .. ReloadTime /\ ReloadTime \in Off .. ReloadTime
BY TimesHold DEF Off

(* The device calls; nothing else of it changes.                           *)
LEMMA SendBeaconStep ==
  ASSUME IndInv, SendBeacon
  PROVE  IndInv'
<1> USE TimesHold DEF SendBeacon, BeaconDue, editorVars, timerVars, Off, IndInv
<1>1. /\ toEditor' \in Seq(ToEditor)
      /\ \A kinds : Has(toEditor', kinds) <=> Has(toEditor, kinds) \/ "BEACON" \in kinds
      /\ Single(toEditor', Dump) /\ \A m : Carries(toEditor, m) => Carries(toEditor', m)
  BY Answered DEF Command, ToEditor, Dump
<1>2. Types'
  BY <1>1 DEF Types, DeviceTypes, EditorTypes
<1>3. EditorInv'
  BY DEF EditorInv
<1>4. OneAnswer'
  BY <1>1 DEF OneAnswer, Dump
<1>5. Alive'
  BY <1>1 DEF Alive, InTime, Dump
<1>6. Shown'
  BY <1>1 DEF Shown
<1>7. Reconnects'
  BY <1>1 DEF Reconnects, Reloading, Calling, Entering, Greeting, Handshake
<1> QED
  BY <1>2, <1>3, <1>4, <1>5, <1>6, <1>7

(* The device gives the session up: neither does the editor hold on to it, *)
(* nor is an attempt to connect under way.                                 *)
LEMMA DropSessionStep ==
  ASSUME IndInv, DropSession
  PROVE  IndInv'
<1> USE TimesHold DEF DropSession, TimeoutDue, BeaconDue, editorVars, timerVars, Off, IndInv
<1>1. Types'
  BY DEF Types, DeviceTypes, EditorTypes
<1>2. EditorInv'
  BY DEF EditorInv
<1>3. OneAnswer'
  BY DEF OneAnswer
<1>4. Alive'
  BY DEF Alive, InTime, Types, DeviceTypes
<1>5. Shown'
  BY DEF Shown
<1>6. Reconnects'
  <2> SUFFICES ASSUME events = {}
               PROVE  Reconnects'
    BY DEF Reconnects
  <2>1. ASSUME reload # Off
        PROVE  Reloading'
    <3>1. Reloading /\ reload # ReloadTime
      BY <2>1 DEF Reconnects, Reloading, Types, DeviceTypes
    <3> QED
      BY <3>1 DEF Reloading
  <2>2. ASSUME reloaded, handshaking
        PROVE  FALSE
    <3>1. Calling /\ ~linked
      BY <2>2 DEF Reconnects, EditorInv
    <3>2. programming /\ sinceResponse > CallTime /\ sinceResponse \in Nat
      BY DEF Alive, Types, DeviceTypes
    <3>3. ~Has(toEditor, Dump)
      BY <3>1, <3>2 DEF Alive
    <3> QED
      BY <3>1, <3>2, <3>3 DEF Calling, Entering, Greeting
  <2> QED
    BY <2>1, <2>2 DEF Reconnects
<1> QED
  BY <1>1, <1>2, <1>3, <1>4, <1>5, <1>6

(* The blink begins; a call that waits takes so much longer.               *)
LEMMA LeaveProgrammerStep ==
  ASSUME IndInv, LeaveProgrammer
  PROVE  IndInv'
<1> USE TimesHold DEF LeaveProgrammer, editorVars, timerVars, Off, IndInv
<1>1. Types'
  <2>1. DeviceTypes'
    BY DEF Types, DeviceTypes, Memory
  <2>2. EditorTypes'
    BY DEF Types, EditorTypes
  <2> QED
    BY <2>1, <2>2 DEF Types
<1>2. EditorInv'
  BY DEF EditorInv
<1>3. OneAnswer'
  BY DEF OneAnswer
<1>4. Alive'
  BY DEF Alive
<1>5. Shown'
  BY DEF Shown
<1>6. Reconnects'
  BY DEF Reconnects, Reloading, Calling, Entering, Greeting, Busy
<1> QED
  BY <1>1, <1>2, <1>3, <1>4, <1>5, <1>6

(* The blink ends.                                                         *)
LEMMA EnterModeStep ==
  ASSUME IndInv, EnterMode
  PROVE  IndInv'
<1> USE TimesHold DEF EnterMode, editorVars, timerVars, Off, IndInv
<1>1. Types'
  BY DEF Types, DeviceTypes, EditorTypes
<1>2. EditorInv'
  BY DEF EditorInv
<1>3. OneAnswer'
  BY DEF OneAnswer
<1>4. Alive'
  BY DEF Alive
<1>5. Shown'
  BY DEF Shown
<1>6. Reconnects'
  BY DEF Reconnects, Reloading, Calling, Entering, Greeting, Busy
<1> QED
  BY <1>1, <1>2, <1>3, <1>4, <1>5, <1>6

(* The button acts on the device; the loops it leaves do not time out.     *)
LEMMA PressModeButtonStep ==
  ASSUME IndInv, PressModeButton
  PROVE  IndInv'
<1> USE TimesHold DEF PressModeButton, NextMode, SwitchTo, Deeper, editorVars, timerVars, Off, IndInv
<1>1. Types'
  <2>1. DeviceTypes'
    <3>1. memory' \in Memory /\ running' \in Modes
      BY SettingsAssumption DEF Types, DeviceTypes, Memory
    <3> QED
      BY <3>1 DEF Types, DeviceTypes
  <2>2. EditorTypes'
    BY DEF Types, EditorTypes
  <2> QED
    BY <2>1, <2>2 DEF Types
<1>2. EditorInv'
  BY DEF EditorInv
<1>3. OneAnswer'
  BY DEF OneAnswer
<1>4. Alive'
  BY DEF Alive
<1>5. Shown'
  BY DEF Shown
<1>6. Reconnects'
  BY DEF Reconnects
<1> QED
  BY <1>1, <1>2, <1>3, <1>4, <1>5, <1>6

(* The keepalive goes out before the silence is too long.                  *)
LEMMA SendKeepaliveStep ==
  ASSUME IndInv, SendKeepalive
  PROVE  IndInv'
<1> USE TimesHold DEF SendKeepalive, Sending, Send, deviceVars, Off, IndInv
<1>1. /\ toDevice' \in Seq(ToDevice)
      /\ \A kinds : Has(toDevice', kinds) <=> Has(toDevice, kinds) \/ "CONFIRM" \in kinds
      /\ Single(toDevice', Stores)
  <2>1. CASE ConfirmWaits
    <3>1. toDevice \in Seq(ToDevice) /\ Len(toDevice) \in 1 .. Len(toDevice)
      BY <2>1, EmptySeq, LenProperties DEF ConfirmWaits, Types
    <3>2. \A kinds : "CONFIRM" \in kinds => Has(toDevice, kinds)
      BY <2>1, <3>1 DEF ConfirmWaits, Has
    <3> QED
      BY <2>1, <3>1, <3>2 DEF OneAnswer
  <2>2. CASE ~ConfirmWaits
    BY <2>2, Commanded DEF Command, ToDevice, Stores
  <2> QED
    BY <2>1, <2>2
<1>2. Types'
  BY <1>1 DEF Types, DeviceTypes, EditorTypes
<1>3. EditorInv'
  BY DEF EditorInv
<1>4. OneAnswer'
  BY <1>1 DEF OneAnswer, Stores
<1>5. Alive'
  BY <1>1 DEF Alive, InTime
<1>6. Shown'
  BY <1>1 DEF Shown
<1>7. Reconnects'
  BY <1>1 DEF Reconnects, Reloading, EditorInv
<1> QED
  BY <1>2, <1>3, <1>4, <1>5, <1>6, <1>7

(* The editor connects, at a click, after a reload or at a change of ports.*)
LEMMA ConnectStep ==
  ASSUME IndInv, NEW byReload \in BOOLEAN, Connect(byReload), ~saving,
         reload' \in {Off, reload},
         events = {} => reload' = Off /\ (byReload => reload = 0)
  PROVE  IndInv'
<1> USE TimesHold DEF Connect, deviceVars, Off, IndInv
<1>1. /\ toDevice' \in Seq(ToDevice)
      /\ \A kinds : Has(toDevice', kinds) <=> Has(toDevice, kinds) \/ "ENTER" \in kinds
      /\ Single(toDevice', Stores)
  BY Commanded DEF Command, ToDevice, OneAnswer
<1>2. Types'
  BY <1>1, TimersHold DEF Types, DeviceTypes, EditorTypes
<1>3. EditorInv'
  BY DEF EditorInv
<1>4. OneAnswer'
  BY <1>1 DEF OneAnswer, Stores
<1>5. Alive'
  BY DEF Alive, OneAnswer
<1>6. Shown'
  BY <1>1 DEF Shown
<1>7. Reconnects'
  <2> SUFFICES ASSUME events = {}
               PROVE  Reconnects'
    BY DEF Reconnects
  <2>1. ASSUME byReload
        PROVE  Calling'
    <3>1. Reloading /\ reload = 0
      BY <2>1 DEF Reconnects
    <3>2. ~connected /\ ~programming /\ toDevice = << >>
      BY <3>1 DEF Reloading, Types, DeviceTypes
    <3>3. Head(toDevice').kind = "ENTER" /\ toDevice' # << >>
      BY <3>2 DEF Command
    <3>4. giveUp' > (Busy + CallTime)' /\ giveUp' > 0
      <4>1. Busy' = Busy /\ Busy \in 0 .. BlinkTime
        BY DEF Busy, Types, DeviceTypes
      <4> QED
        BY <4>1
    <3> QED
      BY <3>2, <3>3, <3>4 DEF Calling, Entering
  <2> QED
    BY <1>1, <2>1 DEF Reconnects
<1> QED
  BY <1>2, <1>3, <1>4, <1>5, <1>6, <1>7

(* The pause of the reload is over, and the device has dropped the session.*)
LEMMA FinishReloadStep ==
  ASSUME IndInv, FinishReload
  PROVE  IndInv'
<1>1. Connect(TRUE) /\ reload = 0 /\ reload' = Off
  BY DEF FinishReload
<1>2. ~saving
  BY <1>1 DEF IndInv, EditorInv, Off
<1> QED
  BY <1>1, <1>2, ConnectStep

LEMMA ClickConnectStep ==
  ASSUME IndInv, ClickConnect
  PROVE  IndInv'
<1>1. Connect(FALSE) /\ ~saving /\ reload = Off /\ reload' = Off
  BY DEF ClickConnect, MayClick
<1> QED
  BY <1>1, ConnectStep

LEMMA PortsChangeStep ==
  ASSUME IndInv, PortsChange
  PROVE  IndInv'
<1>1. Connect(TRUE) /\ ~saving /\ events # {} /\ reload' = reload
  BY DEF PortsChange, IndInv, EditorInv
<1> QED
  BY <1>1, ConnectStep

(* It disconnects, at a click or because the attempt is given up.          *)
LEMMA DisconnectStep ==
  ASSUME IndInv, Disconnect, ~saving,
         failed' \in {failed, TRUE},
         events = {} /\ reloaded => failed' = failed
  PROVE  IndInv'
<1> USE TimesHold DEF Disconnect, deviceVars, Off, IndInv
<1>1. Types'
  BY TimersHold DEF Types, DeviceTypes, EditorTypes
<1>2. EditorInv'
  BY DEF EditorInv
<1>3. OneAnswer'
  BY DEF OneAnswer
<1>4. Alive'
  BY DEF Alive, OneAnswer
<1>5. Shown'
  BY DEF Shown
<1>6. Reconnects'
  BY DEF Reconnects, Reloading
<1> QED
  BY <1>1, <1>2, <1>3, <1>4, <1>5, <1>6

LEMMA ClickDisconnectStep ==
  ASSUME IndInv, ClickDisconnect
  PROVE  IndInv'
<1>1. Disconnect /\ ~saving /\ failed' = failed
  BY DEF ClickDisconnect, MayClick
<1> QED
  BY <1>1, DisconnectStep

(* No attempt of an undisturbed reload is given up: its timer is not at 0. *)
LEMMA GiveUpStep ==
  ASSUME IndInv, GiveUp
  PROVE  IndInv'
<1>1. handshaking /\ ~saving
  BY DEF GiveUp, IndInv, EditorInv, Off
<1>2. ~(events = {} /\ reloaded)
  BY <1>1 DEF GiveUp, IndInv, Reconnects, Calling
<1> QED
  BY <1>1, <1>2, DisconnectStep DEF GiveUp

(* The user reloads: from here on the device hears nothing.                *)
LEMMA ClickReloadStep ==
  ASSUME IndInv, ClickReload
  PROVE  IndInv'
<1> USE TimesHold DEF ClickReload, ReloadAfter, MayClick, deviceVars, Off, IndInv
<1>1. Types'
  BY TimersHold DEF Types, DeviceTypes, EditorTypes
<1>2. EditorInv'
  BY DEF EditorInv
<1>3. OneAnswer'
  BY DEF OneAnswer
<1>4. Alive'
  BY DEF Alive, OneAnswer
<1>5. Shown'
  BY DEF Shown
<1>6. Reconnects'
  <2> SUFFICES ASSUME events = {}
               PROVE  Reconnects'
    BY DEF Reconnects
  <2>1. connected /\ programming /\ loc = "programmer" /\ sinceResponse <= KeepaliveTime
    BY DEF Alive, InTime, Reconnects
  <2>2. reload' + sinceResponse >= ReloadTime
    BY DEF Types, DeviceTypes
  <2>3. Reloading'
    BY <2>1, <2>2 DEF Reloading
  <2> QED
    BY <2>3 DEF Reconnects
<1> QED
  BY <1>1, <1>2, <1>3, <1>4, <1>5, <1>6

(* A restore waits for its answer.                                         *)
LEMMA ClickRestoreStep ==
  ASSUME IndInv, ClickRestore
  PROVE  IndInv'
<1> USE TimesHold DEF ClickRestore, Sending, Send, MayClick, deviceVars, Off, IndInv
<1>1. /\ toDevice' \in Seq(ToDevice)
      /\ \A kinds : Has(toDevice', kinds) <=> Has(toDevice, kinds) \/ "RESTORE" \in kinds
      /\ Single(toDevice', Stores)
  BY Commanded DEF Command, ToDevice, OneAnswer
<1>2. Types'
  BY <1>1 DEF Types, DeviceTypes, EditorTypes
<1>3. EditorInv'
  BY DEF EditorInv
<1>4. OneAnswer'
  BY <1>1 DEF OneAnswer
<1>5. Alive'
  BY <1>1 DEF Alive, InTime
<1>6. Shown'
  BY <1>1 DEF Shown
<1>7. Reconnects'
  BY <1>1 DEF Reconnects, Calling, Entering, Greeting, Alive
<1> QED
  BY <1>2, <1>3, <1>4, <1>5, <1>6, <1>7

(* A tick comes only when nothing is due: the queues that are read are   *)
(* empty.                                                                  *)
LEMMA TickStep ==
  ASSUME IndInv, Tick
  PROVE  IndInv'
<1> USE TimesHold DEF Tick, SomethingIsDue, Older, Sooner, BeaconDue, TimeoutDue, Listening,
      Spinning, Off, IndInv
<1>1. Types'
  BY DEF Types, DeviceTypes, EditorTypes
<1>2. EditorInv'
  BY DEF EditorInv
<1>3. OneAnswer'
  BY DEF OneAnswer
<1>4. Alive'
  <2>1. toEditor = << >> /\ keepalive # 0
    OBVIOUS
  <2>2. ~Has(toEditor', Dump)
    BY <2>1, EmptyQueue
  <2>3. ASSUME linked, loc = "programmer"
        PROVE  InTime'
    <3>1. /\ InTime /\ toDevice = << >>
          /\ keepalive \in 1 .. KeepaliveTime /\ keepalive' = keepalive - 1
      BY <2>3 DEF Alive, EditorInv, Types, EditorTypes
    <3>2. ~Has(toDevice, {"CONFIRM"})
      BY <3>1, EmptyQueue
    <3> QED
      BY <3>1, <3>2 DEF InTime, Types, DeviceTypes
  <2> QED
    BY <2>2, <2>3 DEF Alive
<1>5. Shown'
  BY DEF Shown
<1>6. Reconnects'
  <2> SUFFICES ASSUME events = {}
               PROVE  Reconnects'
    BY DEF Reconnects
  <2>1. /\ toEditor = << >> /\ ~Has(toEditor, Dump) /\ ~Has(toEditor, {"BEACON", "ACK"})
        /\ giveUp # 0 /\ reload # 0
    BY EmptyQueue
  <2>2. loc # "blink" => toDevice = << >> /\ ~Has(toDevice, {"REQUEST", "CONFIRM"})
    BY EmptyQueue
  <2>3. ASSUME reload' # Off
        PROVE  Reloading'
    <3>1. Reloading /\ reload \in 1 .. ReloadTime /\ reload' = reload - 1
      BY <2>3 DEF Reconnects, Types, EditorTypes
    <3>2. connected => loc = "programmer" /\ sinceResponse # WaitTime
      BY DEF Reconnects
    <3>3. connected => sinceResponse' = sinceResponse + 1
      BY <3>2
    <3> QED
      BY <3>1, <3>3 DEF Reloading, Types, DeviceTypes
  <2>4. ASSUME reloaded, handshaking
        PROVE  Calling'
    <3>1. Calling /\ giveUp \in 1 .. GiveUpTime /\ giveUp' = giveUp - 1 /\ ~linked
      BY <2>4 DEF Reconnects, EditorInv, Types, EditorTypes
    <3>2. CASE Entering
      <4>1. loc = "blink" /\ blink # 0
        BY <2>2, <3>2 DEF Entering
      <4>2. Busy = blink /\ Busy' = blink - 1
        BY <4>1 DEF Busy
      <4> QED
        BY <3>1, <3>2, <4>2 DEF Calling, Entering, Types, DeviceTypes
    <3>3. CASE Greeting
      <4>1. loc = "programmer" /\ ~Handshake
        BY <2>1, <2>2, <3>3 DEF Greeting, Reconnects, Handshake
      <4>2. sinceSent < CallTime /\ sinceSent' = sinceSent + 1
        BY <4>1 DEF Types, DeviceTypes
      <4>3. sinceResponse' = sinceResponse + 1
        BY <3>3 DEF Greeting
      <4> QED
        BY <3>1, <3>3, <4>1, <4>2, <4>3 DEF Calling, Greeting
    <3> QED
      BY <2>1, <3>1, <3>2, <3>3 DEF Calling
  <2> QED
    BY <2>3, <2>4 DEF Reconnects
<1> QED
  BY <1>1, <1>2, <1>3, <1>4, <1>5, <1>6

--------------------------------------------------------------------------------
(* The device takes a command.                                             *)

Takes(kind) ==
  /\ Listening
  /\ toDevice # << >> /\ Head(toDevice).kind = kind
  /\ toDevice' = Tail(toDevice)
  /\ UNCHANGED <<events, editorVars>>

(* What every command leaves of the queue.                                 *)
LEMMA Taken ==
  ASSUME IndInv, NEW kind, Takes(kind)
  PROVE  /\ Head(toDevice) \in ToDevice /\ toDevice' \in Seq(ToDevice)
         /\ \A kinds : Has(toDevice, kinds) <=> kind \in kinds \/ Has(toDevice', kinds)
         /\ Single(toDevice', Stores)
         /\ kind \in Stores => ~Has(toDevice', Stores)
BY TailKeeps DEF Takes, IndInv, Types, OneAnswer

(* The session begins; an attempt of the editor has been heard.            *)
LEMMA TakeEnterStep ==
  ASSUME IndInv, Takes("ENTER"), OnEnter
  PROVE  IndInv'
<1> USE TimesHold DEF Takes, Listening, OnEnter, Deeper, editorVars, timerVars, Off, IndInv
<1>1. /\ Head(toDevice) \in ToDevice /\ toDevice' \in Seq(ToDevice)
      /\ \A kinds : Has(toDevice, kinds) <=> "ENTER" \in kinds \/ Has(toDevice', kinds)
      /\ Single(toDevice', Stores)
      /\ "ENTER" \in Stores => ~Has(toDevice', Stores)
  BY Taken
<1>2. Types'
  BY DEF Types, DeviceTypes, EditorTypes
<1>3. EditorInv'
  BY DEF EditorInv
<1>4. OneAnswer'
  BY <1>1 DEF OneAnswer
<1>5. Alive'
  BY DEF Alive, InTime, Types, EditorTypes
<1>6. Shown'
  BY <1>1 DEF Shown
<1>7. Reconnects'
  <2> SUFFICES ASSUME events = {}
               PROVE  Reconnects'
    BY DEF Reconnects
  <2>1. ASSUME reload' # Off
        PROVE  Reloading'
    BY <2>1 DEF Reconnects, Reloading
  <2>2. ASSUME reloaded', handshaking'
        PROVE  Calling'
    <3>1. Calling /\ ~linked
      BY <2>2 DEF Reconnects, EditorInv
    <3>2. CASE Entering
      <4>1. Busy >= 0 /\ sinceSent >= 0 /\ giveUp \in Int
        BY DEF Busy, Types, DeviceTypes, EditorTypes
      <4>2. Busy \in Int /\ sinceSent \in Int
        BY DEF Busy, Types, DeviceTypes
      <4>3. ~connected
        BY <3>2 DEF Entering, Reconnects
      <4>4. giveUp + sinceSent > CallTime
        BY <3>2, <4>1, <4>2 DEF Entering
      <4>5. Greeting'
        BY <4>1, <4>2, <4>3, <4>4 DEF Greeting
      <4> QED
        BY <3>1, <4>5 DEF Calling
    <3>3. CASE Greeting
      BY <1>1, <3>1, <3>3 DEF Calling, Greeting, Handshake, Types, DeviceTypes
    <3>4. CASE connected /\ Has(toEditor, Dump)
      BY <3>1, <3>4 DEF Calling
    <3> QED
      BY <3>1, <3>2, <3>3, <3>4 DEF Calling
  <2> QED
    BY <1>1, <2>1, <2>2 DEF Reconnects
<1> QED
  BY <1>2, <1>3, <1>4, <1>5, <1>6, <1>7

(* The request is acknowledged.                                            *)
LEMMA TakeRequestStep ==
  ASSUME IndInv, Takes("REQUEST"), OnRequest
  PROVE  IndInv'
<1> USE TimesHold DEF Takes, Listening, OnRequest, deviceVars, editorVars, timerVars, Off, IndInv
<1>1. /\ Head(toDevice) \in ToDevice /\ toDevice' \in Seq(ToDevice)
      /\ \A kinds : Has(toDevice, kinds) <=> "REQUEST" \in kinds \/ Has(toDevice', kinds)
      /\ Single(toDevice', Stores)
      /\ "REQUEST" \in Stores => ~Has(toDevice', Stores)
  BY Taken
<1>2. /\ toEditor' \in Seq(ToEditor)
      /\ \A kinds : Has(toEditor', kinds) <=> Has(toEditor, kinds)
                                                 \/ (programming /\ "ACK" \in kinds)
      /\ Single(toEditor', Dump)
      /\ \A x : Carries(toEditor, x) => Carries(toEditor', x)
  <2>1. CASE programming
    BY <2>1, Answered DEF Command, ToEditor, Dump
  <2>2. CASE ~programming
    BY <2>2 DEF Types, OneAnswer
  <2> QED
    BY <2>1, <2>2
<1>3. Types'
  BY <1>2 DEF Types, DeviceTypes, EditorTypes
<1>4. EditorInv'
  BY DEF EditorInv
<1>5. OneAnswer'
  BY <1>1, <1>2 DEF OneAnswer, Dump
<1>6. Alive'
  BY <1>1, <1>2 DEF Alive, InTime, Dump
<1>7. Shown'
  BY <1>1, <1>2 DEF Shown
<1>8. Reconnects'
  <2> SUFFICES ASSUME events = {}
               PROVE  Reconnects'
    BY DEF Reconnects
  <2>1. ASSUME reload' # Off
        PROVE  Reloading'
    BY <2>1 DEF Reconnects, Reloading
  <2>2. ASSUME reloaded', handshaking'
        PROVE  Calling'
    <3>1. Calling /\ ~linked
      BY <2>2 DEF Reconnects, EditorInv
    <3>2. CASE Entering
      BY <3>2 DEF Entering
    <3>3. CASE Greeting
      BY <1>2, <3>1, <3>3 DEF Calling, Greeting, Handshake
    <3>4. CASE connected /\ Has(toEditor, Dump)
      BY <1>2, <3>1, <3>4 DEF Calling
    <3> QED
      BY <3>1, <3>2, <3>3, <3>4 DEF Calling
  <2> QED
    BY <1>1, <2>1, <2>2 DEF Reconnects
<1> QED
  BY <1>3, <1>4, <1>5, <1>6, <1>7, <1>8

(* The first confirmation is answered with the settings; each restarts the *)
(* silence.                                                                *)
LEMMA TakeConfirmStep ==
  ASSUME IndInv, Takes("CONFIRM"), OnConfirm
  PROVE  IndInv'
<1> USE TimesHold DEF Takes, Listening, OnConfirm, deviceVars, editorVars, timerVars, Off, IndInv
<1>1. /\ Head(toDevice) \in ToDevice /\ toDevice' \in Seq(ToDevice)
      /\ \A kinds : Has(toDevice, kinds) <=> "CONFIRM" \in kinds \/ Has(toDevice', kinds)
      /\ Single(toDevice', Stores)
      /\ "CONFIRM" \in Stores => ~Has(toDevice', Stores)
  BY Taken
<1>2. /\ toEditor' \in Seq(ToEditor)
      /\ \A kinds : Has(toEditor', kinds) <=> Has(toEditor, kinds)
                                                 \/ (programming /\ ~connected /\ "DUMP" \in kinds)
      /\ Single(toEditor', Dump)
      /\ Carries(toEditor, memory) => Carries(toEditor', memory)
  <2>1. CASE programming /\ ~connected
    <3>1. ~Has(toEditor, Dump)
      BY <2>1 DEF Alive
    <3>2. WithMemory("DUMP", memory) \in ToEditor
      BY DEF WithMemory, ToEditor, Dump, Types, DeviceTypes
    <3>3. toEditor' = Append(toEditor, WithMemory("DUMP", memory))
      BY <2>1
    <3> QED
      BY <2>1, <3>1, <3>2, <3>3, Answered DEF WithMemory
  <2>2. CASE ~(programming /\ ~connected)
    BY <2>2 DEF Types, OneAnswer
  <2> QED
    BY <2>1, <2>2
<1>3. Types'
  <2>1. DeviceTypes'
    <3>1. CASE programming
      BY <3>1 DEF Types, DeviceTypes
    <3>2. CASE ~programming
      BY <3>2 DEF Types, DeviceTypes
    <3> QED
      BY <3>1, <3>2
  <2>2. EditorTypes'
    BY DEF Types, EditorTypes
  <2> QED
    BY <1>1, <1>2, <2>1, <2>2 DEF Types
<1>4. EditorInv'
  BY DEF EditorInv
<1>5. OneAnswer'
  BY <1>1, <1>2 DEF OneAnswer, EditorInv, Alive
<1>6. Alive'
  BY DEF Alive, InTime, Types, EditorTypes
<1>7. Shown'
  BY <1>1, <1>2 DEF Shown
<1>8. Reconnects'
  <2> SUFFICES ASSUME events = {}
               PROVE  Reconnects'
    BY DEF Reconnects
  <2>1. ASSUME reload' # Off
        PROVE  Reloading'
    BY <2>1 DEF Reconnects, Reloading
  <2>2. ASSUME reloaded', handshaking'
        PROVE  Calling'
    <3>1. Calling /\ ~linked
      BY <2>2 DEF Reconnects, EditorInv
    <3>2. CASE Entering
      BY <3>2 DEF Entering
    <3>3. CASE Greeting
      BY <1>2, <3>1, <3>3 DEF Calling, Greeting, Dump
    <3>4. CASE connected /\ Has(toEditor, Dump)
      BY <3>1, <3>4 DEF Calling
    <3> QED
      BY <3>1, <3>2, <3>3, <3>4 DEF Calling
  <2> QED
    BY <1>1, <1>2, <2>1, <2>2 DEF Reconnects
<1> QED
  BY <1>3, <1>4, <1>5, <1>6, <1>7, <1>8

(* Settings are stored and sent back.                                      *)
LEMMA TakeSaveStep ==
  ASSUME IndInv, Takes("SAVE"), OnStore(Head(toDevice).memory)
  PROVE  IndInv'
<1> USE TimesHold DEF Takes, Listening, OnStore, deviceVars, editorVars, timerVars, Off, IndInv
<1>1. /\ Head(toDevice) \in ToDevice /\ toDevice' \in Seq(ToDevice)
      /\ \A kinds : Has(toDevice, kinds) <=> "SAVE" \in kinds \/ Has(toDevice', kinds)
      /\ Single(toDevice', Stores)
      /\ "SAVE" \in Stores => ~Has(toDevice', Stores)
  BY Taken
<1>2. saving /\ linked /\ programming /\ connected /\ ~Has(toEditor, Dump)
  BY <1>1 DEF OneAnswer, Stores, EditorInv, Alive
<1>3. /\ memory' \in Memory
      /\ toEditor' \in Seq(ToEditor)
      /\ \A kinds : Has(toEditor', kinds) <=> Has(toEditor, kinds) \/ "DUMP" \in kinds
      /\ Single(toEditor', Dump)
      /\ Carries(toEditor', memory')
  <2> DEFINE m == Head(toDevice).memory
  <2>1. m \in Memory
    BY <1>1 DEF ToDevice
  <2> HIDE DEF m
  <2>2. toEditor' = Append(toEditor, WithMemory("DUMP", m)) /\ memory' = m
    BY <1>2 DEF m
  <2>3. WithMemory("DUMP", m) \in ToEditor
    BY <2>1 DEF WithMemory, ToEditor, Dump
  <2> QED
    BY <1>2, <2>1, <2>2, <2>3, Answered, NoDump DEF WithMemory
<1>4. Types'
  <2>1. DeviceTypes'
    BY <1>3 DEF Types, DeviceTypes
  <2>2. EditorTypes'
    BY DEF Types, EditorTypes
  <2> QED
    BY <1>1, <1>3, <2>1, <2>2 DEF Types
<1>5. EditorInv'
  BY DEF EditorInv
<1>6. OneAnswer'
  BY <1>1, <1>3 DEF OneAnswer, Stores
<1>7. Alive'
  BY <1>1, <1>2 DEF Alive, InTime
<1>8. Shown'
  BY <1>1, <1>3 DEF Shown, Dump
<1>9. Reconnects'
  <2> SUFFICES ASSUME events = {}
               PROVE  Reconnects'
    BY DEF Reconnects
  <2>1. ASSUME reload' # Off
        PROVE  Reloading'
    BY <2>1 DEF Reconnects, Reloading
  <2>2. ~handshaking'
    BY <1>2 DEF EditorInv
  <2> QED
    BY <1>1, <1>3, <2>1, <2>2 DEF Reconnects
<1> QED
  BY <1>4, <1>5, <1>6, <1>7, <1>8, <1>9

(* The same with the default settings.                                     *)
LEMMA TakeRestoreStep ==
  ASSUME IndInv, Takes("RESTORE"), OnStore(Factory)
  PROVE  IndInv'
<1> USE TimesHold DEF Takes, Listening, OnStore, deviceVars, editorVars, timerVars, Off, IndInv
<1>1. /\ Head(toDevice) \in ToDevice /\ toDevice' \in Seq(ToDevice)
      /\ \A kinds : Has(toDevice, kinds) <=> "RESTORE" \in kinds \/ Has(toDevice', kinds)
      /\ Single(toDevice', Stores)
      /\ "RESTORE" \in Stores => ~Has(toDevice', Stores)
  BY Taken
<1>2. saving /\ linked /\ programming /\ connected /\ ~Has(toEditor, Dump)
  BY <1>1 DEF OneAnswer, Stores, EditorInv, Alive
<1>3. /\ memory' \in Memory
      /\ toEditor' \in Seq(ToEditor)
      /\ \A kinds : Has(toEditor', kinds) <=> Has(toEditor, kinds) \/ "DUMP" \in kinds
      /\ Single(toEditor', Dump)
      /\ Carries(toEditor', memory')
  <2> DEFINE m == Factory
  <2>1. m \in Memory
    BY SettingsAssumption
  <2> HIDE DEF m
  <2>2. toEditor' = Append(toEditor, WithMemory("DUMP", m)) /\ memory' = m
    BY <1>2 DEF m
  <2>3. WithMemory("DUMP", m) \in ToEditor
    BY <2>1 DEF WithMemory, ToEditor, Dump
  <2> QED
    BY <1>2, <2>1, <2>2, <2>3, Answered, NoDump DEF WithMemory
<1>4. Types'
  <2>1. DeviceTypes'
    BY <1>3 DEF Types, DeviceTypes
  <2>2. EditorTypes'
    BY DEF Types, EditorTypes
  <2> QED
    BY <1>1, <1>3, <2>1, <2>2 DEF Types
<1>5. EditorInv'
  BY DEF EditorInv
<1>6. OneAnswer'
  BY <1>1, <1>3 DEF OneAnswer, Stores
<1>7. Alive'
  BY <1>1, <1>2 DEF Alive, InTime
<1>8. Shown'
  BY <1>1, <1>3 DEF Shown, Dump
<1>9. Reconnects'
  <2> SUFFICES ASSUME events = {}
               PROVE  Reconnects'
    BY DEF Reconnects
  <2>1. ASSUME reload' # Off
        PROVE  Reloading'
    BY <2>1 DEF Reconnects, Reloading
  <2>2. ~handshaking'
    BY <1>2 DEF EditorInv
  <2> QED
    BY <1>1, <1>3, <2>1, <2>2 DEF Reconnects
<1> QED
  BY <1>4, <1>5, <1>6, <1>7, <1>8, <1>9

(* A mode is set, which an undisturbed editor does not ask for.            *)
LEMMA TakeSetModeStep ==
  ASSUME IndInv, Takes("SET_MODE"), OnSetMode(Head(toDevice).memory.mode)
  PROVE  IndInv'
<1> USE TimesHold DEF Takes, Listening, OnSetMode, SwitchTo, Deeper, editorVars, timerVars, Off,
      IndInv
<1>1. /\ Head(toDevice) \in ToDevice /\ toDevice' \in Seq(ToDevice)
      /\ \A kinds : Has(toDevice, kinds) <=> "SET_MODE" \in kinds \/ Has(toDevice', kinds)
      /\ Single(toDevice', Stores)
      /\ "SET_MODE" \in Stores => ~Has(toDevice', Stores)
  BY Taken
<1>2. Types'
  <2>1. DeviceTypes'
    <3>1. memory' \in Memory /\ running' \in Modes
      BY <1>1 DEF Types, DeviceTypes, ToDevice, Memory
    <3>2. loc' = "blink" /\ blink' = BlinkTime
      OBVIOUS
    <3>3. frames' \in 1 .. MaxFrames
      BY DEF Types, DeviceTypes
    <3>4. UNCHANGED <<programming, connected, sinceResponse, sinceSent>>
      OBVIOUS
    <3> HIDE DEF OnSetMode, SwitchTo, Takes
    <3> QED
      BY <3>1, <3>2, <3>3, <3>4 DEF Types, DeviceTypes
  <2>2. EditorTypes'
    BY DEF Types, EditorTypes
  <2> QED
    BY <1>1, <2>1, <2>2 DEF Types
<1>3. EditorInv'
  BY DEF EditorInv
<1>4. OneAnswer'
  BY <1>1 DEF OneAnswer
<1>5. Alive'
  BY DEF Alive
<1>6. Shown'
  BY <1>1 DEF Shown
<1>7. Reconnects'
  BY <1>1 DEF Shown, Reconnects
<1> QED
  BY <1>2, <1>3, <1>4, <1>5, <1>6, <1>7

--------------------------------------------------------------------------------
(* The user sends settings or a mode.                                      *)

(* The settings, and the editor waits.                                     *)
LEMMA ClickSaveStep ==
  ASSUME IndInv, NEW m \in Memory, ClickSave(m)
  PROVE  IndInv'
<1> USE TimesHold DEF ClickSave, Sending, Send, MayClick, deviceVars, Off, IndInv
<1>1. /\ toDevice' \in Seq(ToDevice)
      /\ \A kinds : Has(toDevice', kinds) <=> Has(toDevice, kinds) \/ "SAVE" \in kinds
      /\ Single(toDevice', Stores)
  <2>1. /\ toDevice' = Append(toDevice, WithMemory("SAVE", m))
        /\ WithMemory("SAVE", m) \in ToDevice
        /\ WithMemory("SAVE", m).kind = "SAVE"
    BY DEF WithMemory, ToDevice
  <2>2. "SAVE" \in Stores => ~Has(toDevice, Stores)
    BY DEF OneAnswer
  <2> QED
    BY <2>1, <2>2, Commanded
<1>2. Types'
  BY <1>1 DEF Types, DeviceTypes, EditorTypes
<1>3. EditorInv'
  BY DEF EditorInv
<1>4. OneAnswer'
  BY <1>1 DEF OneAnswer
<1>5. Alive'
  BY <1>1 DEF Alive, InTime
<1>6. Shown'
  BY <1>1 DEF Shown
<1>7. Reconnects'
  BY <1>1 DEF Reconnects, Calling, Entering, Greeting, Alive
<1> QED
  BY <1>2, <1>3, <1>4, <1>5, <1>6, <1>7

(* A mode, and it does not wait.                                           *)
LEMMA RemoteSetModeStep ==
  ASSUME IndInv, NEW m \in Memory, RemoteSetMode(m)
  PROVE  IndInv'
<1> USE TimesHold DEF RemoteSetMode, Sending, Send, MayClick, deviceVars, Off, IndInv
<1>1. /\ toDevice' \in Seq(ToDevice)
      /\ \A kinds : Has(toDevice', kinds) <=> Has(toDevice, kinds) \/ "SET_MODE" \in kinds
      /\ Single(toDevice', Stores)
  <2>1. /\ toDevice' = Append(toDevice, WithMemory("SET_MODE", m))
        /\ WithMemory("SET_MODE", m) \in ToDevice
        /\ WithMemory("SET_MODE", m).kind = "SET_MODE"
    BY DEF WithMemory, ToDevice
  <2>2. "SET_MODE" \in Stores => ~Has(toDevice, Stores)
    BY DEF Stores
  <2> QED
    BY <2>1, <2>2, Commanded
<1>2. Types'
  BY <1>1 DEF Types, DeviceTypes, EditorTypes
<1>3. EditorInv'
  BY DEF EditorInv
<1>4. OneAnswer'
  BY <1>1 DEF OneAnswer, Stores
<1>5. Alive'
  BY <1>1 DEF Alive, InTime
<1>6. Shown'
  BY DEF Shown
<1>7. Reconnects'
  BY DEF Reconnects
<1> QED
  BY <1>2, <1>3, <1>4, <1>5, <1>6, <1>7

--------------------------------------------------------------------------------
(* The editor takes a message.                                             *)

Reads(kind) ==
  /\ toEditor # << >> /\ Head(toEditor).kind = kind
  /\ toEditor' = Tail(toEditor)
  /\ UNCHANGED <<events, deviceVars, open, reloaded, failed>>

(* What every message leaves of the queue.                                 *)
LEMMA Read ==
  ASSUME IndInv, NEW kind, Reads(kind)
  PROVE  /\ Head(toEditor) \in ToEditor /\ toEditor' \in Seq(ToEditor)
         /\ \A kinds : Has(toEditor, kinds) <=> kind \in kinds \/ Has(toEditor', kinds)
         /\ Single(toEditor', Dump)
         /\ kind \in Dump => ~Has(toEditor', Dump)
         /\ \A m : Carries(toEditor, m) =>
              Carries(toEditor', m) /\ (kind \in Dump => Head(toEditor).memory = m)
BY TailKeeps DEF Reads, IndInv, Types, OneAnswer

(* No port is open.                                                        *)
LEMMA ReadNobodyStep ==
  ASSUME IndInv, NEW kind, Reads(kind), ~open,
         UNCHANGED <<handshaking, linked, version, settings, timerVars, saving, toDevice>>
  PROVE  IndInv'
<1> USE TimesHold DEF Reads, deviceVars, timerVars, Off, IndInv
<1>1. /\ Head(toEditor) \in ToEditor /\ toEditor' \in Seq(ToEditor)
      /\ \A kinds : Has(toEditor, kinds) <=> kind \in kinds \/ Has(toEditor', kinds)
      /\ Single(toEditor', Dump)
      /\ kind \in Dump => ~Has(toEditor', Dump)
      /\ \A m : Carries(toEditor, m) =>
           Carries(toEditor', m) /\ (kind \in Dump => Head(toEditor).memory = m)
  BY Read
<1>2. Types'
  BY DEF Types, DeviceTypes, EditorTypes
<1>3. EditorInv'
  BY DEF EditorInv
<1>4. OneAnswer'
  BY <1>1 DEF OneAnswer
<1>5. Alive'
  BY <1>1 DEF Alive, EditorInv
<1>6. Shown'
  BY <1>1 DEF Shown, EditorInv
<1>7. Reconnects'
  <2> SUFFICES ASSUME events = {}
               PROVE  Reconnects'
    BY DEF Reconnects
  <2>1. ASSUME reload' # Off
        PROVE  Reloading'
    BY <2>1 DEF Reconnects, Reloading
  <2>2. ASSUME reloaded', handshaking'
        PROVE  Calling'
    <3>1. Calling /\ ~linked /\ open
      BY <2>2 DEF EditorInv
    <3>2. CASE Entering
      BY <3>1
    <3>3. CASE Greeting
      BY <3>1
    <3>4. CASE connected /\ Has(toEditor, Dump)
      BY <3>1
    <3> QED
      BY <3>1, <3>2, <3>3, <3>4 DEF Calling
  <2> QED
    BY <1>1, <2>1, <2>2 DEF Reconnects
<1> QED
  BY <1>2, <1>3, <1>4, <1>5, <1>6, <1>7

(* A beacon is answered unless the editor is connected.                    *)
LEMMA ReadBeaconStep ==
  ASSUME IndInv, Reads("BEACON"), open, OnBeacon
  PROVE  IndInv'
<1> USE TimesHold DEF Reads, deviceVars, OnBeacon, timerVars, Off, IndInv
<1>1. /\ Head(toEditor) \in ToEditor /\ toEditor' \in Seq(ToEditor)
      /\ \A kinds : Has(toEditor, kinds) <=> "BEACON" \in kinds \/ Has(toEditor', kinds)
      /\ Single(toEditor', Dump)
      /\ "BEACON" \in Dump => ~Has(toEditor', Dump)
      /\ \A m : Carries(toEditor, m) =>
           Carries(toEditor', m) /\ ("BEACON" \in Dump => Head(toEditor).memory = m)
  BY Read
<1>2. /\ toDevice' \in Seq(ToDevice)
      /\ \A kinds : Has(toDevice', kinds) <=> Has(toDevice, kinds)
                                                 \/ (~linked /\ "REQUEST" \in kinds)
      /\ Single(toDevice', Stores)
      /\ toDevice # << >> => toDevice' # << >> /\ Head(toDevice') = Head(toDevice)
  <2>1. CASE ~linked
    BY <2>1, Commanded DEF Command, ToDevice, Stores
  <2>2. CASE linked
    BY <2>2 DEF Types, OneAnswer
  <2> QED
    BY <2>1, <2>2
<1>3. Types'
  <2>1. DeviceTypes'
    BY DEF Types, DeviceTypes
  <2>2. EditorTypes'
    BY DEF Types, EditorTypes
  <2> QED
    BY <1>1, <1>2, <2>1, <2>2 DEF Types
<1>4. EditorInv'
  BY DEF EditorInv
<1>5. OneAnswer'
  BY <1>1, <1>2 DEF OneAnswer, Stores
<1>6. Alive'
  BY <1>1 DEF Alive, InTime
<1>7. Shown'
  BY <1>1, <1>2 DEF Shown, Dump
<1>8. Reconnects'
  <2> SUFFICES ASSUME events = {}
               PROVE  Reconnects'
    BY DEF Reconnects
  <2>1. ASSUME reload' # Off
        PROVE  Reloading'
    BY <2>1 DEF Reconnects, Reloading, EditorInv
  <2>2. ASSUME reloaded', handshaking'
        PROVE  Calling'
    <3>1. Calling /\ ~linked /\ open
      BY <2>2 DEF Reconnects, EditorInv
    <3>2. CASE Entering
      BY <1>2, <3>1, <3>2 DEF Calling, Entering, Busy
    <3>3. CASE Greeting
      BY <1>2, <3>1, <3>3 DEF Calling, Greeting, Handshake
    <3>4. CASE connected /\ Has(toEditor, Dump)
      BY <1>1, <3>1, <3>4 DEF Calling, Dump
    <3> QED
      BY <3>1, <3>2, <3>3, <3>4 DEF Calling
  <2> QED
    BY <1>1, <1>2, <2>1, <2>2 DEF Reconnects
<1> QED
  BY <1>3, <1>4, <1>5, <1>6, <1>7, <1>8

(* So is an acknowledgement, once a beacon has told the version.           *)
LEMMA ReadAckStep ==
  ASSUME IndInv, Reads("ACK"), open, OnAck
  PROVE  IndInv'
<1> USE TimesHold DEF Reads, deviceVars, OnAck, timerVars, Off, IndInv
<1>1. /\ Head(toEditor) \in ToEditor /\ toEditor' \in Seq(ToEditor)
      /\ \A kinds : Has(toEditor, kinds) <=> "ACK" \in kinds \/ Has(toEditor', kinds)
      /\ Single(toEditor', Dump)
      /\ "ACK" \in Dump => ~Has(toEditor', Dump)
      /\ \A m : Carries(toEditor, m) =>
           Carries(toEditor', m) /\ ("ACK" \in Dump => Head(toEditor).memory = m)
  BY Read
<1>2. /\ toDevice' \in Seq(ToDevice)
      /\ \A kinds : Has(toDevice', kinds) <=> Has(toDevice, kinds)
                                                 \/ (~linked /\ version /\ "CONFIRM" \in kinds)
      /\ Single(toDevice', Stores)
      /\ toDevice # << >> => toDevice' # << >> /\ Head(toDevice') = Head(toDevice)
  <2>1. CASE ~linked /\ version
    BY <2>1, Commanded DEF Command, ToDevice, Stores
  <2>2. CASE ~(~linked /\ version)
    BY <2>2 DEF Types, OneAnswer
  <2> QED
    BY <2>1, <2>2
<1>3. Types'
  BY <1>2 DEF Types, DeviceTypes, EditorTypes
<1>4. EditorInv'
  BY DEF EditorInv
<1>5. OneAnswer'
  BY <1>1, <1>2 DEF OneAnswer, Stores
<1>6. Alive'
  BY <1>1 DEF Alive, InTime
<1>7. Shown'
  BY <1>1, <1>2 DEF Shown, Dump
<1>8. Reconnects'
  <2> SUFFICES ASSUME events = {}
               PROVE  Reconnects'
    BY DEF Reconnects
  <2>1. ASSUME reload' # Off
        PROVE  Reloading'
    BY <2>1 DEF Reconnects, Reloading, EditorInv
  <2>2. ASSUME reloaded', handshaking'
        PROVE  Calling'
    <3>1. Calling /\ ~linked /\ open
      BY <2>2 DEF Reconnects, EditorInv
    <3>2. CASE Entering
      BY <1>2, <3>1, <3>2 DEF Calling, Entering, Busy
    <3>3. CASE Greeting
      BY <1>1, <1>2, <3>1, <3>3 DEF Calling, Greeting, Handshake, Reconnects
    <3>4. CASE connected /\ Has(toEditor, Dump)
      BY <1>1, <3>1, <3>4 DEF Calling, Dump
    <3> QED
      BY <3>1, <3>2, <3>3, <3>4 DEF Calling
  <2> QED
    BY <1>1, <1>2, <2>1, <2>2 DEF Reconnects
<1> QED
  BY <1>3, <1>4, <1>5, <1>6, <1>7, <1>8

(* The settings come, and the editor is connected.                         *)
LEMMA ReadDumpStep ==
  ASSUME IndInv, Reads("DUMP"), open, OnDump(Head(toEditor).memory)
  PROVE  IndInv'
<1> USE TimesHold DEF Reads, deviceVars, OnDump, Off, IndInv
<1>1. /\ Head(toEditor) \in ToEditor /\ toEditor' \in Seq(ToEditor)
      /\ \A kinds : Has(toEditor, kinds) <=> "DUMP" \in kinds \/ Has(toEditor', kinds)
      /\ Single(toEditor', Dump)
      /\ "DUMP" \in Dump => ~Has(toEditor', Dump)
      /\ \A m : Carries(toEditor, m) =>
           Carries(toEditor', m) /\ ("DUMP" \in Dump => Head(toEditor).memory = m)
  BY Read
<1>2. Types'
  <2>1. DeviceTypes'
    BY DEF Types, DeviceTypes
  <2>2. EditorTypes'
    <3>1. settings' \in Memory
      BY <1>1 DEF ToEditor
    <3> QED
      BY <3>1, TimersHold DEF Types, EditorTypes
  <2> QED
    BY <1>1, <2>1, <2>2 DEF Types
<1>3. EditorInv'
  BY DEF EditorInv
<1>4. OneAnswer'
  BY <1>1 DEF OneAnswer, Dump
<1>5. Alive'
  BY <1>1 DEF Alive, InTime, Dump
<1>6. Shown'
  BY <1>1 DEF Shown, Dump
<1>7. Reconnects'
  <2> SUFFICES ASSUME events = {}
               PROVE  Reconnects'
    BY DEF Reconnects
  <2>1. ASSUME reload' # Off
        PROVE  Reloading'
    BY <2>1 DEF Reconnects, Reloading, EditorInv
  <2>2. ~handshaking'
    OBVIOUS
  <2> QED
    BY <1>1, <2>1, <2>2 DEF Reconnects
<1> QED
  BY <1>2, <1>3, <1>4, <1>5, <1>6, <1>7

--------------------------------------------------------------------------------
(* The invariant holds.                                                    *)

(* Nothing is under way at first.                                          *)
LEMMA Initially == Init => IndInv
<1> SUFFICES ASSUME Init
             PROVE  IndInv
  OBVIOUS
<1> USE TimesHold DEF Init
<1>1. Types
  <2>1. memory \in Memory /\ running \in Modes /\ events \in EventSets
    BY SettingsAssumption DEF Memory
  <2>2. DeviceTypes
    <3>1. sinceResponse \in 0 .. WaitTime /\ sinceSent \in 0 .. CallTime
      OBVIOUS
    <3>2. blink \in 0 .. BlinkTime /\ frames \in 1 .. MaxFrames
      OBVIOUS
    <3>3. /\ loc \in {"mode", "programmer", "leaving", "blink"}
          /\ programming \in BOOLEAN /\ connected \in BOOLEAN
      OBVIOUS
    <3> QED
      BY <2>1, <3>1, <3>2, <3>3 DEF DeviceTypes
  <2>3. EditorTypes
    BY TimersHold DEF EditorTypes
  <2> QED
    BY <2>1, <2>2, <2>3, EmptyQueue DEF Types
<1>2. EditorInv /\ OneAnswer /\ Alive
  BY EmptyQueue DEF EditorInv, OneAnswer, Alive
<1>3. Shown /\ Reconnects
  BY EmptyQueue DEF Shown, Reconnects
<1> QED
  BY <1>1, <1>2, <1>3 DEF IndInv

(* Every command.                                                          *)
LEMMA TakeStep ==
  ASSUME IndInv, DeviceReceives
  PROVE  IndInv'
<1> DEFINE c == Head(toDevice)
<1>1. Takes(c.kind)
  BY DEF DeviceReceives, Takes
<1>2. CASE c.kind = "ENTER" /\ OnEnter
  BY <1>1, <1>2, TakeEnterStep
<1>3. CASE c.kind = "REQUEST" /\ OnRequest
  BY <1>1, <1>3, TakeRequestStep
<1>4. CASE c.kind = "CONFIRM" /\ OnConfirm
  BY <1>1, <1>4, TakeConfirmStep
<1>5. CASE c.kind = "SAVE" /\ OnStore(c.memory)
  BY <1>1, <1>5, TakeSaveStep
<1>6. CASE c.kind = "RESTORE" /\ OnStore(Factory)
  BY <1>1, <1>6, TakeRestoreStep
<1>7. CASE c.kind = "SET_MODE" /\ OnSetMode(c.memory.mode)
  BY <1>1, <1>7, TakeSetModeStep
<1> QED
  BY <1>2, <1>3, <1>4, <1>5, <1>6, <1>7 DEF DeviceReceives

(* Every message.                                                          *)
LEMMA ReadStep ==
  ASSUME IndInv, EditorReceives
  PROVE  IndInv'
<1> DEFINE c == Head(toEditor)
<1>1. Reads(c.kind)
  BY DEF EditorReceives, Reads
<1>2. CASE /\ ~open
           /\ UNCHANGED <<handshaking, linked, version, settings, timerVars, saving, toDevice>>
  BY <1>1, <1>2, ReadNobodyStep
<1>3. CASE open /\ c.kind = "BEACON" /\ OnBeacon
  BY <1>1, <1>3, ReadBeaconStep
<1>4. CASE open /\ c.kind = "ACK" /\ OnAck
  BY <1>1, <1>4, ReadAckStep
<1>5. CASE open /\ c.kind = "DUMP" /\ OnDump(c.memory)
  BY <1>1, <1>5, ReadDumpStep
<1> QED
  BY <1>2, <1>3, <1>4, <1>5 DEF EditorReceives

(* A stutter changes nothing the invariant is about.                       *)
LEMMA StutterStep ==
  ASSUME IndInv, UNCHANGED vars
  PROVE  IndInv'
<1> USE DEF vars, deviceVars, editorVars, timerVars
<1>1. Types' /\ EditorInv' /\ OneAnswer'
  BY DEF IndInv, Types, DeviceTypes, EditorTypes, EditorInv, OneAnswer
<1>2. Alive' /\ Shown'
  BY DEF IndInv, Alive, InTime, Shown
<1>3. Reconnects'
  BY DEF IndInv, Reconnects, Reloading, Calling, Entering, Greeting, Handshake, Busy
<1> QED
  BY <1>1, <1>2, <1>3 DEF IndInv

(* Every step keeps the invariant.                                         *)
LEMMA NextKeeps == IndInv /\ [Next]_vars => IndInv'
<1> SUFFICES ASSUME IndInv, [Next]_vars
             PROVE  IndInv'
  OBVIOUS
<1>1. CASE Device
  BY <1>1, SendBeaconStep, DropSessionStep, LeaveProgrammerStep, EnterModeStep,
     TakeStep DEF Device
<1>2. CASE Editor
  BY <1>2, FinishReloadStep, SendKeepaliveStep, GiveUpStep, ReadStep DEF Editor
<1>3. CASE User
  BY <1>3, ClickConnectStep, ClickDisconnectStep, ClickReloadStep, ClickSaveStep,
     RemoteSetModeStep,
     ClickRestoreStep, PortsChangeStep, PressModeButtonStep DEF User
<1>4. CASE Tick
  BY <1>4, TickStep
<1>5. CASE UNCHANGED vars
  BY <1>5, StutterStep
<1> QED
  BY <1>1, <1>2, <1>3, <1>4, <1>5 DEF Next

(* The invariant holds in every state of every behaviour.                  *)
THEOREM IndInvHolds == Spec => []IndInv
<1> QED
  BY Initially, NextKeeps, PTL DEF Spec

--------------------------------------------------------------------------------
(* What follows.                                                           *)

(* The variables keep their types, and the queues hold only the commands   *)
(* and the answers of the protocol.                                        *)
THEOREM TypeCorrect == Spec => []TypeOK
<1>1. IndInv => TypeOK
  <2> SUFFICES ASSUME IndInv
               PROVE  TypeOK
    OBVIOUS
  <2>1. \A i \in DOMAIN toDevice : toDevice[i].kind \in Commands
    <3>1. \A c \in ToDevice : c.kind \in Commands
      BY DEF ToDevice, Commands
    <3> QED
      BY <3>1 DEF IndInv, Types
  <2>2. \A i \in DOMAIN toEditor : toEditor[i].kind \in Replies
    <3>1. \A c \in ToEditor : c.kind \in Replies
      BY DEF ToEditor, Dump, Replies
    <3> QED
      BY <3>1 DEF IndInv, Types
  <2> QED
    BY <2>1, <2>2 DEF IndInv, Types, DeviceTypes, EditorTypes, TypeOK
<1> QED
  BY <1>1, IndInvHolds, PTL

(* While the editor believes it is connected the device does, whatever     *)
(* happens besides.                                                        *)
THEOREM SessionLives == Spec => []SessionKeptAlive
<1>1. IndInv => SessionKeptAlive
  BY DEF IndInv, Alive, SessionKeptAlive
<1> QED
  BY <1>1, IndInvHolds, PTL

(* With nothing under way the editor shows the settings of the device.     *)
THEOREM SettingsAreReal == Spec => []ShownSettingsAreReal
<1>1. IndInv => ShownSettingsAreReal
  BY EmptyQueue DEF IndInv, Shown, ShownSettingsAreReal
<1> QED
  BY <1>1, IndInvHolds, PTL

(* A reload is not given up, unless something but the editor acts on the   *)
(* device.                                                                 *)
THEOREM ReloadEnds == Spec => []UndisturbedReloadReconnects
<1>1. IndInv => UndisturbedReloadReconnects
  BY DEF IndInv, Reconnects, UndisturbedReloadReconnects, ReloadReconnects
<1> QED
  BY <1>1, IndInvHolds, PTL

================================================================================
