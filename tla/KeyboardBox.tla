---------------------------- MODULE KeyboardBox ----------------------------
(***************************************************************************)
(* The two-board input box of firmware-kbd: the right board reads a real   *)
(* keyboard or mouse and forwards its raw reports over a serial wire, the  *)
(* left board merges them with what the PC injects and shows the result to *)
(* the controlled machine as one USB device.                               *)
(*                                                                         *)
(* A frame is one element of the wire; what the wire does to its bytes is  *)
(* the fate of the frame on arrival (one with a bad checksum is as good as *)
(* lost).  Modifier bits merge like mouse buttons and the wheel like the   *)
(* displacement, so both are left out, and a displacement is one integer.  *)
(* The device may be unplugged but not exchanged for one of the other      *)
(* kind, whose reports the left board would read with the wrong layout.    *)
(***************************************************************************)
EXTENDS Integers, SequencesExt

CONSTANTS Keys, NoKey,   \* key codes; 0, the empty slot
          Slots,         \* key slots of a report (6)
          Buttons,       \* mouse buttons
          Pressed,       \* those of Keys and Buttons that are pressed on a device
          Devices,       \* kinds of device that may be plugged in
          Commands,      \* what the PC may send, see Binary and Ascii
          Moves,         \* displacements of the real mouse in one report
          Sat,           \* largest displacement of a USB report (127)
          DeltaWord,     \* 2^16
          Word,          \* 2^32, the clock
          HostResidue,   \* a cut frame of the right board lives this long (20 ms)
          PcResidue,     \* a cut frame of the PC (100 ms)
          MaskMax,       \* the longest mask (2000 ms)
          IdWait, Beat,  \* wait for the identity (2000 ms), its period (1000 ms)
          Fates,         \* what may happen to a frame of the right board
          PcFates,       \* and to one of the PC
          WireCap,       \* bound: frames on the wire
          MaxStall,      \* bound: the loop comes round at least this often
          MaxEvents,     \* bound: reports of the device
          MaxCommands    \* bound: commands of the PC

ASSUME TimesAssumption ==
    /\ {Slots, Sat, DeltaWord, Word, MaskMax, IdWait, Beat} \subseteq Nat \ {0}
    /\ {HostResidue, PcResidue, WireCap, MaxEvents, MaxCommands} \subseteq Nat
    /\ MaskMax < Word \div 2 /\ MaxStall \in 1..(Word \div 2 - 1)
    /\ Beat < IdWait
ASSUME FatesAssumption ==
    /\ Fates \subseteq {"whole", "lost", "cut", "last"}
    /\ PcFates \subseteq {"whole", "cut"}
ASSUME DevicesAssumption ==
    /\ Devices \subseteq {"keyboard", "mouse"} /\ NoKey \notin Keys
    /\ Pressed \subseteq Keys \cup Buttons /\ Moves \subseteq Int

KeyReports == [1..Slots -> Keys \cup {NoKey}]

(* What a command carries: six key codes, a mask of buttons, a 16-bit time. *)
WellFormed(c) ==
    /\ c.op \in {"move", "cancel", "buttons", "click", "keys", "tap", "ghost", "panic",
                 "reboot", "mask", "maskoff"}
    /\ c.op = "move" => c.d \in Int
    /\ c.op \in {"buttons", "click"} => c.buttons \subseteq Buttons
    /\ c.op \in {"click", "tap"} => c.ms \in 0..(Word \div 2 - 1)
    /\ c.op = "keys" => c.keys \in KeyReports
    /\ c.op = "tap" => c.key \in Keys \cup {NoKey}
    /\ c.op = "ghost" => c.on \in BOOLEAN
    /\ c.op = "mask" => c.ms \in Int

ASSUME CommandsAssumption == \A c \in Commands : WellFormed(c)

VARIABLES
    phase, waited, role,              \* waitForIdentity, g_deviceRole
    realKeys, injKeys,                \* s_realKbd, s_injKbd
    tapKeys, tapUntil,                \* s_tapState, s_tapUntil
    realMouse, injMouse,              \* s_realMouse, s_injMouse
    clickBits, clickAt,               \* g_clickBits, g_clickReleaseAt
    ghost, maskUntil,                 \* s_ghost, s_maskUntilMs
    now, emitted, stalled,            \* millis(); emitted in this millisecond
    hostResidue, pcResidue, line,     \* the parsers: a cut frame, a cut line
    rebootReq,
    ready, seen,                      \* the USB endpoint; what its host was told
    device, attached, held, beat,     \* the right board and the device on it
    wire, events, commands,
    missed, maskLeft, tapLeft, press, overrun, wanted, owed, clean, early  \* history

boot    == <<phase, waited, role>>
kbd     == <<realKeys, injKeys, tapKeys, tapUntil>>
mouse   == <<realMouse, injMouse, clickBits, clickAt>>
masks   == <<ghost, maskUntil>>
clock   == <<now, emitted, stalled>>
parsers == <<hostResidue, pcResidue, line>>
usb     == <<ready, seen>>
right   == <<device, attached, held, beat, events>>
timing  == <<maskLeft, tapLeft, press, overrun, wanted>>
history == <<missed, timing, owed, clean, early>>
vars == <<boot, kbd, mouse, masks, clock, parsers, rebootReq, usb, right, wire,
          commands, history>>

-----------------------------------------------------------------------------
(* Reports.                                                                *)

(* History: the displacement asked for and not yet shown, while clean.     *)
Owes(n) == owed' = IF clean' THEN n ELSE 0

NoLine  == [op |-> "none"]
Junk    == [op |-> "junk"]           \* bytes that are no command's beginning
NoKeys  == [j \in 1..Slots |-> NoKey]
AtRest  == [buttons |-> {}, d |-> 0]
Down(k) == Range(k) \ {NoKey}

(* One step of mergeFrom: a key already there or without a slot is dropped.*)
Insert(keys, k) ==
    LET free == {j \in 1..Slots : keys[j] = NoKey}
    IN  IF k = NoKey \/ k \in Range(keys) \/ free = {} THEN keys
        ELSE [keys EXCEPT ![Min(free)] = k]

Merge(a, b) == FoldLeft(Insert, a, b)

Wrap(d)     == ((d + (DeltaWord \div 2)) % DeltaWord) - (DeltaWord \div 2)
Saturate(d) == IF d > Sat THEN Sat ELSE IF d < -Sat THEN -Sat ELSE d

(* (int32_t)(now - until) >= 0                                             *)
Reached(until) == (now - until) % Word < Word \div 2

Report(k, m) == [type |-> "report", keys |-> k, buttons |-> m.buttons, d |-> m.d]
Identity     == [type |-> "id", role |-> device]
Diagnosis    == [type |-> "diag"]

(* The keys held, in the order pressed, in the slots of a report.          *)
Packed(s) == [j \in 1..Slots |-> IF j <= Len(s) THEN s[j] ELSE NoKey]
DeviceReport(h, d) == IF device = "keyboard" THEN Report(Packed(h), AtRest)
                      ELSE Report(NoKeys, [buttons |-> Range(h), d |-> d])

-----------------------------------------------------------------------------
Off ==                                     \* the left board's RAM after a reset
    /\ phase = "identity" /\ waited = 0 /\ role = "unknown"
    /\ realKeys = NoKeys /\ injKeys = NoKeys /\ tapKeys = NoKeys /\ tapUntil = 0
    /\ realMouse = AtRest /\ injMouse = AtRest /\ clickBits = {} /\ clickAt = 0
    /\ ghost = FALSE /\ maskUntil = 0
    /\ now = 0 /\ emitted = FALSE /\ stalled = 0
    /\ hostResidue = 0 /\ pcResidue = 0 /\ line = NoLine
    /\ rebootReq = FALSE
    /\ ready = TRUE /\ seen = {}
    /\ maskLeft = 0 /\ tapLeft = 0 /\ press = [b \in Buttons |-> 0]
    /\ overrun = FALSE /\ wanted = {}
    /\ owed = 0 /\ clean = TRUE

Init ==
    /\ Off
    /\ device \in Devices /\ attached \in BOOLEAN /\ held = <<>> /\ beat \in 0..Beat
    /\ wire = <<>> /\ events = 0 /\ commands = 0
    /\ missed = "none" /\ early = attached

-----------------------------------------------------------------------------
(* The right board.                                                        *)

Send(frames) == wire' = wire \o frames
Room(n)      == Len(wire) + n <= WireCap

left == <<boot, kbd, mouse, masks, clock, parsers, rebootReq, usb, commands, history>>

(* A press, a release or a movement: the raw report goes out as it is.     *)
DeviceEvent ==
    /\ attached /\ Room(1) /\ events < MaxEvents
    /\ \/ \E k \in (Pressed \cap IF device = "keyboard" THEN Keys ELSE Buttons) \ Range(held) :
            /\ Len(held) < Slots
            /\ held' = Append(held, k)
       \/ \E j \in DOMAIN held : held' = RemoveAt(held, j)
       \/ held' = held /\ device = "mouse"
    /\ \E d \in IF device = "mouse" THEN Moves ELSE {0} : Send(<<DeviceReport(held', d)>>)
    /\ events' = events + 1
    /\ UNCHANGED <<device, attached, beat, left>>

Attach ==
    /\ ~attached /\ Room(1) /\ events < MaxEvents
    /\ attached' = TRUE /\ Send(<<Identity>>)
    /\ events' = events + 1
    /\ UNCHANGED <<device, held, beat, left>>

(* The device is unplugged: a report with everything released, made here.  *)
Detach ==
    /\ attached /\ Room(1) /\ events < MaxEvents
    /\ attached' = FALSE /\ held' = <<>>
    /\ Send(<<DeviceReport(<<>>, 0)>>)
    /\ events' = events + 1 /\ early' = FALSE
    /\ UNCHANGED <<device, beat, boot, kbd, mouse, masks, clock, parsers, rebootReq, usb,
                   commands, missed, timing, owed, clean>>

(* Mutant: only the attach tells the identity.                             *)
HeartbeatWithoutIdentity ==
    /\ phase = "identity" /\ beat = Beat /\ Room(2)
    /\ beat' = 0
    /\ Send(<<Diagnosis>>)
    /\ UNCHANGED <<device, attached, held, events, left>>

(* Every second: the diagnosis, and the identity of an attached device.    *)
(* (Left out once the left board runs, which then does not read either.)   *)
Heartbeat ==
    /\ phase = "identity" /\ beat = Beat /\ Room(2)
    /\ beat' = 0
    /\ Send(IF attached THEN <<Diagnosis, Identity>> ELSE <<Diagnosis>>)
    /\ UNCHANGED <<device, attached, held, events, left>>

-----------------------------------------------------------------------------
(* The left board's serial inputs.                                         *)

(* The last payload byte is outside kbdUnpackFrameEx's checksum: the sixth *)
(* key of a report, the role of an identity.                               *)
LastByte(f) ==
    IF f.type = "id" THEN {[f EXCEPT !.role = "other"]}
    ELSE IF f.type = "report" /\ device = "keyboard"
         THEN {[f EXCEPT !.keys[Slots] = k] : k \in (Keys \cup {NoKey}) \ {f.keys[Slots]}}
         ELSE {f}

(* What a parser that is between frames makes of an arriving frame; with a *)
(* cut frame before it, the frame is taken for the rest of that one.       *)
Readings(f, fate) ==
    IF hostResidue > 0 THEN {}
    ELSE CASE fate = "whole" -> {f} [] fate = "last" -> LastByte(f) [] OTHER -> {}

Residues(fate) ==
    IF fate = "lost" THEN {hostResidue}
    ELSE IF hostResidue > 0 THEN {0, HostResidue + 1}
    ELSE IF fate = "cut" THEN {HostResidue + 1} ELSE {0}

Arrival(fate) ==
    /\ wire # <<>> /\ wire' = Tail(wire)
    /\ hostResidue' \in Residues(fate)

(* History: a lost report leaves an old one in force, unless there is none.*)
Missing == missed' = IF Head(wire).type # "report" THEN missed
                     ELSE IF ghost \/ phase = "identity" THEN "some" ELSE "stale"

running == <<kbd, mouse, masks, clock, pcResidue, line, rebootReq, usb, device, attached,
             held, events, commands, timing, owed, clean>>

TellsRole(f) == f.type = "id" /\ f.role # "unknown"

(* waitForIdentity takes the role from the first identity, and nothing else. *)
(* Its own parser has no limit on the age of a cut frame.                  *)
Begin(r) ==
    /\ role' = r /\ phase' = "running"
    /\ hostResidue' = 0 /\ waited' = 0 /\ beat' = 0 /\ early' = FALSE

WaitFrame ==
    /\ phase = "identity" /\ wire # <<>> /\ wire' = Tail(wire)
    /\ \E fate \in Fates :
        \/ \E f \in {g \in Readings(Head(wire), fate) : TellsRole(g)} :
              Begin(f.role)
        \/ /\ \A f \in Readings(Head(wire), fate) : ~TellsRole(f)
           /\ hostResidue' \in Residues(fate)
           /\ early' = (early /\ fate = "whole")
           /\ UNCHANGED <<boot, beat>>
    /\ Missing
    /\ UNCHANGED running

(* After IdWait without one: a keyboard.                                   *)
WaitOver ==
    /\ phase = "identity" /\ waited = IdWait /\ wire = <<>>
    /\ Begin("keyboard")
    /\ UNCHANGED <<wire, missed, running>>

(* makcuLinkFeedHost, once a frame has passed its check.                   *)
TakeReport(f) ==
    \/ /\ f.type # "report"
       /\ UNCHANGED <<realKeys, realMouse, missed, owed, clean>>
    \/ /\ f.type = "report" /\ (ghost \/ role = "other")
       /\ missed' = "some"
       /\ UNCHANGED <<realKeys, realMouse, owed, clean>>
    \/ /\ f.type = "report" /\ ~ghost /\ role = "keyboard"
       /\ realKeys' = IF device = "keyboard" THEN f.keys ELSE realKeys
       /\ missed' = "none"
       /\ UNCHANGED <<realMouse, owed, clean>>
    \/ /\ f.type = "report" /\ ~ghost /\ role = "mouse"
       /\ realMouse' = [buttons |-> f.buttons, d |-> Wrap(realMouse.d + f.d)]
       /\ missed' = "none"
       /\ clean' = (clean /\ realMouse.d + f.d = realMouse'.d)
       /\ Owes(owed + f.d)
       /\ UNCHANGED realKeys

HostFrame ==
    /\ phase = "running"
    /\ \E fate \in Fates :
        /\ Arrival(fate)
        /\ \/ \E f \in Readings(Head(wire), fate) : TakeReport(f)
           \/ /\ Readings(Head(wire), fate) = {}
              /\ Missing
              /\ UNCHANGED <<realKeys, realMouse, owed, clean>>
    /\ UNCHANGED <<boot, injKeys, tapKeys, tapUntil, injMouse, clickBits, clickAt, masks,
                   clock, pcResidue, line, rebootReq, usb, right, commands, timing, early>>

-----------------------------------------------------------------------------
(* Commands of the PC.  Binary frames carry a checksum that covers them.   *)

Ascii  == {"mask", "maskoff"}
Nothing == UNCHANGED <<kbd, mouse, masks, rebootReq, missed, timing, owed, clean>>

DoMove(c) ==
    /\ injMouse' = [injMouse EXCEPT !.d = Wrap(@ + c.d)]
    /\ clean' = (clean /\ injMouse.d + c.d = injMouse'.d)
    /\ Owes(owed + c.d)
    /\ UNCHANGED <<kbd, realMouse, clickBits, clickAt, masks, rebootReq, missed, timing>>

DoCancel(c) ==
    /\ injMouse' = [injMouse EXCEPT !.d = 0]
    /\ UNCHANGED clean /\ Owes(owed - injMouse.d)
    /\ UNCHANGED <<kbd, realMouse, clickBits, clickAt, masks, rebootReq, missed, timing>>

DoButtons(c) ==
    /\ injMouse' = [injMouse EXCEPT !.buttons = c.buttons]
    /\ wanted' = c.buttons /\ press' = [b \in Buttons |-> 0]
    /\ UNCHANGED <<kbd, realMouse, clickBits, clickAt, masks, rebootReq, missed, owed, clean,
                   maskLeft, tapLeft, overrun>>

(* One click is remembered: a second one replaces what the first would release. *)
DoClick(c) ==
    /\ injMouse' = [injMouse EXCEPT !.buttons = @ \cup c.buttons]
    /\ clickBits' = c.buttons /\ clickAt' = (now + c.ms) % Word
    /\ press' = [b \in Buttons |-> IF b \in c.buttons THEN c.ms ELSE press[b]]
    /\ overrun' = (overrun \/ ~(clickBits \subseteq c.buttons))
    /\ UNCHANGED <<kbd, realMouse, masks, rebootReq, missed, owed, clean, maskLeft, tapLeft,
                   wanted>>

DoKeys(c) ==
    /\ injKeys' = c.keys
    /\ UNCHANGED <<realKeys, tapKeys, tapUntil, mouse, masks, rebootReq, missed, timing, owed,
                   clean>>

DoTap(c) ==
    /\ tapKeys' = [NoKeys EXCEPT ![1] = c.key]
    /\ tapUntil' = (now + c.ms) % Word
    /\ tapLeft' = c.ms
    /\ UNCHANGED <<realKeys, injKeys, mouse, masks, rebootReq, missed, maskLeft, press, overrun,
                   wanted, owed, clean>>

(* Mutant: what was held when a ghost began comes back after it.           *)
GhostKeepsReal(c) ==
    /\ ghost' = c.on
    /\ missed' = IF c.on THEN "some" ELSE missed
    /\ UNCHANGED <<kbd, mouse, maskUntil, rebootReq, timing, owed, clean>>

DoGhost(c) ==
    /\ ghost' = c.on
    /\ realKeys' = IF c.on THEN NoKeys ELSE realKeys
    /\ realMouse' = IF c.on THEN AtRest ELSE realMouse
    /\ UNCHANGED clean /\ Owes(IF c.on THEN owed - realMouse.d ELSE owed)
    /\ missed' = IF c.on THEN "some" ELSE missed
    /\ UNCHANGED <<injKeys, tapKeys, tapUntil, injMouse, clickBits, clickAt, maskUntil,
                   rebootReq, timing>>

DoPanic(c) ==
    /\ injKeys' = NoKeys /\ injMouse' = AtRest
    /\ tapKeys' = NoKeys /\ tapUntil' = 0
    /\ tapLeft' = 0 /\ press' = [b \in Buttons |-> 0] /\ wanted' = {}
    /\ UNCHANGED clean /\ Owes(owed - injMouse.d)
    /\ UNCHANGED <<realKeys, realMouse, clickBits, clickAt, masks, rebootReq, missed, maskLeft,
                   overrun>>

DoReboot(c) ==
    /\ rebootReq' = TRUE
    /\ UNCHANGED <<kbd, mouse, masks, missed, timing, owed, clean>>

(* handleCommand                                                           *)
Handle(c) ==
    \/ c.op = "move"    /\ DoMove(c)
    \/ c.op = "cancel"  /\ DoCancel(c)
    \/ c.op = "buttons" /\ DoButtons(c)
    \/ c.op = "click"   /\ DoClick(c)
    \/ c.op = "keys"    /\ DoKeys(c)
    \/ c.op = "tap"     /\ DoTap(c)
    \/ c.op = "ghost"   /\ DoGhost(c)
    \/ c.op = "panic"   /\ DoPanic(c)
    \/ c.op = "reboot"  /\ DoReboot(c)

(* Mutant: the deadline does not wrap with the clock.                      *)
MaskDeadlineWide(ms) == now + ms

(* makcuSetMask: 0 means no mask, so a deadline of 0 becomes 1.            *)
MaskDeadline(ms) == LET t == (now + ms) % Word IN IF t = 0 THEN 1 ELSE t

(* handleLine; a line that is no command does nothing.                     *)
Execute(c) ==
    IF c.op \in {"none", "junk"} THEN Nothing
    ELSE /\ IF c.op = "maskoff" \/ c.ms <= 0
            THEN maskUntil' = 0 /\ maskLeft' = 0
            ELSE LET ms == Min({c.ms, MaskMax})
                 IN  maskUntil' = MaskDeadline(ms) /\ maskLeft' = ms
         /\ UNCHANGED <<kbd, mouse, ghost, rebootReq, missed, tapLeft, press, overrun, wanted,
                        owed, clean>>

Command(c) ==
    /\ phase = "running" /\ ~rebootReq /\ commands < MaxCommands
    /\ c \in Commands /\ c.for \in {role, "any"}
    /\ commands' = commands + 1
    /\ UNCHANGED <<boot, clock, hostResidue, usb, right, wire, early>>

(* What follows a cut binary frame is its payload, for PcResidue at most.  *)
Swallowed ==
    /\ pcResidue > 0
    /\ \/ pcResidue' = PcResidue + 1 /\ line' = NoLine
       \/ pcResidue' = 0 /\ line' \in {NoLine, Junk}
    /\ Nothing

(* A frame's first byte clears a line under way.                           *)
BinaryCommand(c) ==
    /\ Command(c) /\ c.op \notin Ascii
    /\ \/ Swallowed
       \/ /\ pcResidue = 0 /\ line' = NoLine
          /\ \/ "whole" \in PcFates /\ Handle(c) /\ pcResidue' = 0
             \/ "cut" \in PcFates /\ Nothing /\ pcResidue' = PcResidue + 1

(* A line that lost its end is finished by the next one, whose own command *)
(* is then not seen.                                                       *)
AsciiCommand(c) ==
    /\ Command(c) /\ c.op \in Ascii
    /\ \/ Swallowed
       \/ /\ pcResidue = 0 /\ pcResidue' = 0
          /\ \/ /\ "whole" \in PcFates /\ line' = NoLine
                /\ Execute(IF line = NoLine THEN c ELSE line)
             \/ "cut" \in PcFates /\ line' = (IF line = NoLine THEN c ELSE line) /\ Nothing

-----------------------------------------------------------------------------
(* Time and the loop.                                                      *)

(* Mutant: releasing a click forgets to release the button.                *)
HeldAfterForgotten == injMouse.buttons

(* CLICK's release takes its buttons out of the injected ones, whoever     *)
(* asked for them.                                                         *)
ClickOver == clickAt # 0 /\ Reached(clickAt)
HeldAfter == IF ClickOver THEN injMouse.buttons \ clickBits ELSE injMouse.buttons

TapOver == tapUntil # 0 /\ Reached(tapUntil)

(* Mutant: a mask is never seen to be over.                                *)
MaskStays == FALSE

MaskOver == maskUntil # 0 /\ Reached(maskUntil)

Expire ==
    /\ tapUntil' = IF TapOver THEN 0 ELSE tapUntil
    /\ tapKeys' = IF TapOver THEN NoKeys ELSE tapKeys
    /\ clickAt' = IF ClickOver THEN 0 ELSE clickAt
    /\ clickBits' = IF ClickOver THEN {} ELSE clickBits

(* Mutant: only what was injected is cleared after a report.               *)
RealUncleared == realMouse

RealCleared == [realMouse EXCEPT !.d = 0]

(* The report: real input unless ghosted or masked, and what is injected.  *)
ShownKeys(drop) == Down(Merge(IF drop THEN injKeys ELSE Merge(injKeys, realKeys), tapKeys'))
ShownButtons(drop) == HeldAfter \cup IF drop THEN {} ELSE realMouse.buttons
ShownMove(drop) == IF drop THEN injMouse.d ELSE Wrap(injMouse.d + realMouse.d)

Emit ==
    /\ emitted' = TRUE
    /\ maskUntil' = IF MaskOver THEN 0 ELSE maskUntil
    /\ LET drop == ghost \/ maskUntil' # 0
           d    == IF role = "mouse" THEN ShownMove(drop) ELSE 0
           lost == role = "mouse" /\ d # (IF ready THEN Saturate(d) ELSE 0)
       IN  /\ seen' = IF ~ready \/ role = "other" THEN seen
                      ELSE IF role = "keyboard" THEN ShownKeys(drop) ELSE ShownButtons(drop)
           /\ clean' = (clean /\ ~lost /\ d = injMouse.d + IF drop THEN 0 ELSE realMouse.d)
           /\ Owes(owed - d - IF drop THEN realMouse.d ELSE 0)
    /\ ready' = (ready /\ role = "other")
    /\ injMouse' = [buttons |-> HeldAfter, d |-> 0]
    /\ realMouse' = RealCleared

Tick ==
    /\ phase = "running" /\ ~rebootReq
    /\ stalled' = 0
    /\ Expire
    /\ \/ ~emitted /\ Emit
       \/ /\ emitted
          /\ injMouse' = [injMouse EXCEPT !.buttons = HeldAfter]
          /\ UNCHANGED <<emitted, maskUntil, realMouse, usb, owed, clean>>
    /\ UNCHANGED <<boot, realKeys, injKeys, ghost, now, parsers, rebootReq, right, wire, commands,
                   missed, timing, early>>

Less(n) == IF n > 0 THEN n - 1 ELSE 0

(* A millisecond passes for both boards.                                   *)
Elapse ==
    /\ \/ /\ phase = "identity" /\ waited < IdWait /\ beat < Beat /\ wire = <<>>
          /\ waited' = waited + 1 /\ beat' = beat + 1
          /\ UNCHANGED <<stalled, hostResidue>>
       \/ /\ phase = "running" /\ stalled < MaxStall
          /\ stalled' = stalled + 1 /\ hostResidue' = Less(hostResidue)
          /\ UNCHANGED <<waited, beat>>
    /\ now' = (now + 1) % Word /\ emitted' = FALSE
    /\ pcResidue' = Less(pcResidue)
    /\ maskLeft' = Less(maskLeft) /\ tapLeft' = Less(tapLeft)
    /\ press' = [b \in Buttons |-> Less(press[b])]
    /\ UNCHANGED <<phase, role, kbd, mouse, masks, line, rebootReq, usb, device, attached, held,
                   events, wire, commands, missed, overrun, wanted, owed, clean, early>>

(* The controlled machine takes the report: the endpoint is free again.    *)
Poll ==
    /\ ~ready /\ ready' = TRUE
    /\ UNCHANGED <<boot, kbd, mouse, masks, clock, parsers, rebootReq, seen, right, wire,
                   commands, history>>

(* The last report before the restart does not outlive the device.         *)
Restart ==
    /\ rebootReq
    /\ phase' = "identity" /\ waited' = 0 /\ role' = "unknown"
    /\ realKeys' = NoKeys /\ injKeys' = NoKeys /\ tapKeys' = NoKeys /\ tapUntil' = 0
    /\ realMouse' = AtRest /\ injMouse' = AtRest /\ clickBits' = {} /\ clickAt' = 0
    /\ ghost' = FALSE /\ maskUntil' = 0
    /\ now' = 0 /\ emitted' = FALSE /\ stalled' = 0
    /\ hostResidue' = 0 /\ pcResidue' = 0 /\ line' = NoLine
    /\ rebootReq' = FALSE
    /\ ready' = TRUE /\ seen' = {}
    /\ maskLeft' = 0 /\ tapLeft' = 0 /\ press' = [b \in Buttons |-> 0]
    /\ overrun' = FALSE /\ wanted' = {} /\ owed' = 0 /\ clean' = TRUE
    /\ beat' \in 0..Beat /\ wire' = <<>>
    /\ missed' = "some"
    /\ early' = attached
    /\ UNCHANGED <<device, attached, held, events, commands>>

Next ==
    \/ DeviceEvent \/ Attach \/ Detach \/ Heartbeat
    \/ WaitFrame \/ WaitOver \/ HostFrame
    \/ \E c \in Commands : BinaryCommand(c) \/ AsciiCommand(c)
    \/ Tick \/ Elapse \/ Poll \/ Restart

Spec == Init /\ [][Next]_vars

-----------------------------------------------------------------------------
(* What must hold.                                                         *)

MouseStates == [buttons : SUBSET Buttons, d : -DeltaWord..DeltaWord]

(* Types; and nothing is read or shown before the device is known.         *)
BoxInv ==
    /\ phase \in {"identity", "running"} /\ waited \in 0..IdWait
    /\ role \in Devices \cup {"keyboard", "unknown", "other"}
    /\ {realKeys, injKeys, tapKeys} \subseteq KeyReports
    /\ {realMouse, injMouse} \subseteq MouseStates
    /\ clickBits \subseteq Buttons
    /\ {tapUntil, clickAt, maskUntil, now} \subseteq 0..Word - 1
    /\ {ghost, emitted, rebootReq, ready, attached, clean, early, overrun} \subseteq BOOLEAN
    /\ missed \in {"none", "some", "stale"}
    /\ hostResidue \in 0..HostResidue + 1 /\ pcResidue \in 0..PcResidue + 1
    /\ Len(wire) <= WireCap
    /\ phase = "identity" => /\ role = "unknown" /\ seen = {}
                             /\ realKeys = NoKeys /\ realMouse = AtRest

Quiet == \A f \in Range(wire) : f.type # "report"
Real  == IF device = "keyboard" THEN Down(realKeys) ELSE realMouse.buttons
Known == phase = "running" /\ role = device /\ missed = "none" /\ Quiet

(* Once the last report of the device has come through, the left board     *)
(* holds exactly what is physically held, through masks, frames lost or    *)
(* cut before it, an unplugged device and a restart.  What a ghost or a    *)
(* restart made it forget stays forgotten until then, but nothing is held  *)
(* that was released meanwhile.                                            *)
HeldIsKnown ==
    /\ Known => Real = Range(held)
    /\ phase = "running" /\ role = device /\ missed = "some" /\ Quiet => Real \subseteq Range(held)

(* A device that was there when the left board started, and whose frames   *)
(* arrive, is what the left board takes it for.                            *)
IdentityIsHeard ==
    [][phase = "identity" /\ phase' = "running" /\ early => role' = device]_vars

Emits == phase = "running" /\ ~emitted /\ emitted' /\ ready /\ role = device
Injected == Down(injKeys) \cup Down(tapKeys) \cup injMouse.buttons
Taken(k) == {j \in 1..Slots : k[j] # NoKey}
Fits == device = "keyboard" =>
            Cardinality(Taken(injKeys))
              + Cardinality((Down(tapKeys) \cup Range(held)) \ Down(injKeys)) <= Slots

(* While a mask runs no report shows real input; when its time is over,    *)
(* and nothing else withholds it, the very next report shows all of it     *)
(* again, keys held all along included.  (A deadline of 0 is moved to 1.)  *)
MaskIsTimed ==
    [][Emits => /\ maskLeft > 0 => seen' \subseteq Injected
                /\ maskLeft = 0 /\ maskUntil # 1 /\ ~ghost /\ Known /\ Fits
                        => Range(held) \subseteq seen']_vars

Mine(b) == press[b] > 0 \/ b \in wanted

(* No report shows a tapped key or a clicked button beyond its time, other *)
(* sources aside: unless a second click was sent over the first, or the    *)
(* deadline came out as 0, which reads as none.                            *)
TimedPressesEnd ==
    [][Emits => /\ tapLeft = 0 /\ tapUntil # 0
                       => tapKeys' = NoKeys
                /\ ~overrun /\ (clickAt # 0 \/ clickBits = {})
                       => \A b \in injMouse'.buttons : Mine(b)]_vars

(* Nothing timed outlasts its time: masks, taps and clicks.                *)
TimedHoldsEnd == MaskIsTimed /\ TimedPressesEnd

(* A click is released when its time is over ("press first, release by     *)
(* itself when due", makcu_link.cpp:179).  TLC refutes it, see the README.  *)
ClickIsReleased ==
    [][Emits /\ (clickAt # 0 \/ clickBits = {})
          => \A b \in injMouse'.buttons : Mine(b)]_vars

(* As long as no report was refused or too long and no displacement sent   *)
(* to a keyboard, every displacement asked for is shown exactly once, or   *)
(* withheld by a mask, a ghost or a cancel.                                *)
MovesShownOnce == clean => owed = injMouse.d + realMouse.d

(* In the end the controlled machine is told of what is held and injected, *)
(* however reports were lost, refused or withheld on the way.              *)
SeenInTheEnd ==
    <>[](Known /\ ~ghost /\ Fits /\ pcResidue = 0 =>
             seen = Range(held) \cup IF device = "keyboard"
                                     THEN Down(injKeys) \cup Down(tapKeys)
                                     ELSE injMouse.buttons)

(* The loops of both boards run, time passes and the machine polls.        *)
Fairness ==
    /\ WF_vars(Tick) /\ WF_vars(Elapse) /\ WF_vars(Poll) /\ WF_vars(Restart)
    /\ WF_vars(WaitFrame \/ WaitOver \/ HostFrame) /\ WF_vars(Heartbeat)
FairSpec == Spec /\ Fairness
=============================================================================
