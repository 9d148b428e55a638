# A verification project for Apotheosis

Apotheosis is a Windows program that captures a picture, runs a detector on
it, and drives a mouse and a keyboard through one of several boxes or through
Windows, with an automatic trigger, a macro engine, a Qt user interface and
firmware for the boxes.  This directory holds TLA+ models of its concurrent
and stateful core, the configurations that check them with TLC on small
instances, and proofs that TLAPS checks for every instance.

All paths below are relative to the repository; `aim_loop.cpp` without a
directory is `Apotheosis/runtime/aim_loop.cpp`, `mouse.cpp` is
`Apotheosis/mouse/mouse.cpp`, and so on.

## 1. Inventory

### The parts and how they interact

One process, these threads (each is a thread of the models unless noted):

    capture thread --frame--> detector thread --batch--> control worker
       (capture.cpp)           (trt_detector.cpp)     (latest_control_worker.h)
                                     |                       | aim_loop::tick
                               detectionBuffer               v
    UI thread -- start/stop --> InferenceSession        MouseThread -- worker --> device
    (MainWindow.cpp)                                         ^
    macro thread -- RuleExecutor::tick -- MacroEngine -------+
    (macro_engine.cpp)
        |  hotkey_blocking::update, in the same tick
        v
    MakcuNew driver ==serial line== mouse box (firmware/)
    listener thread -- hotkeys -- aim_loop, macros (not modelled)
    weapon thread -- WeaponSwitch31 -- keyboard of the device

and, apart from it, the other box (firmware-kbd/), two boards and a PC:

    keyboard or mouse -- right board ==serial wire== left board -- USB --> machine
                                              PC ==serial==^

| Part | State it keeps | Operations | What makes it correct |
|---|---|---|---|
| Movement pipeline, `mouse/mouse.cpp` | slot for the latest move, generation, suspension, announced buttons, feedback sum | send (two paths), press, clear, suspend, consume feedback, replace driver, destroy | a cleared or suspended move never reaches the device; buttons first; feedback neither lost nor doubled; no caller stuck |
| Macro executor, `macro/rule_executor.h`, and engine, `macro/macro_engine.cpp` | jobs with held keys, holder counts, key ledger, flash pulse, output ownership | start, call, branch, pause, resume, disable, step, end, stop all, device pause | holder counts, ledger and device agree; families end together; excluded rules do not run together; the output comes back |
| Rule gate, `RuleGate` in `macro/rule_logic.h` | previous snapshot, gesture, locks, pending condition, recent starts | `poll`, `started` | nothing stale starts a rule; locks and limits hold |
| Flow compiler and interpreter, `compileFlow` and the control part of `RuleExecutor::execute` | pairs of blocks; program counter, counters, targets | compile, step | exactly the well-nested programs compile; loops run as often as they say; scripts end |
| Inference session, `runtime/inference_session.cpp` with `capture.cpp`, `trt_detector.cpp`, `latest_control_worker.h` | threads, four shared flags, detector, frame slot, buffer | start, stop, crash, close, switch model | no worker loses what it uses; no batch outlives its session; stops come back |
| Trigger output, `aim_loop.cpp` with `am_trigger.h`, `trigger_scope.h`, `auto_stop.h`, `trigger_release.h`, `weapon_switch31.h` | trigger, scope and stop machines, buttons, mask, weapon thread | tick, release, reset, hand-over to macros, weapon switch | each button down has an owner that releases it; scope and mask before the shot; a released hotkey frees everything |
| Aim loop's numeric part, controller, tracker | filters, tracks, history | floating-point updates | not modelled: arithmetic on reals |
| Movement feedback window, calibration session | window of sends per frame | add, take, expire | planned |
| Flash scan (`trigger_flash_post.h`) | phase, deadlines | post, turn, lost | planned; its verdict is an input of `TriggerOutput` |
| Hotkey blocking, `keyboard/hotkey_blocking.cpp`, with the masks of `mouse/MakcuNew.cpp` and of the mouse box | what was applied, requested, uncertain; the session it was in; what the driver owns; what the box blocks | update, clear, lock, release, reconnect, replace the driver, restart of the box | every lock at the box is known to somebody who will lift it; certain means locked; the locks follow the settings |
| Keyboard and mouse box, `firmware-kbd/` | real and injected reports, taps, clicks, ghost, mask, role; frames on the wire | identify, forward, merge, inject, mask, emit, restart | the machine is shown what is held and moved, once; what is timed ends by itself; the role is right |
| Rule sources and conditions | sampled signals, truth values | sample, evaluate | sampling is I/O; evaluation is planned |
| Hotkeys and listener (`hotkey_selection.h`, `active_hotkey.cpp`) | active hotkey, secondary latch | poll | planned; inputs of `TriggerOutput` and `HotkeyBlocking` |
| KMBoxNet's masks, `mouse/kmboxNetConnection.cpp` with `WrappedKmboxNetDriver` in `mouse_driver.cpp` | what the hotkeys and the automatic stop want masked, what was applied, what is uncertain; the driver's keys and its doubt | set hotkey masks, mask and unmask the movement keys, undo, destroy, replace | every mask at the box is known; the two users do not lift each other's; masked means masked |
| Other device drivers | connection, command queues | commands that may fail | a device is "commands that may fail" in the models |
| Capture backends and their slots | device handles, latest frame | read, interrupt | I/O; `InterruptibleSlot` and `latest_slot.h` are planned |
| GPU images and ready events | pool of events | acquire, record, wait, release | CUDA; the pool is planned |
| Detector engine, post-processing, crosshair and laser detection | tensors, images | inference | arithmetic |
| Automatic capture of training images | mailbox of sixteen frames, policy | offer, write | planned |
| Configuration, its snapshot, live tuning | the INI's values, the published snapshot | load, save, publish | parsing is text; publication is planned |
| Telemetry, scheduling, authentication, model protection, previews, UI pages, the rest of the mouse box's firmware, vendored code | - | - | diagnostics, system calls, HTTP, drawing, descriptors: not modelled |

`PROJECT.json` lists every part with its sources, and under "hazards" the
places where the code is hard to test, each with the properties about it.

### Behaviours that are hard

* A move is taken out of the slot by one critical section, checked by a
  second, delivered in a third, with four mutexes on the way (`mouse.cpp:56`
  to `:185`); clear, suspend, buttons and driver changes come in between.
* Any device command may fail and may have reached the device all the same;
  what is then believed of keys, buttons and masks differs from what is.
* Flows end in one another's turn, in the middle of a tick, while iterators
  and turns of other flows are open; keys are shared and counted.
* The detector's flags are shared without a lock; the thread that clears one
  is not the one that sets it.
* A lock lives in the box until it is lifted.  The blocking, the driver and the
  box each remember it on their own, and each of them is replaced, reconnected
  or restarted while the others go on; an answer that does not come says nothing
  about what was done.
* The two boards share nothing but a wire that loses and cuts frames, and a
  report says what is held, not what changed: one that is lost is not repeated.
* `tick` runs only when there are detections: what must happen at the release
  of a hotkey happens at the next batch.

## 2. Modules

| Module | Models | Lines |
|---|---|---|
| `MovePort` | what the queued path of the movement pipeline promises (abstract) | 41 |
| `MouseThread` | the movement pipeline | 519 |
| `MouseThreadProofs` | proofs about `MouseThread` | 1175 |
| `MacroExecutor` | rule executor and macro engine | 713 |
| `MacroExecutorProofs` | proofs about the keys, the output and the flows of `MacroExecutor` | 2560 |
| `RuleGate` | when a rule starts | 287 |
| `RuleFlow` | compiler and interpreter of scripts | 325 |
| `RuleProofs` | proofs about `RuleGate` and `RuleFlow` | 4577 |
| `InferenceSession` | session, three pipeline threads, flags, window | 492 |
| `InferenceSessionProofs` | proofs about `InferenceSession` | 1194 |
| `TriggerParts` | trigger, scope and stop machines, as operators | 130 |
| `TriggerOutput` | the output half of the aim loop, composed of `TriggerParts` and the weapon thread | 600 |
| `TriggerOutputProofs` | proofs about `TriggerOutput` | 4429 |
| `KeyboardBox` | the box of `firmware-kbd`: both boards, the wire, the PC's commands, the USB endpoint | 616 |
| `KeyboardBoxProofs` | proofs about `KeyboardBox` | 2797 |
| `HotkeyBlocking` | hotkey blocking, the MakcuNew driver's line and masks, the mouse box's locks | 481 |
| `HotkeyBlockingProofs` | proofs about `HotkeyBlocking` | 592 |
| `KmboxMasks` | the masks of the KMBoxNet box: connection, driver, blocking | 298 |
| `KmboxMasksProofs` | proofs about `KmboxMasks` | 413 |
| `MC...` | values of the constants for TLC | |

`MacroExecutor`, `RuleGate` and `RuleFlow` cut one program along its own
interfaces: the executor asks the gate whether a rule starts and takes its
steps from the compiled flow.  In `MacroExecutor` a start may happen whenever
the gate might allow it and any step of the script may come next, so what holds
there holds whatever gate and script do.  In the same way `TriggerOutput` takes
`macros::ownsOutput` as a thing that may change at any time, and `MouseThread`
takes any caller.

A history variable (marked so where it is declared) is never read by a guard.
`HotkeyBlocking` is itself a composition: of the blocking, which the macro
engine calls at every tick, of a driver with its own memory, and of the box.
`KeyboardBox` composes the two boards and the PC over two lossy lines.

An operator commented "Mutant" or "Variant for mutation" is no part of a model: it is what
the definition after it would be with a plausible bug.

### MouseThread and MovePort

State: `gen`, `slot` and `queueMtx` are `LatestMoveSlot` and `queueMtx_`;
`dispatchMtx` and `suspended` are `moveDispatchMutex_` and
`automaticMovesSuspended_`; `buttons` and `yielding` are `ButtonPriority`;
`applied`, `events`, `failed` are what `feedbackMtx_` protects; `wpc`/`wmove`
and `pc`/`arg` say where the worker and each caller are.

A critical section that holds only a leaf lock is one step.  A lock that is
held while another is awaited or while the device is busy is a variable, so
every order of acquiring the four locks appears.  `WCheckStop ... WRefused` are
the stages of `moveWorkerLoop`; `Begin(c)` is the entry into a public call and
`Continue(c)` each of its later sections.  A displacement is one integer; the
feedback wraps at `WordSize`, as two's complement does in the code.

`MovePort` knows no threads: a port with the latest move, at most one committed
move, and the number of the last one delivered.  The refinement mapping is
`Latest`, `Committed`, `delivered` at the end of `MouseThread`: a move is
"waiting" as long as it is in the slot or in the worker's hands before the last
check, if no newer generation exists; it is "committed" from that check to the
end of the device call.

Left out: times and latency records, `tapKey` and the mask calls of
`MouseThread` (in `TriggerOutput`), exceptions thrown by a driver (they would
end the process).

### MacroExecutor

`job[f]` is `RuleExecutor::Job` (rule, phase, parent, held keys, pulse, whether
it waits, is paused, owns the output); `owners` is `owners_`; `ledger` is the
engine's list of pressed keys; `flash` its flash pulse; `acquired`, `owned` the
two ends of `prepareForMacro`/`finishMacroControl`; `pauses` the nesting of
`DevicePause`.  `down` and `doubtful` are the device: a failed command leaves a
key doubtful.  Two history variables say why a key may be down that neither the
ledger nor the flash pulse knows: `dropped`, its release was sent and not
confirmed, and `flashLost`, it is a press of the flash pulse that failed, for
which `beginFlash` sends no release.  One tick is `poll`, then for every flow present at its beginning
(`todo`) `enter` and up to `Budget` `steps`, as `RuleExecutor::tick` does; a
`STOP`, a user's start or an ended pause comes between ticks, because the engine's
mutex is held throughout a tick.  `config` is the configuration of one user: the
rules with the steps of their scripts (`RuleOf`), how many flows ever start, and
whether his device fails; a run may take several users.  Simulated flows share nothing and are left out.

### RuleGate

`Suppressed`, `Observed`, `Happened`, `Debounced` and `Limited` are the
consecutive parts of `RuleGate::poll`, as functions of the gate's record;
`Polled` composes them in the code's order.  A tick is `QuietTick` (the editor
is open, or something was stopped) or `PollTick`, with `Started` when the
executor accepts the start or the user starts the rule by hand.  All on/off inputs of a snapshot are one signal; typed sequences and metric
changes are left out.  The queue of recent starts, of which the code counts
those within the window, is a set of numbered starts.

### RuleFlow

`compileFlow` is a recursive function over the actions with the stack and the
pairs as its value; one action of the module per action of a script (`Loop`, `While`,
`Retry`, `ForTargets`, `EndLoop`, `If`, `ElseOrCase`, `Switch`, `Break`,
`Continue`, `Jump`, `Parallel`, and `Straight` for those that just go on).  What a condition says is left to chance each
time.  `CompileInv` compares the compiler with a reference that knows no stack:
blocks by nesting depth.

### InferenceSession

`op` is the thread that holds `InferenceSession::mutex_` and its place in
`start` or `stop_locked`; `ui` the window (`MainWindow`) and `main`; `det`,
`cap`, `ctl` the three threads; `flags` the shared atomics; `buffer`
`detectionBuffer`.  A frame is a number, a batch the frame and the resolution
it was scaled with.  Joins are guards: the step is possible when the other
thread has ended.  Crashes are exceptions that the thread functions catch.

### TriggerParts and TriggerOutput

`TriggerParts` has the three machines as functions from state to state and
actions, with deadlines as time left.  `TriggerOutput` is the code around them:
`Tick` is the output half of `aim_loop::tick` with everything it calls,
`Pass` lets one unit of time go by, `PrepareForMacro`, `FinishMacroControl`,
`ResetMouse`, `ResetSession` are the other entries, `SwitchKey` the steps of
the weapon thread.  The input `obs` says what the batch showed (`Seen`: an old batch, an unusable clock step,
no target, one to aim at only, one outside or inside the trigger's zone, and
the two answers of the flash scan).  In one call
at most one kind of command fails; it may have reached the device (`took`), and
the part it concerns is then `doubt`ful until a later command succeeds.

`aux` is history for the properties; nothing in the model depends on it.
`missing` is the time without a hit.  `by` and `game` are the game's scope as the
player sees it: each press of the right button that reached the game (`press`,
set by `Send`) for a profile that taps toggles it, whatever the code remembers in
`g_scopeTapped`.  `by` is the profile that opened it; `game` is "open" until
something happens through which the code loses track of the scope, and then names
it: "macro", "session", "failed" (the press was reported as failed but took effect)
or "other" (a profile with a weapon switch, flash scanning or its trigger off).

Left out: the random part of delays, the calibration session, sessions without
any device, a second failing kind of command in the same call.

### KeyboardBox

`realKeys`, `injKeys`, `tapKeys`, `realMouse`, `injMouse`, `ghost`, `maskUntil`
and the deadlines are the statics of `makcu_link.cpp`; `phase`, `role` the wait
for the identity in `main.cpp`; `wire` the frames between the boards; `held`,
`attached`, `device` the real device; `seen` what the machine was told last.
`DeviceEvent`, `Attach`, `Detach`, `Heartbeat` are the right board;
`WaitFrame`, `WaitOver`, `HostFrame` the left board's reading of the wire, where
each frame has a fate: whole, lost, cut (it then swallows part of the next one
or is forgotten in time), or with its last payload byte changed;
`BinaryCommand` and `AsciiCommand` the PC's commands with theirs; `Tick` is
`makcuLinkTick`, which ends what is over and emits at most once a millisecond;
`Poll` the machine's USB host; `Restart` the reboot.  The clock wraps at `Word`.
A frame is one element and not a string of bytes; the merge of keys goes slot by
slot as `mergeFrom` does, because slots run out.

Left out: modifier bits and the wheel (they merge as buttons and displacement
do), the answers to text commands, an exchange of a keyboard for a mouse while
running, the enumeration on either USB.

### HotkeyBlocking

`applied`, `unsure`, `requested`, `buttonBackend`, `buttonGen`, `axisBackend`,
`axisGen`, `fresh`, `retry` are the variables of `hotkey_blocking.cpp` (a set
of locks for the bitsets of buttons and axes); `pc`, `todo`, `job`, `ok`,
`pending` the call of `update()` or `clear()` in progress; `exists`, `phase`,
`capable`, `session`, `owned`, `real` the MakcuNew driver; `locks`, `held` the
box and the user.  One command is one step (`ReleaseOne`, `LockAxis`,
`LockButton`, `DestroyOne`), which may succeed, fail without effect or fail
after it had its effect; between two commands anything outside the engine's
mutex may happen: `LineLost`, `Reopen` (the line counts as open before the
session has its number, `MakcuNew.cpp:121`), `Establish`, `BoxRestarts`,
`Press`, `ChangeSettings`, `ChangeAim`.  `Pause` is a `DevicePause`: `clear()`
with its second attempts, then the same driver goes on, or it is destroyed and
another one made (`createInputDevices`).

Devices are MAKCUNEW and WINDOWS, the latter for "a device without locks".
Left out: the protocols and key masks of the other boxes, the Windows hook,
which keys are wanted (`ChangeSettings` takes any), the choice of the baud
rate, an answer so late that the next question takes it for its own.

### KmboxMasks

`hot`, `auto`, `applied`, `unsure` are `hotkeyKeys_` and `hotkeyButtons_`,
`automaticKeys_`, `applied*_` and `uncertain*_` of the connection; `masked` and
`doubt` are `movementKeysMasked_` and `movementMaskUncertain_` of the driver;
`place`, `todo`, `okay` the call of `maskRealKeyboard` in progress, `active` the
automatic stop's belief, `box` the device.  `setHotkeyMasks` holds `io_mutex_`
for all its commands and is one step (`SetHotkeyMasks` in `Update` and `Clear`);
`maskRealKeyboard` takes that mutex for each key (`MaskOne`, `UnmaskOne`), so
that the other thread comes in between.  Both go through `Sync`, which sends a
command for each key that differs or is uncertain; each answer may be lost, and
each command lost with it or not.  `Pause` ... `Connect` are a `DevicePause`: `clear()`,
`resetMouse`, `~WrappedKmboxNetDriver` and, when the devices are replaced,
`~KmboxNetConnection` and a new connection.  Which keys are held is chance in
each call.

Left out: axes (they are locked as in `HotkeyBlocking`), the return of `update()`
when another device did not let go, a restart of the box, late answers.

## 3. Runs

States are distinct states found.

| Run | Asks | Bounds | States |
|---|---|---|---|
| `mouse` | do clearing and suspending stop moves, do buttons go first, is feedback conserved, is it a `MovePort`; does every call return and every queued move get taken | 3 callers, 3 calls, drivers replaced freely | 55 996 |
| `macro` | do holder counts, ledger, device, output agree when commands fail; do families, exclusion, pauses and the output hold when rules call and stop one another; do ticks end | two users: 2 parallel rules with chords and branches over 2 keys, 2 flows, failing commands; 3 rules of three modes, 3 flows, depth 2 | 161 608 |
| `gate` | does nothing stale start a rule; do locks, limits and debounce hold | 28 rules, 2 targets, 5 instants, every snapshot at each | 165 327 |
| `flow` | does the compiler accept what nests; do loops, branches, targets behave | all lists of up to 5 (4) actions over three alphabets | 110 949 |
| `session_safety` | is nothing taken from a worker; does no batch outlive its session; is a death noticed | 2 models, 1 frame, 2 operations, 1 change, 1 crash | 720 568 |
| `session_live` | do stops come back, does the window close, is every batch seen | 1 model, 2 frames, 1 operation, 1 crash | 34 621 |
| `session_lost_stop` | is `stop` ever lost when a model is switched: yes | 2 models, 1 frame, 1 change | violation |
| `trigger` | has every button an owner; scope and mask before the shot; is the grace fixed; is an open tap scope tapped again; does a released hotkey free everything; does a weapon switch end | 9 profiles, 3 events, 2 time units, macros, reconnects, stalls | 273 037 |
| `keyboard` | is what is held and moved shown, and once; is the identity heard; does what is timed end | both devices, 2 device events, 2 commands, 2 frames on the wire, lost and cut frames | 458 410 |
| `blocking` | has every lock an owner; does certain mean locked; do the locks follow the settings | 1 button, 1 axis, 2 faults, 2 changes, 1 press or release | 507 135 |
| `kmbox` | is every mask at the box known, do the two users of it leave each other's alone, does masked mean masked | 2 movement keys, each possibly a hotkey, 3 calls with lost answers, 2 changes | 205 936 |
| `blocking_away` | are the locks right whenever the line is: no | 1 fault, 1 change | violation |

### What the properties say

* `ClearIsABarrier`, `SuspendedMeansQuiet`, `ButtonOvertakenAtMostOnce`,
  `FeedbackConservation`, `ImplementsPort`, `NoCallOrMoveIsStranded` (every
  call returns, every queued move is taken): see `MouseThread`.
* `KeysInv`: the holder count of a key is the number of flows that hold it, the
  key is down exactly while someone holds it, unless a command for it failed,
  and a key that is down is known to the ledger or the flash pulse, or its release
  was sent and not confirmed, or (the exception, see `FlashIsReleased` below) it is
  a flash press that failed and was forgotten.  `HoldersOwnOutput`: who holds keys
  has the output.  `SharedKeyStaysDown`: only the last holder releases.
  `FlowsInv`: families, exclusion and start checks.  `IdleHoldsNothing`: a
  paused flow holds nothing, and the output comes back.  `EveryTickEnds`.
* `GateInv` (debounce), `NothingIsReplayed`, `LimitsHold` (key lock, target
  lock, cooldown, counts).
* `CompileInv`, `PlaceInv` (loops run as often as they say, the target is
  restored), `OneBranchOnly` (no step but a jump crosses an else), `ScriptsEnd`.
* `SessionInv` (nothing is taken from a worker, a death is noticed),
  `BatchOfThisSession`, `EachFrameUsedOnce`, `StopsWhole`, `NothingIsForgotten`
  (the window closes, every batch or a later one is used).
* `OutputInv` (each button and mask has an owner, no grace is renewed, a
  weapon switch finds nothing pressed), `QuietWhenReleased`, `ShotIsReady`,
  `TapsOnce` (the press that would shut an open scope never comes while the hotkey
  that opened it is held, as long as the code keeps track of the scope: see
  `TapsOnceForAll`, `TapsOnceAfterMacro` and `TapsOnceAfterFailure` below for when
  it does not), `ReleaseEnds`.
* `HeldIsKnown`: after the last report has come through, the left board holds
  what is physically held, and after a ghost or a restart never more than that.
  `MovesShownOnce`: as long as no report was refused or too long and no
  displacement sent to a keyboard, each displacement is shown once or withheld on purpose.  `IdentityIsHeard`: a
  device that was there at the start is taken for what it is.  `TimedHoldsEnd`:
  masks, taps and clicks end with their time, and a mask's end shows what was
  held all along.  `SeenInTheEnd`; `BoxInv`.
* `BlockingInv`: a lock at the box is known to the driver, which will lift it,
  unless that has been tried in vain; what the driver may own the blocking
  remembers, or has given up in a `clear()`.  `CertainMeansLocked`: a lock the
  blocking is sure of is in place, in the very session it was confirmed in.
  `LocksFollow`: however commands failed and lines broke, in the end the box
  blocks what is wanted and nothing else.

* `MasksInv` (of `KmboxMasks`): what the connection is sure of is so
  (`CertainMasksStand`), a mask at the box is wanted, known to be uncertain, or
  was given up by a destructor after two attempts (`NoMaskIsForgotten`), between
  two calls the driver has asked for all movement keys or none unless it knows
  of its doubt (`AllOrNothing`), and keys it called masked are masked until it
  gives them back, whatever becomes of the hotkeys (`SaidMeansMasked`).

Each has a mutant: a mapped definition with a plausible bug, under which the
same run refutes it.

### Why the bounds are enough

The conflicts need few actors.  In the pipeline one caller sends, one clears,
suspends or replaces the driver and one presses a button; five calls let
each of them and a second move happen in one behaviour.  Shared keys need two
holders and a chord; calls need a caller, a callee and a rule that interferes.
The gate's events compare two or three consecutive snapshots; five instants
exceed every window, debounce and gesture time of the rules by one.  A compiler of one stack
and one array is exercised by three blocks inside one another, and loops by an
inner loop entered twice.  A session that is started and stopped twice meets
its own leftovers.  For the trigger three events are a hotkey pressed, changed or
failed upon, and released; a delay is zero, one or two units, and a second
target loss within a grace of two is the shortest that could renew it.
In the keyboard box two slots of a report run out with three keys, a wire of
two frames lets a cut one swallow the next, two commands let one meet the
other, and a clock of four values wraps during every mask and tap; a cut frame
lives for no extra millisecond there, so that its end is reached at every point.
In the blocking one button and one axis meet in each call, since what a call
does to one lock does not depend on the others of its kind; two changes are
one there and one back (or a device replaced), two faults a lost command and a
lost line, or a driver that is born without locks.  At the KMBoxNet box three lost
answers are a masking, its undo and one more attempt, or both attempts of a
destructor and one of the next connection.

Every bound is a constant: `MaxCalls`, `MaxFlows`, `MaxPauses`, `MaxTime`,
`MaxTargets`, `MaxFrames`, `MaxOperations`, `MaxChanges`, `MaxCrashes`,
`MaxEvents`, `Horizon`, `WireCap`, `MaxStall`, `MaxCommands`, `MaxFaults`,
`MaxPresses`.  `MaxJobs`, `MaxDepth`, `Budget`, `MaxNesting`,
`EventCap`, `MaxComponent` and `WordSize` are limits of the code itself (32, 8,
8, 16, 128, 30000, 2^32), made smaller so that they are reached, as are `Slots`,
`Sat`, `DeltaWord`, `Word`, `MaskMax`, `IdWait` and `Beat` of the keyboard box
(6, 127, 2^16, 2^32, 2000, 2000 and 1000 ms).

No symmetry is used.  Deadlock is checked everywhere but in `MouseThread`,
where the program may stop when the calls are used up and the object is destroyed.

### Fairness

* `MouseThread`: the worker and each call that was entered go on
  (weak fairness): they are threads that the system schedules.  Nobody must
  call.  Mutexes need not be fair since calls are bounded; that a mutex starves
  nobody under endless calls is not shown.
* `MacroExecutor`: a tick that began goes on; it is a loop that waits for nothing.
* `RuleFlow`: the script steps; for `ScriptsEnd` this says that the engine ticks.
* `InferenceSession`: each thread goes on when it can, the UI timer included
  (`MainWindow`'s timer polls every interval).  The capture device need not
  deliver; nobody must press anything, nothing must crash.
* `TriggerOutput`: time passes, the weapon thread runs, and `tick` happens
  again and again *while detections come and no macro owns the output*.
  `Stall` ends the detections; the properties then promise nothing
  (see `ReleasedAnyway` below).
* `KeyboardBox`: both boards' loops run, time passes, the machine polls.  No
  frame need arrive whole, no command be sent.
* `HotkeyBlocking`: a call that has begun goes on.  The engine ticks every few
  milliseconds, so again and again a tick finds the half second of the axes
  or of a retry over (strong fairness of `BeginUpdate(TRUE)` and `BeginButtons`:
  a call in progress, a pause or a change may come in between each time).  A
  line that is lost may stay lost; `LocksFollow` says nothing of it then.

## 4. Proofs

### The movement pipeline

`MouseThreadProofs` proves, for any finite set of callers, any displacements,
any limits and any number of calls:

| Theorem | Property |
|---|---|
| `TypeCorrect` | `TypeOK` |
| `ClearIsABarrierHolds` | no move queued before a finished clear reaches the device |
| `SuspendedMeansQuietHolds` | no automatic move is on its way while moves are suspended |
| `ButtonOvertakenAtMostOnceHolds` | a button waits for at most one move |
| `FeedbackConservationHolds` | accepted displacement = consumed + to be consumed |
| `FailuresAreRealHolds` | cancelled moves are not failures |
| `ImplementsPortHolds` | `MouseThread` implements `MovePort` |

Assumptions: `CallersAssumption` (callers are finitely many, and neither the
worker nor "nobody" is one of them), `NumbersAssumption`, `DriverAssumption`, all
in `MouseThread`, all evaluated by TLC.

None of the properties is inductive.  "What is in the device is newer than the
last clear" does not survive a step unless it is also known that what is in
the worker's hands is, if it is still the newest generation, newer than the
clear; that needs that a clear in progress has already outdated everything,
that the slot holds the newest generation, and that nobody holds
`moveDispatchMutex_` or `input_method_mutex` elsewhere.  So the inductive
invariant is

    IInv == TypeOK /\ LocksAreHeld /\ ButtonsAreCounted /\ GenerationsAgree
            /\ OvertakingIsBounded /\ RefusalsAreKept /\ FeedbackConservation
            /\ ClearIsABarrier /\ SuspendedMeansQuiet

* `LocksAreHeld`: each mutex is held exactly at the places where the code holds it;
* `ButtonsAreCounted`: `ButtonPriority::pending_` is the number of callers that
  announced a button (with the library's facts on cardinality);
* `GenerationsAgree`: generation of slot, hand, clear and delivery;
* `OvertakingIsBounded`: as long as the first move that had passed the check is still on
  its way, nothing has gone ahead of the button;
* `RefusalsAreKept`: a refusal that is still in hand will be counted once.

There is one lemma per action (`WCheckStopInv` ... `SetConnectionInv`), each
with the conjuncts that action can disturb proved one by one.  The refinement
uses `IInv`: `WRecheck` is a `Commit` because a still wanted move is the newest
one; `QueueMove` a `Post` because generations only grow; everything else is
`Withdraw`, `Finish` or a stutter.

### The blocking

`HotkeyBlockingProofs` proves, for any buttons and axes, any number of faults,
changes and presses:

| Theorem | Property |
|---|---|
| `BlockingInvHolds` | `BlockingInv`: types; every lock is owned or orphaned; what is owned is remembered or given up |
| `CertainMeansLockedHolds` | what the blocking is sure of is in place |

Assumptions: `LocksAssumption` (a button is no axis) and `BoundsAssumption`, in
`HotkeyBlocking`, evaluated by TLC.  Neither is inductive: that a device is
changed only when the old one has let go is said by the code through a flag
and a list that shrinks; that a reconnected line does not make old certainty
true again, through numbers.  The inductive invariant adds

* `ReleasesAreKnown`: what is being released is remembered;
* `DestructionIsComplete`: while a driver is destroyed nothing is remembered,
  and what is locked is still on its list or orphaned;
* `SessionsArePast`: nobody knows the number of a session still to come;
* `ChangeIsComplete`: a change of the device that has gone well so far has
  lifted what is no longer on its list.

`SetEffect` says once what any command may do, whatever is answered; then there
is one lemma per action.

### The masks

`KmboxMasksProofs` proves `MasksInvHolds` (`MasksInv`) for any keys, any
movement keys among them, any number of faults and changes, from
`KeysAssumption` (movement keys are keys) and `BoundsAssumption`, in `KmboxMasks`.
`SyncEffect` says once what a call of the connection does, whatever is answered.
The inductive invariant adds

* `OrphansAreApart`: what an earlier connection left masked is at the box, and
  this connection is not sure of having applied it;
* `CallIsKept`: at each place of `maskRealKeyboard`, which keys the driver has
  asked for and which are still to come;
* `SaidIsCertain`: keys called masked are wanted and certain, which is why the
  blocking sends nothing for them;
* `EndsAreQuiet`: at the end of a driver or a connection nothing is wanted.

### The session

`InferenceSessionProofs` proves, for any models and any number of frames,
operations, changes and crashes:

| Theorem | Property |
|---|---|
| `SessionInvHolds` | `SessionInv`: types; a thread that runs has its detector and engine; a death is noticed |
| `BatchOfThisSessionHolds` | a batch in the buffer is of the current session |
| `EachFrameUsedOnceHolds` | the controller uses a frame once, and frames in order |

Assumption: `BoundsAssumption` of `InferenceSession` (numbers are naturals, the size
of a model is not 0 and 0 is no model: 0 stands for "none").
That a running thread has its detector is no step's own doing: `stop_locked`
takes it away after it has joined both threads.  The inductive invariant adds

* `JoinedAreGone`: from its join to its launch a thread is not there;
* `DetectorIsReady`: who is launched finds the detector registered and an engine
  loaded, at every place of the loop that comes to an inference without a load;
* `EmptyBetween`: between two sessions the buffer is empty (with
  `BatchOfThisSession`, where a frame is put only by a thread of this session);
* `FramesAreOrdered`: slot, detector, buffer and controller hold frames in
  their order, each strictly newer than what is behind it unless it was seen.

### The gate

The first part of `RuleProofs` proves, for every rule, any targets and any length of time:

| Theorem | Property |
|---|---|
| `GateInvHolds` | `GateInv`: types, and the debounce |
| `NothingIsReplayedHolds` | `NothingIsReplayed` |
| `LimitsHoldHolds` | `LimitsHold`: locks, cooldown, count, count within a window |

Assumptions: `RuleSetAssumption` (the types of a rule's settings) and `GateBounds`,
in `RuleGate`.  The properties compare the gate, which keeps a few numbers, with
the whole history of the rule; the inductive invariant says how they agree:

* `ConditionIsTimed`: the gate's time of the conditions is the time they hold
  since, unless a suppressed tick saw them rise;
* `EventsAreNew`: what could start the rule is newer than the last start and the
  last suppressed tick;
* `LocksAreKept`: an open lock was opened by what opens it;
* `StartsAreCounted`: the gate counts at least the starts there were, and each
  start still within the window has its entry among the recent ones, so that
  there are at least as many entries as starts (cardinality of a surjection).

### The script

The second part of `RuleProofs` proves, for every list of actions of any length, any
limit of the nesting and any number of targets:

| Theorem | Property |
|---|---|
| `CompileInvHolds` | `CompileInv`: the compiler accepts exactly what is well nested, pairs the blocks, and accepts what is cut out of a parallel block |
| `PlaceInvHolds` | `PlaceInv`: the counter stays in the program, loops run their count, the target is restored |
| `OneBranchOnlyHolds` | `OneBranchOnly`: no step but a jump leads from the part before an else into the part after it |

The only assumption is `ProgramsAssumption` (programs are lists of actions).
`compileFlow` is a recursive function; `RunExists` shows that it exists, and
`CompileRuns` turns it into a run `r`, with `r[i]` what the compiler has after `i`
actions.  What holds along a run is shown by `Induction` (see the
keyboard box).  Three things do:

* `Structure`, as long as nothing was rejected: the stack holds the open blocks in
  their order, closed blocks and their ends point at one another, blocks are
  apart or nested, and breaks, branches and elses have their place in them.
  One lemma for each of the five ways to accept an action (`SkipKeeps` to
  `LeaveKeeps`).  At the end of an accepted program it says `WellPaired`.
* `Deep` and `Placed` tie the stack to the reference, which knows no stack: it
  is as high as the nesting is deep, and what is open is what is around.
  From them `AcceptedIsLegal`, and `RejectedIsIllegal` for each reason to
  reject.
* `Alongside`: the run over a parallel block's branch and the one over the
  whole program do the same, the stack of the branch being the upper part of
  the other (`StaysAlongside`, `BranchCompiles`).

The interpreter needs of a program only `WellPaired`.  `Move` is where a step may
lead; `ComesIn`, `GoesOut` and `KeepsToItsBranch` say what it may cross.
`FlowInv` is the inductive invariant: `Values` (types; the rounds
since a loop was entered are its counter), `Counts` (no more than it has) and `Aims`
(a loop over targets that has counted is one the script is in, and a saved
target is the one at the start unless another such loop is around).

Two statements of the model were wrong and were corrected on the way.  `OneBranchOnly`
forbade a jump from one part of an if into the other, which the code allows; no
program of the run had such a jump, now some have.  And the compiler's `CASE` had its
sticky error as one alternative among others that overlap it, where the code's
loop ends at the first error.

### The macros

`MacroExecutorProofs` proves, for any rules with any settings and scripts, any keys, any number of flows, pauses and steps, and any
failures of the device:

| Theorem | Property |
|---|---|
| `KeysInvHolds` | `KeysInv`: types; holder counts; device and ledger follow the holders; what is down is known, or its release was sent and not confirmed, or it is a failed flash press |
| `HoldersOwnOutputHolds` | only flows that own the output hold keys; the aim loop is told so |
| `IdleHoldsNothingHolds` | `IdleHoldsNothing`: paused flows hold nothing, the output comes back |
| `SharedKeyStaysDownHolds` | `SharedKeyStaysDown`: no release while another holder keeps the key |
| `FlowsInvHolds` | `FlowsInv`: families end together, nobody waits for a stranger, exclusion and re-entry |

Assumptions: `RulesAssumption` (the types of a configuration; there is a rule)
and `BoundsAssumption`, in `MacroExecutor`, evaluated by TLC.  The first four
theorems need one inductive invariant, `IInv`, of which the properties say
only parts:

* `Sound`: a flow that holds a key owns the output, the executor has it, and the
  flow is present; a flow paused by a rule holds nothing;
* `Counted`: `owners` is, for each key, the cardinality of its holders.  A click,
  a chord, a branch and a pause change many holders at once, so `CountsFall` and
  `TakeKeeps` are about sets of flows;
* `KeysAgree`: every held key is in the ledger, and a key that is in the ledger
  and held by nobody is there because its release failed.  Without the second
  half, "the last holder sends the release" would not be inductive;
* `flash \notin ledger` and `HandOver`: the flash pulse and the macros never know
  the same key, because the one ends before the others get the output;
* `StepState`: a step is performed by a flow in its turn that took the output
  before it, if it needs it.

`ReleaseKeeps` and `TakeKeeps` say once what commands do to the agreement,
whatever the device answers; `CleanupKeeps` and `FinishKeeps` follow from them, and
then there is one lemma per action.

`FlowsInvHolds` rests on `IInv` and on `Families`, which adds to `FlowsInv` that
numbers rise: a flow that has not started yet has a greater number than all that
have, so a new flow cannot be one that somebody waits for already.  A family is
the least set that holds a flow and all children of its members (`Family`);
`FamilyIs` needs of it only that it is such a set, which is why `end()` must
recurse.

### The trigger

`TriggerOutputProofs` proves, for any profiles and times, any device and any
number of changes, reconnections and failed commands:

| Theorem | Property |
|---|---|
| `OutputInvHolds` | `OutputInv`: types; each button that is down and each mask has an owner that ends it; a grace counts from the first miss; no button is down during a weapon switch |
| `QuietWhenReleasedHolds` | `QuietWhenReleased`: a tick that sees no hotkey leaves nothing pressed, held or prepared |
| `ShotIsReadyHolds` | `ShotIsReady`: no shot without the scope it is to be made with, and none without its mask |
| `TapsOnceHolds` | `TapsOnce`: while the hotkey that opened the game's scope is held, and the code has not lost track of the scope, it is not tapped again |

Assumptions: `PartsAssumption` (`TriggerParts`: times are natural numbers, the
shortest ones not longer than the longest) and `OutputAssumption` (the types of a
profile; no hotkey has the number 0, which stands for the -1 of the code), both
evaluated by TLC.  A tick is one long composition of small operators, so the
proof follows the code and not the actions: there is a lemma for every operator,
and each says what that part of the tick does to the owners.

* `LeftDown`, `RightDown` and `MaskOn` are what the device certainly has; `Owned`
  says that the trigger, the scope and the automatic stop answer for it.  A
  command changes one of the three (`LeftUpIs`, `RightCommand`, `MaskCommand`), and a
  failed one makes its part uncertain, which never takes an owner away.
* `Eased` is what a change of the hotkey may do: it lets go and presses nothing.
* `Held` and `Outlasts` say how a trigger may still be pressed after a batch: it
  was hit, or it was pressed before and its miss is shorter than the grace.
* `Settled`, what holds between two calls, is stronger than the properties:
  `BusyClean` (no trigger is pressed and no scope held during a weapon switch,
  failures or not) and `IdleClean` (with no hotkey, no tap is pending either).
  `GraceRuns` adds that the history of the property and the trigger's own count
  of its miss are the same number.

The two action properties need to know what each operator does to a press, so the
second half of the module goes through the tick once more:

* `Calm`, `Falls` and `Gone` are steps that press nothing and leave the scope
  alone, may change it, or close it; `Turned` is a step that may open it and `Shoots` one
  that may shoot.  `Judged` and `Ticks` put them together for a batch and a tick;
  `Quietly` says that no other action presses anything.
* `ReadyInv` is what a shot can rely on between two calls: `Covered` (a mask that
  is kept for a shot is on, as far as the device answered), `TapsOnly` (a tap
  that is not ended belongs to an open tap scope) and, unless the device was
  replaced meanwhile, `HeldDown` (a scope that is held is held down).  Masks that
  end by themselves are left out of `Covered`, as `ShotIsMasked` leaves them out.
* `TapOpen`: the profile by which the game's scope counts as open is one that may
  tap, the hotkey the loop saw last is its own, and the scope machine is engaged
  in the tap mode (`TapIsOn`): it will not ask for a press before it is let go.
  This ties the history of the presses to what the code remembers; it is what
  `prepareForMacro`, a reset or a failed press would break, and why `TapsOnce`
  leaves those out.

`TapsOnceHolds` needs no assumption on the profiles.  When another hotkey takes over,
the scope is the player's affair (`StillHeld` is false); when the code has lost track
of it, `game` is no longer "open", and section 5 says what happens then.

### The keyboard box

`KeyboardBoxProofs` proves, for any keys, buttons, slots of a report and
commands, any clock that wraps, any number of frames on the wire, lost or cut,
and any number of restarts:

| Theorem | Property |
|---|---|
| `BoxInvHolds` | `BoxInv`: types, limits of the parsers and the wire; nothing is read or shown before the device is known |
| `MovesShownOnceHolds` | `MovesShownOnce`: each displacement is shown once, or withheld on purpose |
| `HeldIsKnownHolds` | `HeldIsKnown`: with the last report in, the left board holds what is held |
| `IdentityIsHeardHolds` | `IdentityIsHeard`: a device that was there is taken for what it is |
| `TimedHoldsEndHolds` | `TimedHoldsEnd`: masks, taps and clicks end with their time, and the next report shows all that was held |

Assumptions, in `KeyboardBox`, evaluated by TLC: `TimesAssumption` (a mask and
the longest pause of the loop are shorter than half the clock's range, within which
a signed comparison of times means anything; the identity is repeated more often
than the wait for it lasts), `FatesAssumption`, `DevicesAssumption` and
`CommandsAssumption` (what `handleCommand` can read from a payload).  The last
three theorems have the hypothesis `"last" \notin Fates`: no frame arrives with
its last payload byte changed, which the checksum of the wire does not cover
(section 5).  The first two need no such thing.

`IInv` are types and four histories: `MaskRuns`, `TapRuns` and `ClickRuns` say
how far ahead a deadline is, or how long ago it was, in terms of the time the
property counts for itself; a deadline that is past is one for at most as long as
the loop can have been away (`stalled`), and so still reads as past
(`ReachedIs`).  `Asked` says that a button is down because it was asked for or
clicked.  `KnownInv` is about the wire:

* `HeardLast`: the last report on the wire, wherever it is, tells what is held now;
* `HeldKept`: with no report on the wire, the left board holds what is held, or
  some of it, or knows that a report was lost (`missed`);
* `GhostRests`: a ghost holds nothing;
* `Underway`: an identity that was not heard yet is on the wire, or the next one
  is due before the wait ends.

The merge is a fold of `Insert` over the slots.  `MergeShows` says for any number
of slots that it shows nothing but what was merged, and all of it if there are
slots enough, which the loop of `mergeFrom` does not say anywhere; `RealShown`,
the part the mask's end needs, follows.  That is an induction over the slots.
The library's induction theorems take an operator as a parameter and cannot be used; `Least`
derives from `WFMin` that a set of naturals has a least element, and `Induction`
says the same about a set instead of an operator.  `FoldExists` shows with it
that the recursive function behind `FoldLeft` exists.

### What is only model-checked

All liveness: fairness and ENABLED are beyond the prover.  That are
`NoCallOrMoveIsStranded`, `EveryTickEnds`, `ScriptsEnd`, `StopsWhole`,
`NothingIsForgotten`, `ReleaseEnds`, `LocksFollow` and the box's `SeenInTheEnd`.
Every other property of a passing run is proved.

## 5. What the code does not do

### Listed as findings

* `session_lost_stop` refutes `StopsWhole`: `TrtDetector::initialize` sets
  `shouldExit = false` (`trt_detector.cpp:671`), also on the detector's own
  thread when the model is switched.  A `requestExit` between the thread's check
  and that line is lost; the thread waits for frames that no longer come, and `stop`
  waits for the thread with the session's mutex held.
* `blocking_away` refutes `LocksFollowAlways`: when a blocking is switched off
  (or the hotkey group changed) while the line to the box is down, `update()`
  finds nothing wanted and therefore nothing missing: `connected` starts as
  `!wanted` (`hotkey_blocking.cpp:208`), nothing is sent, nothing fails, `retry`
  stays false (`:263`), the status says that nothing is blocked (`:271`).  When
  the line is back the buttons are still blocked, until the settings change
  again.  `docs/宏编排.md:113` says that only the bindings of the current group
  are in effect.  (The axes are looked at every half second and recover.)

### Met on the way

These statements are definitions at the end of their modules.  To see one
refuted, take the configuration named, change what the row says and list the
statement.

| Statement | Where it is said | How it fails | To see it |
|---|---|---|---|
| `AlwaysHeldLongEnough` | `rule_schema.h:56`: conditions must hold that long | a suppressed tick stores that the conditions hold but not since when; the next tick sees no rise and measures the debounce from an older one (`rule_logic.h:173`) | `Gate.cfg`, `RuleSet <- Debounces` |
| `ExclusionHoldsForAll` | `docs/宏编排.md:97`, `rule_schema.h:52` | calls check only their own family: a called rule that is not parallel runs beside another | `Macro.cfg`, `Configurations <- OneUser` |
| `SizesMatch` | `_recovered/control-architecture.md:44` | the resolution is read by the control worker when it uses the batch, and may be newer than the batch | `SessionSafety.cfg`, `MaxFrames = 2`, `MaxOperations = 1` |
| `SwitchNotForgotten` | `config_bridge.cpp:202` | the change flag is cleared after the load (`trt_detector.cpp:1440`); a change during it is lost | `SessionSafety.cfg`, `MaxOperations = 1`, `MaxChanges = 2` |
| `OutOfZoneStopsAtOnce` | `docs/控制层调参手册.md:51`: shooting stops at once when a target in sight leaves the zone | the code gives it the grace of a lost target (`aim_loop.cpp:1153`) | `Trigger.cfg` |
| `TapsOnceForAll` | `trigger_release.h:14`: keep the open scope, so that the next hit does not shut it | with a weapon switch or flash scanning, or when the trigger is switched off, the scope's state is dropped (`aim_loop.cpp:283`), though the game's scope is open; a reset of the session drops it too (`:1400`), and so do the two cases below | `Trigger.cfg` (the cases below); for the others add `[TapScope EXCEPT !.switch = TRUE]` to `SafetyProfiles` |
| `TapsOnceAfterMacro` | `aim_loop.cpp:192`: a tapped scope sticks until the hotkey is released or the weapon switched | `prepareForMacro` forgets the scope (`:1457`, a tap has no button to release) and clears `g_scopeTapped` (`:1468`), while the game's scope stays open; the next hit after the macro, with the same hotkey held, taps it shut | `Trigger.cfg` |
| `TapsOnceAfterFailure` | `trigger_release.h:14` | a press that is reported as failed but took effect is rolled back (`aim_loop.cpp:1182`); the next hit taps again and shuts what it had opened | `Trigger.cfg` |
| `FlashIsReleased` | `macro_engine.cpp:141`: uncertain presses are kept for a release after a failure of the transport | true of `button()`; `beginFlash` clears `flash.active` when the press fails and sends no release (`:172`), so a key that went down stays down and neither the ledger nor the pulse knows it | `Macro.cfg` |
| `EngagedMeansHeld` | `aim_loop.cpp:197` | replacing the device releases its right button (`:1424`) and leaves the scope engaged | `Trigger.cfg` |
| `ReleasedAnyway` | `aim_loop.cpp:236` | without detections there is no tick (`:425`), and the button of a released hotkey stays down | `Trigger.cfg` |
| `StopEnds` of a continuous stop | `aim_loop.cpp:266` | a lifting that fails at the release is not tried again by the ticks that see no hotkey | `Trigger.cfg`, `StopEnds` without its condition on the phase |
| `ClickIsReleased` | `makcu_link.cpp:179`: a click is released by itself when due | a second click overwrites `g_clickBits`, and the first button stays down (`:185`); a deadline of 0 reads as none (`:471`) | `KeyboardBox.cfg` |
| `HeldIsKnown`, last byte damaged | `kbd_wire.h:92`: the checksum covers the payload | 2+plen bytes from the length on leave the last payload byte out (`makcu_proto.h:119` has it right, with 3+plen): a sixth key is held that nobody pressed, or a role is changed | `KeyboardBox.cfg`, `Fates = {"whole", "last"}`, `MaxCommands = 1` |
| `UndoneInTheEnd` | `mouse_driver.cpp:371`: treat the key as possibly masked and undo it | an undo that fails too leaves the key masked with the automatic stop inactive; nobody tries again before the next masking, unless the blocking has a reason to look | `KmboxMasks.cfg`, `SPECIFICATION FairSpec`, `MaxFaults = 2`, `MaxChanges = 0` |
| `NothingForgotten` | `hotkey_blocking.cpp:159`: what `clear()` could not lift is left to the driver's destructor | `DevicePause` also runs when no driver is replaced (`aim_loop::reset`): the lock stays, the blocking has forgotten it, and only the end of the program tries again | `HotkeyBlocking.cfg` |

Read in the code, not modelled: whether a mask is on is uncertain after a
failure in `prepareForMacro` (`aim_loop.cpp:1464`); a left press reported as
failed may have happened and is not taken back (`:1302`); between two pulses of
a mask that expires by itself there is a gap (`auto_stop.h:44`); a jump out of a
loop leaves its counters (`rule_executor.h:289`).  In the keyboard box:
`usb_hid.cpp:117` says that a displacement cut to 127 is sent on by the caller,
which clears it (`makcu_link.cpp:521`); a lost report is not corrected "within
20 ms" (`:369`) but by the next report, whenever that comes; a text command that
lost its newline runs together with the next one; a device whose reports begin
with a Report ID is read with the wrong offset.  In the blocking: a release
that failed during a change of the device leaves its lock certain, so that
after changing back a wish to have it is not sent again
(`hotkey_blocking.cpp:57`, the history variable `dropped`); a mouse unplugged
from the box restarts it without the line noticing, and all locks are lost
(`silent`); a box whose answer to `km.hotkeycaps()` is late after a
reconnection cannot be unlocked for the whole session (`MakcuNew.cpp:122`); a
lost frame of the button stream leaves a button "held" until it is pressed
again, because re-subscribing sends no state (`MakcuNew.cpp:244` and `:564`
contradict one another; the firmware agrees with `:564`).

## 6. Not modelled, and what could come next

Built: the six groups of the desktop program's core (pipeline, macros, gate,
flow, session, trigger), the blocking with its driver and box, the masks of
KMBoxNet, the keyboard box; the proofs of the safety of all of them.

The models cover the control of these parts.  Most of the repository's lines
are something else, and stay out on purpose: arithmetic on reals (controller,
tracker, feed-forward), tensors and images (detector engine, crosshair, laser),
device and operating system I/O (capture backends, CUDA, WinHTTP), widgets and
the INI file, vendored headers.

What a model checker could still reach, by importance:

1. The key masks of FERRUM and CAT and the locks of MAKCU, under the same `HotkeyBlocking`.
2. The slots: `InterruptibleSlot`, `ndi/latest_slot.h`, the mailbox of
   `auto_capture.cpp`, the pool of `GpuReadyEvent`, each against one abstract
   latest-value slot, which `MovePort` resembles.
3. `MotionFeedbackWindow`: each send in exactly one interval between frames.
4. Hotkey selection and the secondary latch; the flash scan
   (`trigger_flash_post.h`), then put under `TriggerOutput` instead of its input.
5. Evaluation of conditions (three-valued), put under `RuleGate`.
6. Publication of configuration and live tuning.

Theorems worth proving next: measures that every step lowers, which carry the
safety part of the liveness properties; first the one of `ScriptsEnd` (loops by
what is left of their count, the outer ones first, then the place), whose
well-founded order can be built with `WellFoundedInduction`.
