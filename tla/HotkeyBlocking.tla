--------------------------- MODULE HotkeyBlocking ---------------------------
(***************************************************************************)
(* Hotkey blocking: the buttons and axes of the real mouse that the PC     *)
(* locks at the mouse box (hotkey_blocking.cpp), the driver that sends the *)
(* commands over a serial line (MakcuNew.cpp), and the box that carries    *)
(* them out (firmware handleCommands.cpp).                                 *)
(*                                                                         *)
(* The box keeps a lock until it is told to lift it, so what was sent and  *)
(* not confirmed has to be remembered by somebody: the blocking remembers  *)
(* what it applied and what it is unsure of, the driver what it may own,   *)
(* and each of them is replaced or starts anew while the others go on.     *)
(*                                                                         *)
(* Devices: MAKCUNEW, and WINDOWS for one without locks.  The macro        *)
(* engine's mutex lets one of update() and clear() run at a time; between  *)
(* two of their commands the line may be lost and come back, the box       *)
(* restart, the user press buttons and the settings change.                *)
(***************************************************************************)
EXTENDS Integers

CONSTANTS Buttons, Axes,    \* what can be locked
          MaxFaults,        \* commands and lines that fail, boxes that restart
          MaxChanges,       \* settings changed, targets found, devices replaced
          MaxPresses        \* buttons pressed or released by the user

Locks == Buttons \cup Axes

ASSUME LocksAssumption == Buttons \cap Axes = {}
ASSUME BoundsAssumption == {MaxFaults, MaxChanges, MaxPresses} \subseteq Nat

Methods == {"MAKCUNEW", "WINDOWS"}
None == "none"

VARIABLES
    cfg,        \* the settings: [method, want], the buttons to be blocked
    aim,        \* the axes the aiming hotkey wants locked now
    fresh,      \* the settings are not the ones update() saw last
    retry,      \* update() wants to look again later
    applied, unsure,        \* hardwareButtons, axisApplied; uncertain*
    requested,              \* axisRequested
    buttonBackend, buttonGen, axisBackend, axisGen,
    pc, todo, job, ok, pending,     \* the call in progress
    exists, phase, capable, session,    \* the driver and its line
    owned, real,            \* owned*Masks_, realButtons_
    locks, held,            \* the box: what it blocks; what the user holds
    faults, changes, presses,
    \* History: locks given up by clear() and by a destructor, a restart of
    \* the box that went unnoticed, locks the blocking looks after no longer.
    forgotten, orphaned, silent, dropped

settings == <<cfg, aim, changes>>
belief   == <<applied, unsure>>
backends == <<requested, buttonBackend, buttonGen, axisBackend, axisGen>>
call     == <<pc, todo, job, ok, pending>>
line     == <<exists, phase, capable, session>>
user     == <<real, held, presses>>
notes    == <<silent, dropped>>
device   == <<owned, locks, faults, forgotten>>
vars == <<settings, fresh, retry, belief, backends, call, line, user, notes, device,
          orphaned>>

-----------------------------------------------------------------------------
(* The driver.                                                             *)

Open == exists /\ phase # "down"

Fault == faults < MaxFaults /\ faults' = faults + 1

(* A lock or release command: written, then asked back.  What is written   *)
(* may be lost; it may be carried out though the answer is late.           *)
Ask(l, on, yes) ==
    \E done \in BOOLEAN :
        /\ yes => done
        /\ IF yes THEN UNCHANGED faults ELSE Fault
        /\ locks' = IF ~done THEN locks ELSE IF on THEN locks \cup {l} ELSE locks \ {l}
        /\ forgotten' = forgotten \ {l}

(* Mutant: a release counts as done when it is written.                    *)
WriteTrusting(l, on, yes) ==
    IF ~Open THEN ~yes /\ UNCHANGED device
    ELSE IF ~on /\ l \notin owned THEN yes /\ UNCHANGED device
    ELSE IF ~capable THEN ~yes /\ UNCHANGED device
    ELSE /\ Ask(l, on, yes)
         /\ owned' = IF on THEN owned \cup {l} ELSE owned \ {l}

(* maskPhysicalButton and maskPhysicalAxis, with their answer.             *)
Write(l, on, yes) ==
    IF ~Open THEN ~yes /\ UNCHANGED device
    ELSE IF ~on /\ l \notin owned THEN yes /\ UNCHANGED device
    ELSE IF ~capable THEN ~yes /\ UNCHANGED device
    ELSE /\ Ask(l, on, yes)
         /\ owned' = IF on THEN owned \cup {l} ELSE IF yes THEN owned \ {l} ELSE owned

(* What nobody owns any more stays so until somebody lifts it.             *)
StillOrphaned == orphaned' = orphaned \cap locks'

(* setButton and setAxis: only the backend's own driver takes a command.   *)
Set(backend, l, on, yes) ==
    IF backend = "MAKCUNEW" THEN Write(l, on, yes) ELSE ~yes /\ UNCHANGED device

-----------------------------------------------------------------------------
(* update().                                                               *)

Goto(p, rest) == pc' = p /\ todo' = rest
NoJob  == [method |-> None, want |-> {}, aim |-> {}, fresh |-> FALSE, gen |-> 0]
Return == Goto("idle", {}) /\ job' = NoJob /\ ok' = TRUE /\ pending' = FALSE
Concerned(kind) == (applied \cup unsure) \cap kind
Differs(want, kind) ==
    {l \in kind : (l \in applied) # (l \in want) \/ l \in unsure}

Generation == IF cfg.method = "MAKCUNEW" /\ exists THEN session ELSE 0

(* A tick of the engine finds the settings changed, a retry due or the     *)
(* half second of the axes over.                                           *)
BeginUpdate(axesDue) ==
    /\ pc = "idle"
    /\ job' = [method |-> cfg.method, want |-> cfg.want, aim |-> aim, fresh |-> fresh,
               gen |-> Generation]
    /\ fresh' = FALSE
    /\ IF axesDue \/ axisBackend # cfg.method \/ requested # aim \/ axisGen # Generation
         THEN /\ requested' = aim
              /\ Goto("axesRelease",
                      IF axisBackend # cfg.method THEN Concerned(Axes) ELSE {})
         ELSE UNCHANGED requested /\ Goto("axesDone", {})
    /\ ok' = TRUE /\ pending' = FALSE
    /\ UNCHANGED <<settings, retry, belief, buttonBackend, buttonGen, axisBackend, axisGen, line,
                   user, notes, device, orphaned>>

(* releaseAxes and releaseHardware: what is applied or unsure is lifted    *)
(* and, when that is confirmed, no longer either.  What could not be       *)
(* lifted stays applied, and certain if it was.                            *)
Release(l, backend) ==
    \E yes \in BOOLEAN :
        /\ Set(backend, l, FALSE, yes)
        /\ ok' = (ok /\ yes)
        /\ applied' = IF yes THEN applied \ {l} ELSE applied
        /\ unsure' = IF yes THEN unsure \ {l} ELSE unsure

Releases == {"axesRelease", "buttonsRelease", "clearAxes", "clearAxesAgain",
             "clearButtons", "clearButtonsAgain"}

ReleaseOne ==
    /\ pc \in Releases
    /\ \E l \in todo :
       /\ Release(l, IF l \in Axes THEN axisBackend ELSE buttonBackend)
       /\ todo' = todo \ {l}
       /\ StillOrphaned
       /\ dropped' = IF l \in unsure' \cup applied' THEN dropped \cup {l} ELSE dropped \ {l}
    /\ UNCHANGED <<settings, fresh, retry, backends, pc, job, pending, line, user, silent>>

(* A device that did not let go keeps its axes; otherwise the axes belong  *)
(* to the chosen device, and after a new session of it nothing is sure.    *)
AxesReleased ==
    /\ pc = "axesRelease" /\ todo = {}
    /\ LET again == axisGen # job.gen IN
       IF ~ok THEN Goto("axesDone", {}) /\ UNCHANGED <<belief, axisBackend, axisGen>>
       ELSE /\ axisBackend' = job.method /\ axisGen' = job.gen
            /\ unsure' = IF again THEN unsure \cup (applied \cap Axes) ELSE unsure
            /\ UNCHANGED applied
            /\ IF job.method = "WINDOWS" THEN Goto("axesDone", {})
               ELSE pc' = "axes" /\ todo' = Differs(job.aim, Axes)
                                     \cup IF again THEN applied \cap Axes ELSE {}
    /\ UNCHANGED <<settings, fresh, retry, requested, buttonBackend, buttonGen, job, ok, pending,
                   line, user, notes, device, orphaned>>

(* An axis is unsure until its command is confirmed.                       *)
LockAxis ==
    /\ pc = "axes"
    /\ \E l \in todo, yes \in BOOLEAN :
         LET on == l \in job.aim IN
             /\ Set(job.method, l, on, yes)
             /\ applied' = IF ~yes THEN applied
                           ELSE IF on THEN applied \cup {l} ELSE applied \ {l}
             /\ unsure' = IF yes THEN unsure \ {l} ELSE unsure \cup {l}
             /\ todo' = todo \ {l}
             /\ StillOrphaned
             /\ dropped' = dropped \ {l}
    /\ UNCHANGED <<settings, fresh, retry, backends, pc, job, ok, pending, line, user, silent>>

AxesAreDone == pc = "axesDone" \/ (pc = "axes" /\ todo = {})

(* The buttons' turn, when the settings changed or a retry is due.         *)
BeginButtons ==
    /\ AxesAreDone /\ (job.fresh \/ retry)
    /\ retry' = FALSE /\ ok' = TRUE
    /\ Goto("buttonsRelease", IF buttonBackend # job.method THEN Concerned(Buttons) ELSE {})
    /\ UNCHANGED <<settings, fresh, belief, backends, job, pending, line, user, notes, device,
                   orphaned>>

NotYet ==
    /\ AxesAreDone /\ ~job.fresh
    /\ Return
    /\ UNCHANGED <<settings, fresh, retry, belief, backends, line, user, notes, device, orphaned>>

(* The old device must have let go before the new one is used.             *)
ButtonsReleased ==
    /\ pc = "buttonsRelease" /\ todo = {}
    /\ IF ~ok
         THEN /\ Return /\ retry' = TRUE
              /\ UNCHANGED <<belief, buttonBackend, buttonGen>>
         ELSE /\ buttonBackend' = job.method /\ UNCHANGED <<applied, retry, job, ok, pending>>
              /\ IF job.method = "MAKCUNEW" /\ Open
                   THEN LET again == IF buttonGen # session THEN applied \cap Buttons ELSE {}
                        IN  /\ buttonGen' = session
                            /\ unsure' = unsure \cup again
                            /\ Goto("buttons", Differs(job.want, Buttons) \cup again)
                   ELSE Goto("buttonsDone", {}) /\ UNCHANGED <<unsure, buttonGen>>
    /\ UNCHANGED <<settings, fresh, requested, axisBackend, axisGen, line, user, notes, device,
                   orphaned>>

(* A button that is held is neither locked nor freed.                      *)
Waits(l) == (l \in applied) # (l \in job.want) /\ l \in real

WaitForRelease ==
    /\ pc = "buttons" /\ pending' = TRUE
    /\ \E l \in todo : Waits(l) /\ todo' = todo \ {l}
    /\ UNCHANGED <<settings, fresh, retry, belief, backends, pc, job, ok, line, user, notes,
                   device, orphaned>>

LockButton ==
    /\ pc = "buttons"
    /\ \E l \in todo, yes \in BOOLEAN :
         LET on == l \in job.want IN
             /\ ~Waits(l)
             /\ Set(job.method, l, on, yes)
             /\ applied' = IF on THEN applied \cup {l} ELSE applied \ {l}
             /\ unsure' = IF yes THEN unsure \ {l} ELSE unsure \cup {l}
             /\ ok' = (ok /\ yes)
             /\ todo' = todo \ {l}
             /\ StillOrphaned
             /\ dropped' = dropped \ {l}
    /\ UNCHANGED <<settings, fresh, retry, backends, pc, job, pending, line, user, silent>>

(* Mutant: a button that was held is not looked at again.                  *)
EndUpdateImpatient ==
    /\ \/ pc = "buttonsDone"
       \/ pc = "buttons" /\ todo = {}
    /\ retry' = (~ok \/ (job.want # {} /\ ~pending))
    /\ dropped' = IF pc = "buttonsDone" /\ job.method = "MAKCUNEW" /\ job.want = {}
                    THEN dropped \cup Concerned(Buttons) ELSE dropped
    /\ Return
    /\ UNCHANGED <<settings, fresh, belief, backends, line, user, silent, device, orphaned>>

(* It looks again while anything is wanted, failed or waited for; with     *)
(* nothing wanted a device that is away is not missed, nor is what is      *)
(* still locked there.                                                     *)
EndUpdate ==
    /\ \/ pc = "buttonsDone"
       \/ pc = "buttons" /\ todo = {}
    /\ retry' = (~ok \/ pending \/ job.want # {})
    /\ dropped' = IF pc = "buttonsDone" /\ job.method = "MAKCUNEW" /\ job.want = {}
                    THEN dropped \cup Concerned(Buttons) ELSE dropped
    /\ Return
    /\ UNCHANGED <<settings, fresh, belief, backends, line, user, silent, device, orphaned>>

-----------------------------------------------------------------------------
(* clear(), in a DevicePause: at the end of a session, or to replace the   *)
(* devices.                                                                *)

Pause ==
    /\ pc = "idle" /\ changes < MaxChanges /\ changes' = changes + 1
    /\ Goto("clearAxes", Concerned(Axes))
    /\ ok' = TRUE
    /\ fresh' = TRUE /\ retry' = FALSE
    /\ UNCHANGED <<cfg, aim, belief, backends, job, pending, line, user, notes, device, orphaned>>

(* Each half is tried twice.                                               *)
ClearGoesOn ==
    /\ todo = {} /\ ok' = TRUE
    /\ \/ pc = "clearAxes" /\ ~ok /\ Goto("clearAxesAgain", Concerned(Axes))
       \/ pc = "clearAxes" /\ ok /\ Goto("clearButtons", Concerned(Buttons))
       \/ pc = "clearAxesAgain" /\ Goto("clearButtons", Concerned(Buttons))
       \/ pc = "clearButtons" /\ ~ok /\ Goto("clearButtonsAgain", Concerned(Buttons))
    /\ UNCHANGED <<settings, fresh, retry, belief, backends, job, pending, line, user, notes,
                   device, orphaned>>

(* Mutant: the new device inherits what was not confirmed at the old one.  *)
ClearedKeeps ==
    /\ todo = {}
    /\ \/ pc = "clearButtons" /\ ok
       \/ pc = "clearButtonsAgain"
    /\ UNCHANGED <<belief, backends>>
    /\ forgotten' = owned /\ dropped' = {}
    /\ Return \/ (Goto("destroy", owned) /\ UNCHANGED <<job, ok, pending>>)
    /\ UNCHANGED <<settings, fresh, retry, line, user, silent, owned, locks, faults, orphaned>>

(* Whatever was not confirmed is left to the driver: the devices are kept  *)
(* (aim_loop::reset) or replaced (createInputDevices).                     *)
Cleared ==
    /\ todo = {}
    /\ \/ pc = "clearButtons" /\ ok
       \/ pc = "clearButtonsAgain"
    /\ applied' = {} /\ unsure' = {}
    /\ requested' = {} /\ axisBackend' = None /\ axisGen' = 0
    /\ buttonBackend' = None /\ buttonGen' = 0
    /\ forgotten' = owned /\ dropped' = {}
    /\ Return \/ (Goto("destroy", owned) /\ UNCHANGED <<job, ok, pending>>)
    /\ UNCHANGED <<settings, fresh, retry, line, user, silent, owned, locks, faults, orphaned>>

(* ~MakcuNewConnection lifts what it may own; nobody will try again.       *)
DestroyOne ==
    /\ pc = "destroy"
    /\ \E l \in todo, yes \in BOOLEAN :
          /\ Write(l, FALSE, yes)
          /\ orphaned' = (orphaned \cup IF yes THEN {} ELSE {l}) \cap locks'
          /\ todo' = todo \ {l}
    /\ UNCHANGED <<settings, fresh, retry, belief, backends, pc, job, ok, pending, line, user,
                   notes>>

(* The new driver, for the method that is set now; it may find no box, or  *)
(* one that does not answer that it has locks.                             *)
CreateDevice ==
    /\ pc = "destroy" /\ todo = {}
    /\ Return
    /\ owned' = {} /\ forgotten' = {} /\ real' = {} /\ silent' = FALSE
    /\ \/ /\ cfg.method = "MAKCUNEW"
          /\ exists' = TRUE /\ phase' = "up" /\ session' = 1
          /\ \/ capable' = TRUE /\ UNCHANGED faults
             \/ capable' = FALSE /\ Fault
       \/ /\ IF cfg.method = "MAKCUNEW" THEN Fault ELSE UNCHANGED faults
          /\ exists' = FALSE /\ phase' = "down" /\ session' = 0 /\ capable' = FALSE
    /\ UNCHANGED <<settings, fresh, retry, belief, backends, held, presses, locks, dropped,
                   orphaned>>

-----------------------------------------------------------------------------
(* The line and the box.                                                   *)

(* The reader fails; the box may have lost its power.                      *)
LineLost ==
    /\ exists /\ phase = "up" /\ phase' = "down" /\ Fault
    /\ locks' \in {locks, {}} /\ StillOrphaned
    /\ UNCHANGED <<settings, fresh, retry, belief, backends, call, exists, capable, session,
                   user, notes, owned, forgotten>>

(* tryReconnect: the line counts as open while the box is still asked what *)
(* it can do; the session's number follows, and the buttons are forgotten. *)
Reopen ==
    /\ exists /\ phase = "down" /\ phase' = "opening"
    /\ UNCHANGED <<settings, fresh, retry, belief, backends, call, exists, capable, session,
                   user, notes, device, orphaned>>

Establish ==
    /\ phase = "opening" /\ phase' = "up"
    /\ session' = session + 1 /\ real' = {} /\ silent' = FALSE
    /\ \/ capable' = TRUE /\ UNCHANGED faults
       \/ capable' = FALSE /\ Fault
    /\ UNCHANGED <<settings, fresh, retry, belief, backends, call, exists, held, presses,
                   dropped, owned, locks, forgotten, orphaned>>

(* The mouse is unplugged: the box restarts, and the line does not notice. *)
BoxRestarts ==
    /\ exists /\ phase = "up" /\ Fault
    /\ locks' = {} /\ orphaned' = {} /\ held' = {} /\ real' = {} /\ silent' = TRUE
    /\ UNCHANGED <<settings, fresh, retry, belief, backends, call, line, presses, dropped,
                   owned, forgotten>>

-----------------------------------------------------------------------------
(* The user.                                                               *)

(* The box sends the state of all buttons at each change, once.            *)
Press(b) ==
    /\ presses < MaxPresses /\ presses' = presses + 1
    /\ held' = (held \ {b}) \cup ({b} \ held)
    /\ \/ exists /\ phase = "up" /\ real' = held' /\ UNCHANGED faults
       \/ /\ UNCHANGED real
          /\ IF exists /\ phase = "up" THEN Fault ELSE UNCHANGED faults
    /\ UNCHANGED <<settings, fresh, retry, belief, backends, call, line, notes, owned, locks,
                   forgotten, orphaned>>

Change == changes < MaxChanges /\ changes' = changes + 1

ChangeSettings ==
    /\ Change
    /\ \E m \in Methods, want \in SUBSET Buttons :
          cfg # [method |-> m, want |-> want] /\ cfg' = [method |-> m, want |-> want]
    /\ fresh' = TRUE
    /\ UNCHANGED <<aim, retry, belief, backends, call, line, user, notes, device, orphaned>>

(* A target is found or lost, aiming begins or ends.                       *)
ChangeAim ==
    /\ Change
    /\ \E axes \in SUBSET Axes : axes # aim /\ aim' = axes
    /\ UNCHANGED <<cfg, fresh, retry, belief, backends, call, line, user, notes, device, orphaned>>

-----------------------------------------------------------------------------
Init ==
    /\ \E want \in SUBSET Buttons : cfg = [method |-> "MAKCUNEW", want |-> want]
    /\ aim = {} /\ fresh = TRUE /\ retry = FALSE
    /\ applied = {} /\ unsure = {}
    /\ requested = {} /\ buttonBackend = None /\ buttonGen = 0 /\ axisBackend = None /\ axisGen = 0
    /\ pc = "idle" /\ todo = {} /\ ok = TRUE /\ pending = FALSE
    /\ job = NoJob
    /\ exists = TRUE /\ phase = "up" /\ capable = TRUE /\ session = 1
    /\ owned = {} /\ real = {} /\ locks = {} /\ held = {}
    /\ faults = 0 /\ changes = 0 /\ presses = 0
    /\ forgotten = {} /\ orphaned = {} /\ silent = FALSE /\ dropped = {}

Command == ReleaseOne \/ LockAxis \/ WaitForRelease \/ LockButton \/ DestroyOne
Course  == AxesReleased \/ BeginButtons \/ NotYet \/ ButtonsReleased \/ EndUpdate
           \/ ClearGoesOn \/ Cleared \/ CreateDevice

Next ==
    \/ \E due \in BOOLEAN : BeginUpdate(due)
    \/ Command \/ Course \/ Pause
    \/ LineLost \/ Reopen \/ Establish \/ BoxRestarts
    \/ (\E b \in Buttons : Press(b)) \/ ChangeSettings \/ ChangeAim

Spec == Init /\ [][Next]_vars

(* The engine ticks every few milliseconds, so that the half second of the *)
(* axes and that of a retry are over at some tick; a call that has begun   *)
(* goes on.  A line that is lost may stay lost.                            *)
FairSpec ==
    /\ Spec
    /\ SF_vars(BeginUpdate(TRUE)) /\ SF_vars(BeginButtons)
    /\ WF_vars(Command \/ Course)

-----------------------------------------------------------------------------
(* What must hold.                                                         *)

Places == {"idle", "axesRelease", "axes", "axesDone", "buttonsRelease", "buttons",
           "buttonsDone", "clearAxes", "clearAxesAgain", "clearButtons",
           "clearButtonsAgain", "destroy"}

TypeOK ==
    /\ cfg \in [method : Methods, want : SUBSET Buttons] /\ {aim, requested} \subseteq SUBSET Axes
    /\ {fresh, retry, ok, pending, exists, capable, silent} \subseteq BOOLEAN
    /\ {applied, unsure, todo, owned, locks, forgotten, orphaned, dropped} \subseteq SUBSET Locks
    /\ {buttonBackend, axisBackend} \subseteq Methods \cup {None}
    /\ {buttonGen, axisGen, session} \subseteq Nat
    /\ pc \in Places /\ phase \in {"up", "opening", "down"}
    /\ job \in [method : Methods \cup {None}, want : SUBSET Buttons, aim : SUBSET Axes,
                fresh : BOOLEAN, gen : Nat]
    /\ {real, held} \subseteq SUBSET Buttons
    /\ faults \in 0..MaxFaults /\ changes \in 0..MaxChanges /\ presses \in 0..MaxPresses

(* A lock at the box is known to the driver, which will lift it when it is *)
(* destroyed, or that last command has failed.                             *)
LocksAreOwned == locks \subseteq owned \cup orphaned

(* What the driver may own, the blocking has applied or is unsure of, or   *)
(* has given up in a clear().                                              *)
OwnedIsRemembered ==
    pc # "destroy" => owned \subseteq applied \cup unsure \cup forgotten

(* Types, and no lock is ever in place that nobody would lift.             *)
BlockingInv == TypeOK /\ LocksAreOwned /\ OwnedIsRemembered

BackendOf(l) == IF l \in Axes THEN axisBackend ELSE buttonBackend
GenOf(l)     == IF l \in Axes THEN axisGen ELSE buttonGen

(* A lock the blocking counts as certain is in place, in the very session  *)
(* it was confirmed in; only a restart of the box that nobody noticed, and *)
(* a lock it tried in vain to lift (see LocksFollowAlways), make it wrong. *)
CertainMeansLocked ==
    \A l \in applied \ (unsure \cup dropped) :
        /\ phase = "up" /\ ~silent /\ BackendOf(l) = "MAKCUNEW" /\ GenOf(l) = session
        => l \in locks

Goal  == IF cfg.method = "MAKCUNEW" THEN cfg.want \cup aim ELSE {}
Sound == exists /\ phase = "up" /\ capable /\ ~silent

(* In the end the box blocks what is wanted and nothing else, however      *)
(* commands failed and lines broke on the way.  Left out: a button that is *)
(* reported held, what a clear() has given up or a destructor could not    *)
(* lift, a restart nobody noticed, and what the blocking has dropped,      *)
(* which LocksFollowAlways is about.                                       *)
Follows(S) == \A l \in S \ (forgotten \cup orphaned \cup real) : l \in locks <=> l \in Goal
LocksFollow == <>[](Sound => Follows(Locks \ dropped))

(***************************************************************************)
(* What a document or a comment says and the code does not do: TLC refutes *)
(* each of these, see the README.                                          *)
(***************************************************************************)
(* Nothing is left blocked when the status says that nothing is blocked    *)
(* (hotkey_blocking.cpp:271).                                              *)
LocksFollowAlways == <>[](Sound => Follows(Locks))

(* What clear() could not lift is lifted by the driver's destructor        *)
(* (hotkey_blocking.cpp:159): a pause replaces the driver.                 *)
NothingForgotten == pc = "idle" => forgotten = {}
=============================================================================
