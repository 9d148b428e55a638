---------------------------- MODULE TriggerOutput ----------------------------
(***************************************************************************)
(* What the automatic trigger does to the buttons and to the keyboard:     *)
(* the output half of aim_loop::tick with releaseHeldButtons,              *)
(* releaseTargetButtons, reset, resetMouse and prepareForMacro             *)
(* (runtime/aim_loop.cpp), over the three machines of TriggerParts, and    *)
(* the thread that changes weapons after a shot (mouse/weapon_switch31.h). *)
(*                                                                         *)
(* All but that thread runs under macros::outputMutex, so one call is one  *)
(* step.  tick runs when a batch of detections arrived, and only then; what*)
(* it makes of the batch (aiming, target choice, flash scan) is the input  *)
(* obs.  In one call of tick at most one kind of device command fails, and *)
(* a failed command may have reached the device all the same.              *)
(***************************************************************************)
EXTENDS TriggerParts, FiniteSets

CONSTANTS Profiles,       \* what a hotkey may be configured to do
          NoHotkey,       \* no hotkey is held
          Keyboard,       \* the device can type (kCapKeyboard)
          MaskCapable,    \* and mask the real keyboard (kCapKeyboardMask)
          Expires,        \* a mask ends by itself (keyboardMaskExpires)
          MaskSpan,       \* after this long (2 s)
          MinHold,        \* the shortest press before a weapon switch (20 ms)
          Macros,         \* bound: macros ask for the device
          Reconnects,     \* bound: the device is replaced
          Stalls,         \* bound: detections may stop coming
          MaxEvents       \* bound: changes of the hotkey or its profile and
                          \* calls in which a command fails, in all

(* A profile: key and second say which hotkey and which trigger of it is   *)
(* meant, aims that it also moves the mouse; delays and grace are times.   *)
IsProfile(p) ==
    /\ p.key \in Nat \ {0} /\ p.fire \in FireModes /\ p.scope \in 0..2 /\ p.stop \in 0..2
    /\ p.flash \in 0..2
    /\ {p.second, p.aims, p.enabled, p.right, p.switch} \subseteq BOOLEAN
    /\ {p.start, p.duration, p.interval, p.grace, p.before, p.after} \subseteq 0..Horizon

ASSUME OutputAssumption ==
    /\ \A p \in Profiles : IsProfile(p)
    /\ NoHotkey \notin Profiles
    /\ {Keyboard, MaskCapable, Expires, Macros, Reconnects, Stalls} \subseteq BOOLEAN
    /\ MaskSpan \in Nat \ {0} /\ MinHold \in 0..Horizon
    /\ MaxEvents \in Nat

VARIABLES loop,   \* the file's globals, the device and the weapon switch
          hot,    \* the profile whose hotkey is held, or NoHotkey
          owned,  \* a macro owns the output (macros::ownsOutput)
          alive,  \* batches of detections keep coming
          left,   \* events of MaxEvents to come
          aux     \* history: what the last step was, how long no hit was seen,
                  \* and what the taps have made of the game's scope

vars == <<loop, hot, owned, alive, left, aux>>

Verbs == {"leftDown", "leftUp", "rightDown", "rightUp", "mask", "unmask"}
Part(verb) == IF verb \in {"leftDown", "leftUp"} THEN "left"
              ELSE IF verb \in {"rightDown", "rightUp"} THEN "right" ELSE "mask"

(* What a batch shows: the batch of before, a clock step dtIsUsable        *)
(* rejects, no target, an aim target only, a trigger target off and in its *)
(* zone; flash scanning that holds the trigger back with its target in     *)
(* sight or lost.                                                          *)
Seen == {"old", "late", "none", "aim", "seen", "zone", "turn", "lost"}
Misses == {"none", "aim", "seen", "lost"}

(***************************************************************************)
(* Device commands.  A failed one leaves its part of the device in doubt   *)
(* until a later one succeeds.  press tells whether the right button went  *)
(* down in this call, and whether the command that did it failed.          *)
(***************************************************************************)
Effect(dev, verb) ==
    CASE verb = "leftDown"  -> [dev EXCEPT !.left = TRUE]
      [] verb = "leftUp"    -> [dev EXCEPT !.left = FALSE]
      [] verb = "rightDown" -> [dev EXCEPT !.right = TRUE]
      [] verb = "rightUp"   -> [dev EXCEPT !.right = FALSE]
      [] verb = "mask"      -> [dev EXCEPT !.mask = IF @ > 0 THEN @ ELSE MaskSpan]
      [] verb = "unmask"    -> [dev EXCEPT !.mask = 0]

Works(s, verb) == s.fault # verb
Felt(s, verb)  == Works(s, verb) \/ s.took
Press(s, verb) == IF verb = "rightDown" /\ ~s.dev.right /\ Felt(s, verb)
                  THEN (IF Works(s, verb) THEN "done" ELSE "failed") ELSE s.press
Send(s, verb) ==
    [s EXCEPT !.dev = IF Felt(s, verb) THEN Effect(@, verb) ELSE @,
              !.press = Press(s, verb),
              !.doubt = IF Works(s, verb) THEN @ \ {Part(verb)} ELSE @ \cup {Part(verb)}]

If(cond, s, then(_)) == IF cond THEN then(s) ELSE s

LeftUp(s)  == Send(s, "leftUp")
RightUp(s) == Send(s, "rightUp")

(* if (maskRealKeyboard(0)) g_autoStop.reset()                             *)
Unmask(s) == [Send(s, "unmask") EXCEPT !.stop = IF Works(s, "unmask") THEN NoStop ELSE @]

(* if (maskRealKeyboard(2000)) g_autoStop.mark...                          *)
MaskAs(s, stop) == [Send(s, "mask") EXCEPT !.stop = IF Works(s, "mask") THEN stop ELSE @]

Preparing(s) == s.stop.phase = "preparing"
LastingOn(s) == s.stop.phase = "continuous"
Active(s)    == s.stop.phase # "idle"

EndPreparing(s) == Unmask([s EXCEPT !.stop = Fired(0)])

EndStop(s) == IF Preparing(s) THEN EndPreparing(s) ELSE If(LastingOn(s), s, Unmask)

ResetTrigger(s) == [s EXCEPT !.fsm = Reset(@)]
LetGo(s) == LET t == ForceRelease(s.scope)
            IN If("release" \in t.act, [s EXCEPT !.scope = t.scope], RightUp)

(* A right release that is tried again at the next tick when it fails.     *)
RightUpRetried(s) ==
    LET r == RightUp(s) IN IF Works(s, "rightUp") THEN r ELSE [r EXCEPT !.scope = Retry(@)]

Busy(s) == s.switch > 0

(* A change of weapons is asked for; one that is running is not restarted. *)
Request(s) == IF Busy(s) THEN s ELSE [s EXCEPT !.switch = 1]

FinishSwitch31Shot(s) == Request([LetGo(s) EXCEPT !.tapped = FALSE])

(* completeShot of a shot without and with a weapon switch.                *)
CompleteShot(s)  == LeftUp(s)
CompleteSwitch(s) == FinishSwitch31Shot(LeftUp(s))

ReleaseHeldButtons(s) ==
    EndStop(If(Pressed(s.fsm), LetGo(ResetTrigger(s)), CompleteShot))

(***************************************************************************)
(* releaseTargetButtons: a target is lost, or must not be shot at.  Only a *)
(* loss (grace) may keep what is held, and a profile with a weapon switch  *)
(* keeps nothing.                                                          *)
(***************************************************************************)
(* trigger_release.h: what a lost target takes away, and what when nothing *)
(* may be kept.                                                            *)
ReleaseOnTargetLoss(s, p) ==
    LET keeps == s.scope.mode = p.scope /\ KeepsOn(s.fsm, p.grace)
    IN [keeps |-> keeps,
        fsm   |-> IF keeps THEN Missed(s.fsm, p.grace) ELSE Reset(s.fsm),
        right |-> TickScope(s.scope, keeps /\ s.scope.engaged, TRUE, p.scope, 0)]
Everything(s) == [keeps |-> FALSE, fsm |-> Reset(s.fsm), right |-> ForceRelease(s.scope)]

LetGoOnLoss(s, loss) ==
    LET kept == [s EXCEPT !.fsm = loss.fsm, !.scope = loss.right.scope]
        r == If("release" \in loss.right.act, kept, RightUpRetried)
    IN EndStop(If(Pressed(s.fsm) /\ ~loss.keeps, r, CompleteShot))

(* Variant for mutation: the tap scope is closed with the target.          *)
ReleaseTargetScope(s, p, grace) ==
    LetGoOnLoss(s, IF grace /\ p.enabled /\ ~p.switch
                   THEN [ReleaseOnTargetLoss(s, p) EXCEPT !.right = ForceRelease(s.scope)]
                   ELSE Everything(s))

ReleaseTargetButtons(s, p, grace) ==
    LetGoOnLoss(s, IF grace /\ p.enabled /\ ~p.switch
                   THEN ReleaseOnTargetLoss(s, p) ELSE Everything(s))

(***************************************************************************)
(* The steps of tick, in their order.                                      *)
(***************************************************************************)
(* The timer of a stop after a shot runs in every tick.                    *)
(* Variant for mutation: the timer runs only while a hotkey is held.       *)
AfterShotHeld(s) == If(IsOver(s.stop) /\ s.last # 0, s, Unmask)

AfterShot(s) == If(IsOver(s.stop), s, Unmask)

(* Variant for mutation: nothing is let go.                                *)
DeactivateOnly(s) ==
    IF s.last = 0 THEN s ELSE [s EXCEPT !.last = 0, !.tapped = FALSE, !.second = FALSE]

DeactivateHotkey(s) ==
    IF s.last = 0 THEN s
    ELSE ReleaseHeldButtons([s EXCEPT !.last = 0, !.tapped = FALSE, !.second = FALSE])

(* Another trigger of the hotkey, another way of firing or another hotkey. *)
FlashMode(p) == IF p.enabled THEN p.flash ELSE 0
TakeSecond(s, p) ==
    IF s.second = p.second THEN s
    ELSE [ReleaseHeldButtons(s) EXCEPT !.tapped = FALSE, !.second = p.second]
TakeMode(s, p) ==
    IF s.flash = FlashMode(p) THEN s ELSE [ReleaseHeldButtons(s) EXCEPT !.flash = FlashMode(p)]
TakeKey(s, p) ==
    LET t == [s EXCEPT !.last = p.key]
    IN IF s.last \in {0, p.key} THEN t ELSE ReleaseHeldButtons([t EXCEPT !.tapped = FALSE])
TakeProfile(s, p) == TakeKey(TakeMode(TakeSecond(s, p), p), p)

(* g_trigger.configure                                                     *)
FireMode(p) == IF p.switch THEN "click" ELSE p.fire
Configure(s, p) ==
    IF s.fsm.mode = FireMode(p) THEN s
    ELSE LET t == [s EXCEPT !.fsm = [Reset(@) EXCEPT !.mode = FireMode(p)]]
         IN If(Pressed(s.fsm), t, CompleteShot)

(* The scope; zone is the hit, or a brief miss that is still held.         *)
Allowed(p) == ~p.right
(* Variant for mutation: a press that failed is not taken back.            *)
OpenScopeAnyway(s, p) == Send(s, "rightDown")

OpenScope(s, p) ==
    IF Works(s, "rightDown")
    THEN [Send(s, "rightDown") EXCEPT !.tapped = @ \/ p.scope = 1]
    ELSE LetGo(Send(s, "rightDown"))

Scoped(s, p, zone) ==
    LET t == TickScope(s.scope, zone, Allowed(p) /\ p.enabled, p.scope, p.duration)
        s1 == [s EXCEPT !.scope = t.scope]
        s2 == IF s.scope.mode = p.scope THEN s1
              ELSE If(Pressed(s.fsm), ResetTrigger(s1), CompleteShot)
        s3 == If("release" \in t.act, s2, RightUpRetried)
    IN IF "press" \in t.act THEN OpenScope(s3, p) ELSE s3

(* Automatic stop: its two kinds, and the mask of the continuous one.      *)
Timed(p)   == p.stop = 1 /\ MaskCapable
Lasts(p)   == p.stop = 2 /\ MaskCapable
Before(p)  == IF Timed(p) THEN p.before ELSE 0

KeepMasked(s, p, zone) ==
    LET wanted == Lasts(p) /\ p.enabled /\ zone
        s1 == If(Active(s) /\ ~LastingOn(s), s, Unmask)
        s2 == If(Expires /\ IsStale(s1.stop), s1, Unmask)
    IN IF ~wanted THEN If(LastingOn(s), s, Unmask)
       ELSE IF Active(s2) THEN s2 ELSE MaskAs(s2, Lasting)

(* A mask for a new shot; the one of the shot before is ended first.       *)
Prepare(s) == LET t == If(Active(s), s, Unmask)
              IN IF Active(t) THEN t ELSE MaskAs(t, Prepared)

(* What the trigger asks for, and the mask it needs.                       *)
Pulls(s, p, hit, ready) ==
    LET q == [start |-> p.start, interval |-> p.interval, grace |-> p.grace,
              before |-> Before(p),
              duration |-> IF p.switch /\ Keyboard THEN Longer(p.duration, MinHold)
                           ELSE p.duration]
    IN TickTrigger(s.fsm, hit, ready, q)

Masked(s, p, act) ==
    LET s1 == If(/\ ~Timed(p) \/ s.fsm.phase # "delay"
                 /\ "press" \notin act /\ Preparing(s), s, EndPreparing)
        s2 == If("prepare" \in act /\ Timed(p), s1, Prepare)
    IN If("press" \in act /\ Timed(p) /\ p.before = 0 /\ ~Preparing(s2), s2, Prepare)

StopReady(s, p) == /\ Timed(p) => Preparing(s)
                   /\ Lasts(p) => LastingOn(s)

(* A press that was not sent undoes what was prepared for it.              *)
Refused(s) == If(Preparing(s), ResetTrigger(s), Unmask)

Sent(s, p) ==
    LET s1 == If(Timed(p) /\ Preparing(s), s, LAMBDA t : [t EXCEPT !.stop = Fired(p.after)])
        s2 == If(IsOver(s1.stop), s1, Unmask)
    IN IF p.switch /\ Keyboard THEN ResetTrigger(CompleteSwitch(s2)) ELSE s2

Shot(s, p, act) ==
    LET s1 == If("release" \in act, s, CompleteShot)
    IN IF "press" \notin act THEN s1
       ELSE IF ~StopReady(s1, p) THEN Refused(s1)
       ELSE IF ~Works(s1, "leftDown") THEN Refused(Send(s1, "leftDown"))
       ELSE Sent(Send(s1, "leftDown"), p)

(* The trigger of a profile that is on, with a driver.                     *)
Fire(s, p, hit, zone) ==
    LET ready == Ready(s.scope, Allowed(p), p.scope)
        s1 == KeepMasked(s, p, zone)
        t  == Pulls(s1, p, hit, ready)
    IN Shot(Masked([s1 EXCEPT !.fsm = t.fsm], p, t.act), p, t.act)

(* Only the aim of a profile is on.                                        *)
HoldFire(s, p) ==
    LET s1 == If(Pressed(s.fsm), ResetTrigger(KeepMasked(s, p, FALSE)), CompleteShot)
    IN If(Preparing(s1), s1, EndPreparing)

Act(s, p, obs) ==
    LET hit   == obs = "zone" /\ p.enabled
        grace == IF p.enabled THEN p.grace ELSE 0
        zone  == ZoneHeld(s.fsm, hit, grace)
        s1    == Scoped([s EXCEPT !.fsm = AfterZone(@, hit, grace)], p, zone)
        s2    == IF p.enabled THEN Fire(s1, p, hit, zone) ELSE HoldFire(s1, p)
    IN If(Busy(s2) /\ LastingOn(s2), s2, Unmask)

(* Neither the aim nor the trigger has anything to do.                     *)
Nothing(s, p, obs) ==
    /\ obs # "aim"
    /\ ~(p.enabled /\ (obs \in {"seen", "zone"} \/ LatchedOn(s.fsm)))

Judge(s, p, obs) ==
    LET t == Configure(s, p)
    IN IF obs \in {"turn", "lost"} THEN ReleaseTargetButtons(t, p, obs = "lost")
       ELSE IF Nothing(t, p, obs) THEN ReleaseTargetButtons(t, p, obs \notin {"seen", "zone"})
       ELSE Act(t, p, obs)

(* tick, past ownsOutput, for the hotkey p.                                *)
Observed(s, p, obs) ==
    IF obs = "old" THEN s
    ELSE LET t == IF p.scope = 1 THEN s ELSE [s EXCEPT !.tapped = FALSE]
         IN IF obs = "late" \/ Busy(t) THEN If(LastingOn(t), t, Unmask) ELSE Judge(t, p, obs)

Ticked(s, p, obs) ==
    LET t == AfterShot(s)
    IN IF p = NoHotkey THEN DeactivateHotkey(t)
       ELSE IF ~(p.aims \/ p.enabled) THEN DeactivateHotkey(t)
       ELSE Observed(TakeProfile(t, p), p, obs)

(***************************************************************************)
(* Initial states and actions.                                             *)
(***************************************************************************)
NoFault(s) == [s EXCEPT !.fault = "none", !.took = FALSE, !.press = "none"]
Device0 == [left |-> FALSE, right |-> FALSE, mask |-> 0]
Trigger0 == [phase |-> "idle", mode |-> "smart", started |-> FALSE, due |-> 0, lost |-> Never]
Scope0 == [engaged |-> FALSE, pending |-> FALSE, mode |-> 0, tap |-> 0]

Init ==
    /\ loop = [fsm |-> Trigger0, scope |-> Scope0, stop |-> NoStop, tapped |-> FALSE,
               last |-> 0, second |-> FALSE, flash |-> 0, dev |-> Device0, doubt |-> {},
               switch |-> 0, fault |-> "none", took |-> FALSE, press |-> "none"]
    /\ hot = NoHotkey /\ owned = FALSE /\ alive = TRUE
    /\ left = MaxEvents
    /\ aux = [did |-> "start", missing |-> Never, renewed |-> FALSE, press |-> "none",
              by |-> NoHotkey, game |-> "shut"]

Did(what) == aux' = [aux EXCEPT !.did = what, !.press = "none"]

(* A batch arrived; tick returns at once while a macro owns the output.    *)
(* A hotkey that is not held sees nothing of the batch.                    *)
Visible(obs) ==
    IF hot = NoHotkey THEN obs = "none"
    ELSE /\ obs = "aim" => hot.aims
         /\ obs \in {"turn", "lost"} => FlashMode(hot) # 0

NowMissing(obs) ==
    IF hot = NoHotkey \/ obs \in {"old", "late", "turn"} THEN aux.missing
    ELSE IF obs = "zone" THEN Never
    ELSE IF aux.missing = Never THEN 0 ELSE aux.missing

(* The game's scope as the player sees it: every press of a profile that   *)
(* taps opens or closes it, a weapon switch closes it, and without the     *)
(* hotkey that opened it (by) it is his own affair.  An open one is "open" *)
(* unless something happened by which the code loses track of it.          *)
MayTap(p) == p.scope = 1 /\ p.enabled /\ ~p.right /\ ~p.switch /\ FlashMode(p) = 0
StillHeld == /\ aux.by # NoHotkey /\ hot # NoHotkey
             /\ hot.scope = 1 /\ (hot.aims \/ hot.enabled)
             /\ hot.key = aux.by.key /\ hot.second = aux.by.second

GameScope(t) ==
    LET tapped == t.press # "none" /\ hot # NoHotkey /\ hot.scope = 1
        lost   == IF MayTap(hot) THEN "open" ELSE "other"
    IN IF Busy(t) \/ StillHeld = tapped THEN [by |-> NoHotkey, game |-> "shut"]
       ELSE IF tapped THEN [by |-> hot, game |-> IF t.press = "done" THEN lost ELSE "failed"]
       ELSE [by |-> aux.by, game |-> IF aux.game = "open" THEN lost ELSE aux.game]

LosesTrack(what) == IF aux.game = "open" THEN what ELSE aux.game

(* A step in which the commands named fault fail, if any.                  *)
Attempt(fault, took) ==
    /\ took => fault # "none"
    /\ fault # "none" => left > 0
    /\ left' = IF fault = "none" THEN left ELSE left - 1
During(fault, took) == [loop EXCEPT !.fault = fault, !.took = took]

Tick(obs, fault, took) ==
    /\ alive /\ ~owned /\ Visible(obs)
    /\ Attempt(fault, took)
    /\ \E t \in {Ticked(During(fault, took), hot, obs)} :
          /\ loop' = NoFault(t)
          /\ aux' = [did |-> IF hot = NoHotkey THEN "idle" ELSE obs,
                     missing |-> NowMissing(obs), renewed |-> aux.renewed /\ t.scope.engaged,
                     press |-> t.press, by |-> GameScope(t).by, game |-> GameScope(t).game]
    /\ UNCHANGED <<hot, owned, alive>>

(* The keyboard thread, the user and the settings page.                    *)
ChangeHotkey ==
    /\ left > 0
    /\ \E p \in (Profiles \cup {NoHotkey}) \ {hot} : hot' = p
    /\ left' = left - 1
    /\ Did("change")
    /\ UNCHANGED <<loop, owned, alive>>

(* Time passes for every timer.                                            *)
Pass ==
    /\ loop' = [loop EXCEPT !.fsm.due = Less(@, 1), !.fsm.lost = Since(@, 1),
                            !.scope.tap = Less(@, 1), !.stop.left = Less(@, 1),
                            !.dev.mask = IF Expires THEN Less(@, 1) ELSE @]
    /\ aux' = [aux EXCEPT !.did = "pass", !.missing = Since(@, 1), !.press = "none"]
    /\ UNCHANGED <<hot, owned, alive, left>>

(* The weapon switch: wait, 3, 1, 1, 1, settle.  A key that cannot be sent *)
(* ends it, a 1 after the settling time only.                              *)
SwitchKey ==
    /\ Busy(loop)
    /\ loop' = [loop EXCEPT !.switch = IF @ = 5 THEN 0 ELSE @ + 1]
    /\ Did("switch")
    /\ UNCHANGED <<hot, owned, alive, left>>

SwitchKeyFails ==
    /\ loop.switch \in 1..4
    /\ loop' = [loop EXCEPT !.switch = IF @ = 1 THEN 0 ELSE 5]
    /\ Did("switch")
    /\ UNCHANGED <<hot, owned, alive, left>>

(* prepareForMacro, refused during a weapon switch.                        *)
Given(s) ==
    LET s1 == LetGo(If(Pressed(s.fsm), ResetTrigger(s), LeftUp))
    IN [If(Active(s1), s1, LAMBDA t : Send(t, "unmask"))
        EXCEPT !.stop = NoStop, !.tapped = FALSE]

PrepareForMacro(fault, took) ==
    /\ Macros /\ ~owned /\ ~Busy(loop)
    /\ Attempt(fault, took)
    /\ loop' = NoFault(Given(During(fault, took))) /\ owned' = TRUE
    /\ aux' = [aux EXCEPT !.did = "macro", !.press = "none", !.game = LosesTrack("macro")]
    /\ UNCHANGED <<hot, alive>>

(* The macro gives the output back (finishMacroControl).                   *)
FinishMacroControl ==
    /\ owned /\ owned' = FALSE
    /\ Did("macro")
    /\ UNCHANGED <<loop, hot, alive, left>>

(* resetMouse, under a DevicePause that ends the macro: all is let go, and *)
(* the thread of the weapon switch ends with its MouseThread.  The trigger *)
(* and the scope keep their state.                                         *)
Freed(s) ==
    LET s1 == RightUp(LeftUp(If(Active(s), s, LAMBDA t : Send(t, "unmask"))))
    IN [s1 EXCEPT !.switch = 0, !.stop = NoStop]

ResetMouse(fault, took) ==
    /\ Reconnects
    /\ Attempt(fault, took)
    /\ loop' = NoFault(Freed(During(fault, took))) /\ owned' = FALSE
    /\ aux' = [aux EXCEPT !.did = "reset", !.press = "none",
                          !.renewed = loop'.scope.engaged]
    /\ UNCHANGED <<hot, alive>>

(* reset, when a session ends or begins.                                   *)
ResetSession(fault, took) ==
    /\ Reconnects
    /\ Attempt(fault, took)
    /\ loop' = [NoFault(Freed(During(fault, took)))
                 EXCEPT !.fsm = Reset(@), !.scope = ForceRelease(@).scope,
                        !.flash = 0, !.last = 0, !.second = FALSE, !.tapped = FALSE]
    /\ alive' = TRUE /\ owned' = FALSE
    /\ aux' = [aux EXCEPT !.did = "reset", !.press = "none", !.game = LosesTrack("session")]
    /\ UNCHANGED hot

(* The capture hangs or the detector stops: no more batches.               *)
Stall ==
    /\ Stalls /\ alive /\ alive' = FALSE
    /\ Did("stall")
    /\ UNCHANGED <<loop, hot, owned, left>>

Faults == {"none"} \cup Verbs
AnyTick == \E obs \in Seen, fault \in Faults, took \in BOOLEAN : Tick(obs, fault, took)

Next ==
    \/ AnyTick \/ ChangeHotkey \/ Pass
    \/ SwitchKey \/ SwitchKeyFails
    \/ \E fault \in Faults, took \in BOOLEAN : PrepareForMacro(fault, took)
    \/ FinishMacroControl
    \/ \E fault \in Faults, took \in BOOLEAN : ResetMouse(fault, took)
    \/ \E fault \in Faults, took \in BOOLEAN : ResetSession(fault, took)
    \/ Stall

Spec == Init /\ [][Next]_vars

(* While detections come the worker ticks for each batch, time passes and  *)
(* the keyboard thread runs.  Ticks are fair as WF_vars(AnyTick) says it,  *)
(* written with the condition that enables one: only a tick sets these did.*)
TickHappens == aux'.did \in Seen \cup {"idle"}
Fairness == /\ []<>~(alive /\ ~owned) \/ []<><<TickHappens>>_aux
            /\ WF_vars(Pass) /\ WF_vars(SwitchKey)
FairSpec == Spec /\ Fairness

(***************************************************************************)
(* Properties.                                                             *)
(***************************************************************************)
TypeOK ==
    /\ loop \in [fsm : Triggers, scope : Scopes, stop : Stops, tapped : BOOLEAN,
                 last : Nat, second : BOOLEAN, flash : 0..2,
                 dev : [left : BOOLEAN, right : BOOLEAN, mask : 0..MaskSpan],
                 doubt : SUBSET {"left", "right", "mask"}, switch : 0..5,
                 fault : {"none"}, took : {FALSE}, press : {"none"}]
    /\ hot \in Profiles \cup {NoHotkey} /\ owned \in BOOLEAN /\ alive \in BOOLEAN
    /\ left \in 0..MaxEvents
    /\ aux.missing \in {Never} \cup 0..Horizon

Certain(part) == part \notin loop.doubt

(* A left button that is down is known to the trigger as pressed, so that  *)
(* some later step releases it; a device command that failed is the only   *)
(* excuse.                                                                 *)
LeftIsOwned == loop.dev.left /\ Certain("left") => Pressed(loop.fsm)

(* A right button that is down belongs to a held scope or to a tap that is *)
(* still to be ended.                                                      *)
RightIsOwned ==
    loop.dev.right /\ Certain("right") =>
        loop.scope.pending \/ (loop.scope.engaged /\ loop.scope.mode = 2)

(* A mask on the real keyboard belongs to a stop that will end it.         *)
MaskIsOwned == loop.dev.mask > 0 /\ Certain("mask") => Active(loop)

(* A tick that sees no hotkey leaves no button down, nothing pressed and   *)
(* no mask is kept ready for a shot.                                       *)
QuietWhenReleased ==
    loop.last = 0 =>
        /\ ~Pressed(loop.fsm) /\ ~loop.scope.engaged /\ ~Preparing(loop)
        /\ Certain("left") => ~loop.dev.left
        /\ Certain("right") => ~loop.dev.right

(* While weapons are changed neither button is down: the scope has been    *)
(* closed and no shot is begun.                                            *)
SwitchIsClean ==
    Busy(loop) => /\ Certain("left") => ~loop.dev.left
                  /\ Certain("right") => ~loop.dev.right

(* A profile with an automatic stop shoots only under its mask, for a      *)
(* device whose mask does not end by itself.                               *)
ShotIsMasked ==
    [][~loop.dev.left /\ loop'.dev.left /\ hot.stop # 0 /\ hot.enabled
       /\ MaskCapable /\ ~Expires /\ loop'.doubt \cap {"left", "mask"} = {}
       => loop'.dev.mask > 0 \/ (Timed(hot) /\ hot.after = 0)]_vars

(* A profile that holds the scope shoots only with the right button down,  *)
(* unless the device was replaced while the scope counted as held: see     *)
(* EngagedMeansHeld.                                                       *)
ShotIsScoped ==
    [][~loop.dev.left /\ loop'.dev.left /\ hot.scope = 2 /\ Allowed(hot) /\ ~hot.switch
       /\ ~aux.renewed => loop'.dev.right]_vars

(* A shot that is held while its target is lost ends with the grace that   *)
(* began at the first miss; further misses do not begin it anew.           *)
GraceIsFixed ==
    aux.did \in Misses /\ Pressed(loop.fsm) /\ loop.fsm.mode = "smart" =>
        aux.missing < hot.grace

(* The game's scope is toggled by a tap: while the hotkey that opened it   *)
(* is held it is not tapped a second time, though targets are lost and     *)
(* found, the device is replaced and other commands fail                   *)
(* (trigger_release.h:14).  Which scope is open is told by the presses     *)
(* themselves, not by what the program remembers.  Left out are a profile  *)
(* with a weapon switch, flash scanning or its trigger off, and a scope of *)
(* which the code has lost track: a macro took the mouse, the session was  *)
(* reset, or the press that opened it was reported as failed.  These are   *)
(* the subject of the TapsOnceFor... and TapsOnceAfter... below.           *)
TapsAgain == aux'.press # "none" /\ StillHeld
TapsOnce == [][TapsAgain /\ MayTap(hot) => aux.game # "open"]_vars

(* When the hotkey is released the buttons come up, unless it is pressed   *)
(* again first, the release itself failed or the detections stop coming    *)
(* (aim_loop.cpp:236).                                                     *)
Trusted == loop.doubt \cap {"left", "right"} = {}
ReleasedInTheEnd ==
    (hot = NoHotkey) ~> \/ hot # NoHotkey \/ ~Trusted \/ ~alive
                        \/ ~(loop.dev.left \/ loop.dev.right)

(* And a stop that is set for a time ends, with its mask lifted, though    *)
(* lifting it has failed before (aim_loop.cpp:378).  Of a continuous stop  *)
(* TLC refutes this, see the README.                                       *)
StopEnds == (hot = NoHotkey /\ loop.stop.phase # "continuous")
                ~> hot # NoHotkey \/ ~alive \/ ~Active(loop)

(* A weapon switch ends.                                                   *)
SwitchEnds == Busy(loop) ~> ~Busy(loop)

(* Types; each button that is down and each mask has an owner, and none is  *)
(* held longer than its grace or into a weapon switch.                     *)
OutputInv == /\ TypeOK /\ LeftIsOwned /\ RightIsOwned /\ MaskIsOwned
             /\ GraceIsFixed /\ SwitchIsClean

(* A shot waits for its scope and for its mask.                            *)
ShotIsReady == ShotIsScoped /\ ShotIsMasked

(* Everything a shot began comes to an end.                                *)
ReleaseEnds == ReleasedInTheEnd /\ StopEnds /\ SwitchEnds

(***************************************************************************)
(* What a document or a comment says and the code does not do: TLC refutes *)
(* each of these, see the README.                                          *)
(***************************************************************************)
(* The same whatever happened to an open scope (trigger_release.h:14); of  *)
(* one that a macro found open, which is to stay so until the hotkey is    *)
(* released or the weapon switched (aim_loop.cpp:192); and of one whose    *)
(* press was reported as failed but took effect, after which the code      *)
(* takes the scope for shut (aim_loop.cpp:1182).                           *)
TapsOnceForAll       == [][~TapsAgain]_vars
TapsOnceAfterMacro   == [][TapsAgain /\ MayTap(hot) => aux.game # "macro"]_vars
TapsOnceAfterFailure == [][TapsAgain /\ MayTap(hot) => aux.game # "failed"]_vars

(* A scope that counts as held is held.  It does not hold after a device   *)
(* was replaced: see the README.                                           *)
EngagedMeansHeld ==
    loop.scope.engaged /\ loop.scope.mode = 2 /\ Certain("right") => loop.dev.right

(* Detections or none: the buttons of a released hotkey come up.  It does  *)
(* not hold, see the README.                                               *)
ReleasedAnyway == (hot = NoHotkey) ~> (hot # NoHotkey \/ ~(loop.dev.left \/ loop.dev.right))

(* A target in sight but out of the zone is not shot at any longer.        *)
OutOfZoneStopsAtOnce ==
    aux.did = "seen" => ~(Pressed(loop.fsm) /\ loop.fsm.mode = "smart")
=============================================================================
