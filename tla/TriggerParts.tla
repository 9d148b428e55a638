---------------------------- MODULE TriggerParts ----------------------------
(***************************************************************************)
(* The three small machines of the automatic trigger, as operators on      *)
(* their states: AmTriggerFsm (mouse/am_trigger.h), ScopeController with    *)
(* the AM rules (mouse/trigger_scope.h) and AutoStopController              *)
(* (mouse/auto_stop.h).                                                    *)
(*                                                                         *)
(* A deadline is the time that is left until it, 0 when it has passed; an  *)
(* instant in the past is the time since then, Never when there is none.   *)
(* The random part of the delays is left out.                              *)
(***************************************************************************)
EXTENDS Integers

CONSTANTS MinPulse,      \* the shortest press and pause of a burst (10 ms)
          MinTap,        \* the shortest tap of the right button (30 ms)
          RefreshAfter,  \* when a continuous mask is renewed (1.5 s)
          Horizon        \* no delay of a profile is longer

ASSUME PartsAssumption ==
    /\ MinPulse \in Nat /\ MinTap \in Nat /\ RefreshAfter \in Nat /\ Horizon \in Nat
    /\ MinPulse <= Horizon /\ MinTap <= Horizon /\ RefreshAfter <= Horizon

Never == -1
Longer(x, y) == IF x >= y THEN x ELSE y
Less(left, d) == IF left > d THEN left - d ELSE 0
Since(then, d) == IF then = Never THEN Never
                  ELSE IF then + d > Horizon THEN Horizon ELSE then + d

(***************************************************************************)
(* AmTriggerFsm.                                                           *)
(***************************************************************************)
FireModes == {"click", "burst", "continuous", "smart"}
Triggers  == [phase : {"idle", "delay", "pressed", "cooldown"}, mode : FireModes,
              started : BOOLEAN, due : 0..Horizon, lost : {Never} \cup 0..Horizon]

Pressed(f)    == f.phase = "pressed"
HoldsOn(f)    == f.mode \in {"continuous", "smart"}          \* holding()
LatchedOn(f)  == f.mode = "continuous" /\ f.started          \* continuousActive()
Shortest(f)   == IF f.mode = "burst" THEN MinPulse ELSE 0    \* minPulse()

Reset(f) == [f EXCEPT !.phase = "idle", !.started = FALSE, !.due = 0, !.lost = Never]

(* keepHoldingOnTargetLoss: its answer, and the state after it was asked.  *)
KeepsOn(f, grace) ==
    /\ Pressed(f) /\ HoldsOn(f)
    /\ f.mode = "continuous" \/ (IF f.lost = Never THEN 0 ELSE f.lost) < grace

(* Variant for mutation: the last miss counts, not the first.              *)
MissedAgain(f, grace) ==
    IF Pressed(f) /\ f.mode = "smart" /\ grace > 0 THEN [f EXCEPT !.lost = 0] ELSE f

Missed(f, grace) ==
    IF Pressed(f) /\ f.mode = "smart" /\ grace > 0 /\ f.lost = Never
    THEN [f EXCEPT !.lost = 0] ELSE f

(* holdZoneOnBriefMiss.                                                    *)
ZoneHeld(f, hit, grace)  == hit \/ KeepsOn(f, grace)
AfterZone(f, hit, grace) == IF hit THEN [f EXCEPT !.lost = Never] ELSE Missed(f, grace)

Does(f, act) == [fsm |-> f, act |-> act]

(* A shot: the first one waits for the start delay and for the auto stop.  *)
Shoot(f, p) ==
    LET wait == IF f.started THEN 0
                ELSE Longer(IF f.mode = "click" THEN 0 ELSE p.start, p.before)
    IN IF wait > 0
       THEN Does([f EXCEPT !.started = TRUE, !.phase = "delay", !.due = wait],
                 IF p.before > 0 THEN {"prepare"} ELSE {})
       ELSE Does([f EXCEPT !.started = TRUE, !.phase = "pressed",
                           !.due = IF HoldsOn(f) THEN 0 ELSE Longer(Shortest(f), p.duration)],
                 {"press"})

(* tick: in and ready say that the crosshair is in the zone and the scope  *)
(* is open; p has the delays.                                              *)
TickTrigger(f, in, ready, p) ==
    IF ~ready \/ ~(in \/ LatchedOn(f) \/ KeepsOn(f, p.grace))
    THEN Does(Reset(f), IF Pressed(f) THEN {"release"} ELSE {})
    ELSE IF ~(in \/ LatchedOn(f)) THEN Does(Missed(f, p.grace), {})
    ELSE LET g == [f EXCEPT !.lost = Never] IN
         CASE g.due > 0 \/ (Pressed(g) /\ HoldsOn(g)) -> Does(g, {})
           [] g.due = 0 /\ Pressed(g) /\ ~HoldsOn(g) ->
                Does([g EXCEPT !.phase = "cooldown", !.due = Longer(Shortest(g), p.interval)],
                     {"release"})
           [] g.due = 0 /\ g.phase = "cooldown" -> Does([g EXCEPT !.phase = "idle"], {})
           [] OTHER -> Shoot(g, p)

(***************************************************************************)
(* ScopeController(true): mode 0 is off, 1 taps the right button, 2 holds  *)
(* it.                                                                     *)
(***************************************************************************)
Scopes == [engaged : BOOLEAN, pending : BOOLEAN, mode : 0..2, tap : 0..Horizon]

Turns(s, act) == [scope |-> s, act |-> act]

ForceRelease(s) ==
    Turns([s EXCEPT !.engaged = FALSE, !.pending = FALSE],
          IF s.pending \/ (s.engaged /\ s.mode = 2) THEN {"release"} ELSE {})

TickScope(s, zone, allowed, mode, delay) ==
    LET tapped  == s.pending /\ s.tap = 0
        pending == s.pending /\ ~tapped
        changed == s.engaged /\ mode # s.mode
        engaged == s.engaged /\ ~changed
        opens   == zone /\ mode > 0 /\ ~engaged
    IN IF ~allowed THEN Turns([ForceRelease(s).scope EXCEPT !.mode = mode], ForceRelease(s).act)
       ELSE Turns([engaged |-> engaged \/ opens, mode |-> mode,
                   pending |-> (pending /\ ~changed) \/ (opens /\ mode = 1),
                   tap |-> IF opens /\ mode = 1 THEN Longer(MinTap, delay) ELSE s.tap],
                  (IF tapped \/ (changed /\ (s.mode = 2 \/ pending)) THEN {"release"} ELSE {})
                  \cup (IF opens THEN {"press"} ELSE {}))

Ready(s, allowed, mode) ==
    \/ ~allowed \/ mode = 0
    \/ s.engaged /\ ~(mode = 1 /\ s.pending)

(* retryTapRelease.                                                        *)
Retry(s) == IF s.mode = 1 /\ s.engaged THEN [s EXCEPT !.pending = TRUE, !.tap = 0] ELSE s

(***************************************************************************)
(* AutoStopController.                                                     *)
(***************************************************************************)
Stops == [phase : {"idle", "preparing", "after", "continuous"}, left : 0..Horizon]

NoStop       == [phase |-> "idle", left |-> 0]
Prepared     == [phase |-> "preparing", left |-> 0]
Fired(after) == [phase |-> "after", left |-> after]
Lasting      == [phase |-> "continuous", left |-> RefreshAfter]
IsOver(s)    == s.phase = "after" /\ s.left = 0              \* shouldCancel
IsStale(s)   == s.phase = "continuous" /\ s.left = 0         \* continuousNeedsRefresh
=============================================================================
