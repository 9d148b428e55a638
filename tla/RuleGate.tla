------------------------------ MODULE RuleGate ------------------------------
(***************************************************************************)
(* When a rule starts: RuleGate::poll and RuleGate::started                *)
(* (Apotheosis/macro/rule_logic.h), called once per tick of the executor   *)
(* with a snapshot of keys, targets, signals and the rule's conditions.    *)
(*                                                                         *)
(* Ticks are suppressed while the editor is open and once after any stop.  *)
(* A start the gate allows may still be refused by the executor; the user  *)
(* may start the rule by hand in any tick.  Every rule of RuleSet is       *)
(* checked; MaxTime bounds the clock.                                      *)
(***************************************************************************)
EXTENDS Integers, FiniteSets

CONSTANTS RuleSet,       \* rules to check
          Targets,       \* identities of targets, numbers from 0
          MaxTime,       \* end of the clock, a bound of the model
          Suppression    \* may ticks be suppressed

NoTarget == -1
Never    == -1000        \* before every time of the model

KeyEvents    == {"key_down", "key_up", "key_held", "click", "double", "triple",
                 "long", "short"}
TargetEvents == {"target_found", "target_lost", "target_first",
                 "target_reacquire", "target_held", "target_switch"}
SignalEvents == {"signal_on", "signal_off"}
OtherEvents  == {"conditions", "timer", "cooldown"}

ASSUME RuleSetAssumption ==
    RuleSet \subseteq
        [event : KeyEvents \cup TargetEvents \cup SignalEvents \cup OtherEvents,
         gesture : Nat, timer : Nat, cooldown : Nat, debounce : Nat,
         interval : Nat, level : BOOLEAN, keyLock : BOOLEAN,
         targetLock : BOOLEAN, maxCount : Nat, window : Nat, windowCount : Nat]
ASSUME GateBounds == Targets \subseteq Nat /\ MaxTime \in Nat /\ Suppression \in BOOLEAN

(* What a tick sees: the chord of the trigger (all of it, any key of it),  *)
(* the rule's conditions, the nearest target and one signal, whose value   *)
(* may be unknown.                                                         *)
Snapshots == {s \in [all : BOOLEAN, any : BOOLEAN, condition : BOOLEAN,
                     target : Targets \cup {NoTarget},
                     signal : {"unknown", "off", "on"}] : s.all => s.any}

VARIABLES rule,      \* the rule this gate belongs to
          gate,      \* the fields of RuleGate
          now,       \* time of the last tick
          held,      \* history: since when every tick saw the conditions hold
          log,       \* history: times of the starts by trigger and by hand
          armed,     \* history: what happened since the last start by trigger
          fired      \* history: the last tick started the rule by its trigger

vars == <<rule, gate, now, held, log, armed, fired>>

Blank == [all |-> FALSE, any |-> FALSE, condition |-> FALSE,
          target |-> NoTarget, signal |-> "unknown"]

(* What a rule does not look at stays as in Blank.                         *)
Looks(r, s) ==
    /\ r.event \notin KeyEvents /\ ~r.keyLock => ~s.any
    /\ r.event \notin TargetEvents /\ ~r.targetLock => s.target = NoTarget
    /\ r.event \notin SignalEvents => s.signal = "unknown"

FreshGate ==
    [ready |-> FALSE, previous |-> Blank, before |-> 0, everTarget |-> FALSE,
     longFired |-> FALSE, keyLocked |-> FALSE, pending |-> FALSE,
     lockedTarget |-> NoTarget, clicks |-> 0, starts |-> 0, pressedAt |-> 0,
     lastClick |-> 0, lastStart |-> Never, enabledAt |-> 0,
     conditionSince |-> 0, recent |-> {}]

Found(s) == s.target # NoTarget
AtLeastOne(n) == IF n < 1 THEN 1 ELSE n

(* started(): the executor accepted a start.  The queue of recent starts   *)
(* is the set of their numbers and times.                                  *)
Started(g, s, t) ==
    [g EXCEPT !.starts = @ + 1, !.lastStart = t, !.recent = @ \cup {<<g.starts, t>>},
              !.keyLocked = rule.keyLock,
              !.lockedTarget = IF rule.targetLock THEN s.target ELSE @]

(* Variant for mutation: a suppressed tick remembers nothing.              *)
SuppressedBlind(g, s, t) ==
    IF g.ready THEN [g EXCEPT !.before = t, !.pending = FALSE]
    ELSE [g EXCEPT !.ready = TRUE, !.before = t, !.enabledAt = t, !.conditionSince = t]

(* A suppressed tick, and the first one, only remember what they saw.      *)
Suppressed(g, s, t) ==
    [g EXCEPT !.ready = TRUE, !.previous = s, !.before = t, !.pending = FALSE,
              !.enabledAt = IF g.ready THEN @ ELSE t,
              !.conditionSince = IF g.ready THEN @ ELSE t,
              !.pressedAt = IF s.all THEN t ELSE @,
              !.everTarget = IF rule.event = "target_first" THEN @ ELSE @ \/ Found(s)]

(* Variant for mutation: the lock opens when any key is released.          *)
ObservedLoosely(g, s, t) ==
    LET press == s.all /\ ~g.previous.all
        open  == [g EXCEPT
            !.keyLocked = @ /\ s.all,
            !.lockedTarget = IF ~Found(s) \/ @ # s.target THEN NoTarget ELSE @]
    IN  IF ~press THEN open
        ELSE [open EXCEPT !.pressedAt = t, !.longFired = FALSE, !.lastClick = t,
                !.clicks = IF t - g.lastClick <= rule.gesture THEN @ + 1 ELSE 1]

(* Locks that the snapshot opens, and the bookkeeping of a press.          *)
Observed(g, s, t) ==
    LET press == s.all /\ ~g.previous.all
        open  == [g EXCEPT
            !.keyLocked = @ /\ s.any,
            !.lockedTarget = IF ~Found(s) \/ @ # s.target THEN NoTarget ELSE @]
    IN  IF ~press THEN open
        ELSE [open EXCEPT !.pressedAt = t, !.longFired = FALSE, !.lastClick = t,
                !.clicks = IF t - g.lastClick <= rule.gesture THEN @ + 1 ELSE 1]

(* Did the event of the rule happen in this tick?  g is the gate after     *)
(* Observed, p the snapshot of the tick before.                            *)
Happened(g, s, t) ==
    LET p       == g.previous
        press   == s.all /\ ~p.all
        release == ~s.all /\ p.all
    IN  CASE rule.event = "key_down" -> press
          [] rule.event \in {"key_up", "click"} -> release
          [] rule.event = "key_held" -> s.all
          [] rule.event = "double" -> press /\ g.clicks = 2
          [] rule.event = "triple" -> press /\ g.clicks = 3
          [] rule.event = "long" -> /\ s.all /\ ~g.longFired
                                    /\ t - g.pressedAt >= rule.gesture
          [] rule.event = "short" -> release /\ t - g.pressedAt < rule.gesture
          [] rule.event = "target_found" -> Found(s) /\ ~Found(p)
          [] rule.event = "target_lost" -> ~Found(s) /\ Found(p)
          [] rule.event = "target_first" -> Found(s) /\ ~g.everTarget
          [] rule.event = "target_reacquire" -> Found(s) /\ ~Found(p) /\ g.everTarget
          [] rule.event = "target_held" -> Found(s)
          [] rule.event = "target_switch" -> Found(s) /\ Found(p) /\ s.target # p.target
          [] rule.event = "signal_on" -> s.signal = "on" /\ p.signal # "on"
          [] rule.event = "signal_off" -> s.signal = "off" /\ p.signal = "on"
          [] rule.event = "conditions" -> s.condition /\ (rule.level \/ ~p.condition)
          [] rule.event = "timer" -> /\ t - g.lastStart >= AtLeastOne(rule.timer)
                                     /\ t - g.enabledAt >= AtLeastOne(rule.timer)
          [] rule.event = "cooldown" ->
                /\ g.lastStart > 0
                /\ t - g.lastStart >= AtLeastOne(rule.cooldown)
                /\ g.before - g.lastStart < AtLeastOne(rule.cooldown)

(* Variant for mutation: the time of the conditions is never reset.        *)
DebouncedOnce(g, s, t, happened) ==
    [g EXCEPT !.everTarget = @ \/ Found(s),
              !.pending = s.condition /\ (@ \/ happened)]

(* The event is kept until the conditions have held long enough, and lost  *)
(* when they fail.                                                         *)
Debounced(g, s, t, happened) ==
    [g EXCEPT
        !.clicks = IF happened /\ rule.event \in {"double", "triple"} THEN 0 ELSE @,
        !.longFired = IF happened /\ rule.event = "long" THEN TRUE ELSE @,
        !.everTarget = @ \/ Found(s),
        !.conditionSince = IF s.condition /\ ~g.previous.condition THEN t ELSE @,
        !.pending = s.condition /\ (@ \/ happened),
        !.recent = {e \in @ : t - e[2] < AtLeastOne(rule.window)}]

Due(g, s, t) == g.pending /\ s.condition /\ t - g.conditionSince >= rule.debounce

Limited(g, s, t) ==
    \/ g.keyLocked
    \/ rule.targetLock /\ Found(s) /\ g.lockedTarget = s.target
    \/ rule.maxCount > 0 /\ g.starts >= rule.maxCount
    \/ rule.windowCount > 0 /\ Cardinality(g.recent) >= rule.windowCount
    \/ LET pause == IF rule.event \in {"key_held", "target_held"}
                    THEN rule.interval ELSE 0
       IN  t - g.lastStart < (IF pause > rule.cooldown THEN pause ELSE rule.cooldown)

(* poll() on a tick that is not suppressed.                                *)
Polled(g, s, t) ==
    LET seen == Observed(g, s, t)
        new  == Debounced(seen, s, t, Happened(seen, s, t))
        due  == Due(new, s, t)
    IN  [gate  |-> [new EXCEPT !.pending = @ /\ ~due, !.previous = s, !.before = t],
         start |-> due /\ ~Limited(new, s, t)]

(***************************************************************************)
(* A tick: a start by hand, then the poll, then the start it asks for.     *)
(***************************************************************************)
Remember(s, t, suppressed, manual, start) ==
    LET again == suppressed \/ start IN
    /\ held' = IF ~s.condition THEN Never ELSE IF held = Never THEN t ELSE held
    /\ log' = IF manual \/ start THEN log \cup {t} ELSE log
    /\ fired' = start
    /\ armed' = [blind    |-> s.condition /\ IF held = Never THEN suppressed /\ gate.ready
                                              ELSE armed.blind,
                 released |-> ~s.all \/ (armed.released /\ ~again),
                 off      |-> ~s.condition \/ (armed.off /\ ~again),
                 keysUp   |-> ~s.any \/ (armed.keysUp /\ ~start),
                 left     |-> ~start /\ (armed.left \/ s.target # armed.on),
                 on       |-> IF start THEN s.target ELSE armed.on]

ManualStart(s, t, manual) == IF manual THEN Started(gate, s, t) ELSE gate

QuietTick(s, t, manual) ==
    /\ gate' = Suppressed(ManualStart(s, t, manual), s, t)
    /\ Remember(s, t, TRUE, manual, FALSE)

PollTick(s, t, manual) ==
    /\ gate.ready
    /\ LET poll == Polled(ManualStart(s, t, manual), s, t) IN
       \E start \in {FALSE, poll.start} :
        /\ gate' = IF start THEN Started(poll.gate, s, t) ELSE poll.gate
        /\ Remember(s, t, FALSE, manual, start)

Init ==
    /\ rule \in RuleSet /\ gate = FreshGate /\ now = 0
    /\ held = Never /\ log = {} /\ fired = FALSE
    /\ armed = [blind |-> FALSE, released |-> FALSE, off |-> FALSE, keysUp |-> TRUE,
                left |-> TRUE, on |-> NoTarget]

Work ==
    \E s \in Snapshots, t \in {now + 1, now + 2}, manual \in BOOLEAN :
        /\ t <= MaxTime /\ Looks(rule, s)
        /\ now' = t /\ UNCHANGED rule
        /\ \/ (Suppression \/ ~gate.ready) /\ QuietTick(s, t, manual)
           \/ PollTick(s, t, manual)

(* The clock of the model stops at MaxTime.                                *)
Stop == now + 1 > MaxTime /\ UNCHANGED vars

Next == Work \/ Stop

Spec == Init /\ [][Next]_vars

(***************************************************************************)
(* Properties.                                                             *)
(***************************************************************************)
(* Types; a kept event is lost when the conditions fail, locks are only    *)
(* set by rules that ask for them.                                         *)
TypeOK ==
    /\ rule \in RuleSet /\ now \in 0..MaxTime
    /\ gate.previous \in Snapshots
    /\ gate.pending => gate.previous.condition
    /\ gate.keyLocked => rule.keyLock
    /\ gate.lockedTarget # NoTarget => rule.targetLock
    /\ Cardinality(gate.recent) <= gate.starts

(* A chord or a condition that was already there at the last start, or     *)
(* through a suppressed tick (after a stop, while editing), starts nothing *)
(* until it was gone: "松开触发键后可重新触发" of stopAll.                 *)
NothingIsReplayed ==
    [][fired' =>
        /\ rule.event = "key_down" => armed.released
        /\ rule.event = "conditions" /\ ~rule.level => armed.off]_vars

(* A key lock opens only when every key of the chord was up since the last *)
(* start by the trigger.                                                   *)
LockedUntilKeysUp ==
    [][fired' /\ rule.keyLock => armed.keysUp \/ ~gate'.previous.any]_vars

(* A target lock allows one start per target until it is lost or replaced. *)
OneStartPerTarget ==
    [][fired' /\ rule.targetLock /\ Found(gate'.previous)
        => armed.left \/ gate'.previous.target # armed.on]_vars

(* A start by the trigger keeps the cooldown to every earlier start, the   *)
(* starts by hand included, the total count and the count per window.      *)
LimitsKept ==
    [][fired' =>
        /\ \A u \in log : now' - u >= rule.cooldown
        /\ rule.maxCount > 0 => Cardinality(log') <= rule.maxCount
        /\ rule.windowCount > 0 =>
             Cardinality({u \in log' : now' - u < AtLeastOne(rule.window)})
               <= rule.windowCount]_vars

(* "条件需持续满足这么久" (rule_schema.h:56): a rule with a debounce starts *)
(* only when every tick of that long saw its conditions hold.  This is     *)
(* what the code does of conditions whose rise a poll saw.                 *)
HeldLongEnough ==
    fired /\ ~armed.blind => held # Never /\ now - held >= rule.debounce

(* The invariant of the gate: types and the debounce.                      *)
GateInv == TypeOK /\ HeldLongEnough

(* The limits a user can set for the starts of a rule.                     *)
LimitsHold == LockedUntilKeysUp /\ OneStartPerTarget /\ LimitsKept

(***************************************************************************)
(* What a document or a comment says and the code does not do: TLC refutes *)
(* each of these, see the README.                                          *)
(***************************************************************************)
(* The same of every start.  It does not hold: a suppressed tick stores    *)
(* the conditions but not the time, see the README.                        *)
AlwaysHeldLongEnough == fired => held # Never /\ now - held >= rule.debounce
=============================================================================
