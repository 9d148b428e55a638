----------------------------- MODULE MCRuleGate -----------------------------
(* Rules for model checking RuleGate: each event once with its limits off, *)
(* the limits on the events they are meant for, and debounces.             *)
EXTENDS RuleGate

Plain(event) ==
    [event |-> event, gesture |-> 2, timer |-> 2, cooldown |-> 0, debounce |-> 0,
     interval |-> 2, level |-> FALSE, keyLock |-> FALSE, targetLock |-> FALSE,
     maxCount |-> 0, window |-> 0, windowCount |-> 0]

EveryEvent ==
    {Plain(e) : e \in KeyEvents \cup TargetEvents \cup SignalEvents \cup OtherEvents}

Limits ==
    {[Plain("key_down") EXCEPT !.keyLock = TRUE, !.cooldown = 2],
     [Plain("key_up") EXCEPT !.keyLock = TRUE, !.debounce = 2],
     [Plain("target_held") EXCEPT !.targetLock = TRUE],
     [Plain("timer") EXCEPT !.window = 3, !.windowCount = 1],
     [Plain("cooldown") EXCEPT !.cooldown = 1, !.maxCount = 2],
     [Plain("conditions") EXCEPT !.debounce = 2, !.level = TRUE]}

Debounces == {[Plain("key_down") EXCEPT !.debounce = 2],
              [Plain("conditions") EXCEPT !.debounce = 2],
              [Plain("target_found") EXCEPT !.debounce = 3]}

AllRules == EveryEvent \cup Limits \cup Debounces
=============================================================================
