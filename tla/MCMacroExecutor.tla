-------------------------- MODULE MCMacroExecutor --------------------------
(* Rule sets for model checking MacroExecutor.                             *)
EXTENDS MacroExecutor, TLC

Rule(mode, parallel, mutex, preempt, priority, steps) ==
    [mode |-> mode, parallel |-> parallel, mutex |-> mutex, preempt |-> preempt,
     priority |-> priority, steps |-> steps]

CONSTANTS a, b, c, k1, k2

Key(op, ks)     == [op |-> op, keys |-> ks, rule |-> a, wait |-> FALSE]
On(op, r)       == [op |-> op, keys |-> {}, rule |-> r, wait |-> FALSE]
CallOf(r, wait) == [On("call", r) EXCEPT !.wait = wait]
Plain(op)       == On(op, a)

(* Two parallel rules that share keys: one holds a chord, one clicks it,   *)
(* holds one of its keys for as long as its trigger and runs a branch.     *)
SharingRules ==
    (a :> Rule("once", TRUE, 0, FALSE, 0,
               {Key("down", {k1, k2}), Key("up", {k1, k2}), Plain("move")})) @@
    (b :> Rule("hold", TRUE, 0, FALSE, 0,
               {Key("press", {k1, k2}), Key("down", {k1}), Plain("parallel")}))

(* Rules that start, pause, disable and call one another.                  *)
CallingRules ==
    (a :> Rule("sequence", TRUE, 0, FALSE, 0, {Key("down", {k1}), CallOf(c, TRUE), On("pause", b)})) @@
    (b :> Rule("toggle", TRUE, 1, FALSE, 0, {Key("down", {k1}), CallOf(c, FALSE), On("resume", a)})) @@
    (c :> Rule("once", FALSE, 1, TRUE, 1, {Key("press", {k1}), Plain("parallel"), On("disable", a), Plain("system")}))

(* Two parallel rules, one of which calls a third that is not parallel.    *)
CalledRules ==
    (a :> Rule("once", TRUE, 0, FALSE, 0, {CallOf(c, TRUE)})) @@
    (b :> Rule("once", TRUE, 0, FALSE, 0, {Plain("other")})) @@
    (c :> Rule("once", FALSE, 0, FALSE, 0, {Plain("other")}))

User(ruleOf, flows, faulty) == [ruleOf |-> ruleOf, flows |-> flows, faulty |-> faulty]

Sharing == User(SharingRules, 2, TRUE)
Calling == User(CallingRules, 3, FALSE)
Called  == User(CalledRules, 3, FALSE)
Users   == {Sharing, Calling}
OneUser == {Called}
=============================================================================
