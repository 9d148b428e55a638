-------------------------- MODULE MCTriggerOutput ---------------------------
(***************************************************************************)
(* Profiles for TriggerOutput; one unit of time stands for the shortest    *)
(* delay of the code, Horizon for the longest a profile may have.          *)
(***************************************************************************)
EXTENDS TriggerOutput

Basic == [key |-> 1, second |-> FALSE, aims |-> TRUE, enabled |-> TRUE, right |-> FALSE,
          switch |-> FALSE, fire |-> "smart", start |-> 0, duration |-> 1, interval |-> 1,
          grace |-> 2, scope |-> 0, stop |-> 0, before |-> 0, after |-> 1, flash |-> 0]

Burst      == [Basic EXCEPT !.fire = "burst", !.start = 1]
Lasting0   == [Basic EXCEPT !.fire = "continuous", !.flash = 1, !.grace = 0]
HeldScope  == [Basic EXCEPT !.scope = 2]
TapScope   == [Basic EXCEPT !.scope = 1, !.key = 2]
AimOnly    == [Basic EXCEPT !.enabled = FALSE]
Second     == [Burst EXCEPT !.second = TRUE, !.scope = 2]
EarlyStop  == [Burst EXCEPT !.stop = 1, !.before = 1]
LongStop   == [Basic EXCEPT !.stop = 2]
Switching  == [Basic EXCEPT !.fire = "click", !.switch = TRUE, !.scope = 2]
RightKey   == [HeldScope EXCEPT !.right = TRUE, !.key = 2]

SafetyProfiles == {Lasting0, HeldScope, TapScope, Second, AimOnly, RightKey,
                   EarlyStop, LongStop, Switching}
=============================================================================
