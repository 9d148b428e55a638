--------------------------- MODULE MCKeyboardBox ---------------------------
EXTENDS KeyboardBox

CONSTANTS k1, k2, k3, l, r

Sends(who, op) == [for |-> who, op |-> op]

(* What the PC sends, at least one instance of every command.               *)
BoxCommands ==
    {Sends("mouse", "move") @@ [d |-> d] : d \in {1}}
    \cup {Sends("mouse", "cancel")}
    \cup {Sends("mouse", "buttons") @@ [buttons |-> b] : b \in {{l}}}
    \cup {Sends("mouse", "click") @@ [buttons |-> {b}, ms |-> 1] : b \in {l, r}}
    \cup {Sends("keyboard", "keys") @@ [keys |-> k] : k \in {<<k3, k2>>}}
    \cup {Sends("keyboard", "tap") @@ [key |-> k2, ms |-> 1]}
    \cup {Sends("any", "ghost") @@ [on |-> on] : on \in BOOLEAN}
    \cup {Sends("any", "panic")}
    \cup {Sends("keyboard", op) : op \in {"maskoff", "reboot"}}
    \cup {Sends("keyboard", "mask") @@ [ms |-> ms] : ms \in {3}}

BoxMoves == {1}
=============================================================================
