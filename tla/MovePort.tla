------------------------------ MODULE MovePort ------------------------------
(***************************************************************************)
(* What the queued path of MouseThread promises its clients, without       *)
(* threads, locks or generations: a port that remembers only the latest    *)
(* move, may withdraw it, commits at most one move to the device at a time *)
(* and delivers moves in the order they were posted, each at most once.    *)
(***************************************************************************)
EXTENDS Naturals

VARIABLES latest,      \* number of the move waiting to be sent, 0 if none
          committed,   \* number of the move the device is executing, 0 if none
          delivered    \* number of the last move the device accepted

port == <<latest, committed, delivered>>

Init == latest = 0 /\ committed = 0 /\ delivered = 0

(* A newer move takes the place of the waiting one.                        *)
Post ==
    /\ latest' \in Nat
    /\ \A older \in {latest, committed, delivered} : older < latest'
    /\ UNCHANGED <<committed, delivered>>

(* Cancelled, suspended, or no device to send it to.                       *)
Withdraw == latest' = 0 /\ UNCHANGED <<committed, delivered>>

Commit ==
    /\ latest # 0 /\ committed = 0
    /\ committed' = latest /\ latest' = 0
    /\ UNCHANGED delivered

(* The device accepts the committed move or refuses it.                    *)
Finish ==
    /\ committed # 0 /\ committed' = 0
    /\ delivered' \in {delivered, committed}
    /\ UNCHANGED latest

Next == Post \/ Withdraw \/ Commit \/ Finish

Spec == Init /\ [][Next]_port
=============================================================================
