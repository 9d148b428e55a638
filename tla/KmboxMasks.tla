----------------------------- MODULE KmboxMasks -----------------------------
(***************************************************************************)
(* The masks of a KMBoxNet box: the hotkeys that are blocked               *)
(* (hotkey_blocking.cpp) and the movement keys that an automatic stop      *)
(* blocks (mouse_driver.cpp), both kept by one connection                  *)
(* (kmboxNetConnection.cpp) that sends one datagram for every key.         *)
(*                                                                         *)
(* Two threads use the connection.  The macro engine's sets the masks of   *)
(* the hotkeys in one critical section of io_mutex; the aim loop's masks   *)
(* the movement keys one by one, with the other's turns in between.  An    *)
(* answer that does not come says nothing about the box.                   *)
(***************************************************************************)
EXTENDS Integers

CONSTANTS Keys,         \* keys and buttons that can be masked
          Movement,     \* movementKeys: A, D, S and W
          MaxFaults,    \* calls of the connection in which answers are lost
          MaxChanges    \* settings changed, devices replaced

ASSUME KeysAssumption   == Movement \subseteq Keys
ASSUME BoundsAssumption == {MaxFaults, MaxChanges} \subseteq Nat

VARIABLES
    want, chosen,       \* the keys to block; is KMBOXNET the input method
    again,              \* update() wants to look again
    hot, auto, applied, unsure,     \* hotkeyKeys_, automaticKeys_, applied*_, uncertain*_
    masked, doubt,      \* the driver: movementKeysMasked_, movementMaskUncertain_
    place, todo, okay,  \* maskRealKeyboard in progress
    active,             \* AutoStop: the aim loop takes the keys for masked
    stage,              \* how far a DevicePause is
    box,                \* what the box masks
    faults, changes,
    \* History: masks given up by a connection that is gone; whether the last
    \* maskRealKeyboard said that the keys are masked.
    orphaned, said

settings   == <<want, chosen, again, changes>>
connection == <<hot, auto, applied, unsure>>
driver     == <<masked, doubt>>
call       == <<place, todo, okay, active, said>>
device     == <<box, faults, orphaned>>
vars == <<settings, connection, driver, call, stage, device>>

-----------------------------------------------------------------------------
(* The connection.                                                         *)

(* The masks that do not stand as they are wanted, or may not.             *)
Differs(wanted) == {k \in Keys : (k \in applied) # (k \in wanted) \/ k \in unsure}

(* A command for each of the keys is sent; those in failed get no answer,  *)
(* some of them, done, after the box carried them out.                     *)
Sent(keys, wanted, failed) ==
    \E done \in SUBSET failed :
       LET effect == (keys \ failed) \cup done IN
       /\ box' = (box \ effect) \cup (wanted \cap effect)
       /\ orphaned' = orphaned \ effect
       /\ applied' = (applied \ (keys \ failed)) \cup (wanted \cap (keys \ failed))
       /\ unsure' = (unsure \ keys) \cup failed
       /\ IF failed = {} THEN UNCHANGED faults
          ELSE faults < MaxFaults /\ faults' = faults + 1

(* syncKeyMaskLocked for some keys: nothing is sent for one that stands.   *)
Sync(keys, failed) ==
    LET wanted == hot' \cup auto'
        differ == keys \cap Differs(wanted)
    IN  failed \in SUBSET differ /\ Sent(differ, wanted, failed)

(* setHotkeyMasks: a key that is held, and this is no force, is left as it *)
(* is.                                                                     *)
SetHotkeyMasks(keys, held, failed) ==
    /\ hot' = (keys \ held) \cup (hot \cap held)
    /\ UNCHANGED auto
    /\ Sync(Keys, failed)

(* maskKeyboard and unmaskKeyboard.                                        *)
MaskKeyboard(k, on, failed) ==
    /\ auto' = IF on THEN auto \cup {k} ELSE auto \ {k}
    /\ UNCHANGED hot
    /\ Sync({k}, failed)

-----------------------------------------------------------------------------
(* update(), in a tick of the engine.                                      *)

(* Nothing is masked as long as the real keys cannot be read.              *)
Update ==
    /\ stage = "run" /\ again
    /\ \E monitored \in BOOLEAN, failed \in SUBSET Keys :
         LET net  == chosen /\ monitored
             keys == IF net THEN want ELSE {}
         IN  \E held \in IF net THEN SUBSET ((hot \ keys) \cup (keys \ hot)) ELSE {{}} :
             /\ SetHotkeyMasks(keys, held, failed)
             /\ again' = (failed \cup held \cup want # {})
    /\ UNCHANGED <<want, chosen, changes, driver, call, stage>>

ChangeSettings ==
    /\ changes < MaxChanges /\ changes' = changes + 1
    /\ want' \in SUBSET Keys /\ chosen' \in BOOLEAN
    /\ again' = TRUE
    /\ UNCHANGED <<connection, driver, call, stage, device>>

-----------------------------------------------------------------------------
(* maskRealKeyboard, in a tick of the aim loop.                            *)

Goto(p, keys) == place' = p /\ todo' = keys /\ okay' = TRUE

(* Callers are the automatic stop's: it asks for masks when it takes none  *)
(* for standing, and for their end when it does.                           *)
Serving == stage \in {"run", "clear", "clearAgain", "cleared"}

BeginMask ==
    /\ place = "idle" /\ Serving /\ ~active
    /\ IF doubt THEN Goto("before", masked) ELSE Goto("mask", Movement \ masked)
    /\ said' = FALSE
    /\ UNCHANGED <<settings, connection, driver, active, stage, device>>

BeginUnmask ==
    /\ place = "idle" /\ Serving /\ active
    /\ Goto("unmask", masked)
    /\ said' = FALSE
    /\ UNCHANGED <<settings, connection, driver, active, stage, device>>

(* Mutant: a key whose answer was lost counts as not masked.               *)
MaskOneTrusting ==
    /\ place = "mask"
    /\ \E k \in todo : \E failed \in SUBSET {k} :
         /\ MaskKeyboard(k, TRUE, failed)
         /\ todo' = todo \ {k}
         /\ masked' = IF failed = {} THEN masked \cup {k} ELSE masked
         /\ okay' = (okay /\ failed = {})
         /\ doubt' = (doubt \/ failed # {})
    /\ UNCHANGED <<settings, place, active, said, stage>>

(* A key whose answer was lost is taken for masked.                        *)
MaskOne ==
    /\ place = "mask"
    /\ \E k \in todo : \E failed \in SUBSET {k} :
         /\ MaskKeyboard(k, TRUE, failed)
         /\ todo' = todo \ {k}
         /\ masked' = masked \cup {k}
         /\ okay' = (okay /\ failed = {})
         /\ doubt' = (doubt \/ failed # {})
    /\ UNCHANGED <<settings, place, active, said, stage>>

Unmasking == {"before", "undo", "unmask"}

UnmaskOne ==
    /\ place \in Unmasking
    /\ \E k \in todo : \E failed \in SUBSET {k} :
         /\ MaskKeyboard(k, FALSE, failed)
         /\ todo' = todo \ {k}
         /\ masked' = IF failed = {} THEN masked \ {k} ELSE masked
         /\ okay' = (okay /\ failed = {})
         /\ doubt' = (doubt \/ failed # {})
    /\ UNCHANGED <<settings, place, active, said, stage>>

Finish == Goto("idle", {})

(* All keys are masked, or as many as can be are given back.               *)
MaskEnds ==
    /\ place = "mask" /\ todo = {}
    /\ IF okay THEN Finish /\ active' = TRUE /\ said' = TRUE
       ELSE Goto("undo", masked) /\ UNCHANGED <<active, said>>
    /\ UNCHANGED <<settings, connection, driver, stage, device>>

(* What could not be given back is tried again before the next masking;    *)
(* the automatic stop forgets of it, or does not (prepareForMacro does).   *)
UnmaskEnds ==
    /\ place \in Unmasking /\ todo = {}
    /\ doubt' = (doubt /\ ~okay)
    /\ IF place = "before" /\ okay THEN Goto("mask", Movement \ masked) ELSE Finish
    /\ active' \in IF place = "unmask" THEN {FALSE, ~okay} ELSE {active}
    /\ UNCHANGED <<settings, connection, masked, said, stage, device>>

-----------------------------------------------------------------------------
(* A DevicePause: clear() of the blocking, then the driver's end and, when *)
(* the devices are replaced, the connection's.                             *)

Pause ==
    /\ stage = "run" /\ stage' = "clear"
    /\ changes < MaxChanges /\ changes' = changes + 1
    /\ again' = FALSE
    /\ UNCHANGED <<want, chosen, connection, driver, call, device>>

(* The hotkeys' masks are lifted by force, in at most two attempts.        *)
Clear ==
    /\ stage \in {"clear", "clearAgain"}
    /\ \E failed \in SUBSET Keys :
         /\ SetHotkeyMasks({}, {}, failed)
         /\ stage' = IF stage = "clear" /\ failed # {} THEN "clearAgain" ELSE "cleared"
    /\ UNCHANGED <<settings, driver, call>>

(* resetMouse: the locks of the aim loop wait for a call in progress, the  *)
(* automatic stop's masks are lifted,                                      *)
ResetMouse ==
    /\ stage = "cleared" /\ place = "idle"
    /\ stage' = "dropping"
    /\ IF active THEN Goto("unmask", masked) ELSE UNCHANGED <<place, todo, okay>>
    /\ said' = FALSE
    /\ UNCHANGED <<settings, connection, driver, active, device>>

(* and once more by ~WrappedKmboxNetDriver.                                *)
DropDriver ==
    /\ stage = "dropping" /\ place = "idle"
    /\ stage' = "dropped"
    /\ Goto("unmask", masked)
    /\ UNCHANGED <<settings, connection, driver, active, said, device>>

(* The next driver knows of no masks; the connection is kept, or not.      *)
DriverGone ==
    /\ stage = "dropped" /\ place = "idle"
    /\ masked' = {} /\ doubt' = FALSE /\ active' = FALSE
    /\ \/ stage' = "run" /\ again' = TRUE
       \/ stage' = "close" /\ UNCHANGED again
    /\ UNCHANGED <<want, chosen, changes, connection, place, todo, okay, said, device>>

(* ~KmboxNetConnection: two attempts for all masks.                        *)
Close ==
    /\ stage \in {"close", "closeAgain"}
    /\ hot' = {} /\ auto' = {}
    /\ \E failed \in SUBSET Keys :
         /\ Sync(Keys, failed)
         /\ stage' = IF stage = "close" /\ failed # {} THEN "closeAgain" ELSE "away"
    /\ UNCHANGED <<settings, driver, call>>

(* A new connection; what the last one could not lift stays at the box.    *)
Connect ==
    /\ stage = "away" /\ stage' = "run"
    /\ again' = TRUE
    /\ applied' = {} /\ unsure' = {}
    /\ orphaned' = (orphaned \cup unsure) \cap box
    /\ UNCHANGED <<want, chosen, changes, hot, auto, driver, call, box, faults>>

-----------------------------------------------------------------------------
Init ==
    /\ want \in SUBSET Keys /\ chosen \in BOOLEAN /\ again = TRUE
    /\ hot = {} /\ auto = {} /\ applied = {} /\ unsure = {}
    /\ masked = {} /\ doubt = FALSE
    /\ place = "idle" /\ todo = {} /\ okay = TRUE /\ active = FALSE
    /\ stage = "run" /\ box = {}
    /\ faults = 0 /\ changes = 0
    /\ orphaned = {} /\ said = FALSE

AimLoop == BeginMask \/ BeginUnmask \/ MaskOne \/ UnmaskOne \/ MaskEnds \/ UnmaskEnds
Engine  == Update \/ Pause \/ Clear
Devices == ResetMouse \/ DropDriver \/ DriverGone \/ Close \/ Connect
Next == AimLoop \/ Engine \/ Devices \/ ChangeSettings

Spec == Init /\ [][Next]_vars

(* The threads go on; nobody need fire, change settings or replace devices. *)
FairSpec ==
    /\ Spec
    /\ WF_vars(Update) /\ WF_vars(Clear) /\ WF_vars(Devices)
    /\ WF_vars(MaskOne \/ UnmaskOne \/ MaskEnds \/ UnmaskEnds)

-----------------------------------------------------------------------------
TypeOK ==
    /\ {want, hot, applied, unsure, box, orphaned} \subseteq SUBSET Keys
    /\ {auto, masked, todo} \subseteq SUBSET Movement
    /\ {chosen, again, doubt, okay, active, said} \subseteq BOOLEAN
    /\ place \in {"idle", "mask"} \cup Unmasking
    /\ stage \in {"run", "clear", "clearAgain", "cleared", "dropping", "dropped",
                  "close", "closeAgain", "away"}
    /\ faults \in 0..MaxFaults /\ changes \in 0..MaxChanges

(* What the connection is sure of is so: the box masks what either user    *)
(* wants and nothing else.  Neither lifts the other's mask.                *)
CertainMasksStand ==
    \A k \in Keys \ unsure :
       /\ k \in applied <=> k \in hot \cup auto
       /\ k \notin orphaned => (k \in box <=> k \in applied)

(* A mask at the box is wanted, or known to be uncertain, so that the next *)
(* call of the blocking or the destructor tries to lift it, or both have   *)
(* tried in vain.                                                          *)
NoMaskIsForgotten == box \subseteq hot \cup auto \cup unsure \cup orphaned

(* The driver lifts what it has asked for: between two calls it holds all  *)
(* movement keys or none, unless it knows that it is in doubt.             *)
AllOrNothing ==
    /\ auto \subseteq masked
    /\ place = "idle" /\ ~doubt => masked \in {{}, Movement} /\ auto = masked

(* When maskRealKeyboard says so the keys are masked, and remain so until  *)
(* they are given back, whatever becomes of the hotkeys meanwhile.         *)
SaidMeansMasked == said => Movement \subseteq box

(* The connection and the driver know of every mask.                       *)
MasksInv == TypeOK /\ CertainMasksStand /\ NoMaskIsForgotten /\ AllOrNothing /\ SaidMeansMasked

(***************************************************************************)
(* What a comment says and the code does not do, see the README.           *)
(***************************************************************************)
(* "Treat this key as possibly masked and undo it" (mouse_driver.cpp:371): *)
(* an undo that failed is not tried again before the next masking.         *)
UndoneInTheEnd ==
    \A k \in Movement : [](<>(active \/ place # "idle" \/ stage # "run" \/ k \notin box \/ k \in hot))
=============================================================================
