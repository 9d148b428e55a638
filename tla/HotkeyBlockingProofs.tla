------------------------ MODULE HotkeyBlockingProofs ------------------------
(***************************************************************************)
(* The safety properties of HotkeyBlocking for any buttons and axes and    *)
(* any number of faults, changes and presses.                              *)
(***************************************************************************)
EXTENDS HotkeyBlocking, TLAPS

USE LocksAssumption, BoundsAssumption

(* What is being released is something the blocking remembers.             *)
ReleasesAreKnown == pc \in Releases => todo \subseteq applied \cup unsure

(* While the driver is destroyed the blocking remembers nothing, and what  *)
(* is locked is still to be lifted or could not be.                        *)
DestructionIsComplete ==
    pc = "destroy" => /\ todo \subseteq owned /\ locks \subseteq todo \cup orphaned
                      /\ applied = {} /\ unsure = {}
                      /\ buttonGen = 0 /\ axisGen = 0

(* Nobody knows of a session that has not been yet.                        *)
SessionsArePast ==
    /\ buttonGen <= session /\ axisGen <= session /\ job.gen <= session
    /\ exists => session >= 1
    /\ phase # "down" => exists

(* A change of the device that has gone well so far has lifted what is no  *)
(* longer on its list.                                                     *)
ChangeIsComplete ==
    /\ pc = "axesRelease" /\ ok /\ axisBackend # job.method => applied \cap Axes \subseteq todo
    /\ pc = "buttonsRelease" /\ ok /\ buttonBackend # job.method
          => applied \cap Buttons \subseteq todo

IInv == /\ BlockingInv /\ CertainMeansLocked
        /\ ReleasesAreKnown /\ DestructionIsComplete /\ SessionsArePast /\ ChangeIsComplete

(* All that a command may do to the driver and to the box.                 *)
Effect(l, on, yes) ==
    /\ faults' \in 0..MaxFaults
    /\ locks' \subseteq Locks /\ owned' \subseteq Locks /\ forgotten' \subseteq Locks
    /\ locks' \subseteq locks \cup {l} /\ locks \subseteq locks' \cup {l}
    /\ owned' \subseteq owned \cup {l} /\ owned \subseteq owned' \cup {l}
    /\ forgotten \subseteq forgotten' \cup {l}
    /\ yes /\ on => l \in locks'
    /\ yes /\ ~on => l \notin owned' /\ (l \in owned => l \notin locks')
    /\ ~yes => owned \subseteq owned'
    /\ l \in locks' /\ l \notin owned' => l \in locks /\ l \notin owned

(* Whatever is answered, and whichever device it is sent to.               *)
LEMMA SetEffect ==
  ASSUME TypeOK, NEW l \in Locks, NEW on, NEW yes \in BOOLEAN, NEW backend,
         Set(backend, l, on, yes)
  PROVE  Effect(l, on, yes)
<1>1. CASE UNCHANGED device /\ (yes => ~on /\ l \notin owned)
  BY <1>1 DEF device, TypeOK, Locks, Effect
<1>2. CASE /\ Ask(l, on, yes)
           /\ owned' = IF on THEN owned \cup {l} ELSE IF yes THEN owned \ {l} ELSE owned
  <2>1. faults' \in 0..MaxFaults
    BY <1>2 DEF Ask, Fault, TypeOK
  <2>2. PICK done \in BOOLEAN :
          /\ yes => done
          /\ locks' = IF ~done THEN locks ELSE IF on THEN locks \cup {l} ELSE locks \ {l}
          /\ forgotten' = forgotten \ {l}
    BY <1>2 DEF Ask
  <2>. QED  BY <1>2, <2>1, <2>2 DEF TypeOK, Locks, Effect
<1>. QED  BY <1>1, <1>2 DEF Set, Write

(* One lemma for each action: it keeps the invariant.                      *)
LEMMA ReleaseOneKeeps == IInv /\ ReleaseOne => IInv'
<1> SUFFICES ASSUME IInv, ReleaseOne PROVE IInv'
  OBVIOUS
<1> USE DEF IInv, BlockingInv, settings, backends, line, user
<1>1. PICK l \in todo, yes \in BOOLEAN, backend \in {axisBackend, buttonBackend} :
        /\ Set(backend, l, FALSE, yes)
        /\ ok' = (ok /\ yes)
        /\ applied' = IF yes THEN applied \ {l} ELSE applied
        /\ unsure' = IF yes THEN unsure \ {l} ELSE unsure
        /\ todo' = todo \ {l}
        /\ StillOrphaned
        /\ dropped' = IF l \in unsure' \cup applied' THEN dropped \cup {l} ELSE dropped \ {l}
  BY DEF ReleaseOne, Release
<1>2. l \in Locks /\ l \in applied \cup unsure /\ pc \in Releases
  BY DEF TypeOK, ReleasesAreKnown, ReleaseOne
<1>3. Effect(l, FALSE, yes)
  BY <1>1, <1>2, SetEffect
<1>4. TypeOK'
  BY <1>1, <1>2, <1>3 DEF Effect, TypeOK, ReleaseOne, StillOrphaned
<1>5. LocksAreOwned' /\ OwnedIsRemembered'
  BY <1>1, <1>2, <1>3 DEF Effect, LocksAreOwned, OwnedIsRemembered, StillOrphaned, ReleaseOne, Releases
<1>6. CertainMeansLocked'
  BY <1>1, <1>2, <1>3 DEF Effect, CertainMeansLocked, BackendOf, GenOf, ReleaseOne
<1>7. ReleasesAreKnown' /\ DestructionIsComplete' /\ SessionsArePast'
  BY <1>1, <1>2 DEF ReleasesAreKnown, DestructionIsComplete, SessionsArePast, ReleaseOne, Releases
<1>8. ChangeIsComplete'
  BY <1>1, <1>2 DEF ChangeIsComplete, ReleaseOne
<1>. QED  BY <1>4, <1>5, <1>6, <1>7, <1>8

LEMMA LockAxisKeeps == IInv /\ LockAxis => IInv'
<1> SUFFICES ASSUME IInv, LockAxis PROVE IInv'
  OBVIOUS
<1> USE DEF IInv, BlockingInv, settings, backends, line, user
<1>1. PICK l \in todo, yes \in BOOLEAN :
        /\ Set(job.method, l, l \in job.aim, yes)
        /\ applied' = IF ~yes THEN applied
                      ELSE IF l \in job.aim THEN applied \cup {l} ELSE applied \ {l}
        /\ unsure' = IF yes THEN unsure \ {l} ELSE unsure \cup {l}
        /\ todo' = todo \ {l}
        /\ StillOrphaned
        /\ dropped' = dropped \ {l}
  BY DEF LockAxis
<1>2. l \in Locks /\ pc = "axes" /\ pc' = pc
  BY DEF TypeOK, LockAxis
<1>3. Effect(l, l \in job.aim, yes)
  BY <1>1, <1>2, SetEffect
<1>4. TypeOK'
  BY <1>1, <1>2, <1>3 DEF Effect, TypeOK, LockAxis, StillOrphaned
<1>5. LocksAreOwned' /\ OwnedIsRemembered'
  BY <1>1, <1>2, <1>3 DEF Effect, LocksAreOwned, OwnedIsRemembered, StillOrphaned
<1>6. CertainMeansLocked'
  BY <1>1, <1>2, <1>3 DEF Effect, CertainMeansLocked, BackendOf, GenOf, LockAxis
<1>7. ReleasesAreKnown' /\ DestructionIsComplete' /\ SessionsArePast' /\ ChangeIsComplete'
  BY <1>1, <1>2 DEF ReleasesAreKnown, DestructionIsComplete, SessionsArePast, ChangeIsComplete,
                    LockAxis, Releases
<1>. QED  BY <1>4, <1>5, <1>6, <1>7

LEMMA LockButtonKeeps == IInv /\ LockButton => IInv'
<1> SUFFICES ASSUME IInv, LockButton PROVE IInv'
  OBVIOUS
<1> USE DEF IInv, BlockingInv, settings, backends, line, user
<1>1. PICK l \in todo, yes \in BOOLEAN :
        /\ Set(job.method, l, l \in job.want, yes)
        /\ applied' = IF l \in job.want THEN applied \cup {l} ELSE applied \ {l}
        /\ unsure' = IF yes THEN unsure \ {l} ELSE unsure \cup {l}
        /\ ok' = (ok /\ yes)
        /\ todo' = todo \ {l}
        /\ StillOrphaned
        /\ dropped' = dropped \ {l}
  BY DEF LockButton
<1>2. l \in Locks /\ pc = "buttons" /\ pc' = pc
  BY DEF TypeOK, LockButton
<1>3. Effect(l, l \in job.want, yes)
  BY <1>1, <1>2, SetEffect
<1>4. TypeOK'
  BY <1>1, <1>2, <1>3 DEF Effect, TypeOK, LockButton, StillOrphaned
<1>5. LocksAreOwned' /\ OwnedIsRemembered'
  BY <1>1, <1>2, <1>3 DEF Effect, LocksAreOwned, OwnedIsRemembered, StillOrphaned
<1>6. CertainMeansLocked'
  BY <1>1, <1>2, <1>3 DEF Effect, CertainMeansLocked, BackendOf, GenOf, LockButton
<1>7. ReleasesAreKnown' /\ DestructionIsComplete' /\ SessionsArePast' /\ ChangeIsComplete'
  BY <1>1, <1>2 DEF ReleasesAreKnown, DestructionIsComplete, SessionsArePast, ChangeIsComplete,
                    LockButton, Releases
<1>. QED  BY <1>4, <1>5, <1>6, <1>7

LEMMA DestroyOneKeeps == IInv /\ DestroyOne => IInv'
<1> SUFFICES ASSUME IInv, DestroyOne PROVE IInv'
  OBVIOUS
<1> USE DEF IInv, BlockingInv, settings, belief, backends, line, user, notes
<1>1. PICK l \in todo, yes \in BOOLEAN :
        /\ Write(l, FALSE, yes)
        /\ orphaned' = (orphaned \cup IF yes THEN {} ELSE {l}) \cap locks'
        /\ todo' = todo \ {l}
  BY DEF DestroyOne
<1>2. l \in Locks /\ pc = "destroy" /\ pc' = pc
  BY DEF TypeOK, DestroyOne
<1>3. Effect(l, FALSE, yes)
  <2>1. Set("MAKCUNEW", l, FALSE, yes)
    BY <1>1 DEF Set
  <2>. QED  BY <2>1, <1>2, SetEffect
<1>4. TypeOK'
  BY <1>1, <1>2, <1>3 DEF Effect, TypeOK, DestroyOne
<1>5. DestructionIsComplete'
  BY <1>1, <1>2, <1>3 DEF Effect, DestructionIsComplete, DestroyOne
<1>6. LocksAreOwned' /\ OwnedIsRemembered'
  BY <1>2, <1>5 DEF LocksAreOwned, OwnedIsRemembered, DestructionIsComplete
<1>7. CertainMeansLocked'
  BY <1>2, <1>5 DEF CertainMeansLocked, DestructionIsComplete
<1>8. ReleasesAreKnown' /\ SessionsArePast' /\ ChangeIsComplete'
  BY <1>1, <1>2 DEF ReleasesAreKnown, SessionsArePast, ChangeIsComplete, DestroyOne, Releases
<1>. QED  BY <1>4, <1>5, <1>6, <1>7, <1>8

(* A call that returns leaves no trace of itself.                          *)
LEMMA ReturnType ==
  ASSUME Return
  PROVE  /\ pc' = "idle" /\ todo' = {} /\ ok' = TRUE /\ pending' = FALSE /\ job'.gen = 0
         /\ job' \in [method : Methods \cup {None}, want : SUBSET Buttons, aim : SUBSET Axes,
                      fresh : BOOLEAN, gen : Nat]
BY DEF Return, Goto, NoJob

(* The steps of a call between its commands: the driver and the box stay   *)
(* as they are.                                                            *)
LEMMA WaitForReleaseKeeps == IInv /\ WaitForRelease => IInv'
<1> SUFFICES ASSUME IInv, WaitForRelease PROVE IInv'
  OBVIOUS
<1> USE DEF IInv, BlockingInv, settings, belief, backends, line, user, notes, device,
            WaitForRelease
<1>1. TypeOK'
  BY DEF TypeOK
<1>2. LocksAreOwned' /\ OwnedIsRemembered' /\ CertainMeansLocked'
  BY DEF LocksAreOwned, OwnedIsRemembered, CertainMeansLocked, BackendOf, GenOf
<1>3. ReleasesAreKnown' /\ DestructionIsComplete' /\ SessionsArePast' /\ ChangeIsComplete'
  BY DEF ReleasesAreKnown, DestructionIsComplete, SessionsArePast, ChangeIsComplete, Releases
<1>. QED  BY <1>1, <1>2, <1>3

LEMMA BeginUpdateKeeps == ASSUME IInv, NEW due \in BOOLEAN, BeginUpdate(due) PROVE IInv'
<1> USE DEF IInv, BlockingInv, settings, belief, line, user, notes, device, BeginUpdate, Goto
<1>1. Generation \in Nat /\ Generation <= session
  BY DEF TypeOK, Generation
<1>2. pc' \in {"axesRelease", "axesDone"} /\ todo' \subseteq Concerned(Axes)
  OBVIOUS
<1>3. TypeOK'
  <2>1. job' \in [method : Methods \cup {None}, want : SUBSET Buttons, aim : SUBSET Axes,
                  fresh : BOOLEAN, gen : Nat]
    BY <1>1 DEF TypeOK
  <2>2. requested' \subseteq Axes /\ todo' \subseteq Locks /\ pc' \in Places
    BY <1>2 DEF TypeOK, Concerned, Places
  <2>3. fresh' = FALSE /\ ok' = TRUE /\ pending' = FALSE
    OBVIOUS
  <2>4. UNCHANGED <<cfg, changes, aim, retry, applied, unsure, buttonBackend, buttonGen,
                    axisBackend, axisGen, exists, phase, capable, session, owned, real, locks,
                    held, faults, presses, forgotten, orphaned, silent, dropped>>
    OBVIOUS
  <2>. HIDE DEF BeginUpdate
  <2>5. {fresh, retry, ok, pending, exists, capable, silent}' \subseteq BOOLEAN
    BY <2>3, <2>4 DEF TypeOK
  <2>6. {applied, unsure, todo, owned, locks, forgotten, orphaned, dropped}' \subseteq SUBSET Locks
    BY <2>2, <2>4 DEF TypeOK
  <2>. QED  BY <2>1, <2>2, <2>4, <2>5, <2>6 DEF TypeOK
<1>4. LocksAreOwned' /\ OwnedIsRemembered' /\ CertainMeansLocked'
  BY <1>2 DEF LocksAreOwned, OwnedIsRemembered, CertainMeansLocked, BackendOf, GenOf
<1>5. ReleasesAreKnown' /\ DestructionIsComplete' /\ SessionsArePast'
  BY <1>1, <1>2 DEF ReleasesAreKnown, DestructionIsComplete, SessionsArePast, Concerned
<1>6. ChangeIsComplete'
  BY DEF ChangeIsComplete, Concerned
<1>. QED  BY <1>3, <1>4, <1>5, <1>6

LEMMA AxesReleasedKeeps == IInv /\ AxesReleased => IInv'
<1> SUFFICES ASSUME IInv, AxesReleased PROVE IInv'
  OBVIOUS
<1> USE DEF IInv, BlockingInv, settings, belief, line, user, notes, device, AxesReleased, Goto
<1>1. pc' \in {"axes", "axesDone"} /\ todo' \subseteq Axes \cup applied
  BY DEF Differs
<1>2. TypeOK'
  BY <1>1 DEF TypeOK, Locks, Places
<1>3. LocksAreOwned' /\ OwnedIsRemembered'
  BY <1>1 DEF LocksAreOwned, OwnedIsRemembered
<1>4. CertainMeansLocked'
  <2>1. CASE ~ok
    BY <2>1 DEF CertainMeansLocked, BackendOf, GenOf
  <2>2. CASE ok
    BY <2>2 DEF CertainMeansLocked, BackendOf, GenOf, ChangeIsComplete
  <2>. QED  BY <2>1, <2>2 DEF TypeOK
<1>5. ReleasesAreKnown' /\ DestructionIsComplete' /\ SessionsArePast' /\ ChangeIsComplete'
  BY <1>1 DEF ReleasesAreKnown, DestructionIsComplete, SessionsArePast, ChangeIsComplete, Releases
<1>. QED  BY <1>2, <1>3, <1>4, <1>5

LEMMA BeginButtonsKeeps == IInv /\ BeginButtons => IInv'
<1> SUFFICES ASSUME IInv, BeginButtons PROVE IInv'
  OBVIOUS
<1> USE DEF IInv, BlockingInv, settings, belief, backends, line, user, notes, device,
            BeginButtons, Goto, Concerned
<1>1. TypeOK'
  BY DEF TypeOK, Places
<1>2. LocksAreOwned' /\ OwnedIsRemembered' /\ CertainMeansLocked'
  BY DEF LocksAreOwned, OwnedIsRemembered, CertainMeansLocked, BackendOf, GenOf, AxesAreDone
<1>3. ReleasesAreKnown' /\ DestructionIsComplete' /\ SessionsArePast' /\ ChangeIsComplete'
  BY DEF ReleasesAreKnown, DestructionIsComplete, SessionsArePast, ChangeIsComplete
<1>. QED  BY <1>1, <1>2, <1>3

LEMMA NotYetKeeps == IInv /\ NotYet => IInv'
<1> SUFFICES ASSUME IInv, NotYet PROVE IInv'
  OBVIOUS
<1> USE ReturnType
<1> USE DEF IInv, BlockingInv, settings, belief, backends, line, user, notes, device,
            NotYet
<1>1. TypeOK'
  BY DEF TypeOK, Places
<1>2. LocksAreOwned' /\ OwnedIsRemembered' /\ CertainMeansLocked'
  BY DEF LocksAreOwned, OwnedIsRemembered, CertainMeansLocked, BackendOf, GenOf, AxesAreDone
<1>3. ReleasesAreKnown' /\ DestructionIsComplete' /\ SessionsArePast' /\ ChangeIsComplete'
  BY DEF ReleasesAreKnown, DestructionIsComplete, SessionsArePast, ChangeIsComplete, TypeOK,
         Releases
<1>. QED  BY <1>1, <1>2, <1>3

LEMMA ButtonsReleasedKeeps == IInv /\ ButtonsReleased => IInv'
<1> SUFFICES ASSUME IInv, ButtonsReleased PROVE IInv'
  OBVIOUS
<1> USE ReturnType
<1> USE DEF IInv, BlockingInv, settings, line, user, notes, device, ButtonsReleased, Goto, belief
<1>1. /\ pc' \in {"idle", "buttons", "buttonsDone"} /\ todo' \subseteq Buttons
      /\ {retry', ok', pending'} \subseteq BOOLEAN /\ job'.gen <= session
      /\ job' \in [method : Methods \cup {None}, want : SUBSET Buttons, aim : SUBSET Axes,
                   fresh : BOOLEAN, gen : Nat]
      /\ unsure \subseteq unsure' /\ unsure' \subseteq unsure \cup applied /\ applied' = applied
  <2>1. CASE Return /\ retry' = TRUE /\ UNCHANGED <<belief, buttonBackend, buttonGen>>
    BY <2>1 DEF SessionsArePast, TypeOK
  <2>2. CASE /\ UNCHANGED <<applied, retry, job, ok, pending>>
             /\ buttonBackend' = job.method
             /\ IF job.method = "MAKCUNEW" /\ Open
                   THEN LET again == IF buttonGen # session THEN applied \cap Buttons ELSE {}
                        IN  /\ buttonGen' = session
                            /\ unsure' = unsure \cup again
                            /\ Goto("buttons", Differs(job.want, Buttons) \cup again)
                   ELSE Goto("buttonsDone", {}) /\ UNCHANGED <<unsure, buttonGen>>
    BY <2>2 DEF Differs, SessionsArePast, TypeOK
  <2>. QED  BY <2>1, <2>2
<1>2. TypeOK'
  BY <1>1 DEF TypeOK, Locks, Places
<1>3. LocksAreOwned' /\ OwnedIsRemembered'
  BY <1>1 DEF LocksAreOwned, OwnedIsRemembered
<1>4. CertainMeansLocked'
  BY <1>1, LocksAssumption
     DEF CertainMeansLocked, BackendOf, GenOf, ChangeIsComplete, TypeOK, Locks
<1>5. ReleasesAreKnown' /\ DestructionIsComplete' /\ SessionsArePast' /\ ChangeIsComplete'
  BY <1>1 DEF ReleasesAreKnown, DestructionIsComplete, SessionsArePast, ChangeIsComplete,
              Releases, TypeOK
<1>. QED  BY <1>2, <1>3, <1>4, <1>5

LEMMA EndUpdateKeeps == IInv /\ EndUpdate => IInv'
<1> SUFFICES ASSUME IInv, EndUpdate PROVE IInv'
  OBVIOUS
<1> USE ReturnType
<1> USE DEF IInv, BlockingInv, settings, belief, backends, line, user, device,
            EndUpdate, Concerned
<1>1. TypeOK'
  BY DEF TypeOK, Places
<1>2. LocksAreOwned' /\ OwnedIsRemembered' /\ CertainMeansLocked'
  BY DEF LocksAreOwned, OwnedIsRemembered, CertainMeansLocked, BackendOf, GenOf
<1>3. ReleasesAreKnown' /\ DestructionIsComplete' /\ SessionsArePast' /\ ChangeIsComplete'
  BY DEF ReleasesAreKnown, DestructionIsComplete, SessionsArePast, ChangeIsComplete, TypeOK,
         Releases
<1>. QED  BY <1>1, <1>2, <1>3

(* clear() and the change of the driver.                                   *)
LEMMA PauseKeeps == IInv /\ Pause => IInv'
<1> SUFFICES ASSUME IInv, Pause PROVE IInv'
  OBVIOUS
<1> USE DEF IInv, BlockingInv, belief, backends, line, user, notes, device, Pause, Goto
<1>1. TypeOK'
  <2>1. {fresh, retry, ok, pending, exists, capable, silent}' \subseteq BOOLEAN
    BY DEF TypeOK
  <2>2. todo' \subseteq Locks /\ pc' \in Places /\ changes' \in 0..MaxChanges
    BY DEF TypeOK, Places, Concerned
  <2>. QED  BY <2>1, <2>2 DEF TypeOK
<1>2. LocksAreOwned' /\ OwnedIsRemembered' /\ CertainMeansLocked'
  BY DEF LocksAreOwned, OwnedIsRemembered, CertainMeansLocked, BackendOf, GenOf
<1>3. ReleasesAreKnown' /\ DestructionIsComplete' /\ SessionsArePast' /\ ChangeIsComplete'
  BY DEF ReleasesAreKnown, DestructionIsComplete, SessionsArePast, ChangeIsComplete, Concerned
<1>. QED  BY <1>1, <1>2, <1>3

LEMMA ClearGoesOnKeeps == IInv /\ ClearGoesOn => IInv'
<1> SUFFICES ASSUME IInv, ClearGoesOn PROVE IInv'
  OBVIOUS
<1> USE DEF IInv, BlockingInv, settings, belief, backends, line, user, notes, device
<1>1. /\ pc \notin {"destroy", "idle"}
      /\ pc' \in {"clearAxesAgain", "clearButtons", "clearButtonsAgain"}
      /\ todo' \subseteq applied \cup unsure
  BY DEF ClearGoesOn, Goto, Concerned
<1>2. UNCHANGED <<settings, fresh, retry, belief, backends, job, pending, line, user, notes,
                  device, orphaned>> /\ ok' = TRUE
  BY DEF ClearGoesOn
<1>3. TypeOK'
  BY <1>1, <1>2 DEF TypeOK, Places
<1>4. LocksAreOwned' /\ OwnedIsRemembered' /\ CertainMeansLocked'
  BY <1>1, <1>2 DEF LocksAreOwned, OwnedIsRemembered, CertainMeansLocked, BackendOf, GenOf
<1>5. ReleasesAreKnown' /\ DestructionIsComplete' /\ SessionsArePast' /\ ChangeIsComplete'
  BY <1>1, <1>2 DEF ReleasesAreKnown, DestructionIsComplete, SessionsArePast, ChangeIsComplete
<1>. QED  BY <1>3, <1>4, <1>5

LEMMA TheClearingKeeps == IInv /\ Cleared => IInv'
<1> SUFFICES ASSUME IInv, Cleared PROVE IInv'
  OBVIOUS
<1> USE DEF IInv, BlockingInv, settings, line, user
<1>1. \/ Return
      \/ pc' = "destroy" /\ todo' = owned /\ UNCHANGED <<job, ok, pending>>
  BY DEF Cleared, Goto
<1>2. /\ pc' \in {"idle", "destroy"} /\ todo' \subseteq owned
      /\ pc' = "destroy" => todo' = owned
      /\ {ok', pending'} \subseteq BOOLEAN /\ job'.gen <= session
      /\ job' \in [method : Methods \cup {None}, want : SUBSET Buttons, aim : SUBSET Axes,
                   fresh : BOOLEAN, gen : Nat]
  <2>1. CASE Return
    BY <2>1, ReturnType DEF TypeOK
  <2>2. CASE pc' = "destroy" /\ todo' = owned /\ UNCHANGED <<job, ok, pending>>
    BY <2>2 DEF TypeOK, SessionsArePast, Cleared
  <2>. QED  BY <1>1, <2>1, <2>2
<1>3. /\ pc # "destroy"
      /\ applied' = {} /\ unsure' = {} /\ requested' = {}
      /\ axisBackend' = None /\ axisGen' = 0 /\ buttonBackend' = None /\ buttonGen' = 0
      /\ forgotten' = owned /\ dropped' = {}
      /\ UNCHANGED <<settings, fresh, retry, line, user, silent, owned, locks, faults, orphaned>>
  BY DEF Cleared
<1>4. TypeOK'
  BY <1>2, <1>3 DEF TypeOK, Places
<1>5. LocksAreOwned' /\ OwnedIsRemembered' /\ CertainMeansLocked'
  BY <1>2, <1>3 DEF LocksAreOwned, OwnedIsRemembered, CertainMeansLocked
<1>6. ReleasesAreKnown' /\ ChangeIsComplete'
  BY <1>2 DEF ReleasesAreKnown, ChangeIsComplete, Releases
<1>7. DestructionIsComplete' /\ SessionsArePast'
  BY <1>2, <1>3 DEF DestructionIsComplete, SessionsArePast, LocksAreOwned, TypeOK
<1>. QED  BY <1>4, <1>5, <1>6, <1>7

LEMMA CreateDeviceKeeps == IInv /\ CreateDevice => IInv'
<1> SUFFICES ASSUME IInv, CreateDevice PROVE IInv'
  OBVIOUS
<1> USE DEF IInv, BlockingInv, settings, belief, backends, CreateDevice
<1>1. exists' \in BOOLEAN /\ capable' \in BOOLEAN /\ phase' \in {"up", "down"}
  OBVIOUS
<1>2. session' \in {0, 1} /\ (exists' => session' = 1) /\ (phase' = "up" => exists')
  OBVIOUS
<1>3. faults' \in 0..MaxFaults
  BY DEF Fault, TypeOK
<1>4. applied = {} /\ unsure = {} /\ buttonGen = 0 /\ axisGen = 0 /\ locks \subseteq orphaned
  BY DEF DestructionIsComplete
<1>5. TypeOK'
  <2>1. {fresh, retry, ok, pending, exists, capable, silent}' \subseteq BOOLEAN
    BY <1>1, ReturnType DEF TypeOK
  <2>2. /\ Return /\ owned' = {} /\ forgotten' = {} /\ real' = {}
        /\ UNCHANGED <<settings, belief, backends, held, presses, locks, dropped, orphaned>>
    OBVIOUS
  <2>. HIDE DEF CreateDevice
  <2>. QED  BY <1>1, <1>2, <1>3, <2>1, <2>2, ReturnType DEF TypeOK, Places
<1>6. LocksAreOwned' /\ OwnedIsRemembered' /\ CertainMeansLocked'
  BY <1>4 DEF LocksAreOwned, OwnedIsRemembered, CertainMeansLocked
<1>7. ReleasesAreKnown' /\ DestructionIsComplete' /\ SessionsArePast' /\ ChangeIsComplete'
  BY <1>2, <1>4, ReturnType
     DEF ReleasesAreKnown, DestructionIsComplete, SessionsArePast, ChangeIsComplete, Releases
<1>. QED  BY <1>5, <1>6, <1>7

(* The line, the box and the user.                                         *)
LEMMA LineLostKeeps == IInv /\ LineLost => IInv'
<1> SUFFICES ASSUME IInv, LineLost PROVE IInv'
  OBVIOUS
<1> USE DEF IInv, BlockingInv, settings, belief, backends, call, user, notes, LineLost,
            StillOrphaned
<1>1. TypeOK'
  BY DEF TypeOK, Fault
<1>2. LocksAreOwned' /\ OwnedIsRemembered' /\ CertainMeansLocked'
  BY DEF LocksAreOwned, OwnedIsRemembered, CertainMeansLocked
<1>3. ReleasesAreKnown' /\ DestructionIsComplete' /\ SessionsArePast' /\ ChangeIsComplete'
  BY DEF ReleasesAreKnown, DestructionIsComplete, SessionsArePast, ChangeIsComplete
<1>. QED  BY <1>1, <1>2, <1>3

LEMMA ReopenKeeps == IInv /\ Reopen => IInv'
<1> SUFFICES ASSUME IInv, Reopen PROVE IInv'
  OBVIOUS
<1> USE DEF IInv, BlockingInv, settings, belief, backends, call, user, notes, device, Reopen
<1>1. TypeOK'
  BY DEF TypeOK
<1>2. LocksAreOwned' /\ OwnedIsRemembered' /\ CertainMeansLocked'
  BY DEF LocksAreOwned, OwnedIsRemembered, CertainMeansLocked
<1>3. ReleasesAreKnown' /\ DestructionIsComplete' /\ SessionsArePast' /\ ChangeIsComplete'
  BY DEF ReleasesAreKnown, DestructionIsComplete, SessionsArePast, ChangeIsComplete
<1>. QED  BY <1>1, <1>2, <1>3

(* In the new session nothing is certain yet.                              *)
LEMMA EstablishKeeps == IInv /\ Establish => IInv'
<1> SUFFICES ASSUME IInv, Establish PROVE IInv'
  OBVIOUS
<1> USE DEF IInv, BlockingInv, settings, belief, backends, call, Establish
<1>1. TypeOK'
  <2>1. {fresh, retry, ok, pending, exists, capable, silent}' \subseteq BOOLEAN
    BY DEF TypeOK
  <2>2. faults' \in 0..MaxFaults /\ session' \in Nat
    BY DEF TypeOK, Fault
  <2>. QED  BY <2>1, <2>2 DEF TypeOK
<1>2. LocksAreOwned' /\ OwnedIsRemembered'
  BY DEF LocksAreOwned, OwnedIsRemembered
<1>3. CertainMeansLocked'
  BY DEF CertainMeansLocked, SessionsArePast, GenOf, TypeOK
<1>4. ReleasesAreKnown' /\ DestructionIsComplete' /\ ChangeIsComplete'
  BY DEF ReleasesAreKnown, DestructionIsComplete, ChangeIsComplete
<1>5. SessionsArePast'
  BY DEF SessionsArePast, TypeOK
<1>. QED  BY <1>1, <1>2, <1>3, <1>4, <1>5

LEMMA BoxRestartsKeeps == IInv /\ BoxRestarts => IInv'
<1> SUFFICES ASSUME IInv, BoxRestarts PROVE IInv'
  OBVIOUS
<1> USE DEF IInv, BlockingInv, settings, belief, backends, call, line, BoxRestarts
<1>1. TypeOK'
  BY DEF TypeOK, Fault
<1>2. LocksAreOwned' /\ OwnedIsRemembered' /\ CertainMeansLocked'
  BY DEF LocksAreOwned, OwnedIsRemembered, CertainMeansLocked
<1>3. ReleasesAreKnown' /\ DestructionIsComplete' /\ SessionsArePast' /\ ChangeIsComplete'
  BY DEF ReleasesAreKnown, DestructionIsComplete, SessionsArePast, ChangeIsComplete
<1>. QED  BY <1>1, <1>2, <1>3

LEMMA PressKeeps == ASSUME IInv, NEW b \in Buttons, Press(b) PROVE IInv'
<1> USE DEF IInv, BlockingInv, settings, belief, backends, call, line, notes, Press
<1>1. TypeOK'
  BY DEF TypeOK, Fault
<1>2. LocksAreOwned' /\ OwnedIsRemembered' /\ CertainMeansLocked'
  BY DEF LocksAreOwned, OwnedIsRemembered, CertainMeansLocked, BackendOf, GenOf
<1>3. ReleasesAreKnown' /\ DestructionIsComplete' /\ SessionsArePast' /\ ChangeIsComplete'
  BY DEF ReleasesAreKnown, DestructionIsComplete, SessionsArePast, ChangeIsComplete
<1>. QED  BY <1>1, <1>2, <1>3

LEMMA ChangesKeep == IInv /\ (ChangeSettings \/ ChangeAim) => IInv'
<1> SUFFICES ASSUME IInv, ChangeSettings \/ ChangeAim PROVE IInv'
  OBVIOUS
<1> USE DEF IInv, BlockingInv, belief, backends, call, line, user, notes, device,
            ChangeSettings, ChangeAim, Change
<1>1. TypeOK'
  <2>1. CASE ChangeSettings
    BY <2>1 DEF TypeOK
  <2>2. CASE ChangeAim
    BY <2>2 DEF TypeOK
  <2>. QED  BY <2>1, <2>2
<1>2. LocksAreOwned' /\ OwnedIsRemembered' /\ CertainMeansLocked'
  BY DEF LocksAreOwned, OwnedIsRemembered, CertainMeansLocked, BackendOf, GenOf
<1>3. ReleasesAreKnown' /\ DestructionIsComplete' /\ SessionsArePast' /\ ChangeIsComplete'
  BY DEF ReleasesAreKnown, DestructionIsComplete, SessionsArePast, ChangeIsComplete
<1>. QED  BY <1>1, <1>2, <1>3

-----------------------------------------------------------------------------
LEMMA InitEstablishes == Init => IInv
<1> SUFFICES ASSUME Init PROVE IInv
  OBVIOUS
<1> USE DEF Init, NoJob
<1>1. TypeOK
  <2>1. cfg \in [method : Methods, want : SUBSET Buttons]
    BY DEF Methods
  <2>2. job \in [method : Methods \cup {None}, want : SUBSET Buttons, aim : SUBSET Axes,
                 fresh : BOOLEAN, gen : Nat]
    OBVIOUS
  <2>3. {fresh, retry, ok, pending, exists, capable, silent} \subseteq BOOLEAN
    OBVIOUS
  <2>4. {buttonGen, axisGen, session} \subseteq Nat /\ pc \in Places
    BY DEF Places
  <2>5. faults \in 0..MaxFaults /\ changes \in 0..MaxChanges /\ presses \in 0..MaxPresses
    OBVIOUS
  <2>6. /\ aim = {} /\ requested = {} /\ applied = {} /\ unsure = {} /\ todo = {} /\ owned = {}
        /\ locks = {} /\ forgotten = {} /\ orphaned = {} /\ dropped = {} /\ real = {} /\ held = {}
        /\ buttonBackend = None /\ axisBackend = None /\ phase = "up"
    OBVIOUS
  <2>. HIDE DEF Init
  <2>. QED  BY <2>1, <2>2, <2>3, <2>4, <2>5, <2>6 DEF TypeOK
<1>2. LocksAreOwned /\ OwnedIsRemembered /\ CertainMeansLocked
  BY DEF LocksAreOwned, OwnedIsRemembered, CertainMeansLocked
<1>3. ReleasesAreKnown /\ DestructionIsComplete /\ SessionsArePast /\ ChangeIsComplete
  BY DEF ReleasesAreKnown, DestructionIsComplete, SessionsArePast, ChangeIsComplete, Releases
<1>. QED  BY <1>1, <1>2, <1>3 DEF IInv, BlockingInv

LEMMA StutterKeeps == IInv /\ UNCHANGED vars => IInv'
<1> SUFFICES ASSUME IInv, UNCHANGED vars PROVE IInv'
  OBVIOUS
<1> USE DEF IInv, BlockingInv, vars, settings, belief, backends, call, line, user, notes, device
<1>1. TypeOK'
  BY DEF TypeOK
<1>2. LocksAreOwned' /\ OwnedIsRemembered' /\ CertainMeansLocked'
  BY DEF LocksAreOwned, OwnedIsRemembered, CertainMeansLocked, BackendOf, GenOf
<1>3. ReleasesAreKnown' /\ DestructionIsComplete' /\ SessionsArePast' /\ ChangeIsComplete'
  BY DEF ReleasesAreKnown, DestructionIsComplete, SessionsArePast, ChangeIsComplete
<1>. QED  BY <1>1, <1>2, <1>3

LEMMA StepKeeps == IInv /\ [Next]_vars => IInv'
<1> SUFFICES ASSUME IInv, [Next]_vars PROVE IInv'
  OBVIOUS
<1>1. CASE \E due \in BOOLEAN : BeginUpdate(due)
  BY <1>1, BeginUpdateKeeps
<1>2. CASE Command
  BY <1>2, ReleaseOneKeeps, LockAxisKeeps, WaitForReleaseKeeps, LockButtonKeeps,
     DestroyOneKeeps DEF Command
<1>3. CASE Course
  BY <1>3, AxesReleasedKeeps, BeginButtonsKeeps, NotYetKeeps, ButtonsReleasedKeeps,
     EndUpdateKeeps, ClearGoesOnKeeps, TheClearingKeeps, CreateDeviceKeeps DEF Course
<1>4. CASE Pause \/ LineLost \/ Reopen \/ Establish \/ BoxRestarts
  BY <1>4, PauseKeeps, LineLostKeeps, ReopenKeeps, EstablishKeeps, BoxRestartsKeeps
<1>5. CASE (\E b \in Buttons : Press(b)) \/ ChangeSettings \/ ChangeAim
  BY <1>5, PressKeeps, ChangesKeep
<1>6. CASE UNCHANGED vars
  BY <1>6, StutterKeeps
<1>. QED  BY <1>1, <1>2, <1>3, <1>4, <1>5, <1>6 DEF Next

LEMMA Invariance == Spec => []IInv
BY InitEstablishes, StepKeeps, PTL DEF Spec

(* Whatever is locked at the box, somebody knows and will lift: the driver *)
(* until it is destroyed, and, but for what a clear() has given up, the    *)
(* blocking (hotkey_blocking.cpp:41-131, MakcuNew.cpp:718-744).            *)
THEOREM BlockingInvHolds == Spec => []BlockingInv
<1>1. IInv => BlockingInv
  BY DEF IInv
<1>. QED  BY <1>1, Invariance, PTL

(* What the blocking takes for certain is in place, in the session of the  *)
(* line it was confirmed in (hotkey_blocking.cpp:72-100, 218-237), however *)
(* calls, failures and reconnections interleave.                           *)
THEOREM CertainMeansLockedHolds == Spec => []CertainMeansLocked
<1>1. IInv => CertainMeansLocked
  BY DEF IInv
<1>. QED  BY <1>1, Invariance, PTL
=============================================================================
