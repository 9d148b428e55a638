-------------------------- MODULE KmboxMasksProofs --------------------------
(***************************************************************************)
(* The masks of KmboxMasks for any keys, any faults and any changes.       *)
(***************************************************************************)
EXTENDS KmboxMasks, TLAPS

(* What a connection before this one could not lift is at the box, and     *)
(* nothing this one is sure of having applied.                             *)
OrphansAreApart ==
    /\ orphaned \subseteq box
    /\ \A k \in Keys \ unsure : k \in applied => k \notin orphaned

(* How far maskRealKeyboard is says what the driver has asked for.         *)
CallIsKept ==
    /\ auto \subseteq masked
    /\ place = "idle" => todo = {} /\ okay
    /\ ~okay => doubt
    /\ place = "idle" /\ ~doubt
          => auto = masked /\ (masked = {} \/ (masked = Movement /\ active))
    /\ place = "mask" /\ okay
          => ~doubt /\ auto = masked /\ masked = Movement \ todo /\ auto \cap unsure = {}
    /\ place \in Unmasking => auto \subseteq todo /\ todo \subseteq masked
                              /\ (okay => masked = todo)

(* While the driver says that the keys are masked, none of them is in      *)
(* doubt.                                                                  *)
SaidIsCertain == said => place = "idle" /\ auto = Movement /\ auto \cap unsure = {}

(* At the end of a driver or a connection nothing of the automatic stop    *)
(* is left.                                                                *)
EndsAreQuiet ==
    /\ stage \in {"dropping", "dropped"} => place \in {"idle", "unmask"} /\ ~said
    /\ stage = "dropped" /\ place = "idle" => auto = {}
    /\ stage \in {"close", "closeAgain", "away"}
          => place = "idle" /\ ~said /\ ~doubt /\ auto = {} /\ masked = {}
    /\ stage = "away" => hot = {}

IInv == /\ TypeOK /\ CertainMasksStand /\ NoMaskIsForgotten /\ OrphansAreApart
        /\ CallIsKept /\ SaidIsCertain /\ EndsAreQuiet

-----------------------------------------------------------------------------
(* What a command does, whatever is answered: the masks of the connection  *)
(* remain as they should be, and what was certain and needed no command    *)
(* remains certain.                                                        *)
Masks == {hot, auto, applied, unsure, box, orphaned} \subseteq SUBSET Keys
Known == CertainMasksStand /\ NoMaskIsForgotten /\ OrphansAreApart

SyncSays(keys, failed) ==
    /\ {applied', unsure', box', orphaned'} \subseteq SUBSET Keys
    /\ faults' \in 0..MaxFaults
    /\ Known'
    /\ failed = {} => unsure' = unsure \ keys
    /\ \A k \in Keys \ unsure : (k \in hot \cup auto <=> k \in hot' \cup auto')
                                   => k \notin unsure'

LEMMA SyncEffect ==
  ASSUME NEW keys \in SUBSET Keys, NEW failed, Sync(keys, failed),
         Masks, Known, faults \in 0..MaxFaults,
         {hot', auto'} \subseteq SUBSET Keys,
         \A k \in Keys \ keys : k \in hot \cup auto <=> k \in hot' \cup auto'
  PROVE  SyncSays(keys, failed)
<1> DEFINE wanted == hot' \cup auto'
           differ == keys \cap Differs(wanted)
<1>1. /\ failed \subseteq differ
      /\ differ \subseteq Keys /\ wanted \subseteq Keys
  BY DEF Sync, Differs
<1>2. PICK done \in SUBSET failed :
        LET effect == (differ \ failed) \cup done IN
        /\ box' = (box \ effect) \cup (wanted \cap effect)
        /\ orphaned' = orphaned \ effect
        /\ applied' = (applied \ (differ \ failed)) \cup (wanted \cap (differ \ failed))
        /\ unsure' = (unsure \ differ) \cup failed
        /\ IF failed = {} THEN UNCHANGED faults
           ELSE faults < MaxFaults /\ faults' = faults + 1
  BY DEF Sync, Sent
<1>3. \A k \in Keys : k \in differ <=>
         k \in keys /\ ((k \in applied) # (k \in wanted) \/ k \in unsure)
  BY DEF Differs
<1>4. {applied', unsure', box', orphaned'} \subseteq SUBSET Keys
  BY <1>1, <1>2 DEF Masks
<1>5. faults' \in 0..MaxFaults
  BY <1>2, BoundsAssumption
<1> HIDE DEF differ
<1>6. CertainMasksStand'
  BY <1>1, <1>2, <1>3 DEF Known, CertainMasksStand
<1>7. NoMaskIsForgotten'
  BY <1>1, <1>2, <1>3 DEF Known, CertainMasksStand, NoMaskIsForgotten, Masks
<1>8. OrphansAreApart'
  BY <1>1, <1>2, <1>3 DEF Known, CertainMasksStand, OrphansAreApart
<1>9. failed = {} => unsure' = unsure \ keys
  BY <1>1, <1>2, <1>3 DEF Masks
<1>10. \A k \in Keys \ unsure : (k \in hot \cup auto <=> k \in wanted) => k \notin unsure'
  BY <1>1, <1>2, <1>3 DEF Known, CertainMasksStand
<1>. QED
  BY <1>4, <1>5, <1>6, <1>7, <1>8, <1>9, <1>10 DEF SyncSays, Known

(* The same for the engine's calls and the destructor, of the driver's     *)
(* masks when nobody withdraws them: those that were certain remain so.    *)
LEMMA MasksStay ==
  ASSUME NEW keys, NEW failed, SyncSays(keys, failed), Masks,
         auto \cap unsure = {}, auto' = auto
  PROVE  auto' \cap unsure' = {}
BY DEF SyncSays, Masks

LEMMA InitIsSound == Init => IInv
<1> SUFFICES ASSUME Init PROVE IInv
  OBVIOUS
<1>1. TypeOK
  <2>1. 0 \in 0..MaxFaults /\ 0 \in 0..MaxChanges
    BY BoundsAssumption
  <2>. QED  BY <2>1 DEF Init, TypeOK, Unmasking
<1>2. CertainMasksStand /\ NoMaskIsForgotten /\ OrphansAreApart
  BY DEF Init, CertainMasksStand, NoMaskIsForgotten, OrphansAreApart
<1>3. CallIsKept /\ SaidIsCertain /\ EndsAreQuiet
  BY DEF Init, CallIsKept, SaidIsCertain, EndsAreQuiet, Unmasking
<1>. QED  BY <1>1, <1>2, <1>3 DEF IInv

LEMMA UpdateKeeps == IInv /\ Update => IInv'
<1> SUFFICES ASSUME IInv, Update PROVE IInv'
  OBVIOUS
<1>1. PICK keys \in SUBSET Keys, held \in SUBSET Keys, failed \in SUBSET Keys :
         SetHotkeyMasks(keys, held, failed) /\ again' = (failed \cup held \cup want # {})
  BY DEF IInv, TypeOK, Update
<1>2. Masks /\ Known /\ faults \in 0..MaxFaults
  BY KeysAssumption DEF IInv, TypeOK, Masks, Known
<1>3. hot' \in SUBSET Keys /\ auto' = auto /\ Sync(Keys, failed)
  BY <1>1, <1>2 DEF SetHotkeyMasks, Masks
<1>4. SyncSays(Keys, failed)
  BY <1>2, <1>3, SyncEffect DEF Masks
<1> USE DEF Update, driver, call, Unmasking
<1>5. TypeOK'
  BY <1>1, <1>3, <1>4 DEF IInv, TypeOK, SyncSays
<1>6. CertainMasksStand' /\ NoMaskIsForgotten' /\ OrphansAreApart'
  BY <1>4 DEF SyncSays, Known, CertainMasksStand, NoMaskIsForgotten, OrphansAreApart
<1>7. auto \cap unsure = {} => auto' \cap unsure' = {}
  BY <1>2, <1>3, <1>4, MasksStay
<1>8. CallIsKept'
  BY <1>3, <1>7 DEF IInv, CallIsKept, Unmasking
<1>9. SaidIsCertain' /\ EndsAreQuiet'
  BY <1>3, <1>7 DEF IInv, SaidIsCertain, EndsAreQuiet
<1>. QED  BY <1>5, <1>6, <1>8, <1>9 DEF IInv

LEMMA ClearKeeps == IInv /\ Clear => IInv'
<1> SUFFICES ASSUME IInv, Clear PROVE IInv'
  OBVIOUS
<1>1. PICK failed \in SUBSET Keys :
         /\ SetHotkeyMasks({}, {}, failed)
         /\ stage' = IF stage = "clear" /\ failed # {} THEN "clearAgain" ELSE "cleared"
  BY DEF Clear
<1>2. Masks /\ Known /\ faults \in 0..MaxFaults
  BY KeysAssumption DEF IInv, TypeOK, Masks, Known
<1>3. hot' = {} /\ auto' = auto /\ Sync(Keys, failed)
  BY <1>1 DEF SetHotkeyMasks
<1>4. SyncSays(Keys, failed)
  BY <1>2, <1>3, SyncEffect DEF Masks
<1> USE DEF Clear, settings, driver, call, Unmasking
<1>5. TypeOK'
  BY <1>1, <1>3, <1>4 DEF IInv, TypeOK, SyncSays
<1>6. CertainMasksStand' /\ NoMaskIsForgotten' /\ OrphansAreApart'
  BY <1>4 DEF SyncSays, Known, CertainMasksStand, NoMaskIsForgotten, OrphansAreApart
<1>7. auto \cap unsure = {} => auto' \cap unsure' = {}
  BY <1>2, <1>3, <1>4, MasksStay
<1>8. CallIsKept'
  BY <1>3, <1>7 DEF IInv, CallIsKept, Unmasking
<1>9. SaidIsCertain' /\ EndsAreQuiet'
  BY <1>1, <1>3, <1>7 DEF IInv, SaidIsCertain, EndsAreQuiet
<1>. QED  BY <1>5, <1>6, <1>8, <1>9 DEF IInv

LEMMA CloseKeeps == IInv /\ Close => IInv'
<1> SUFFICES ASSUME IInv, Close PROVE IInv'
  OBVIOUS
<1>1. PICK failed \in SUBSET Keys :
         /\ Sync(Keys, failed)
         /\ stage' = IF stage = "close" /\ failed # {} THEN "closeAgain" ELSE "away"
  BY DEF Close
<1>2. Masks /\ Known /\ faults \in 0..MaxFaults
  BY KeysAssumption DEF IInv, TypeOK, Masks, Known
<1>3. hot' = {} /\ auto' = {}
  BY DEF Close
<1>4. SyncSays(Keys, failed)
  BY <1>1, <1>2, <1>3, SyncEffect DEF Masks
<1> USE DEF Close, settings, driver, call, Unmasking
<1>5. TypeOK'
  BY <1>1, <1>3, <1>4 DEF IInv, TypeOK, SyncSays
<1>6. CertainMasksStand' /\ NoMaskIsForgotten' /\ OrphansAreApart'
  BY <1>4 DEF SyncSays, Known, CertainMasksStand, NoMaskIsForgotten, OrphansAreApart
<1>7. stage \in {"close", "closeAgain"} /\ stage' \in {"closeAgain", "away"}
  BY <1>1
<1>8. CallIsKept'
  BY <1>3, <1>7 DEF IInv, CallIsKept, EndsAreQuiet, Unmasking
<1>9. SaidIsCertain' /\ EndsAreQuiet'
  BY <1>3, <1>7 DEF IInv, SaidIsCertain, EndsAreQuiet
<1>. QED  BY <1>5, <1>6, <1>8, <1>9 DEF IInv

(* One key of the driver: what MaskKeyboard does to the connection.        *)
LEMMA OneKey ==
  ASSUME IInv, NEW k \in todo, NEW on \in BOOLEAN, NEW failed \in SUBSET {k},
         MaskKeyboard(k, on, failed)
  PROVE  /\ k \in Movement
         /\ auto' = IF on THEN auto \cup {k} ELSE auto \ {k}
         /\ hot' = hot
         /\ SyncSays({k}, failed)
<1>1. k \in Movement /\ Movement \subseteq Keys
  BY KeysAssumption DEF IInv, TypeOK
<1>2. Masks /\ Known /\ faults \in 0..MaxFaults
  BY KeysAssumption DEF IInv, TypeOK, Masks, Known
<1>3. auto' = IF on THEN auto \cup {k} ELSE auto \ {k}
  BY DEF MaskKeyboard
<1>4. hot' = hot /\ Sync({k}, failed)
  BY DEF MaskKeyboard
<1>5. {hot', auto'} \subseteq SUBSET Keys
  BY <1>1, <1>2, <1>3, <1>4 DEF Masks
<1>6. \A j \in Keys \ {k} : j \in hot \cup auto <=> j \in hot' \cup auto'
  BY <1>3, <1>4
<1>7. SyncSays({k}, failed)
  BY <1>1, <1>2, <1>4, <1>5, <1>6, SyncEffect
<1>. QED  BY <1>1, <1>3, <1>4, <1>7

LEMMA MaskOneKeeps == IInv /\ MaskOne => IInv'
<1> SUFFICES ASSUME IInv, MaskOne PROVE IInv'
  OBVIOUS
<1>1. PICK k \in todo : \E failed \in SUBSET {k} :
         /\ MaskKeyboard(k, TRUE, failed)
         /\ todo' = todo \ {k}
         /\ masked' = masked \cup {k}
         /\ okay' = (okay /\ failed = {})
         /\ doubt' = (doubt \/ failed # {})
  BY DEF MaskOne
<1>2. PICK failed \in SUBSET {k} :
         /\ MaskKeyboard(k, TRUE, failed)
         /\ todo' = todo \ {k}
         /\ masked' = masked \cup {k}
         /\ okay' = (okay /\ failed = {})
         /\ doubt' = (doubt \/ failed # {})
  BY <1>1
<1>3. /\ k \in Movement /\ auto' = auto \cup {k} /\ hot' = hot
      /\ SyncSays({k}, failed)
  BY <1>2, OneKey
<1>4. place = "mask" /\ UNCHANGED <<settings, place, active, said, stage>>
  BY DEF MaskOne
<1>5. TypeOK'
  BY <1>2, <1>3, <1>4 DEF IInv, TypeOK, SyncSays, settings
<1>6. CertainMasksStand' /\ NoMaskIsForgotten' /\ OrphansAreApart'
  BY <1>3 DEF SyncSays, Known, CertainMasksStand, NoMaskIsForgotten, OrphansAreApart
<1>7. okay' => auto' \cap unsure' = {}
  <2> SUFFICES ASSUME okay', NEW j \in auto' PROVE j \notin unsure'
    OBVIOUS
  <2>1. failed = {} /\ auto \cap unsure = {} /\ auto \subseteq Keys
    BY <1>2, <1>4, KeysAssumption DEF IInv, CallIsKept, TypeOK
  <2>2. unsure' = unsure \ {k}
    BY <1>3, <2>1 DEF SyncSays
  <2>. QED  BY <1>3, <2>1, <2>2
<1>8. CallIsKept'
  BY <1>2, <1>3, <1>4, <1>7 DEF IInv, CallIsKept, Unmasking, TypeOK
<1>9. SaidIsCertain' /\ EndsAreQuiet'
  BY <1>4 DEF IInv, SaidIsCertain, EndsAreQuiet
<1>. QED  BY <1>5, <1>6, <1>8, <1>9 DEF IInv

LEMMA UnmaskOneKeeps == IInv /\ UnmaskOne => IInv'
<1> SUFFICES ASSUME IInv, UnmaskOne PROVE IInv'
  OBVIOUS
<1>1. PICK k \in todo : \E failed \in SUBSET {k} :
         /\ MaskKeyboard(k, FALSE, failed)
         /\ todo' = todo \ {k}
         /\ masked' = IF failed = {} THEN masked \ {k} ELSE masked
         /\ okay' = (okay /\ failed = {})
         /\ doubt' = (doubt \/ failed # {})
  BY DEF UnmaskOne
<1>2. PICK failed \in SUBSET {k} :
         /\ MaskKeyboard(k, FALSE, failed)
         /\ todo' = todo \ {k}
         /\ masked' = IF failed = {} THEN masked \ {k} ELSE masked
         /\ okay' = (okay /\ failed = {})
         /\ doubt' = (doubt \/ failed # {})
  BY <1>1
<1>3. /\ k \in Movement /\ auto' = auto \ {k} /\ hot' = hot
      /\ SyncSays({k}, failed)
  BY <1>2, OneKey
<1>4. place \in Unmasking /\ UNCHANGED <<settings, place, active, said, stage>>
  BY DEF UnmaskOne
<1>5. TypeOK'
  BY <1>2, <1>3, <1>4 DEF IInv, TypeOK, SyncSays, settings
<1>6. CertainMasksStand' /\ NoMaskIsForgotten' /\ OrphansAreApart'
  BY <1>3 DEF SyncSays, Known, CertainMasksStand, NoMaskIsForgotten, OrphansAreApart
<1>8. CallIsKept'
  BY <1>2, <1>3, <1>4 DEF IInv, CallIsKept, Unmasking
<1>9. SaidIsCertain' /\ EndsAreQuiet'
  BY <1>3, <1>4 DEF IInv, SaidIsCertain, EndsAreQuiet, Unmasking
<1>. QED  BY <1>5, <1>6, <1>8, <1>9 DEF IInv

(* Steps that send nothing leave the connection as it is.                  *)
LEMMA Untouched ==
  ASSUME IInv, UNCHANGED <<connection, box, orphaned>>
  PROVE  CertainMasksStand' /\ NoMaskIsForgotten' /\ OrphansAreApart'
BY DEF IInv, connection, CertainMasksStand, NoMaskIsForgotten, OrphansAreApart

Calls == BeginMask \/ BeginUnmask \/ MaskEnds \/ UnmaskEnds

LEMMA CallsKeep == IInv /\ Calls => IInv'
<1> SUFFICES ASSUME IInv, Calls PROVE IInv'
  OBVIOUS
<1> USE DEF Unmasking, Goto, Finish
<1>1. UNCHANGED <<settings, connection, stage, device>>
  BY DEF Calls, BeginMask, BeginUnmask, MaskEnds, UnmaskEnds
<1>2. CertainMasksStand' /\ NoMaskIsForgotten' /\ OrphansAreApart'
  BY <1>1, Untouched DEF device
<1> USE DEF settings, connection, driver, device
<1>3. TypeOK'
  <2>1. CASE BeginMask
    BY <1>1, <2>1 DEF IInv, TypeOK, BeginMask
  <2>2. CASE BeginUnmask
    BY <1>1, <2>2 DEF IInv, TypeOK, BeginUnmask
  <2>3. CASE MaskEnds
    BY <1>1, <2>3 DEF IInv, TypeOK, MaskEnds
  <2>4. CASE UnmaskEnds
    BY <1>1, <2>4 DEF IInv, TypeOK, UnmaskEnds
  <2>. QED  BY <2>1, <2>2, <2>3, <2>4 DEF Calls
<1>4. CallIsKept' /\ SaidIsCertain' /\ EndsAreQuiet'
  <2>1. CASE BeginMask
    BY <1>1, <2>1 DEF IInv, CallIsKept, SaidIsCertain, EndsAreQuiet, TypeOK, BeginMask, Serving
  <2>2. CASE BeginUnmask
    BY <1>1, <2>2 DEF IInv, CallIsKept, SaidIsCertain, EndsAreQuiet, TypeOK, BeginUnmask, Serving
  <2>3. CASE MaskEnds
    BY <1>1, <2>3 DEF IInv, CallIsKept, SaidIsCertain, EndsAreQuiet, TypeOK, MaskEnds
  <2>4. CASE UnmaskEnds
    BY <1>1, <2>4 DEF IInv, CallIsKept, SaidIsCertain, EndsAreQuiet, TypeOK, UnmaskEnds
  <2>. QED  BY <2>1, <2>2, <2>3, <2>4 DEF Calls
<1>. QED  BY <1>2, <1>3, <1>4 DEF IInv

Others == ChangeSettings \/ Pause \/ ResetMouse \/ DropDriver \/ DriverGone

LEMMA OthersKeep == IInv /\ Others => IInv'
<1> SUFFICES ASSUME IInv, Others PROVE IInv'
  OBVIOUS
<1> USE DEF Unmasking, Goto
<1>1. UNCHANGED <<connection, device>>
  BY DEF Others, ChangeSettings, Pause, ResetMouse, DropDriver, DriverGone
<1>2. CertainMasksStand' /\ NoMaskIsForgotten' /\ OrphansAreApart'
  BY <1>1, Untouched DEF device
<1> USE DEF connection, driver, call, device
<1>3. TypeOK'
  <2>1. CASE ChangeSettings
    BY <1>1, <2>1, BoundsAssumption DEF IInv, TypeOK, ChangeSettings
  <2>2. CASE Pause
    <3>1. changes' \in 0..MaxChanges
      BY <2>2, BoundsAssumption DEF IInv, TypeOK, Pause
    <3>. QED  BY <1>1, <2>2, <3>1 DEF IInv, TypeOK, Pause
  <2>3. CASE ResetMouse
    BY <1>1, <2>3 DEF IInv, TypeOK, ResetMouse, settings
  <2>4. CASE DropDriver
    BY <1>1, <2>4 DEF IInv, TypeOK, DropDriver, settings
  <2>5. CASE DriverGone
    BY <1>1, <2>5 DEF IInv, TypeOK, DriverGone
  <2>. QED  BY <2>1, <2>2, <2>3, <2>4, <2>5 DEF Others
<1>4. CallIsKept' /\ SaidIsCertain' /\ EndsAreQuiet'
  <2>1. CASE ChangeSettings
    BY <1>1, <2>1 DEF IInv, CallIsKept, SaidIsCertain, EndsAreQuiet, ChangeSettings
  <2>2. CASE Pause
    BY <1>1, <2>2 DEF IInv, CallIsKept, SaidIsCertain, EndsAreQuiet, Pause
  <2>3. CASE ResetMouse
    BY <1>1, <2>3 DEF IInv, CallIsKept, SaidIsCertain, EndsAreQuiet, ResetMouse
  <2>4. CASE DropDriver
    BY <1>1, <2>4 DEF IInv, CallIsKept, SaidIsCertain, EndsAreQuiet, DropDriver
  <2>5. CASE DriverGone
    BY <1>1, <2>5 DEF IInv, CallIsKept, SaidIsCertain, EndsAreQuiet, DriverGone
  <2>. QED  BY <2>1, <2>2, <2>3, <2>4, <2>5 DEF Others
<1>. QED  BY <1>2, <1>3, <1>4 DEF IInv

LEMMA ConnectKeeps == IInv /\ Connect => IInv'
<1> SUFFICES ASSUME IInv, Connect PROVE IInv'
  OBVIOUS
<1> USE DEF Connect, driver, call, Unmasking
<1>1. hot = {} /\ auto = {}
  BY DEF IInv, EndsAreQuiet
<1>2. CertainMasksStand' /\ NoMaskIsForgotten' /\ OrphansAreApart'
  BY <1>1 DEF IInv, TypeOK, CertainMasksStand, NoMaskIsForgotten, OrphansAreApart
<1>3. TypeOK'
  BY DEF IInv, TypeOK
<1>4. CallIsKept' /\ SaidIsCertain' /\ EndsAreQuiet'
  BY <1>1 DEF IInv, CallIsKept, SaidIsCertain, EndsAreQuiet
<1>. QED  BY <1>2, <1>3, <1>4 DEF IInv

LEMMA StutterKeeps == IInv /\ UNCHANGED vars => IInv'
BY DEF IInv, TypeOK, CertainMasksStand, NoMaskIsForgotten, OrphansAreApart, CallIsKept,
       SaidIsCertain, EndsAreQuiet, Unmasking, vars, settings, connection, driver, call, device

(* The masks are as MasksInv says: the connection knows of every mask at   *)
(* the box, what it is sure of is so, the driver holds all movement keys   *)
(* or none or knows of its doubt, and masked means masked                  *)
(* (kmboxNetConnection.cpp, mouse_driver.cpp).                             *)
THEOREM MasksInvHolds == Spec => []MasksInv
<1>1. Init => IInv
  BY InitIsSound
<1>2. IInv /\ [Next]_vars => IInv'
  BY UpdateKeeps, ClearKeeps, CloseKeeps, MaskOneKeeps, UnmaskOneKeeps, CallsKeep,
     OthersKeep, ConnectKeeps, StutterKeeps
  DEF Next, AimLoop, Engine, Devices, Calls, Others
<1>3. IInv => MasksInv
  <2> SUFFICES ASSUME IInv PROVE MasksInv
    OBVIOUS
  <2>1. AllOrNothing
    BY DEF IInv, CallIsKept, AllOrNothing
  <2>2. SaidMeansMasked
    <3> SUFFICES ASSUME said, NEW k \in Movement PROVE k \in box
      BY DEF SaidMeansMasked
    <3>1. k \in auto /\ k \in Keys \ unsure
      BY KeysAssumption DEF IInv, SaidIsCertain
    <3>2. k \in applied /\ k \notin orphaned
      BY <3>1 DEF IInv, CertainMasksStand, OrphansAreApart
    <3>. QED  BY <3>1, <3>2 DEF IInv, CertainMasksStand
  <2>. QED  BY <2>1, <2>2 DEF IInv, MasksInv
<1>. QED  BY <1>1, <1>2, <1>3, PTL DEF Spec
=============================================================================
