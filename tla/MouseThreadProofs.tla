-------------------------- MODULE MouseThreadProofs -------------------------
(***************************************************************************)
(* The safety properties of MouseThread for any finite set of callers, any *)
(* displacements and any number of calls.                                  *)
(***************************************************************************)
EXTENDS MouseThread, FiniteSetTheorems, SequenceTheorems, TLAPS

USE CallersAssumption, NumbersAssumption, DriverAssumption

(* Who has announced a button and not yet withdrawn it.                    *)
Announced == {c \in Callers : pc[c] \in {"press", "retire"}}

(* Each lock is held exactly where the code holds it.                      *)
LocksAreHeld ==
    /\ wpc \in {"recheck", "driving"} <=> inputMtx = Worker
    /\ \A c \in Callers : pc[c] \in {"driving", "credit"} <=> inputMtx = c
    /\ \A c \in Callers : pc[c] = "cancel" <=> queueMtx = c
    /\ wpc \in {"input", "yield", "recheck", "driving", "sent", "refused"}
          <=> dispatchMtx = Worker

ButtonsAreCounted == buttons = Cardinality(Announced)

(* Generations: the slot holds the newest one, a move in hand is newer     *)
(* than every finished clear as long as it is the newest, and a clear in   *)
(* progress has already outdated everything.                               *)
Holding == wpc \in {"dispatch", "input", "yield", "recheck", "driving"}
GenerationsAgree ==
    /\ wmove.gen <= gen /\ barrier <= gen /\ delivered <= gen
    /\ slot # NoMove => slot.gen = gen /\ barrier < gen
    /\ Holding /\ wmove.gen = gen =>
          barrier < gen /\ queueMtx = Free /\ slot = NoMove
    /\ queueMtx # Free => slot = NoMove

(* A move already past the priority check has passed no announced button   *)
(* yet.                                                                    *)
Passing == wpc \in {"recheck", "driving"} \/ \E c \in Callers : pc[c] = "driving"
OvertakingIsBounded == \A c \in Callers : pc[c] = "press" =>
    /\ overtaken[c] <= 1
    /\ Passing => overtaken[c] = 0

(* A refusal not yet counted is in the worker's hands.                     *)
RefusalsAreKept ==
    failed + (IF wpc = "refused" /\ wmove.gen = gen THEN 1 ELSE 0) <= refused

IInv == /\ TypeOK /\ LocksAreHeld /\ ButtonsAreCounted /\ GenerationsAgree
        /\ OvertakingIsBounded /\ RefusalsAreKept /\ FeedbackConservation
        /\ ClearIsABarrier /\ SuspendedMeansQuiet

LEMMA CappedType ==
  ASSUME NEW s \in Seq(Int)
  PROVE  Capped(s) \in Seq(Int)
<1>1. CASE Len(s) > EventCap
  <2>1. s # <<>>
    BY <1>1
  <2>. QED  BY <1>1, <2>1 DEF Capped
<1>2. CASE ~(Len(s) > EventCap)
  BY <1>2 DEF Capped
<1>. QED  BY <1>1, <1>2

-----------------------------------------------------------------------------
(* Counting the announced buttons.                                         *)

LEMMA AnnouncedIsFinite == IsFiniteSet(Announced)
  BY FS_Subset DEF Announced

LEMMA NoButtonAnnounced ==
  ASSUME ButtonsAreCounted, buttons = 0
  PROVE  Announced = {}
  BY AnnouncedIsFinite, FS_EmptySet DEF ButtonsAreCounted

LEMMA SomeButtonAnnounced ==
  ASSUME ButtonsAreCounted, NEW c \in Announced
  PROVE  buttons \in Nat /\ buttons > 0
<1>1. buttons \in Nat /\ (buttons = 0 <=> Announced = {})
  BY AnnouncedIsFinite, FS_EmptySet, FS_CardinalityType DEF ButtonsAreCounted
<1>. QED  BY <1>1

-----------------------------------------------------------------------------
(* Every action preserves the inductive invariant: the conjuncts it can    *)
(* disturb one by one, the others together.                                *)

LEMMA WCheckStopInv ==
  ASSUME IInv, WCheckStop
  PROVE  IInv'
<1> USE DEF WCheckStop, slotVars, dispatchVars, deviceVars, feedbackVars,
        workerVars, callerVars, history
<1>1. TypeOK'
  BY DEF IInv, TypeOK, Move, NoMove, Kinds, Threads, WorkerPlaces,
     CallerPlaces, Capped
<1>2. LocksAreHeld'
  BY DEF IInv, TypeOK, LocksAreHeld, Threads
<1>3. GenerationsAgree'
  BY DEF IInv, TypeOK, GenerationsAgree, LocksAreHeld, Holding, NoMove, Move,
     Threads
<1>4. OvertakingIsBounded'
  BY DEF IInv, TypeOK, OvertakingIsBounded, Passing, LocksAreHeld, Threads
<1>5. RefusalsAreKept'
  BY DEF IInv, TypeOK, RefusalsAreKept, GenerationsAgree, Move
<1>6. FeedbackConservation'
  BY DEF IInv, TypeOK, FeedbackConservation, LocksAreHeld, Threads, Move
<1>7. ClearIsABarrier'
  BY DEF IInv, TypeOK, ClearIsABarrier, GenerationsAgree, LocksAreHeld,
     Holding, Move
<1>8. SuspendedMeansQuiet'
  BY DEF IInv, TypeOK, SuspendedMeansQuiet, LocksAreHeld
<1>9. ButtonsAreCounted'
  BY DEF IInv, ButtonsAreCounted, Announced
<1>. QED  BY <1>1, <1>2, <1>3, <1>4, <1>5, <1>6, <1>7, <1>8, <1>9 DEF IInv

LEMMA WLockInv ==
  ASSUME IInv, WLock
  PROVE  IInv'
<1> USE DEF WLock, slotVars, dispatchVars, deviceVars, feedbackVars,
        workerVars, callerVars, history
<1>1. TypeOK'
  <2>1. wpc' \in WorkerPlaces
    BY DEF IInv, TypeOK, WorkerPlaces
  <2>2. asleep' \in BOOLEAN
    BY DEF IInv, TypeOK
  <2>3. wmove' \in Move
    BY DEF IInv, TypeOK, Move, NoMove
  <2>4. slot' \in Move
    BY DEF IInv, TypeOK, Move, NoMove
  <2>. QED  BY <2>1, <2>2, <2>3, <2>4 DEF IInv, TypeOK
<1>2. LocksAreHeld'
  BY DEF IInv, TypeOK, LocksAreHeld, Threads
<1>3. GenerationsAgree'
  BY DEF IInv, TypeOK, GenerationsAgree, LocksAreHeld, Holding, NoMove, Move,
     Threads
<1>4. OvertakingIsBounded'
  BY DEF IInv, TypeOK, OvertakingIsBounded, Passing, LocksAreHeld, Threads
<1>5. RefusalsAreKept'
  BY DEF IInv, TypeOK, RefusalsAreKept, GenerationsAgree, Move
<1>6. FeedbackConservation'
  BY DEF IInv, TypeOK, FeedbackConservation, LocksAreHeld, Threads, Move
<1>7. ClearIsABarrier'
  BY DEF IInv, TypeOK, ClearIsABarrier, GenerationsAgree, LocksAreHeld,
     Holding, Move
<1>8. SuspendedMeansQuiet'
  BY DEF IInv, TypeOK, SuspendedMeansQuiet, LocksAreHeld
<1>9. ButtonsAreCounted'
  BY DEF IInv, ButtonsAreCounted, Announced
<1>. QED  BY <1>1, <1>2, <1>3, <1>4, <1>5, <1>6, <1>7, <1>8, <1>9 DEF IInv

LEMMA WWakeInv ==
  ASSUME IInv, WWake
  PROVE  IInv'
<1> USE DEF WWake, slotVars, dispatchVars, deviceVars, feedbackVars,
        workerVars, callerVars, history
<1>1. TypeOK'
  BY DEF IInv, TypeOK, Move, NoMove, Kinds, Threads, WorkerPlaces,
     CallerPlaces, Capped
<1>2. LocksAreHeld'
  BY DEF IInv, TypeOK, LocksAreHeld, Threads
<1>3. GenerationsAgree'
  BY DEF IInv, TypeOK, GenerationsAgree, LocksAreHeld, Holding, NoMove, Move,
     Threads
<1>4. OvertakingIsBounded'
  BY DEF IInv, TypeOK, OvertakingIsBounded, Passing, LocksAreHeld, Threads
<1>5. RefusalsAreKept'
  BY DEF IInv, TypeOK, RefusalsAreKept, GenerationsAgree, Move
<1>6. FeedbackConservation'
  BY DEF IInv, TypeOK, FeedbackConservation, LocksAreHeld, Threads, Move
<1>7. ClearIsABarrier'
  BY DEF IInv, TypeOK, ClearIsABarrier, GenerationsAgree, LocksAreHeld,
     Holding, Move
<1>8. SuspendedMeansQuiet'
  BY DEF IInv, TypeOK, SuspendedMeansQuiet, LocksAreHeld
<1>9. ButtonsAreCounted'
  BY DEF IInv, ButtonsAreCounted, Announced
<1>. QED  BY <1>1, <1>2, <1>3, <1>4, <1>5, <1>6, <1>7, <1>8, <1>9 DEF IInv

LEMMA WDispatchInv ==
  ASSUME IInv, WDispatch
  PROVE  IInv'
<1> USE DEF WDispatch, NextIteration, MayDispatch, slotVars, dispatchVars, deviceVars, feedbackVars,
        workerVars, callerVars, history
<1>1. TypeOK'
  BY DEF IInv, TypeOK, Move, NoMove, Kinds, Threads, WorkerPlaces,
     CallerPlaces, Capped
<1>2. LocksAreHeld'
  BY DEF IInv, TypeOK, LocksAreHeld, Threads
<1>3. GenerationsAgree'
  BY DEF IInv, TypeOK, GenerationsAgree, LocksAreHeld, Holding, NoMove, Move,
     Threads
<1>4. OvertakingIsBounded'
  BY DEF IInv, TypeOK, OvertakingIsBounded, Passing, LocksAreHeld, Threads
<1>5. RefusalsAreKept'
  BY DEF IInv, TypeOK, RefusalsAreKept, GenerationsAgree, Move
<1>6. FeedbackConservation'
  BY DEF IInv, TypeOK, FeedbackConservation, LocksAreHeld, Threads, Move
<1>7. ClearIsABarrier'
  BY DEF IInv, TypeOK, ClearIsABarrier, GenerationsAgree, LocksAreHeld,
     Holding, Move
<1>8. SuspendedMeansQuiet'
  BY DEF IInv, TypeOK, SuspendedMeansQuiet, LocksAreHeld
<1>9. ButtonsAreCounted'
  BY DEF IInv, ButtonsAreCounted, Announced
<1>. QED  BY <1>1, <1>2, <1>3, <1>4, <1>5, <1>6, <1>7, <1>8, <1>9 DEF IInv

LEMMA WInputInv ==
  ASSUME IInv, WInput
  PROVE  IInv'
<1> USE DEF WInput, slotVars, dispatchVars, deviceVars, feedbackVars,
        workerVars, callerVars, history
<1>1. TypeOK'
  BY DEF IInv, TypeOK, Move, NoMove, Kinds, Threads, WorkerPlaces,
     CallerPlaces, Capped
<1>2. LocksAreHeld'
  BY DEF IInv, TypeOK, LocksAreHeld, Threads
<1>3. GenerationsAgree'
  BY DEF IInv, TypeOK, GenerationsAgree, LocksAreHeld, Holding, NoMove, Move,
     Threads
<1>4. OvertakingIsBounded'
  <2>1. CASE buttons # 0
    BY <2>1 DEF IInv, OvertakingIsBounded, Passing
  <2>2. CASE buttons = 0
    <3>1. \A c \in Callers : pc[c] # "press"
      BY <2>2, NoButtonAnnounced DEF IInv, Announced
    <3>. QED  BY <2>2, <3>1 DEF OvertakingIsBounded
  <2>. QED  BY <2>1, <2>2
<1>5. RefusalsAreKept'
  BY DEF IInv, TypeOK, RefusalsAreKept, GenerationsAgree, Move
<1>6. FeedbackConservation'
  BY DEF IInv, TypeOK, FeedbackConservation, LocksAreHeld, Threads, Move
<1>7. ClearIsABarrier'
  BY DEF IInv, TypeOK, ClearIsABarrier, GenerationsAgree, LocksAreHeld,
     Holding, Move
<1>8. SuspendedMeansQuiet'
  BY DEF IInv, TypeOK, SuspendedMeansQuiet, LocksAreHeld
<1>9. ButtonsAreCounted'
  BY DEF IInv, ButtonsAreCounted, Announced
<1>. QED  BY <1>1, <1>2, <1>3, <1>4, <1>5, <1>6, <1>7, <1>8, <1>9 DEF IInv

LEMMA WRecheckInv ==
  ASSUME IInv, WRecheck
  PROVE  IInv'
<1> USE DEF WRecheck, StillWanted, slotVars, dispatchVars, deviceVars, feedbackVars,
        workerVars, callerVars, history
<1>1. TypeOK'
  BY DEF IInv, TypeOK, Move, NoMove, Kinds, Threads, WorkerPlaces,
     CallerPlaces, Capped
<1>2. LocksAreHeld'
  BY DEF IInv, TypeOK, LocksAreHeld, Threads
<1>3. GenerationsAgree'
  BY DEF IInv, TypeOK, GenerationsAgree, LocksAreHeld, Holding, NoMove, Move,
     Threads
<1>4. OvertakingIsBounded'
  BY DEF IInv, TypeOK, OvertakingIsBounded, Passing, LocksAreHeld, Threads
<1>5. RefusalsAreKept'
  BY DEF IInv, TypeOK, RefusalsAreKept, GenerationsAgree, Move
<1>6. FeedbackConservation'
  BY DEF IInv, TypeOK, FeedbackConservation, LocksAreHeld, Threads, Move
<1>7. ClearIsABarrier'
  BY DEF IInv, TypeOK, ClearIsABarrier, GenerationsAgree, LocksAreHeld,
     Holding, Move
<1>8. SuspendedMeansQuiet'
  BY DEF IInv, TypeOK, SuspendedMeansQuiet, LocksAreHeld
<1>9. ButtonsAreCounted'
  BY DEF IInv, ButtonsAreCounted, Announced
<1>. QED  BY <1>1, <1>2, <1>3, <1>4, <1>5, <1>6, <1>7, <1>8, <1>9 DEF IInv

LEMMA WMovedInv ==
  ASSUME IInv, WMoved
  PROVE  IInv'
<1> USE DEF WMoved, Overtake, slotVars, dispatchVars, deviceVars, feedbackVars,
        workerVars, callerVars, history
<1>1. TypeOK'
  <2>1. inputMtx' \in Threads \cup {Free}
    BY DEF IInv, TypeOK, Threads
  <2>2. overtaken' \in [Callers -> Nat]
    BY DEF IInv, TypeOK
  <2>3. wpc' \in WorkerPlaces
    BY DEF IInv, TypeOK, WorkerPlaces
  <2>4. sent' \in Int
    BY DEF IInv, TypeOK, Move
  <2>5. delivered' \in Nat
    BY DEF IInv, TypeOK, Move
  <2>6. refused' \in Nat
    BY DEF IInv, TypeOK
  <2>. QED  BY <2>1, <2>2, <2>3, <2>4, <2>5, <2>6 DEF IInv, TypeOK
<1>2. LocksAreHeld'
  BY DEF IInv, TypeOK, LocksAreHeld, Threads
<1>3. GenerationsAgree'
  BY DEF IInv, TypeOK, GenerationsAgree, LocksAreHeld, Holding, NoMove, Move,
     Threads
<1>4. OvertakingIsBounded'
  BY DEF IInv, TypeOK, OvertakingIsBounded, Passing, LocksAreHeld, Threads
<1>5. RefusalsAreKept'
  BY DEF IInv, TypeOK, RefusalsAreKept, GenerationsAgree, Move
<1>6. FeedbackConservation'
  BY DEF IInv, TypeOK, FeedbackConservation, LocksAreHeld, Threads, Move
<1>7. ClearIsABarrier'
  BY DEF IInv, TypeOK, ClearIsABarrier, GenerationsAgree, LocksAreHeld,
     Holding, Move
<1>8. SuspendedMeansQuiet'
  BY DEF IInv, TypeOK, SuspendedMeansQuiet, LocksAreHeld
<1>9. ButtonsAreCounted'
  BY DEF IInv, ButtonsAreCounted, Announced
<1>. QED  BY <1>1, <1>2, <1>3, <1>4, <1>5, <1>6, <1>7, <1>8, <1>9 DEF IInv

LEMMA WCreditInv ==
  ASSUME IInv, WCredit
  PROVE  IInv'
<1> USE DEF WCredit, NextIteration, Credit, slotVars, dispatchVars, deviceVars, feedbackVars,
        workerVars, callerVars, history
<1>1. TypeOK'
  <2>1. applied' \in Int
    BY DEF IInv, TypeOK, Move
  <2>2. events' \in Seq(Int)
    <3>1. Append(events, wmove.d) \in Seq(Int)
      BY DEF IInv, TypeOK, Move
    <3>. QED  BY <3>1, CappedType
  <2>3. wpc' \in WorkerPlaces
    BY DEF IInv, TypeOK, WorkerPlaces
  <2>4. wmove' \in Move
    BY DEF IInv, TypeOK, Move, NoMove
  <2>5. dispatchMtx' \in {Free, Worker}
    BY DEF IInv, TypeOK
  <2>. QED  BY <2>1, <2>2, <2>3, <2>4, <2>5 DEF IInv, TypeOK
<1>2. LocksAreHeld'
  BY DEF IInv, TypeOK, LocksAreHeld, Threads
<1>3. GenerationsAgree'
  BY DEF IInv, TypeOK, GenerationsAgree, LocksAreHeld, Holding, NoMove, Move,
     Threads
<1>4. OvertakingIsBounded'
  BY DEF IInv, TypeOK, OvertakingIsBounded, Passing, LocksAreHeld, Threads
<1>5. RefusalsAreKept'
  BY DEF IInv, TypeOK, RefusalsAreKept, GenerationsAgree, Move
<1>6. FeedbackConservation'
  BY DEF IInv, TypeOK, FeedbackConservation, LocksAreHeld, Threads, Move
<1>7. ClearIsABarrier'
  BY DEF IInv, TypeOK, ClearIsABarrier, GenerationsAgree, LocksAreHeld,
     Holding, Move
<1>8. SuspendedMeansQuiet'
  BY DEF IInv, TypeOK, SuspendedMeansQuiet, LocksAreHeld
<1>9. ButtonsAreCounted'
  BY DEF IInv, ButtonsAreCounted, Announced
<1>. QED  BY <1>1, <1>2, <1>3, <1>4, <1>5, <1>6, <1>7, <1>8, <1>9 DEF IInv

LEMMA WRefusedInv ==
  ASSUME IInv, WRefused
  PROVE  IInv'
<1> USE DEF WRefused, NextIteration, slotVars, dispatchVars, deviceVars, feedbackVars,
        workerVars, callerVars, history
<1>1. TypeOK'
  BY DEF IInv, TypeOK, Move, NoMove, Kinds, Threads, WorkerPlaces,
     CallerPlaces, Capped
<1>2. LocksAreHeld'
  BY DEF IInv, TypeOK, LocksAreHeld, Threads
<1>3. GenerationsAgree'
  BY DEF IInv, TypeOK, GenerationsAgree, LocksAreHeld, Holding, NoMove, Move,
     Threads
<1>4. OvertakingIsBounded'
  BY DEF IInv, TypeOK, OvertakingIsBounded, Passing, LocksAreHeld, Threads
<1>5. RefusalsAreKept'
  BY DEF IInv, TypeOK, RefusalsAreKept, GenerationsAgree, Move
<1>6. FeedbackConservation'
  BY DEF IInv, TypeOK, FeedbackConservation, LocksAreHeld, Threads, Move
<1>7. ClearIsABarrier'
  BY DEF IInv, TypeOK, ClearIsABarrier, GenerationsAgree, LocksAreHeld,
     Holding, Move
<1>8. SuspendedMeansQuiet'
  BY DEF IInv, TypeOK, SuspendedMeansQuiet, LocksAreHeld
<1>9. ButtonsAreCounted'
  BY DEF IInv, ButtonsAreCounted, Announced
<1>. QED  BY <1>1, <1>2, <1>3, <1>4, <1>5, <1>6, <1>7, <1>8, <1>9 DEF IInv

LEMMA ChoosePathInv ==
  ASSUME IInv, NEW c \in Callers, ChoosePath(c)
  PROVE  IInv'
<1> USE DEF ChoosePath, Goto, slotVars, dispatchVars, deviceVars, feedbackVars,
        workerVars, callerVars, history
<1>1. TypeOK'
  <2>1. pc' \in [Callers -> CallerPlaces]
    BY DEF IInv, TypeOK, CallerPlaces
  <2>2. inputMtx' \in Threads \cup {Free}
    BY DEF IInv, TypeOK, Threads
  <2>3. yielding' \in SUBSET Threads
    BY DEF IInv, TypeOK, Threads
  <2>. QED  BY <2>1, <2>2, <2>3 DEF IInv, TypeOK
<1>2. LocksAreHeld'
  BY DEF IInv, TypeOK, LocksAreHeld, Threads
<1>3. ButtonsAreCounted'
  <2>1. Announced' = Announced
    BY DEF IInv, TypeOK, Announced
  <2>. QED  BY <2>1 DEF IInv, ButtonsAreCounted
<1>4. OvertakingIsBounded'
  <2>1. CASE pc'[c] # "driving"
    BY <2>1 DEF IInv, TypeOK, OvertakingIsBounded, Passing
  <2>2. CASE pc'[c] = "driving"
    <3>1. \A o \in Callers : pc[o] # "press"
      <4>1. buttons = 0
        BY <2>2 DEF IInv, TypeOK
      <4>. QED  BY <4>1, NoButtonAnnounced DEF IInv, Announced
    <3>. QED  BY <2>2, <3>1 DEF IInv, TypeOK, OvertakingIsBounded
  <2>. QED  BY <2>1, <2>2
<1>5. FeedbackConservation'
  BY DEF IInv, TypeOK, FeedbackConservation, LocksAreHeld, Threads, Move
<1>6. GenerationsAgree' /\ RefusalsAreKept' /\ ClearIsABarrier' /\
   SuspendedMeansQuiet'
  BY DEF IInv, GenerationsAgree, Holding, RefusalsAreKept, ClearIsABarrier,
     SuspendedMeansQuiet
<1>. QED  BY <1>1, <1>2, <1>3, <1>4, <1>5, <1>6 DEF IInv

LEMMA DirectWakeInv ==
  ASSUME IInv, NEW c \in Callers, DirectWake(c)
  PROVE  IInv'
<1> USE DEF DirectWake, Goto, Return, slotVars, dispatchVars, deviceVars, feedbackVars,
        workerVars, callerVars, history
<1>1. TypeOK'
  <2>1. pc' \in [Callers -> CallerPlaces]
    BY DEF IInv, TypeOK, CallerPlaces
  <2>2. arg' \in [Callers -> Int]
    BY DEF IInv, TypeOK
  <2>3. inputMtx' \in Threads \cup {Free}
    BY DEF IInv, TypeOK, Threads
  <2>4. yielding' \in SUBSET Threads
    BY DEF IInv, TypeOK, Threads
  <2>. QED  BY <2>1, <2>2, <2>3, <2>4 DEF IInv, TypeOK
<1>2. LocksAreHeld'
  BY DEF IInv, TypeOK, LocksAreHeld, Threads
<1>3. ButtonsAreCounted'
  <2>1. Announced' = Announced
    BY DEF IInv, TypeOK, Announced
  <2>. QED  BY <2>1 DEF IInv, ButtonsAreCounted
<1>4. OvertakingIsBounded'
  <2>1. CASE pc'[c] # "driving"
    BY <2>1 DEF IInv, TypeOK, OvertakingIsBounded, Passing
  <2>2. CASE pc'[c] = "driving"
    <3>1. \A o \in Callers : pc[o] # "press"
      <4>1. buttons = 0
        BY <2>2 DEF IInv, TypeOK
      <4>. QED  BY <4>1, NoButtonAnnounced DEF IInv, Announced
    <3>. QED  BY <2>2, <3>1 DEF IInv, TypeOK, OvertakingIsBounded
  <2>. QED  BY <2>1, <2>2
<1>5. FeedbackConservation'
  BY DEF IInv, TypeOK, FeedbackConservation, LocksAreHeld, Threads, Move
<1>6. GenerationsAgree' /\ RefusalsAreKept' /\ ClearIsABarrier' /\
   SuspendedMeansQuiet'
  BY DEF IInv, GenerationsAgree, Holding, RefusalsAreKept, ClearIsABarrier,
     SuspendedMeansQuiet
<1>. QED  BY <1>1, <1>2, <1>3, <1>4, <1>5, <1>6 DEF IInv

LEMMA DirectMovedInv ==
  ASSUME IInv, NEW c \in Callers, DirectMoved(c)
  PROVE  IInv'
<1> USE DEF DirectMoved, Goto, Return, Overtake, slotVars, dispatchVars, deviceVars, feedbackVars,
        workerVars, callerVars, history
<1>1. TypeOK'
  <2>1. overtaken' \in [Callers -> Nat]
    BY DEF IInv, TypeOK
  <2>2. pc' \in [Callers -> CallerPlaces]
    BY DEF IInv, TypeOK, CallerPlaces
  <2>3. arg' \in [Callers -> Int]
    BY DEF IInv, TypeOK
  <2>4. sent' \in Int
    BY DEF IInv, TypeOK, Move
  <2>5. failed' \in Nat
    BY DEF IInv, TypeOK
  <2>6. inputMtx' \in Threads \cup {Free}
    BY DEF IInv, TypeOK, Threads
  <2>7. refused' \in Nat
    BY DEF IInv, TypeOK
  <2>. QED  BY <2>1, <2>2, <2>3, <2>4, <2>5, <2>6, <2>7 DEF IInv, TypeOK
<1>2. LocksAreHeld'
  <2>1. CASE pc' = [pc EXCEPT ![c] = "credit"] /\ UNCHANGED inputMtx
    BY <2>1 DEF IInv, TypeOK, LocksAreHeld, Threads
  <2>2. CASE pc' = [pc EXCEPT ![c] = "idle"] /\ inputMtx' = Free
    BY <2>2 DEF IInv, TypeOK, LocksAreHeld, Threads
  <2>. QED  BY <2>1, <2>2
<1>3. ButtonsAreCounted'
  <2>1. Announced' = Announced
    BY DEF IInv, TypeOK, Announced
  <2>. QED  BY <2>1 DEF IInv, ButtonsAreCounted
<1>4. OvertakingIsBounded'
  <2>1. ~Passing'
    BY DEF IInv, TypeOK, LocksAreHeld, Passing, Threads
  <2>2. ASSUME NEW o \in Callers, pc'[o] = "press" PROVE overtaken'[o] <= 1
    <3>1. pc[o] = "press" /\ overtaken[o] = 0
      BY <2>2 DEF IInv, TypeOK, OvertakingIsBounded, Passing
    <3>. QED  BY <3>1 DEF IInv, TypeOK
  <2>. QED  BY <2>1, <2>2 DEF OvertakingIsBounded
<1>5. RefusalsAreKept'
  BY DEF IInv, TypeOK, RefusalsAreKept, GenerationsAgree, Move
<1>6. FeedbackConservation'
  BY DEF IInv, TypeOK, FeedbackConservation, LocksAreHeld, Threads, Move
<1>7. GenerationsAgree' /\ ClearIsABarrier' /\ SuspendedMeansQuiet'
  BY DEF IInv, GenerationsAgree, Holding, ClearIsABarrier, SuspendedMeansQuiet
<1>. QED  BY <1>1, <1>2, <1>3, <1>4, <1>5, <1>6, <1>7 DEF IInv

LEMMA DirectCreditInv ==
  ASSUME IInv, NEW c \in Callers, DirectCredit(c)
  PROVE  IInv'
<1> USE DEF DirectCredit, Return, Credit, slotVars, dispatchVars, deviceVars, feedbackVars,
        workerVars, callerVars, history
<1>1. TypeOK'
  <2>1. applied' \in Int
    BY DEF IInv, TypeOK, Move
  <2>2. events' \in Seq(Int)
    <3>1. Append(events, arg[c]) \in Seq(Int)
      BY DEF IInv, TypeOK, Move
    <3>. QED  BY <3>1, CappedType
  <2>3. inputMtx' \in Threads \cup {Free}
    BY DEF IInv, TypeOK, Threads
  <2>4. pc' \in [Callers -> CallerPlaces]
    BY DEF IInv, TypeOK, CallerPlaces
  <2>5. arg' \in [Callers -> Int]
    BY DEF IInv, TypeOK
  <2>. QED  BY <2>1, <2>2, <2>3, <2>4, <2>5 DEF IInv, TypeOK
<1>2. LocksAreHeld'
  BY DEF IInv, TypeOK, LocksAreHeld, Threads
<1>3. ButtonsAreCounted'
  <2>1. Announced' = Announced
    BY DEF IInv, TypeOK, Announced
  <2>. QED  BY <2>1 DEF IInv, ButtonsAreCounted
<1>4. OvertakingIsBounded'
  BY DEF IInv, TypeOK, OvertakingIsBounded, Passing, LocksAreHeld, Threads
<1>5. FeedbackConservation'
  BY DEF IInv, TypeOK, FeedbackConservation, LocksAreHeld, Threads, Move
<1>6. GenerationsAgree' /\ RefusalsAreKept' /\ ClearIsABarrier' /\
   SuspendedMeansQuiet'
  BY DEF IInv, GenerationsAgree, Holding, RefusalsAreKept, ClearIsABarrier,
     SuspendedMeansQuiet
<1>. QED  BY <1>1, <1>2, <1>3, <1>4, <1>5, <1>6 DEF IInv

LEMMA QueueMoveInv ==
  ASSUME IInv, NEW c \in Callers, QueueMove(c)
  PROVE  IInv'
<1> USE DEF QueueMove, Return, slotVars, dispatchVars, deviceVars, feedbackVars,
        workerVars, callerVars, history
<1>1. TypeOK'
  <2>1. pc' \in [Callers -> CallerPlaces]
    BY DEF IInv, TypeOK, CallerPlaces
  <2>2. arg' \in [Callers -> Int]
    BY DEF IInv, TypeOK
  <2>3. gen' \in Nat
    BY DEF IInv, TypeOK
  <2>4. slot' \in Move
    BY DEF IInv, TypeOK, Move, NoMove
  <2>5. asleep' \in BOOLEAN
    BY DEF IInv, TypeOK
  <2>. QED  BY <2>1, <2>2, <2>3, <2>4, <2>5 DEF IInv, TypeOK
<1>2. LocksAreHeld'
  BY DEF IInv, TypeOK, LocksAreHeld, Threads
<1>3. ButtonsAreCounted'
  <2>1. Announced' = Announced
    BY DEF IInv, TypeOK, Announced
  <2>. QED  BY <2>1 DEF IInv, ButtonsAreCounted
<1>4. GenerationsAgree'
  BY DEF IInv, TypeOK, GenerationsAgree, LocksAreHeld, Holding, NoMove, Move,
     Threads
<1>5. OvertakingIsBounded'
  BY DEF IInv, TypeOK, OvertakingIsBounded, Passing, LocksAreHeld, Threads
<1>6. RefusalsAreKept'
  BY DEF IInv, TypeOK, RefusalsAreKept, GenerationsAgree, Move
<1>7. FeedbackConservation'
  BY DEF IInv, TypeOK, FeedbackConservation, LocksAreHeld, Threads, Move
<1>8. ClearIsABarrier' /\ SuspendedMeansQuiet'
  BY DEF IInv, ClearIsABarrier, SuspendedMeansQuiet
<1>. QED  BY <1>1, <1>2, <1>3, <1>4, <1>5, <1>6, <1>7, <1>8 DEF IInv

LEMMA PressButtonInv ==
  ASSUME IInv, NEW c \in Callers, PressButton(c)
  PROVE  IInv'
<1> USE DEF PressButton, Goto, slotVars, dispatchVars, deviceVars, feedbackVars,
        workerVars, callerVars, history
<1>1. TypeOK'
  BY DEF IInv, TypeOK, Move, NoMove, Kinds, Threads, WorkerPlaces,
     CallerPlaces, Capped
<1>2. LocksAreHeld'
  BY DEF IInv, TypeOK, LocksAreHeld, Threads
<1>3. ButtonsAreCounted'
  <2>1. Announced' = Announced
    BY DEF IInv, TypeOK, Announced
  <2>. QED  BY <2>1 DEF IInv, ButtonsAreCounted
<1>4. OvertakingIsBounded'
  BY DEF IInv, TypeOK, OvertakingIsBounded, Passing, LocksAreHeld, Threads
<1>5. FeedbackConservation'
  BY DEF IInv, TypeOK, FeedbackConservation, LocksAreHeld, Threads, Move
<1>6. GenerationsAgree' /\ RefusalsAreKept' /\ ClearIsABarrier' /\
   SuspendedMeansQuiet'
  BY DEF IInv, GenerationsAgree, Holding, RefusalsAreKept, ClearIsABarrier,
     SuspendedMeansQuiet
<1>. QED  BY <1>1, <1>2, <1>3, <1>4, <1>5, <1>6 DEF IInv

LEMMA RetireButtonInv ==
  ASSUME IInv, NEW c \in Callers, RetireButton(c)
  PROVE  IInv'
<1> USE DEF RetireButton, Return, slotVars, dispatchVars, deviceVars, feedbackVars,
        workerVars, callerVars, history
<1>1. TypeOK'
  <2>1. buttons' \in Nat
    <3>1. c \in Announced
      BY DEF Announced
    <3>. QED  BY <3>1, SomeButtonAnnounced DEF IInv
  <2>2. yielding' \in SUBSET Threads
    BY DEF IInv, TypeOK, Threads
  <2>3. pc' \in [Callers -> CallerPlaces]
    BY DEF IInv, TypeOK, CallerPlaces
  <2>4. arg' \in [Callers -> Int]
    BY DEF IInv, TypeOK
  <2>. QED  BY <2>1, <2>2, <2>3, <2>4 DEF IInv, TypeOK
<1>2. LocksAreHeld'
  BY DEF IInv, TypeOK, LocksAreHeld, Threads
<1>3. ButtonsAreCounted'
  <2>1. Announced' = Announced \ {c} /\ c \in Announced
    BY DEF IInv, TypeOK, Announced
  <2>. QED
    BY <2>1, AnnouncedIsFinite, FS_RemoveElement DEF IInv, ButtonsAreCounted
<1>4. OvertakingIsBounded'
  BY DEF IInv, TypeOK, OvertakingIsBounded, Passing, LocksAreHeld, Threads
<1>5. FeedbackConservation'
  BY DEF IInv, TypeOK, FeedbackConservation, LocksAreHeld, Threads, Move
<1>6. GenerationsAgree' /\ RefusalsAreKept' /\ ClearIsABarrier' /\
   SuspendedMeansQuiet'
  BY DEF IInv, GenerationsAgree, Holding, RefusalsAreKept, ClearIsABarrier,
     SuspendedMeansQuiet
<1>. QED  BY <1>1, <1>2, <1>3, <1>4, <1>5, <1>6 DEF IInv

LEMMA SetSuspendedInv ==
  ASSUME IInv, NEW c \in Callers, SetSuspended(c)
  PROVE  IInv'
<1> USE DEF SetSuspended, Goto, Return, slotVars, dispatchVars, deviceVars, feedbackVars,
        workerVars, callerVars, history
<1>1. TypeOK'
  <2>1. suspended' \in BOOLEAN
    BY DEF IInv, TypeOK
  <2>2. pc' \in [Callers -> CallerPlaces]
    BY DEF IInv, TypeOK, CallerPlaces
  <2>3. arg' \in [Callers -> Int]
    BY DEF IInv, TypeOK
  <2>. QED  BY <2>1, <2>2, <2>3 DEF IInv, TypeOK
<1>2. LocksAreHeld'
  BY DEF IInv, TypeOK, LocksAreHeld, Threads
<1>3. ButtonsAreCounted'
  <2>1. Announced' = Announced
    BY DEF IInv, TypeOK, Announced
  <2>. QED  BY <2>1 DEF IInv, ButtonsAreCounted
<1>4. OvertakingIsBounded'
  BY DEF IInv, TypeOK, OvertakingIsBounded, Passing, LocksAreHeld, Threads
<1>5. FeedbackConservation'
  BY DEF IInv, TypeOK, FeedbackConservation, LocksAreHeld, Threads, Move
<1>6. SuspendedMeansQuiet'
  BY DEF IInv, TypeOK, SuspendedMeansQuiet, LocksAreHeld
<1>7. GenerationsAgree' /\ RefusalsAreKept' /\ ClearIsABarrier'
  BY DEF IInv, GenerationsAgree, Holding, RefusalsAreKept, ClearIsABarrier
<1>. QED  BY <1>1, <1>2, <1>3, <1>4, <1>5, <1>6, <1>7 DEF IInv

LEMMA ClearSlotInv ==
  ASSUME IInv, NEW c \in Callers, ClearSlot(c)
  PROVE  IInv'
<1> USE DEF ClearSlot, Goto, slotVars, dispatchVars, deviceVars, feedbackVars,
        workerVars, callerVars, history
<1>1. TypeOK'
  BY DEF IInv, TypeOK, Move, NoMove, Kinds, Threads, WorkerPlaces,
     CallerPlaces, Capped
<1>2. LocksAreHeld'
  BY DEF IInv, TypeOK, LocksAreHeld, Threads
<1>3. ButtonsAreCounted'
  <2>1. Announced' = Announced
    BY DEF IInv, TypeOK, Announced
  <2>. QED  BY <2>1 DEF IInv, ButtonsAreCounted
<1>4. GenerationsAgree'
  BY DEF IInv, TypeOK, GenerationsAgree, LocksAreHeld, Holding, NoMove, Move,
     Threads
<1>5. OvertakingIsBounded'
  BY DEF IInv, TypeOK, OvertakingIsBounded, Passing, LocksAreHeld, Threads
<1>6. RefusalsAreKept'
  BY DEF IInv, TypeOK, RefusalsAreKept, GenerationsAgree, Move
<1>7. FeedbackConservation'
  BY DEF IInv, TypeOK, FeedbackConservation, LocksAreHeld, Threads, Move
<1>8. ClearIsABarrier' /\ SuspendedMeansQuiet'
  BY DEF IInv, ClearIsABarrier, SuspendedMeansQuiet
<1>. QED  BY <1>1, <1>2, <1>3, <1>4, <1>5, <1>6, <1>7, <1>8 DEF IInv

LEMMA CancelMoveInv ==
  ASSUME IInv, NEW c \in Callers, CancelMove(c)
  PROVE  IInv'
<1> USE DEF CancelMove, Return, slotVars, dispatchVars, deviceVars, feedbackVars,
        workerVars, callerVars, history
<1>1. TypeOK'
  BY DEF IInv, TypeOK, Move, NoMove, Kinds, Threads, WorkerPlaces,
     CallerPlaces, Capped
<1>2. LocksAreHeld'
  BY DEF IInv, TypeOK, LocksAreHeld, Threads
<1>3. ButtonsAreCounted'
  <2>1. Announced' = Announced
    BY DEF IInv, TypeOK, Announced
  <2>. QED  BY <2>1 DEF IInv, ButtonsAreCounted
<1>4. GenerationsAgree'
  BY DEF IInv, TypeOK, GenerationsAgree, LocksAreHeld, Holding, NoMove, Move,
     Threads
<1>5. OvertakingIsBounded'
  BY DEF IInv, TypeOK, OvertakingIsBounded, Passing, LocksAreHeld, Threads
<1>6. FeedbackConservation'
  BY DEF IInv, TypeOK, FeedbackConservation, LocksAreHeld, Threads, Move
<1>7. ClearIsABarrier'
  BY DEF IInv, TypeOK, ClearIsABarrier, GenerationsAgree, LocksAreHeld,
     Holding, Move
<1>8. RefusalsAreKept' /\ SuspendedMeansQuiet'
  BY DEF IInv, RefusalsAreKept, SuspendedMeansQuiet
<1>. QED  BY <1>1, <1>2, <1>3, <1>4, <1>5, <1>6, <1>7, <1>8 DEF IInv

LEMMA ReadBacklogInv ==
  ASSUME IInv, NEW c \in Callers, ReadBacklog(c)
  PROVE  IInv'
<1> USE DEF ReadBacklog, Return, slotVars, dispatchVars, deviceVars, feedbackVars,
        workerVars, callerVars, history
<1>1. TypeOK'
  BY DEF IInv, TypeOK, Move, NoMove, Kinds, Threads, WorkerPlaces,
     CallerPlaces, Capped
<1>2. LocksAreHeld'
  BY DEF IInv, TypeOK, LocksAreHeld, Threads
<1>3. ButtonsAreCounted'
  <2>1. Announced' = Announced
    BY DEF IInv, TypeOK, Announced
  <2>. QED  BY <2>1 DEF IInv, ButtonsAreCounted
<1>4. OvertakingIsBounded'
  BY DEF IInv, TypeOK, OvertakingIsBounded, Passing, LocksAreHeld, Threads
<1>5. FeedbackConservation'
  BY DEF IInv, TypeOK, FeedbackConservation, LocksAreHeld, Threads, Move
<1>6. GenerationsAgree' /\ RefusalsAreKept' /\ ClearIsABarrier' /\
   SuspendedMeansQuiet'
  BY DEF IInv, GenerationsAgree, Holding, RefusalsAreKept, ClearIsABarrier,
     SuspendedMeansQuiet
<1>. QED  BY <1>1, <1>2, <1>3, <1>4, <1>5, <1>6 DEF IInv

LEMMA NotifyStopInv ==
  ASSUME IInv, NEW c \in Callers, NotifyStop(c)
  PROVE  IInv'
<1> USE DEF NotifyStop, Goto, slotVars, dispatchVars, deviceVars, feedbackVars,
        workerVars, callerVars, history
<1>1. TypeOK'
  <2>1. asleep' \in BOOLEAN
    BY DEF IInv, TypeOK
  <2>2. pc' \in [Callers -> CallerPlaces]
    BY DEF IInv, TypeOK, CallerPlaces
  <2>. QED  BY <2>1, <2>2 DEF IInv, TypeOK
<1>2. LocksAreHeld'
  BY DEF IInv, TypeOK, LocksAreHeld, Threads
<1>3. ButtonsAreCounted'
  <2>1. Announced' = Announced
    BY DEF IInv, TypeOK, Announced
  <2>. QED  BY <2>1 DEF IInv, ButtonsAreCounted
<1>4. OvertakingIsBounded'
  BY DEF IInv, TypeOK, OvertakingIsBounded, Passing, LocksAreHeld, Threads
<1>5. FeedbackConservation'
  BY DEF IInv, TypeOK, FeedbackConservation, LocksAreHeld, Threads, Move
<1>6. GenerationsAgree' /\ RefusalsAreKept' /\ ClearIsABarrier' /\
   SuspendedMeansQuiet'
  BY DEF IInv, GenerationsAgree, Holding, RefusalsAreKept, ClearIsABarrier,
     SuspendedMeansQuiet
<1>. QED  BY <1>1, <1>2, <1>3, <1>4, <1>5, <1>6 DEF IInv

LEMMA JoinInv ==
  ASSUME IInv, NEW c \in Callers, Join(c)
  PROVE  IInv'
<1> USE DEF Join, Goto, slotVars, dispatchVars, deviceVars, feedbackVars,
        workerVars, callerVars, history
<1>1. TypeOK'
  BY DEF IInv, TypeOK, Move, NoMove, Kinds, Threads, WorkerPlaces,
     CallerPlaces, Capped
<1>2. LocksAreHeld'
  BY DEF IInv, TypeOK, LocksAreHeld, Threads
<1>3. ButtonsAreCounted'
  <2>1. Announced' = Announced
    BY DEF IInv, TypeOK, Announced
  <2>. QED  BY <2>1 DEF IInv, ButtonsAreCounted
<1>4. OvertakingIsBounded'
  BY DEF IInv, TypeOK, OvertakingIsBounded, Passing, LocksAreHeld, Threads
<1>5. FeedbackConservation'
  BY DEF IInv, TypeOK, FeedbackConservation, LocksAreHeld, Threads, Move
<1>6. GenerationsAgree' /\ RefusalsAreKept' /\ ClearIsABarrier' /\
   SuspendedMeansQuiet'
  BY DEF IInv, GenerationsAgree, Holding, RefusalsAreKept, ClearIsABarrier,
     SuspendedMeansQuiet
<1>. QED  BY <1>1, <1>2, <1>3, <1>4, <1>5, <1>6 DEF IInv

LEMMA AnnounceButtonInv ==
  ASSUME IInv, NEW c \in Callers, AnnounceButton(c)
  PROVE  IInv'
<1> USE DEF AnnounceButton, Enter, slotVars, dispatchVars, deviceVars, feedbackVars,
        workerVars, callerVars, history
<1>1. TypeOK'
  <2>1. pc' \in [Callers -> CallerPlaces]
    BY DEF IInv, TypeOK, CallerPlaces
  <2>2. calls' \in Nat
    BY DEF IInv, TypeOK
  <2>3. buttons' \in Nat
    BY DEF IInv, TypeOK
  <2>4. overtaken' \in [Callers -> Nat]
    BY DEF IInv, TypeOK
  <2>. QED  BY <2>1, <2>2, <2>3, <2>4 DEF IInv, TypeOK
<1>2. LocksAreHeld'
  BY DEF IInv, TypeOK, LocksAreHeld, Threads
<1>3. ButtonsAreCounted'
  <2>1. Announced' = Announced \cup {c} /\ c \notin Announced
    BY DEF IInv, TypeOK, Announced
  <2>. QED
    BY <2>1, AnnouncedIsFinite, FS_AddElement DEF IInv, ButtonsAreCounted
<1>4. OvertakingIsBounded'
  BY DEF IInv, TypeOK, OvertakingIsBounded, Passing, LocksAreHeld, Threads
<1>5. FeedbackConservation'
  BY DEF IInv, TypeOK, FeedbackConservation, LocksAreHeld, Threads, Move
<1>6. GenerationsAgree' /\ RefusalsAreKept' /\ ClearIsABarrier' /\
   SuspendedMeansQuiet'
  BY DEF IInv, GenerationsAgree, Holding, RefusalsAreKept, ClearIsABarrier,
     SuspendedMeansQuiet
<1>. QED  BY <1>1, <1>2, <1>3, <1>4, <1>5, <1>6 DEF IInv

LEMMA CallClearInv ==
  ASSUME IInv, NEW c \in Callers, CallClear(c)
  PROVE  IInv'
<1> USE DEF CallClear, Enter, slotVars, dispatchVars, deviceVars, feedbackVars,
        workerVars, callerVars, history
<1>1. TypeOK'
  <2>1. pc' \in [Callers -> CallerPlaces]
    BY DEF IInv, TypeOK, CallerPlaces
  <2>2. calls' \in Nat
    BY DEF IInv, TypeOK
  <2>. QED  BY <2>1, <2>2 DEF IInv, TypeOK
<1>2. LocksAreHeld'
  BY DEF IInv, TypeOK, LocksAreHeld, Threads
<1>3. ButtonsAreCounted'
  <2>1. Announced' = Announced
    BY DEF IInv, TypeOK, Announced
  <2>. QED  BY <2>1 DEF IInv, ButtonsAreCounted
<1>4. OvertakingIsBounded'
  BY DEF IInv, TypeOK, OvertakingIsBounded, Passing, LocksAreHeld, Threads
<1>5. FeedbackConservation'
  BY DEF IInv, TypeOK, FeedbackConservation, LocksAreHeld, Threads, Move
<1>6. GenerationsAgree' /\ RefusalsAreKept' /\ ClearIsABarrier' /\
   SuspendedMeansQuiet'
  BY DEF IInv, GenerationsAgree, Holding, RefusalsAreKept, ClearIsABarrier,
     SuspendedMeansQuiet
<1>. QED  BY <1>1, <1>2, <1>3, <1>4, <1>5, <1>6 DEF IInv

LEMMA ConsumeFeedbackInv ==
  ASSUME IInv, NEW c \in Callers, ConsumeFeedback(c)
  PROVE  IInv'
<1> USE DEF ConsumeFeedback, Enter, slotVars, dispatchVars, deviceVars, feedbackVars,
        workerVars, callerVars, history
<1>1. TypeOK'
  <2>1. pc' \in [Callers -> CallerPlaces]
    BY DEF IInv, TypeOK, CallerPlaces
  <2>2. calls' \in Nat
    BY DEF IInv, TypeOK
  <2>3. consumed' \in Int
    BY DEF IInv, TypeOK
  <2>4. applied' \in Int
    BY DEF IInv, TypeOK, Move
  <2>5. events' \in Seq(Int)
    BY DEF IInv, TypeOK, Capped, Move
  <2>. QED  BY <2>1, <2>2, <2>3, <2>4, <2>5 DEF IInv, TypeOK
<1>2. LocksAreHeld'
  BY DEF IInv, TypeOK, LocksAreHeld, Threads
<1>3. ButtonsAreCounted'
  <2>1. Announced' = Announced
    BY DEF IInv, TypeOK, Announced
  <2>. QED  BY <2>1 DEF IInv, ButtonsAreCounted
<1>4. OvertakingIsBounded'
  BY DEF IInv, TypeOK, OvertakingIsBounded, Passing, LocksAreHeld, Threads
<1>5. FeedbackConservation'
  <2>1. inputMtx # c
    BY DEF IInv, LocksAreHeld, TypeOK
  <2>. QED  BY <2>1 DEF IInv, FeedbackConservation, TypeOK
<1>6. GenerationsAgree' /\ RefusalsAreKept' /\ ClearIsABarrier' /\
   SuspendedMeansQuiet'
  BY DEF IInv, GenerationsAgree, Holding, RefusalsAreKept, ClearIsABarrier,
     SuspendedMeansQuiet
<1>. QED  BY <1>1, <1>2, <1>3, <1>4, <1>5, <1>6 DEF IInv

LEMMA DestroyInv ==
  ASSUME IInv, NEW c \in Callers, Destroy(c)
  PROVE  IInv'
<1> USE DEF Destroy, Enter, slotVars, dispatchVars, deviceVars, feedbackVars,
        workerVars, callerVars, history
<1>1. TypeOK'
  BY DEF IInv, TypeOK, Move, NoMove, Kinds, Threads, WorkerPlaces,
     CallerPlaces, Capped
<1>2. LocksAreHeld'
  BY DEF IInv, TypeOK, LocksAreHeld, Threads
<1>3. ButtonsAreCounted'
  <2>1. Announced' = Announced
    BY DEF IInv, TypeOK, Announced
  <2>. QED  BY <2>1 DEF IInv, ButtonsAreCounted
<1>4. GenerationsAgree'
  BY DEF IInv, TypeOK, GenerationsAgree, LocksAreHeld, Holding, NoMove, Move,
     Threads
<1>5. OvertakingIsBounded'
  BY DEF IInv, TypeOK, OvertakingIsBounded, Passing, LocksAreHeld, Threads
<1>6. RefusalsAreKept'
  BY DEF IInv, TypeOK, RefusalsAreKept, GenerationsAgree, Move
<1>7. FeedbackConservation'
  BY DEF IInv, TypeOK, FeedbackConservation, LocksAreHeld, Threads, Move
<1>8. ClearIsABarrier' /\ SuspendedMeansQuiet'
  BY DEF IInv, ClearIsABarrier, SuspendedMeansQuiet
<1>. QED  BY <1>1, <1>2, <1>3, <1>4, <1>5, <1>6, <1>7, <1>8 DEF IInv

LEMMA SendRawMoveInv ==
  ASSUME IInv, NEW c \in Callers, NEW d \in Deltas, SendRawMove(c, d)
  PROVE  IInv'
<1> USE DEF SendRawMove, Enter, slotVars, dispatchVars, deviceVars, feedbackVars,
        workerVars, callerVars, history
<1>1. TypeOK'
  <2>1. pc' \in [Callers -> CallerPlaces]
    BY DEF IInv, TypeOK, CallerPlaces
  <2>2. calls' \in Nat
    BY DEF IInv, TypeOK
  <2>3. arg' \in [Callers -> Int]
    BY DEF IInv, TypeOK
  <2>. QED  BY <2>1, <2>2, <2>3 DEF IInv, TypeOK
<1>2. LocksAreHeld'
  BY DEF IInv, TypeOK, LocksAreHeld, Threads
<1>3. ButtonsAreCounted'
  <2>1. Announced' = Announced
    BY DEF IInv, TypeOK, Announced
  <2>. QED  BY <2>1 DEF IInv, ButtonsAreCounted
<1>4. OvertakingIsBounded'
  BY DEF IInv, TypeOK, OvertakingIsBounded, Passing, LocksAreHeld, Threads
<1>5. FeedbackConservation'
  BY DEF IInv, TypeOK, FeedbackConservation, LocksAreHeld, Threads, Move
<1>6. GenerationsAgree' /\ RefusalsAreKept' /\ ClearIsABarrier' /\
   SuspendedMeansQuiet'
  BY DEF IInv, GenerationsAgree, Holding, RefusalsAreKept, ClearIsABarrier,
     SuspendedMeansQuiet
<1>. QED  BY <1>1, <1>2, <1>3, <1>4, <1>5, <1>6 DEF IInv

LEMMA CallSuspendInv ==
  ASSUME IInv, NEW c \in Callers, NEW suspend \in BOOLEAN, CallSuspend(c, suspend)
  PROVE  IInv'
<1> USE DEF CallSuspend, Enter, slotVars, dispatchVars, deviceVars, feedbackVars,
        workerVars, callerVars, history
<1>1. TypeOK'
  <2>1. pc' \in [Callers -> CallerPlaces]
    BY DEF IInv, TypeOK, CallerPlaces
  <2>2. calls' \in Nat
    BY DEF IInv, TypeOK
  <2>. QED  BY <2>1, <2>2 DEF IInv, TypeOK
<1>2. LocksAreHeld'
  BY DEF IInv, TypeOK, LocksAreHeld, Threads
<1>3. ButtonsAreCounted'
  <2>1. Announced' = Announced
    BY DEF IInv, TypeOK, Announced
  <2>. QED  BY <2>1 DEF IInv, ButtonsAreCounted
<1>4. OvertakingIsBounded'
  BY DEF IInv, TypeOK, OvertakingIsBounded, Passing, LocksAreHeld, Threads
<1>5. FeedbackConservation'
  BY DEF IInv, TypeOK, FeedbackConservation, LocksAreHeld, Threads, Move
<1>6. GenerationsAgree' /\ RefusalsAreKept' /\ ClearIsABarrier' /\
   SuspendedMeansQuiet'
  BY DEF IInv, GenerationsAgree, Holding, RefusalsAreKept, ClearIsABarrier,
     SuspendedMeansQuiet
<1>. QED  BY <1>1, <1>2, <1>3, <1>4, <1>5, <1>6 DEF IInv

LEMMA SetConnectionInv ==
  ASSUME IInv, NEW c \in Callers, NEW kind \in Kinds, SetConnection(c, kind)
  PROVE  IInv'
<1> USE DEF SetConnection, Enter, slotVars, dispatchVars, deviceVars, feedbackVars,
        workerVars, callerVars, history
<1>1. TypeOK'
  BY DEF IInv, TypeOK, Move, NoMove, Kinds, Threads, WorkerPlaces,
     CallerPlaces, Capped
<1>2. LocksAreHeld'
  BY DEF IInv, TypeOK, LocksAreHeld, Threads
<1>3. ButtonsAreCounted'
  <2>1. Announced' = Announced
    BY DEF IInv, TypeOK, Announced
  <2>. QED  BY <2>1 DEF IInv, ButtonsAreCounted
<1>4. OvertakingIsBounded'
  BY DEF IInv, TypeOK, OvertakingIsBounded, Passing, LocksAreHeld, Threads
<1>5. FeedbackConservation'
  BY DEF IInv, TypeOK, FeedbackConservation, LocksAreHeld, Threads, Move
<1>6. GenerationsAgree' /\ RefusalsAreKept' /\ ClearIsABarrier' /\
   SuspendedMeansQuiet'
  BY DEF IInv, GenerationsAgree, Holding, RefusalsAreKept, ClearIsABarrier,
     SuspendedMeansQuiet
<1>. QED  BY <1>1, <1>2, <1>3, <1>4, <1>5, <1>6 DEF IInv

-----------------------------------------------------------------------------
LEMMA InitInv == Init => IInv
<1> SUFFICES ASSUME Init PROVE IInv
  OBVIOUS
<1>1. TypeOK
  <2>1. driver \in Kinds
    BY DEF Init
  <2>2. slot \in Move /\ wmove \in Move
    BY DEF Init, NoMove, Move
  <2>3. /\ pc \in [Callers -> CallerPlaces]
        /\ arg \in [Callers -> Int]
        /\ overtaken \in [Callers -> Nat]
    BY DEF Init, CallerPlaces
  <2>4. wpc \in WorkerPlaces
    BY DEF Init, WorkerPlaces
  <2>5. events \in Seq(Int)
    <3>1. <<>> \in Seq(Int)
      BY EmptySeq
    <3>. QED  BY <3>1 DEF Init
  <2>6. /\ gen \in Nat /\ queueMtx \in Callers \cup {Free}
        /\ workerStop \in BOOLEAN /\ asleep \in BOOLEAN
        /\ dispatchMtx \in {Free, Worker} /\ suspended \in BOOLEAN
        /\ inputMtx \in Threads \cup {Free}
        /\ buttons \in Nat /\ yielding \in SUBSET Threads
    BY DEF Init
  <2>7. /\ applied \in Int /\ failed \in Nat /\ barrier \in Nat
        /\ sent \in Int /\ consumed \in Int /\ refused \in Nat
        /\ delivered \in Nat /\ calls \in Nat
    BY DEF Init
  <2>. QED  BY <2>1, <2>2, <2>3, <2>4, <2>5, <2>6, <2>7 DEF TypeOK
<1>2. ButtonsAreCounted
  <2>1. Announced = {}
    BY DEF Init, Announced
  <2>. QED  BY <2>1, FS_EmptySet DEF Init, ButtonsAreCounted
<1>3. LocksAreHeld /\ GenerationsAgree /\ OvertakingIsBounded
  BY DEF Init, LocksAreHeld, GenerationsAgree, Holding, OvertakingIsBounded,
         NoMove
<1>4. RefusalsAreKept /\ FeedbackConservation /\ ClearIsABarrier
      /\ SuspendedMeansQuiet
  BY DEF Init, RefusalsAreKept, FeedbackConservation, ClearIsABarrier,
         SuspendedMeansQuiet
<1>. QED  BY <1>1, <1>2, <1>3, <1>4 DEF IInv

LEMMA StutterInv == IInv /\ UNCHANGED vars => IInv'
  BY DEF IInv, vars, slotVars, dispatchVars, deviceVars, feedbackVars,
         workerVars, callerVars, history, TypeOK, LocksAreHeld,
         ButtonsAreCounted, Announced, GenerationsAgree, Holding,
         OvertakingIsBounded, Passing, RefusalsAreKept, FeedbackConservation,
         ClearIsABarrier, SuspendedMeansQuiet

LEMMA NextInv == IInv /\ [Next]_vars => IInv'
<1> SUFFICES ASSUME IInv, [Next]_vars PROVE IInv'
  OBVIOUS
<1>1. CASE WorkerNext
  BY <1>1, WCheckStopInv, WLockInv, WWakeInv, WDispatchInv, WInputInv,
     WRecheckInv, WMovedInv, WCreditInv, WRefusedInv DEF WorkerNext
<1>2. ASSUME NEW c \in Callers, Continue(c) PROVE IInv'
  BY <1>2, ChoosePathInv, DirectWakeInv, DirectMovedInv, DirectCreditInv,
     QueueMoveInv, PressButtonInv, RetireButtonInv, SetSuspendedInv,
     ClearSlotInv, CancelMoveInv, ReadBacklogInv, NotifyStopInv, JoinInv
     DEF Continue
<1>3. ASSUME NEW c \in Callers, Begin(c) PROVE IInv'
  BY <1>3, SendRawMoveInv, AnnounceButtonInv, CallSuspendInv, CallClearInv,
     ConsumeFeedbackInv, SetConnectionInv, DestroyInv DEF Begin
<1>4. CASE UNCHANGED vars
  BY <1>4, StutterInv
<1>. QED  BY <1>1, <1>2, <1>3, <1>4 DEF Next

(* Every step of the movement pipeline keeps the inductive invariant.      *)
THEOREM Invariance == Spec => []IInv
  BY InitInv, NextInv, PTL DEF Spec

(* What the runs check, for every instance.                                *)

(* Every variable keeps its type; in particular the count of announced     *)
(* buttons never goes below zero.                                          *)
THEOREM TypeCorrect == Spec => []TypeOK
<1>1. IInv => TypeOK
  BY DEF IInv
<1>. QED  BY <1>1, Invariance, PTL

(* No move queued before a clearQueuedMoves that has returned reaches the  *)
(* device.                                                                 *)
THEOREM ClearIsABarrierHolds == Spec => []ClearIsABarrier
<1>1. IInv => ClearIsABarrier
  BY DEF IInv
<1>. QED  BY <1>1, Invariance, PTL

(* The worker is never inside a send while moves are suspended.            *)
THEOREM SuspendedMeansQuietHolds == Spec => []SuspendedMeansQuiet
<1>1. IInv => SuspendedMeansQuiet
  BY DEF IInv
<1>. QED  BY <1>1, Invariance, PTL

(* At most one move goes ahead of an announced button.                     *)
THEOREM ButtonOvertakenAtMostOnceHolds == Spec => []ButtonOvertakenAtMostOnce
<1>1. IInv => ButtonOvertakenAtMostOnce
  BY DEF IInv, OvertakingIsBounded, ButtonOvertakenAtMostOnce
<1>. QED  BY <1>1, Invariance, PTL

(* Every accepted displacement is reported to the controller once.         *)
THEOREM FeedbackConservationHolds == Spec => []FeedbackConservation
<1>1. IInv => FeedbackConservation
  BY DEF IInv
<1>. QED  BY <1>1, Invariance, PTL

(* Cancelled and superseded moves are not counted as failures.             *)
THEOREM FailuresAreRealHolds == Spec => []FailuresAreReal
<1>1. IInv => FailuresAreReal
  BY DEF IInv, TypeOK, RefusalsAreKept, FailuresAreReal
<1>. QED  BY <1>1, Invariance, PTL

-----------------------------------------------------------------------------
(* The queued path implements MovePort.                                    *)

LEMMA PortStep == IInv /\ [Next]_vars => [Port!Next]_Port!port
<1> SUFFICES ASSUME IInv, [Next]_vars PROVE [Port!Next]_Port!port
  OBVIOUS
<1> USE DEF slotVars, dispatchVars, deviceVars, feedbackVars, workerVars,
        callerVars, history, Port!port, Latest, Committed
<1>1. CASE UNCHANGED vars
  BY <1>1 DEF vars
<1>2. ASSUME WCheckStop \/ WWake \/ WInput \/ WCredit \/ WRefused
      PROVE  UNCHANGED Port!port
  BY <1>2 DEF WCheckStop, WWake, WInput, WCredit, WRefused, NextIteration
<1>3. ASSUME WLock PROVE UNCHANGED Port!port
  BY <1>3 DEF WLock, IInv, GenerationsAgree, Holding
<1>4. ASSUME WDispatch PROVE [Port!Next]_Port!port
  BY <1>4 DEF WDispatch, MayDispatch, NextIteration, Port!Next, Port!Withdraw
<1>5. ASSUME WRecheck PROVE [Port!Next]_Port!port
  <2>1. CASE StillWanted /\ driver # "none"
    <3>1. slot = NoMove /\ 0 < gen /\ wmove.gen = gen
      BY <1>5, <2>1 DEF WRecheck, StillWanted, IInv, TypeOK, GenerationsAgree,
             Holding
    <3>2. Port!Commit
      BY <1>5, <2>1, <3>1 DEF WRecheck, StillWanted, Port!Commit
    <3>. QED  BY <3>2 DEF Port!Next
  <2>2. CASE ~(StillWanted /\ driver # "none")
    BY <1>5, <2>2 DEF WRecheck, StillWanted, Port!Next, Port!Withdraw, IInv,
           GenerationsAgree, TypeOK, Holding
  <2>. QED  BY <2>1, <2>2
<1>6. ASSUME WMoved PROVE [Port!Next]_Port!port
  <2>1. wmove.gen \in Nat
    BY DEF IInv, TypeOK, Move
  <2>2. wmove.gen # 0
    BY <1>6 DEF WMoved, IInv, ClearIsABarrier, TypeOK, Move
  <2>3. Port!Finish
    BY <1>6, <2>1, <2>2 DEF WMoved, Port!Finish
  <2>. QED  BY <2>3 DEF Port!Next
<1>7. ASSUME NEW c \in Callers, QueueMove(c) PROVE [Port!Next]_Port!port
  <2>1. CASE ValidComponent(arg[c])
    <3>1. gen' = gen + 1 /\ slot' # NoMove /\ slot'.gen = gen + 1
      BY <1>7, <2>1 DEF QueueMove, NoMove, IInv, TypeOK
    <3>2. Latest <= gen /\ Committed <= gen /\ delivered <= gen
      BY DEF IInv, TypeOK, GenerationsAgree, Move
    <3>3. Port!Post
      BY <1>7, <3>1, <3>2
         DEF QueueMove, Port!Post, IInv, TypeOK, Move, NoMove
    <3>. QED  BY <3>3 DEF Port!Next
  <2>2. CASE ~ValidComponent(arg[c])
    BY <1>7, <2>2 DEF QueueMove
  <2>. QED  BY <2>1, <2>2
<1>8. ASSUME NEW c \in Callers, ClearSlot(c) \/ Destroy(c)
      PROVE  [Port!Next]_Port!port
  BY <1>8 DEF ClearSlot, Destroy, Port!Next, Port!Withdraw, IInv, TypeOK,
         GenerationsAgree, Move
<1>9. ASSUME NEW c \in Callers,
             ChoosePath(c) \/ DirectWake(c) \/ DirectMoved(c)
             \/ DirectCredit(c) \/ PressButton(c) \/ RetireButton(c)
             \/ SetSuspended(c) \/ CancelMove(c) \/ ReadBacklog(c)
             \/ NotifyStop(c) \/ Join(c)
      PROVE  UNCHANGED Port!port
  BY <1>9 DEF ChoosePath, DirectWake, DirectMoved, DirectCredit, PressButton,
         RetireButton, SetSuspended, CancelMove, ReadBacklog, NotifyStop, Join
<1>10. ASSUME NEW c \in Callers,
              (\E d \in Deltas : SendRawMove(c, d)) \/ AnnounceButton(c)
              \/ (\E suspend \in BOOLEAN : CallSuspend(c, suspend))
              \/ CallClear(c) \/ ConsumeFeedback(c)
              \/ (\E kind \in Kinds : SetConnection(c, kind))
       PROVE  UNCHANGED Port!port
  BY <1>10 DEF SendRawMove, AnnounceButton, CallSuspend, CallClear,
         ConsumeFeedback, SetConnection
<1>. QED  BY <1>1, <1>2, <1>3, <1>4, <1>5, <1>6, <1>7, <1>8, <1>9, <1>10
     DEF Next, WorkerNext, Continue, Begin

(* Whatever the callers do, the device sees a latest-move port: moves in   *)
(* the order they were posted, each at most once, one at a time, and never *)
(* one that was withdrawn before it was committed.                         *)
THEOREM ImplementsPortHolds == Spec => ImplementsPort
<1>1. Init => Port!Init
  BY DEF Init, Port!Init, Latest, Committed
<1>2. IInv /\ [Next]_vars => [Port!Next]_Port!port
  BY PortStep
<1>. QED  BY <1>1, <1>2, Invariance, PTL DEF Spec, Port!Spec, ImplementsPort
=============================================================================
