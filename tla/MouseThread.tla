---------------------------- MODULE MouseThread ----------------------------
(***************************************************************************)
(* The movement pipeline of MouseThread (Apotheosis/mouse/mouse.cpp): the  *)
(* latest-only slot a control thread posts a move to, the worker thread    *)
(* that hands it to the device, the buttons that go ahead of moves, the    *)
(* suspension a macro asks for and the movement feedback the controller    *)
(* reads back.                                                             *)
(*                                                                         *)
(* Callers are the threads that may call the public operations; each call  *)
(* is the sequence of its critical sections.  A section that only holds a  *)
(* leaf lock is one step; a lock held while another is awaited, or while   *)
(* the device call runs, is a variable.  MaxCalls bounds the calls made in all *)
(* and is the only bound: it also bounds every counter.                    *)
(***************************************************************************)
EXTENDS Integers, Sequences, FiniteSets

CONSTANTS Callers,       \* threads calling into MouseThread
          Worker,        \* the thread running moveWorkerLoop
          Free,          \* owner of a mutex nobody holds
          Deltas,        \* displacements the callers ask for
          MaxComponent,  \* largest accepted component (30000 in the code)
          WordSize,      \* 2^32 in the code
          EventCap,      \* feedback events kept (128 in the code)
          ExtraDriver,   \* kind of the fixed serial driver, or "none"
          MaxCalls       \* calls made in all

Kinds == {"none", "queued", "direct"}

ASSUME CallersAssumption ==
    /\ IsFiniteSet(Callers)
    /\ Worker \notin Callers
    /\ Free \notin Callers \cup {Worker}
ASSUME NumbersAssumption ==
    /\ Deltas \subseteq Int
    /\ MaxComponent \in Nat /\ WordSize \in Nat \ {0}
    /\ EventCap \in Nat /\ MaxCalls \in Nat
ASSUME DriverAssumption == ExtraDriver \in Kinds

VARIABLES
    gen, slot, queueMtx,            \* LatestMoveSlot and queueMtx_
    workerStop, asleep,             \* workerStop_; the worker sleeps on queueCv_
    dispatchMtx, suspended,         \* moveDispatchMutex_, automaticMovesSuspended_
    inputMtx, driver,               \* input_method_mutex, driver_ (its kind)
    buttons, yielding,              \* ButtonPriority: pending_, threads asleep on cv_
    applied, events, failed,        \* feedback under feedbackMtx_
    wpc, wmove,                     \* the worker: where it is, the move it took
    pc, arg, calls,                 \* the callers: where each is, its displacement;
                                    \* the calls made
    barrier, overtaken, sent, consumed, refused, delivered   \* history

slotVars     == <<gen, slot, queueMtx, workerStop, asleep>>
dispatchVars == <<dispatchMtx, suspended>>
deviceVars   == <<inputMtx, driver, buttons, yielding>>
feedbackVars == <<applied, events, failed>>
workerVars   == <<wpc, wmove>>
callerVars   == <<pc, arg, calls>>
history      == <<barrier, overtaken, sent, consumed, refused, delivered>>
vars == <<slotVars, dispatchVars, deviceVars, feedbackVars, workerVars,
          callerVars, history>>

Threads == Callers \cup {Worker}

NoMove == [d |-> 0, gen |-> 0]
Move   == [d : Int, gen : Nat]

WorkerPlaces == {"top", "lock", "asleep", "dispatch", "input", "yield",
                 "recheck", "driving", "sent", "refused", "done"}
CallerPlaces == {"idle", "direct", "yield", "driving", "credit", "enqueue",
                 "press", "retire", "suspend", "resume", "clear", "cancel",
                 "backlog", "notify", "join", "gone"}

(* queueMove's range check, an unsigned comparison that wraps.             *)
ValidComponent(d) == (d + MaxComponent) % WordSize <= 2 * MaxComponent

(* The deque of recent moves drops its oldest entry beyond EventCap.       *)
Capped(s) == IF Len(s) > EventCap THEN Tail(s) ELSE s

(* A device call has run to its end: every announced button was passed.    *)
Overtake == overtaken' = [c \in Callers |->
                IF pc[c] = "press" THEN overtaken[c] + 1 ELSE overtaken[c]]

(* Mutant: the newest move overwrites the sum.                             *)
CreditOverwrites(d) ==
    /\ applied' = d
    /\ events' = Capped(Append(events, d))

Credit(d) ==
    /\ applied' = applied + d
    /\ events' = Capped(Append(events, d))

Init ==
    /\ gen = 0 /\ slot = NoMove /\ queueMtx = Free
    /\ workerStop = FALSE /\ asleep = FALSE
    /\ dispatchMtx = Free /\ suspended = FALSE
    /\ inputMtx = Free
    /\ driver \in IF ExtraDriver = "none" THEN Kinds ELSE {ExtraDriver}
    /\ buttons = 0 /\ yielding = {}
    /\ applied = 0 /\ events = <<>> /\ failed = 0
    /\ wpc = "top" /\ wmove = NoMove
    /\ pc = [c \in Callers |-> "idle"]
    /\ arg = [c \in Callers |-> 0]
    /\ calls = 0
    /\ barrier = 0 /\ overtaken = [c \in Callers |-> 0]
    /\ sent = 0 /\ consumed = 0 /\ refused = 0 /\ delivered = 0

-----------------------------------------------------------------------------
(* Calls.  A caller enters an operation only while the object lives.       *)

Enter(c, place) ==
    /\ pc[c] = "idle" /\ calls < MaxCalls /\ ~workerStop
    /\ pc' = [pc EXCEPT ![c] = place]
    /\ calls' = calls + 1

Goto(c, place) == pc' = [pc EXCEPT ![c] = place] /\ UNCHANGED <<arg, calls>>

(* The call returns; its arguments die with it.                            *)
Return(c) ==
    /\ pc' = [pc EXCEPT ![c] = "idle"]
    /\ arg' = [arg EXCEPT ![c] = 0] /\ UNCHANGED calls

SendRawMove(c, d) ==
    /\ d # 0
    /\ Enter(c, IF ExtraDriver = "queued" THEN "enqueue" ELSE "direct")
    /\ arg' = [arg EXCEPT ![c] = d]
    /\ UNCHANGED <<slotVars, dispatchVars, deviceVars, feedbackVars,
                   workerVars, history>>

(* sendRawMove under input_method_mutex: a direct driver is used at once,  *)
(* after the announced buttons; any other goes through the queue.          *)
ChoosePath(c) ==
    /\ pc[c] = "direct" /\ inputMtx = Free
    /\ \/ /\ driver # "direct"
          /\ Goto(c, "enqueue") /\ UNCHANGED <<inputMtx, yielding>>
       \/ /\ driver = "direct" /\ buttons # 0
          /\ Goto(c, "yield")
          /\ yielding' = yielding \cup {c} /\ UNCHANGED inputMtx
       \/ /\ driver = "direct" /\ buttons = 0
          /\ Goto(c, "driving")
          /\ inputMtx' = c /\ UNCHANGED yielding
    /\ UNCHANGED <<slotVars, dispatchVars, driver, buttons, feedbackVars,
                   workerVars, history>>

(* Woken from ButtonPriority::wait; only a vanished driver is looked for.  *)
DirectWake(c) ==
    /\ pc[c] = "yield" /\ c \notin yielding /\ inputMtx = Free
    /\ \/ /\ buttons # 0
          /\ yielding' = yielding \cup {c}
          /\ UNCHANGED <<inputMtx, callerVars>>
       \/ /\ buttons = 0 /\ driver = "none"
          /\ Return(c) /\ UNCHANGED <<inputMtx, yielding>>
       \/ /\ buttons = 0 /\ driver # "none"
          /\ Goto(c, "driving")
          /\ inputMtx' = c /\ UNCHANGED yielding
    /\ UNCHANGED <<slotVars, dispatchVars, driver, buttons, feedbackVars,
                   workerVars, history>>

(* driver_->move() returns, with either result.                            *)
DirectMoved(c) ==
    /\ pc[c] = "driving"
    /\ Overtake
    /\ \/ /\ Goto(c, "credit")
          /\ sent' = sent + arg[c]
          /\ UNCHANGED <<failed, inputMtx, refused>>
       \/ /\ Return(c)
          /\ failed' = failed + 1 /\ refused' = refused + 1
          /\ inputMtx' = Free /\ UNCHANGED sent
    /\ UNCHANGED <<slotVars, dispatchVars, driver, buttons, yielding, applied,
                   events, workerVars, barrier, consumed, delivered>>

DirectCredit(c) ==
    /\ pc[c] = "credit"
    /\ Credit(arg[c])
    /\ inputMtx' = Free
    /\ Return(c)
    /\ UNCHANGED <<slotVars, dispatchVars, driver, buttons, yielding, failed,
                   workerVars, history>>

(* queueMove: replaces whatever was pending and wakes the worker.          *)
QueueMove(c) ==
    /\ pc[c] = "enqueue"
    /\ Return(c)
    /\ IF ValidComponent(arg[c])
         THEN /\ queueMtx = Free
              /\ gen' = gen + 1
              /\ slot' = [d |-> arg[c], gen |-> gen + 1]
              /\ asleep' = FALSE
         ELSE UNCHANGED <<gen, slot, asleep>>
    /\ UNCHANGED <<queueMtx, workerStop, dispatchVars, deviceVars,
                   feedbackVars, workerVars, history>>

(* Mutant: the button is not counted before it waits for the device.       *)
AnnounceNothing(c) ==
    /\ Enter(c, "press")
    /\ overtaken' = [overtaken EXCEPT ![c] = 0]
    /\ UNCHANGED <<slotVars, dispatchVars, deviceVars, arg, feedbackVars,
                   workerVars, barrier, sent, consumed, refused, delivered>>

(* pressLeftButton and its three siblings: the announcement precedes the   *)
(* device lock, and is withdrawn under that lock.                          *)
AnnounceButton(c) ==
    /\ Enter(c, "press")
    /\ buttons' = buttons + 1
    /\ overtaken' = [overtaken EXCEPT ![c] = 0]
    /\ UNCHANGED <<slotVars, dispatchVars, inputMtx, driver, yielding, arg,
                   feedbackVars, workerVars, barrier, sent, consumed, refused,
                   delivered>>

PressButton(c) ==
    /\ pc[c] = "press" /\ inputMtx = Free
    /\ Goto(c, "retire")
    /\ UNCHANGED <<slotVars, dispatchVars, deviceVars, feedbackVars,
                   workerVars, history>>

(* Mutant: the moves that yielded are not notified.                        *)
RetireSilently(c) ==
    /\ pc[c] = "retire" /\ inputMtx = Free
    /\ buttons' = buttons - 1
    /\ Return(c)
    /\ UNCHANGED <<slotVars, dispatchVars, inputMtx, driver, yielding,
                   feedbackVars, workerVars, history>>

RetireButton(c) ==
    /\ pc[c] = "retire" /\ inputMtx = Free
    /\ buttons' = buttons - 1
    /\ yielding' = {}
    /\ Return(c)
    /\ UNCHANGED <<slotVars, dispatchVars, inputMtx, driver, feedbackVars,
                   workerVars, history>>

(* suspendAutomaticMoves: the flag changes under the dispatch lock, so it  *)
(* waits for a send in progress; suspending then clears the queue.         *)
CallSuspend(c, suspend) ==
    /\ Enter(c, IF suspend THEN "suspend" ELSE "resume")
    /\ UNCHANGED <<arg, slotVars, dispatchVars, deviceVars, feedbackVars,
                   workerVars, history>>

SetSuspended(c) ==
    /\ pc[c] \in {"suspend", "resume"} /\ dispatchMtx = Free
    /\ suspended' = (pc[c] = "suspend")
    /\ IF pc[c] = "suspend" THEN Goto(c, "clear") ELSE Return(c)
    /\ UNCHANGED <<slotVars, dispatchMtx, deviceVars, feedbackVars,
                   workerVars, history>>

CallClear(c) ==
    /\ Enter(c, "clear")
    /\ UNCHANGED <<arg, slotVars, dispatchVars, deviceVars, feedbackVars,
                   workerVars, history>>

(* clearQueuedMoves empties the slot and, still holding queueMtx_, waits   *)
(* for the device lock to cancel the move the device is playing.           *)
ClearSlot(c) ==
    /\ pc[c] = "clear" /\ queueMtx = Free
    /\ queueMtx' = c
    /\ gen' = gen + 1 /\ slot' = NoMove
    /\ Goto(c, "cancel")
    /\ UNCHANGED <<workerStop, asleep, dispatchVars, deviceVars, feedbackVars,
                   workerVars, history>>

CancelMove(c) ==
    /\ pc[c] = "cancel" /\ inputMtx = Free
    /\ queueMtx' = Free
    /\ barrier' = gen
    /\ Return(c)
    /\ UNCHANGED <<gen, slot, workerStop, asleep, dispatchVars, deviceVars,
                   feedbackVars, workerVars, overtaken, sent, consumed,
                   refused, delivered>>

(* consumeMovementFeedback: the sums are taken and zeroed together; the    *)
(* backlog is read afterwards.                                             *)
ConsumeFeedback(c) ==
    /\ Enter(c, "backlog")
    /\ consumed' = consumed + applied
    /\ applied' = 0 /\ events' = <<>>
    /\ UNCHANGED <<arg, slotVars, dispatchVars, deviceVars, failed, workerVars,
                   barrier, overtaken, sent, refused, delivered>>

ReadBacklog(c) ==
    /\ pc[c] = "backlog" /\ queueMtx = Free
    /\ Return(c)
    /\ UNCHANGED <<slotVars, dispatchVars, deviceVars, feedbackVars,
                   workerVars, history>>

(* set*Connection followed by refreshDriver, under the device lock.        *)
SetConnection(c, kind) ==
    /\ ExtraDriver = "none" /\ inputMtx = Free
    /\ Enter(c, "idle")
    /\ driver' = kind
    /\ UNCHANGED <<arg, slotVars, dispatchVars, inputMtx, buttons, yielding,
                   feedbackVars, workerVars, history>>

(* The destructor: nobody else is inside the object.                       *)
Destroy(c) ==
    /\ \A o \in Callers : pc[o] = "idle"
    /\ Enter(c, "notify") /\ queueMtx = Free
    /\ workerStop' = TRUE
    /\ gen' = gen + 1 /\ slot' = NoMove
    /\ UNCHANGED <<arg, queueMtx, asleep, dispatchVars, deviceVars,
                   feedbackVars, workerVars, history>>

NotifyStop(c) ==
    /\ pc[c] = "notify"
    /\ asleep' = FALSE
    /\ Goto(c, "join")
    /\ UNCHANGED <<gen, slot, queueMtx, workerStop, dispatchVars, deviceVars,
                   feedbackVars, workerVars, history>>

Join(c) ==
    /\ pc[c] = "join" /\ wpc = "done"
    /\ Goto(c, "gone")
    /\ UNCHANGED <<slotVars, dispatchVars, deviceVars, feedbackVars,
                   workerVars, history>>

-----------------------------------------------------------------------------
(* moveWorkerLoop and sendMovementToDriver.                                *)

WCheckStop ==
    /\ wpc = "top"
    /\ wpc' = IF workerStop THEN "done" ELSE "lock"
    /\ UNCHANGED <<slotVars, dispatchVars, deviceVars, feedbackVars, wmove,
                   callerVars, history>>

(* Under queueMtx_: leave, sleep on queueCv_ or take the pending move.     *)
WLock ==
    /\ wpc = "lock" /\ queueMtx = Free
    /\ \/ /\ workerStop
          /\ wpc' = "done" /\ UNCHANGED <<slot, asleep, wmove>>
       \/ /\ ~workerStop /\ slot = NoMove
          /\ wpc' = "asleep" /\ asleep' = TRUE /\ UNCHANGED <<slot, wmove>>
       \/ /\ ~workerStop /\ slot # NoMove
          /\ wpc' = "dispatch"
          /\ wmove' = slot /\ slot' = NoMove /\ UNCHANGED asleep
    /\ UNCHANGED <<gen, queueMtx, workerStop, dispatchVars, deviceVars,
                   feedbackVars, callerVars, history>>

WWake ==
    /\ wpc = "asleep" /\ ~asleep
    /\ wpc' = "lock"
    /\ UNCHANGED <<slotVars, dispatchVars, deviceVars, feedbackVars, wmove,
                   callerVars, history>>

(* The loop's local move goes out of scope.                                *)
NextIteration == wpc' = "top" /\ wmove' = NoMove

(* Mutant: the suspension is not looked at again under the dispatch lock.  *)
MayDispatchSuspended == wmove.gen = gen

(* The move is dropped when moves are suspended or it was superseded.      *)
MayDispatch == ~suspended /\ wmove.gen = gen

WDispatch ==
    /\ wpc = "dispatch" /\ dispatchMtx = Free
    /\ IF MayDispatch
         THEN wpc' = "input" /\ dispatchMtx' = Worker /\ UNCHANGED wmove
         ELSE NextIteration /\ UNCHANGED dispatchMtx
    /\ UNCHANGED <<slotVars, suspended, deviceVars, feedbackVars, callerVars,
                   history>>

(* Mutant: the worker does not yield to announced buttons.                 *)
WInputImpatient ==
    /\ wpc = "input" /\ inputMtx = Free
    /\ wpc' = "recheck" /\ inputMtx' = Worker
    /\ UNCHANGED <<slotVars, dispatchVars, driver, buttons, yielding,
                   feedbackVars, wmove, callerVars, history>>

(* input_method_mutex, then ButtonPriority::wait.                          *)
WInput ==
    /\ wpc \in {"input", "yield"} /\ Worker \notin yielding /\ inputMtx = Free
    /\ \/ /\ buttons # 0
          /\ wpc' = "yield" /\ yielding' = yielding \cup {Worker}
          /\ UNCHANGED inputMtx
       \/ /\ buttons = 0
          /\ wpc' = "recheck" /\ inputMtx' = Worker /\ UNCHANGED yielding
    /\ UNCHANGED <<slotVars, dispatchVars, driver, buttons, feedbackVars,
                   wmove, callerVars, history>>

(* Mutant: the move is resumed without a second look.                      *)
AlwaysWanted == TRUE

(* Never resume an old movement after the buttons went first.              *)
StillWanted == wmove.gen = gen

WRecheck ==
    /\ wpc = "recheck"
    /\ \/ /\ StillWanted /\ driver # "none"
          /\ wpc' = "driving" /\ UNCHANGED <<inputMtx, refused>>
       \/ /\ StillWanted /\ driver = "none"
          /\ wpc' = "refused" /\ inputMtx' = Free /\ refused' = refused + 1
       \/ /\ ~StillWanted
          /\ wpc' = "refused" /\ inputMtx' = Free /\ UNCHANGED refused
    /\ UNCHANGED <<slotVars, dispatchVars, driver, buttons, yielding,
                   feedbackVars, wmove, callerVars, barrier, overtaken, sent,
                   consumed, delivered>>

WMoved ==
    /\ wpc = "driving"
    /\ inputMtx' = Free
    /\ Overtake
    /\ \/ /\ wpc' = "sent"
          /\ sent' = sent + wmove.d /\ delivered' = wmove.gen
          /\ UNCHANGED refused
       \/ /\ wpc' = "refused"
          /\ refused' = refused + 1 /\ UNCHANGED <<sent, delivered>>
    /\ UNCHANGED <<slotVars, dispatchVars, driver, buttons, yielding,
                   feedbackVars, wmove, callerVars, barrier, consumed>>

WCredit ==
    /\ wpc = "sent"
    /\ Credit(wmove.d)
    /\ NextIteration /\ dispatchMtx' = Free
    /\ UNCHANGED <<slotVars, suspended, deviceVars, failed, callerVars,
                   history>>

(* A failure is counted unless the move was superseded in the meantime.    *)
WRefused ==
    /\ wpc = "refused"
    /\ failed' = IF wmove.gen = gen THEN failed + 1 ELSE failed
    /\ NextIteration /\ dispatchMtx' = Free
    /\ UNCHANGED <<slotVars, suspended, deviceVars, applied, events,
                   callerVars, history>>

-----------------------------------------------------------------------------
WorkerNext == WCheckStop \/ WLock \/ WWake \/ WDispatch \/ WInput \/ WRecheck
              \/ WMoved \/ WCredit \/ WRefused

(* The steps of a call already entered.                                    *)
Continue(c) ==
    \/ ChoosePath(c) \/ DirectWake(c) \/ DirectMoved(c) \/ DirectCredit(c)
    \/ QueueMove(c) \/ PressButton(c) \/ RetireButton(c) \/ SetSuspended(c)
    \/ ClearSlot(c) \/ CancelMove(c) \/ ReadBacklog(c) \/ NotifyStop(c)
    \/ Join(c)

Begin(c) ==
    \/ \E d \in Deltas : SendRawMove(c, d)
    \/ AnnounceButton(c)
    \/ \E suspend \in BOOLEAN : CallSuspend(c, suspend)
    \/ CallClear(c)
    \/ ConsumeFeedback(c)
    \/ \E kind \in Kinds : SetConnection(c, kind)
    \/ Destroy(c)

Next == WorkerNext \/ \E c \in Callers : Begin(c) \/ Continue(c)

Spec == Init /\ [][Next]_vars

(* A started call and the worker keep running; nobody must start a call.   *)
(* Every lock is contended finitely often because calls are bounded, so    *)
(* weak fairness of the threads is enough and no mutex needs to be fair.   *)
FairSpec ==
    /\ Spec
    /\ WF_vars(WorkerNext)
    /\ \A c \in Callers : WF_vars(Continue(c))
-----------------------------------------------------------------------------
(* Properties.                                                             *)

(* Every variable keeps the type its C++ declaration gives it.             *)
TypeOK ==
    /\ gen \in Nat /\ slot \in Move /\ queueMtx \in Callers \cup {Free}
    /\ workerStop \in BOOLEAN /\ asleep \in BOOLEAN
    /\ dispatchMtx \in {Free, Worker} /\ suspended \in BOOLEAN
    /\ inputMtx \in Threads \cup {Free} /\ driver \in Kinds
    /\ buttons \in Nat /\ yielding \in SUBSET Threads
    /\ applied \in Int /\ events \in Seq(Int) /\ failed \in Nat
    /\ wpc \in WorkerPlaces /\ wmove \in Move
    /\ pc \in [Callers -> CallerPlaces]
    /\ arg \in [Callers -> Int] /\ calls \in Nat
    /\ barrier \in Nat /\ overtaken \in [Callers -> Nat]
    /\ sent \in Int /\ consumed \in Int /\ refused \in Nat
    /\ delivered \in Nat

(* Once clearQueuedMoves has returned, no move queued before it reaches    *)
(* the device: not the one in the slot, nor the one the worker had already *)
(* taken, nor one waiting behind a button.                                 *)
ClearIsABarrier == wpc = "driving" => wmove.gen > barrier

(* While moves are suspended the worker is not inside a device call, and   *)
(* suspending waits for the call that was in progress (mouse.cpp:141).     *)
SuspendedMeansQuiet == suspended => wpc \notin {"input", "yield", "recheck",
                                                "driving", "sent"}

(* A button that was announced sees at most one more move go first: the    *)
(* one that had already passed the priority check.                         *)
ButtonOvertakenAtMostOnce ==
    \A c \in Callers : pc[c] = "press" => overtaken[c] <= 1

(* Every displacement the device accepted is reported to the controller    *)
(* exactly once: it was consumed, or is in the sum, or its thread is on    *)
(* the way to adding it.                                                   *)
FeedbackConservation ==
    sent = consumed + applied
         + (IF wpc = "sent" THEN wmove.d ELSE 0)
         + (IF inputMtx \in Callers /\ pc[inputMtx] = "credit"
              THEN arg[inputMtx] ELSE 0)

(* A move that was merely cancelled or superseded never counts as a device *)
(* failure (the counter that takes auto fire and calibration down).        *)
FailuresAreReal == failed <= refused

(* The queued path implements the abstract port.                           *)
Latest == IF slot # NoMove THEN slot.gen
          ELSE IF wpc \in {"dispatch", "input", "yield", "recheck"}
                  /\ wmove.gen = gen
               THEN gen ELSE 0
Committed == IF wpc = "driving" THEN wmove.gen ELSE 0

Port == INSTANCE MovePort WITH latest <- Latest, committed <- Committed,
                               delivered <- delivered
ImplementsPort == Port!Spec

(* No lock order or lost wake-up strands a caller: every call returns.     *)
EveryCallReturns == \A c \in Callers :
    pc[c] # "idle" ~> pc[c] \in {"idle", "gone"}

(* A queued move does not sit in the slot for ever: the worker is woken    *)
(* for it, whatever it was doing when the move arrived.                    *)
QueuedMoveIsTaken == slot # NoMove ~> slot = NoMove

(* Both together: neither a call nor a queued move is ever stranded.       *)
NoCallOrMoveIsStranded == EveryCallReturns /\ QueuedMoveIsTaken
============================================================================
