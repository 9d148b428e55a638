-------------------------- MODULE InferenceSession --------------------------
(***************************************************************************)
(* One inference session: the window that asks for it (qt_ui/MainWindow),  *)
(* InferenceSession::start and stop, the capture thread, the detector      *)
(* thread with its slot for one pending frame, the control worker that     *)
(* uses the published detections, and the flags they share                 *)
(* (session_stop_requested, shouldExit, detector_model_changed,            *)
(* detection_resolution_changed).                                          *)
(*                                                                         *)
(* A frame is its sequence number, a model and a resolution are values; a  *)
(* batch of detections is the frame it comes from and the resolution its   *)
(* boxes are scaled to.  Frame 0 is none.                                  *)
(***************************************************************************)
EXTENDS Integers

CONSTANTS Models,                \* the models one can choose
          SizeOf(_),             \* the input resolution of each
          MaxFrames, MaxOperations, MaxChanges, MaxCrashes   \* bounds

ASSUME BoundsAssumption == /\ MaxFrames \in Nat /\ MaxOperations \in Nat
                           /\ MaxChanges \in Nat /\ MaxCrashes \in Nat
                           /\ \A m \in Models : SizeOf(m) \in Nat \ {0}
                           /\ 0 \notin Models

VARIABLES config,    \* Config: the model and the resolution
          flags,     \* the four shared flags
          session,   \* running_, whether detector_raw_ is set, number of starts
          op,        \* who runs start() or stop(), and how far it is
          ui,        \* MainWindow and main()
          det,       \* TrtDetector and its thread
          cap,       \* the capture thread
          ctl,       \* LatestControlWorker
          buffer,    \* detectionBuffer
          budget     \* what is left of the bounds
vars == <<config, flags, session, op, ui, det, cap, ctl, buffer, budget>>

None == 0
Idle == [by |-> "nobody", kind |-> "stop", at |-> "none"]

(* DetectionBuffer: every change bumps the version, emptying it too.       *)
Bumped  == [buffer EXCEPT !.version = @ + 1]
Cleared == [Bumped EXCEPT !.frame = None]

Ended(t) == t.at \in {"none", "done"}

(***************************************************************************)
(* InferenceSession::start and stop, under mutex_.                         *)
(***************************************************************************)
At(s)     == op.at = s
GoOn(s)   == op' = [op EXCEPT !.at = s]
GiveUp(s) == op' = [op EXCEPT !.at = s, !.kind = "stop"]

(* The check at the top of start(); stop() has none.                       *)
OpBegin ==
    /\ At("begin")
    /\ GoOn(IF op.kind = "start" /\ session.running THEN "finished" ELSE "request")
    /\ UNCHANGED <<config, flags, session, ui, det, cap, ctl, buffer, budget>>

(* stop_locked up to the joins: session_stop_requested, requestExit.       *)
RequestStop ==
    /\ At("request") /\ GoOn("joinDetector")
    /\ flags' = [flags EXCEPT !.stop = TRUE]
    /\ det' = IF session.registered THEN [det EXCEPT !.exiting = TRUE, !.slot = None] ELSE det
    /\ UNCHANGED <<config, session, ui, cap, ctl, buffer, budget>>

JoinDetector ==
    /\ At("joinDetector") /\ Ended(det) /\ GoOn("joinCapture")
    /\ det' = [det EXCEPT !.at = "none"]
    /\ UNCHANGED <<config, flags, session, ui, cap, ctl, buffer, budget>>

JoinCapture ==
    /\ At("joinCapture") /\ Ended(cap) /\ GoOn("clean")
    /\ cap' = [cap EXCEPT !.at = "none"]
    /\ UNCHANGED <<config, flags, session, ui, det, ctl, buffer, budget>>

(* Variant for mutation: the detections are left in the buffer.            *)
CleanUpKeepsBatch ==
    /\ At("clean") /\ GoOn(IF op.kind = "start" THEN "load" ELSE "finished")
    /\ session' = [session EXCEPT !.running = FALSE, !.registered = FALSE]
    /\ det' = IF session.registered THEN [det EXCEPT !.loaded = None] ELSE det
    /\ buffer' = Bumped
    /\ UNCHANGED <<config, flags, ui, cap, ctl, budget>>

(* The rest of stop_locked.                                                *)
CleanUp ==
    /\ At("clean") /\ GoOn(IF op.kind = "start" THEN "load" ELSE "finished")
    /\ session' = [session EXCEPT !.running = FALSE, !.registered = FALSE]
    /\ det' = IF session.registered THEN [det EXCEPT !.loaded = None] ELSE det
    /\ buffer' = Cleared
    /\ UNCHANGED <<config, flags, ui, cap, ctl, budget>>

(* trt_detector.initialize for start(): refused when the program ends; it  *)
(* may fail, or throw.                                                     *)
LoadModel ==
    /\ At("load")
    /\ \/ /\ flags.exit /\ GoOn("finished") /\ UNCHANGED <<det, session>>
       \/ /\ ~flags.exit /\ GoOn("launch")
          /\ det' = [det EXCEPT !.exiting = FALSE, !.slot = None,
                                !.loaded = config.model, !.scale = config.resolution]
          /\ session' = [session EXCEPT !.registered = TRUE]
       \/ /\ ~flags.exit /\ (GoOn("finished") \/ GiveUp("request"))
          /\ det' = [det EXCEPT !.exiting = FALSE, !.slot = None, !.loaded = None]
          /\ UNCHANGED session
    /\ UNCHANGED <<config, flags, ui, cap, ctl, buffer, budget>>

CaptureStarts ==
    /\ cap' = [cap EXCEPT !.at = "setup", !.unavailable = FALSE]
    /\ session' = [session EXCEPT !.running = TRUE, !.number = @ + 1]

(* The flags, running_ and the capture thread; a thread may not start.     *)
LaunchCapture ==
    /\ At("launch")
    /\ flags' = [flags EXCEPT !.resolution = TRUE, !.model = FALSE, !.stop = FALSE]
    /\ \/ GoOn("launchDetector") /\ CaptureStarts
       \/ /\ budget.crashes > 0 /\ GiveUp("request") /\ UNCHANGED cap
          /\ session' = [session EXCEPT !.running = TRUE]
    /\ UNCHANGED <<config, ui, det, ctl, buffer, budget>>

(* Variant for mutation: the stop flag is cleared when all is launched.    *)
LaunchDetectorClears ==
    /\ At("launchDetector") /\ GoOn("finished")
    /\ det' = [det EXCEPT !.at = "check"]
    /\ ctl' = [ctl EXCEPT !.at = "idle", !.pending = FALSE, !.consumed = -1]
    /\ flags' = [flags EXCEPT !.stop = FALSE]
    /\ UNCHANGED <<config, session, ui, cap, buffer, budget>>

LaunchDetector ==
    /\ At("launchDetector")
    /\ \/ /\ GoOn("finished") /\ det' = [det EXCEPT !.at = "check"]
          /\ ctl' = [ctl EXCEPT !.at = "idle", !.pending = FALSE, !.consumed = -1]
       \/ budget.crashes > 0 /\ GiveUp("request") /\ UNCHANGED <<det, ctl>>
    /\ UNCHANGED <<config, flags, session, ui, cap, buffer, budget>>

OpStep == OpBegin \/ RequestStop \/ JoinDetector \/ JoinCapture \/ CleanUp
          \/ LoadModel \/ LaunchCapture \/ LaunchDetector

(***************************************************************************)
(* MainWindow and main().                                                  *)
(***************************************************************************)
Begin(by, kind) == op' = [by |-> by, kind |-> kind, at |-> "begin"]

Accept == /\ ui' = [ui EXCEPT !.app = "ending"] /\ flags' = [flags EXCEPT !.exit = TRUE]
          /\ op' = Idle

(* closeEvent when no operation is in hand.                                *)
CloseWindow ==
    IF session.running \/ ui.cleanup
    THEN /\ Begin("ui", "stop") /\ UNCHANGED flags
         /\ ui' = [ui EXCEPT !.closing = TRUE, !.cleanup = FALSE, !.starting = FALSE]
    ELSE Accept

UiFree == ui.app = "up" /\ ui.at = "idle"

(* onHeroToggleInference.                                                  *)
Toggle ==
    /\ UiFree /\ At("none") /\ budget.operations > 0
    /\ budget' = [budget EXCEPT !.operations = @ - 1]
    /\ Begin("ui", IF session.running THEN "stop" ELSE "start")
    /\ ui' = [ui EXCEPT !.starting = ~session.running, !.cleanup = ~session.running]
    /\ UNCHANGED <<config, flags, session, det, cap, ctl, buffer>>

Close ==
    /\ UiFree
    /\ IF At("none") THEN CloseWindow
       ELSE ui' = [ui EXCEPT !.closing = TRUE] /\ UNCHANGED <<flags, op>>
    /\ UNCHANGED <<config, session, det, cap, ctl, buffer, budget>>

(* A session that asked for its own end is stopped by the timer.           *)
StopIfAsked ==
    IF flags.stop /\ ui.cleanup
    THEN /\ Begin("ui", "stop") /\ UNCHANGED flags
         /\ ui' = [ui EXCEPT !.starting = FALSE, !.cleanup = FALSE]
    ELSE op' = Idle /\ UNCHANGED <<ui, flags>>

(* Variant for mutation: a finished operation is all the timer looks at.   *)
PollOperationOnly ==
    /\ UiFree /\ op.by = "ui" /\ At("finished")
    /\ IF ui.closing THEN CloseWindow ELSE op' = Idle /\ UNCHANGED <<ui, flags>>
    /\ UNCHANGED <<config, session, det, cap, ctl, buffer, budget>>

(* pollMonitorTelemetry with pollSessionOperation.                         *)
Poll ==
    /\ UiFree
    /\ \/ At("none") /\ flags.stop /\ ui.cleanup /\ StopIfAsked
       \/ /\ op.by = "ui" /\ At("finished")
          /\ \/ ui.closing /\ ui.starting /\ UNCHANGED flags /\ Begin("ui", "stop")
                /\ ui' = [ui EXCEPT !.starting = FALSE, !.cleanup = FALSE]
             \/ ui.closing /\ ~ui.starting /\ CloseWindow
             \/ ~ui.closing /\ StopIfAsked
    /\ UNCHANGED <<config, session, det, cap, ctl, buffer, budget>>

(* main() after the event loop.                                            *)
FinalStop ==
    /\ ui.app = "ending" /\ At("none") /\ Begin("main", "stop")
    /\ ui' = [ui EXCEPT !.app = "stopping"]
    /\ UNCHANGED <<config, flags, session, det, cap, ctl, buffer, budget>>

Exit ==
    /\ ui.app = "stopping" /\ At("finished") /\ op' = Idle
    /\ ui' = [ui EXCEPT !.app = "down"]
    /\ UNCHANGED <<config, flags, session, det, cap, ctl, buffer, budget>>

(* HandleThreadCrash of the keyboard or the auto-capture thread.           *)
ListenerCrashes ==
    /\ ui.app = "up" /\ budget.crashes > 0
    /\ budget' = [budget EXCEPT !.crashes = @ - 1]
    /\ flags' = [flags EXCEPT !.exit = TRUE]
    /\ UNCHANGED <<config, session, op, ui, det, cap, ctl, buffer>>

(* syncToRuntime after another model was chosen: the configuration, the    *)
(* flag, the metadata of the model with its resolution, the flag again.    *)
ChooseModel ==
    /\ UiFree /\ At("none") /\ budget.changes > 0
    /\ budget' = [budget EXCEPT !.changes = @ - 1]
    /\ \E m \in Models \ {config.model} : config' = [config EXCEPT !.model = m]
    /\ ui' = [ui EXCEPT !.at = "flag"]
    /\ UNCHANGED <<flags, session, op, det, cap, ctl, buffer>>

FlagModel ==
    /\ ui.at = "flag" /\ ui' = [ui EXCEPT !.at = "metadata"]
    /\ flags' = [flags EXCEPT !.model = TRUE]
    /\ UNCHANGED <<config, session, op, det, cap, ctl, buffer, budget>>

FollowModel ==
    /\ ui.at = "metadata"
    /\ IF config.resolution = SizeOf(config.model)
       THEN ui' = [ui EXCEPT !.at = "idle"] /\ UNCHANGED <<config, flags>>
       ELSE /\ ui' = [ui EXCEPT !.at = "flagAgain"]
            /\ config' = [config EXCEPT !.resolution = SizeOf(config.model)]
            /\ flags' = [flags EXCEPT !.resolution = TRUE]
    /\ UNCHANGED <<session, op, det, cap, ctl, buffer, budget>>

FlagAgain ==
    /\ ui.at = "flagAgain" /\ ui' = [ui EXCEPT !.at = "idle"]
    /\ flags' = [flags EXCEPT !.model = TRUE]
    /\ UNCHANGED <<config, session, op, det, cap, ctl, buffer, budget>>

UiStep == Poll \/ FinalStop \/ Exit \/ FlagModel \/ FollowModel \/ FlagAgain

(***************************************************************************)
(* TrtDetector::inferenceThread.                                           *)
(***************************************************************************)
DetGoes(s) == det' = [det EXCEPT !.at = s]

(* The head of the loop.                                                   *)
DetCheck ==
    /\ det.at = "check"
    /\ DetGoes(IF det.exiting THEN "closing" ELSE IF flags.model THEN "switching" ELSE "waiting")
    /\ UNCHANGED <<config, flags, session, op, ui, cap, ctl, buffer, budget>>

(* The pending frame is dropped and initialize() begins: the model's name  *)
(* is read, the old engine released, shouldExit cleared.                   *)
DetSwitch ==
    /\ det.at = "switching"
    /\ det' = [det EXCEPT !.at = "loading", !.slot = None, !.exiting = FALSE,
                          !.loaded = None, !.wanted = config.model]
    /\ UNCHANGED <<config, flags, session, op, ui, cap, ctl, buffer, budget>>

DetLoad ==
    /\ det.at = "loading"
    /\ \/ /\ det' = [det EXCEPT !.at = "switched", !.loaded = det.wanted,
                                !.scale = config.resolution]
          /\ UNCHANGED flags
       \/ /\ flags' = [flags EXCEPT !.stop = TRUE]
          /\ det' = [det EXCEPT !.at = "closing", !.exiting = TRUE, !.slot = None]
    /\ UNCHANGED <<config, session, op, ui, cap, ctl, buffer, budget>>

DetSwitched ==
    /\ det.at = "switched" /\ DetGoes("waiting")
    /\ flags' = [flags EXCEPT !.model = FALSE, !.resolution = TRUE]
    /\ UNCHANGED <<config, session, op, ui, cap, ctl, buffer, budget>>

(* Variant for mutation: the slot is not emptied.                          *)
DetTakeCopy ==
    /\ det.at = "waiting" /\ (det.exiting \/ det.slot # None)
    /\ det' = IF det.exiting THEN [det EXCEPT !.at = "closing"]
              ELSE [det EXCEPT !.at = "inferring", !.frame = det.slot]
    /\ UNCHANGED <<config, flags, session, op, ui, cap, ctl, buffer, budget>>

DetTake ==
    /\ det.at = "waiting" /\ (det.exiting \/ det.slot # None)
    /\ det' = IF det.exiting THEN [det EXCEPT !.at = "closing"]
              ELSE [det EXCEPT !.at = "inferring", !.frame = det.slot, !.slot = None]
    /\ UNCHANGED <<config, flags, session, op, ui, cap, ctl, buffer, budget>>

(* publishSlot up to the end of postProcess; an exception drops the frame. *)
DetPublish ==
    /\ det.at = "inferring"
    /\ \/ /\ DetGoes("notify")
          /\ buffer' = [Bumped EXCEPT !.frame = det.frame, !.size = det.scale,
                                      !.session = session.number]
       \/ DetGoes("check") /\ UNCHANGED buffer
    /\ UNCHANGED <<config, flags, session, op, ui, cap, ctl, budget>>

DetNotify ==
    /\ det.at = "notify" /\ DetGoes("check")
    /\ ctl' = [ctl EXCEPT !.pending = TRUE]
    /\ UNCHANGED <<config, flags, session, op, ui, cap, buffer, budget>>

(* Something outside the try block throws.                                 *)
DetCrash ==
    /\ det.at \in {"check", "loading"} /\ budget.crashes > 0
    /\ budget' = [budget EXCEPT !.crashes = @ - 1]
    /\ DetGoes("unwinding")
    /\ UNCHANGED <<config, flags, session, op, ui, cap, ctl, buffer>>

(* The control worker is joined, then start_guarded looks at the end: one  *)
(* that nobody asked for ends the session.                                 *)
DetEnd ==
    /\ det.at \in {"closing", "unwinding"} /\ ctl.at = "idle"
    /\ ctl' = [ctl EXCEPT !.at = "none"] /\ DetGoes("done")
    /\ IF det.at = "unwinding" \/ ~(flags.stop \/ flags.exit)
       THEN /\ flags' = [flags EXCEPT !.stop = TRUE]
            /\ session' = [session EXCEPT !.running = FALSE]
       ELSE UNCHANGED <<flags, session>>
    /\ UNCHANGED <<config, op, ui, cap, buffer, budget>>

DetStep == DetCheck \/ DetSwitch \/ DetLoad \/ DetSwitched \/ DetTake
           \/ DetPublish \/ DetNotify \/ DetEnd

(***************************************************************************)
(* captureThread.                                                          *)
(***************************************************************************)
Stopping == flags.stop \/ flags.exit

(* setCaptureUnavailable.                                                  *)
Unavailable(at) ==
    /\ cap' = [cap EXCEPT !.at = at, !.unavailable = TRUE]
    /\ buffer' = IF cap.unavailable THEN buffer ELSE Cleared

CapSetup ==
    /\ cap.at = "setup" /\ Unavailable("loop")
    /\ UNCHANGED <<config, flags, session, op, ui, det, ctl, budget>>

CapCrash ==
    /\ cap.at = "setup" /\ budget.crashes > 0
    /\ budget' = [budget EXCEPT !.crashes = @ - 1]
    /\ cap' = [cap EXCEPT !.at = "done"]
    /\ flags' = [flags EXCEPT !.stop = TRUE]
    /\ session' = [session EXCEPT !.running = FALSE]
    /\ UNCHANGED <<config, op, ui, det, ctl, buffer>>

CapExit ==
    /\ cap.at = "loop" /\ Stopping /\ cap' = [cap EXCEPT !.at = "done"]
    /\ UNCHANGED <<config, flags, session, op, ui, det, ctl, buffer, budget>>

(* detection_resolution_changed: the device is opened again.               *)
CapReopen ==
    /\ cap.at = "loop" /\ ~Stopping /\ flags.resolution
    /\ flags' = [flags EXCEPT !.resolution = FALSE]
    /\ Unavailable("loop")
    /\ UNCHANGED <<config, session, op, ui, det, ctl, budget>>

(* No device, a device that stopped, or no frame for half a second.        *)
CapNoFrame ==
    /\ cap.at = "loop" /\ ~Stopping /\ ~flags.resolution /\ ~cap.unavailable
    /\ Unavailable("loop")
    /\ UNCHANGED <<config, flags, session, op, ui, det, ctl, budget>>

(* A frame: it replaces the one pending, if any (processFrame).            *)
CapFrame ==
    /\ cap.at = "loop" /\ ~Stopping /\ ~flags.resolution /\ cap.seq < MaxFrames
    /\ cap' = [cap EXCEPT !.seq = @ + 1, !.unavailable = FALSE]
    /\ det' = IF det.exiting THEN det ELSE [det EXCEPT !.slot = cap.seq + 1]
    /\ UNCHANGED <<config, flags, session, op, ui, ctl, buffer, budget>>

CapStep == CapSetup \/ CapExit \/ CapReopen \/ CapNoFrame \/ CapFrame

(***************************************************************************)
(* LatestControlWorker::run with aim_loop::tick as its update.             *)
(***************************************************************************)
CtlWake ==
    /\ ctl.at = "idle" /\ ctl.pending
    /\ ctl' = [ctl EXCEPT !.at = "updating", !.pending = FALSE]
    /\ UNCHANGED <<config, flags, session, op, ui, det, cap, buffer, budget>>

(* tick: without an active hotkey it returns before it reads the buffer;   *)
(* otherwise it takes a batch it has not taken yet.                        *)
CtlRead ==
    /\ ctl.at = "updating"
    /\ \/ ctl' = [ctl EXCEPT !.at = "acting", !.seen = buffer.version]
       \/ ctl' = [ctl EXCEPT !.at = "acting", !.seen = buffer.version,
                    !.consumed = buffer.version,
                    !.used = IF ctl.consumed # buffer.version /\ buffer.frame # None
                             THEN [frame |-> buffer.frame, version |-> buffer.version,
                                   size |-> buffer.size, at |-> config.resolution] ELSE @]
    /\ UNCHANGED <<config, flags, session, op, ui, det, cap, buffer, budget>>

(* Variant for mutation: a request made during the update is lost.         *)
CtlDoneForgets ==
    /\ ctl.at = "acting" /\ ctl' = [ctl EXCEPT !.at = "idle", !.pending = FALSE]
    /\ UNCHANGED <<config, flags, session, op, ui, det, cap, buffer, budget>>

CtlDone ==
    /\ ctl.at = "acting" /\ ctl' = [ctl EXCEPT !.at = "idle"]
    /\ UNCHANGED <<config, flags, session, op, ui, det, cap, buffer, budget>>

CtlStep == CtlWake \/ CtlRead \/ CtlDone

(***************************************************************************)
Init ==
    /\ \E m \in Models : config = [model |-> m, resolution |-> SizeOf(m)]
    /\ flags = [stop |-> TRUE, exit |-> FALSE, model |-> FALSE, resolution |-> FALSE]
    /\ session = [running |-> FALSE, registered |-> FALSE, number |-> 0]
    /\ op = Idle
    /\ ui = [at |-> "idle", app |-> "up", cleanup |-> FALSE, starting |-> FALSE,
             closing |-> FALSE]
    /\ det = [at |-> "none", exiting |-> FALSE, slot |-> None, frame |-> None,
              loaded |-> None, scale |-> None, wanted |-> None]
    /\ cap = [at |-> "none", seq |-> 0, unavailable |-> FALSE]
    /\ ctl = [at |-> "none", pending |-> FALSE, consumed |-> -1, seen |-> 0,
              used |-> [frame |-> None, version |-> 0, size |-> None, at |-> None]]
    /\ buffer = [version |-> 0, frame |-> None, size |-> None, session |-> 0]
    /\ budget = [operations |-> MaxOperations, changes |-> MaxChanges, crashes |-> MaxCrashes]

Over == ui.app = "down" /\ UNCHANGED vars

Next == OpStep \/ UiStep \/ DetStep \/ CapStep \/ CtlStep
        \/ Toggle \/ Close \/ ChooseModel \/ ListenerCrashes \/ DetCrash \/ CapCrash
        \/ Over

Spec == Init /\ [][Next]_vars

(* Every thread goes on when it can; nobody has to press anything and      *)
(* nothing has to crash.                                                   *)
FairSpec == /\ Spec /\ WF_vars(OpStep) /\ WF_vars(UiStep) /\ WF_vars(DetStep)
            /\ WF_vars(CtlStep) /\ WF_vars(CapSetup) /\ WF_vars(CapExit)

(***************************************************************************)
(* Properties.                                                             *)
(***************************************************************************)
TypeOK ==
    /\ config \in [model : Models, resolution : {SizeOf(m) : m \in Models}]
    /\ flags \in [stop : BOOLEAN, exit : BOOLEAN, model : BOOLEAN, resolution : BOOLEAN]
    /\ session.running \in BOOLEAN /\ session.registered \in BOOLEAN
    /\ det.slot \in 0..MaxFrames /\ det.loaded \in Models \cup {None}
    /\ buffer.frame \in 0..MaxFrames /\ ctl.consumed \in -1..buffer.version

(* While a worker of the pipeline runs, its detector is there: g_detector  *)
(* is set as long as the capture thread may use it, and an inference has   *)
(* an engine (stop_locked joins before it takes anything away).            *)
WorkersHaveDetector ==
    /\ ~Ended(det) \/ ~Ended(cap) => session.registered
    /\ det.at = "inferring" => det.loaded # None

(* No detections of an earlier session are to be seen in a later one.      *)
BatchOfThisSession == buffer.frame # None => buffer.session = session.number

(* The controller uses a frame's detections at most once, in the order of  *)
(* the frames.                                                             *)
EachFrameUsedOnce == [][ctl'.used # ctl.used => ctl'.used.frame > ctl.used.frame]_vars

(* A worker that ended, for whatever reason and at whatever moment, has    *)
(* left a request to stop the session: the window will see it.             *)
DeathIsNoticed == det.at = "done" \/ cap.at = "done" => flags.stop \/ flags.exit

(* A session that has a dead worker or is asked to stop is taken down      *)
(* whole, and start() and stop() come back.                                *)
StopsWhole ==
    /\ (flags.stop /\ ~(Ended(det) /\ Ended(cap))) ~> (det.at = "none" /\ cap.at = "none")
    /\ (op.at = "begin") ~> (op.at = "finished" \/ op = Idle)

(* A window asked to close closes, and the program ends.                   *)
CloseEnds == ui.closing ~> (ui.app = "down")

(* The control worker looks at every batch of detections, or at a later    *)
(* one, unless the batch is withdrawn.                                     *)
Unseen == buffer.frame # None /\ ctl.seen < buffer.version
BatchesAreSeen == Unseen ~> ~Unseen

(* Types; nothing is taken away from a worker that uses it, and a worker    *)
(* that is gone has asked for the session's end.                           *)
SessionInv == TypeOK /\ WorkersHaveDetector /\ DeathIsNoticed

(* Both ends of the pipeline get on: what was asked for closes, and what   *)
(* was detected is looked at.                                              *)
NothingIsForgotten == CloseEnds /\ BatchesAreSeen

(***************************************************************************)
(* What a document or a comment says and the code does not do: TLC refutes *)
(* each of these, see the README.                                          *)
(***************************************************************************)
(* control-architecture.md: detections whose size does not match, left     *)
(* from before a switch of models, do not enter the control.               *)
SizesMatch == ctl.used.size = ctl.used.at

(* config_bridge.cpp: a changed model (or precision) means that the engine *)
(* is built again; once the flag is down and no change is on its way, the  *)
(* detector that waits for frames has the chosen model.                    *)
SwitchNotForgotten ==
    det.at = "waiting" /\ ui.at = "idle" /\ ~flags.model => det.loaded = config.model
=============================================================================
