----------------------- MODULE InferenceSessionProofs -----------------------
(***************************************************************************)
(* The safety properties of InferenceSession for any models, any number of *)
(* frames, operations, changes of the model and crashes.                   *)
(***************************************************************************)
EXTENDS InferenceSession, TLAPS

USE BoundsAssumption

Resolutions == {SizeOf(m) : m \in Models}
Loadable    == Models \cup {None}
Uses        == [frame : Nat, version : Nat, size : Resolutions \cup {None},
                at : Resolutions \cup {None}]

ConfigType  == config \in [model : Models, resolution : Resolutions]
FlagsType   == flags \in [stop : BOOLEAN, exit : BOOLEAN, model : BOOLEAN,
                          resolution : BOOLEAN]
SessionType == session \in [running : BOOLEAN, registered : BOOLEAN, number : Nat]
OpType      == op \in [by : {"nobody", "ui", "main"}, kind : {"start", "stop"},
                       at : {"none", "begin", "request", "joinDetector", "joinCapture",
                             "clean", "load", "launch", "launchDetector", "finished"}]
DetType     == det \in [at : {"none", "check", "switching", "loading", "switched",
                              "waiting", "inferring", "notify", "closing", "unwinding",
                              "done"},
                        exiting : BOOLEAN, slot : Nat, frame : Nat, loaded : Loadable,
                        scale : Resolutions \cup {None}, wanted : Loadable]
CapType     == cap \in [at : {"none", "setup", "loop", "done"}, seq : 0..MaxFrames,
                        unavailable : BOOLEAN]
CtlType     == ctl \in [at : {"none", "idle", "updating", "acting"}, pending : BOOLEAN,
                        consumed : Int, seen : Nat, used : Uses]
BufferType  == buffer \in [version : Nat, frame : Nat, session : Nat,
                           size : Resolutions \cup {None}]
Types == /\ ConfigType /\ FlagsType /\ SessionType /\ OpType
         /\ DetType /\ CapType /\ CtlType /\ BufferType

(* From its join to its launch a thread is not there.                      *)
JoinedAreGone ==
    /\ op.at \in {"joinCapture", "clean", "load", "launch", "launchDetector"}
          => det.at = "none"
    /\ op.at \in {"clean", "load", "launch"} => cap.at = "none"

(* Who is launched, or runs, finds the detector registered, and an engine  *)
(* wherever the loop may come to an inference without another load.        *)
Launching == op.at \in {"launch", "launchDetector"}
DetectorIsReady ==
    /\ Launching \/ ~Ended(det) \/ ~Ended(cap) => session.registered
    /\ Launching => det.loaded # None
    /\ det.at \in {"check", "switched", "waiting", "inferring", "notify"}
          => det.loaded # None
    /\ det.at = "loading" => det.wanted # None

(* Between two sessions the buffer is empty.                               *)
EmptyBetween == op.at \in {"load", "launch", "launchDetector"} => buffer.frame = None

(* The frames overtake each other nowhere on their way from the capture    *)
(* thread to the controller.                                               *)
FramesAreOrdered ==
    /\ det.frame <= cap.seq /\ det.slot <= cap.seq
    /\ det.slot # None => det.frame < det.slot
    /\ buffer.frame <= det.frame /\ ctl.used.frame <= det.frame
    /\ det.at = "inferring" => buffer.frame < det.frame /\ ctl.used.frame < det.frame
    /\ buffer.frame # None /\ ctl.consumed # buffer.version
          => ctl.used.frame < buffer.frame
    /\ -1 <= ctl.consumed /\ ctl.consumed <= buffer.version

IInv == /\ Types /\ JoinedAreGone /\ DetectorIsReady /\ EmptyBetween
        /\ FramesAreOrdered /\ DeathIsNoticed /\ BatchOfThisSession

LEMMA OpBeginKeeps == IInv /\ OpBegin => IInv'
<1> SUFFICES ASSUME IInv, OpBegin PROVE IInv'
  OBVIOUS
<1> USE DEF IInv, OpBegin, At, GoOn, None
<1>1. Types'
  <2>1. OpType'
    BY DEF Types, OpType
  <2>2. (ConfigType /\ FlagsType /\ SessionType /\ DetType /\ CapType /\ CtlType
         /\ BufferType)'
    BY DEF Types, ConfigType, FlagsType, SessionType, DetType, CapType, CtlType, BufferType
  <2>. QED  BY <2>1, <2>2 DEF Types
<1> USE DEF Types, OpType
<1>2. JoinedAreGone'
  BY DEF JoinedAreGone
<1>3. EmptyBetween'
  BY DEF EmptyBetween
<1>4. DetectorIsReady'
  BY DEF DetectorIsReady, Launching, Ended
<1>5. FramesAreOrdered' /\ DeathIsNoticed' /\ BatchOfThisSession'
  BY DEF FramesAreOrdered, DeathIsNoticed, BatchOfThisSession
<1>. QED  BY <1>1, <1>2, <1>3, <1>4, <1>5

LEMMA RequestStopKeeps == IInv /\ RequestStop => IInv'
<1> SUFFICES ASSUME IInv, RequestStop PROVE IInv'
  OBVIOUS
<1> USE DEF IInv, RequestStop, At, GoOn, None
<1>1. Types'
  <2>1. OpType'
    BY DEF Types, OpType
  <2>2. FlagsType'
    BY DEF Types, FlagsType
  <2>3. DetType'
    BY DEF Types, DetType
  <2>4. (ConfigType /\ SessionType /\ CapType /\ CtlType /\ BufferType)'
    BY DEF Types, ConfigType, SessionType, CapType, CtlType, BufferType
  <2>. QED  BY <2>1, <2>2, <2>3, <2>4 DEF Types
<1> USE DEF Types, OpType, FlagsType, DetType
<1>2. JoinedAreGone'
  BY DEF JoinedAreGone
<1>3. EmptyBetween'
  BY DEF EmptyBetween
<1>4. DetectorIsReady'
  BY DEF DetectorIsReady, Launching, Ended
<1>5. FramesAreOrdered'
  BY DEF FramesAreOrdered, DetType, CapType, CtlType, Uses, BufferType
<1>6. DeathIsNoticed'
  BY DEF DeathIsNoticed
<1>7. BatchOfThisSession'
  BY DEF BatchOfThisSession
<1>. QED  BY <1>1, <1>2, <1>3, <1>4, <1>5, <1>6, <1>7

LEMMA JoinDetectorKeeps == IInv /\ JoinDetector => IInv'
<1> SUFFICES ASSUME IInv, JoinDetector PROVE IInv'
  OBVIOUS
<1> USE DEF IInv, JoinDetector, At, GoOn, Ended, None
<1>1. Types'
  <2>1. OpType'
    BY DEF Types, OpType
  <2>2. DetType'
    BY DEF Types, DetType
  <2>3. (ConfigType /\ FlagsType /\ SessionType /\ CapType /\ CtlType /\ BufferType)'
    BY DEF Types, ConfigType, FlagsType, SessionType, CapType, CtlType, BufferType
  <2>. QED  BY <2>1, <2>2, <2>3 DEF Types
<1> USE DEF Types, OpType, DetType
<1>2. JoinedAreGone'
  BY DEF JoinedAreGone, Ended
<1>3. EmptyBetween'
  BY DEF EmptyBetween
<1>4. DetectorIsReady'
  BY DEF DetectorIsReady, Launching, Ended
<1>5. FramesAreOrdered'
  BY DEF FramesAreOrdered
<1>6. DeathIsNoticed'
  BY DEF DeathIsNoticed
<1>7. BatchOfThisSession'
  BY DEF BatchOfThisSession
<1>. QED  BY <1>1, <1>2, <1>3, <1>4, <1>5, <1>6, <1>7

LEMMA JoinCaptureKeeps == IInv /\ JoinCapture => IInv'
<1> SUFFICES ASSUME IInv, JoinCapture PROVE IInv'
  OBVIOUS
<1> USE DEF IInv, JoinCapture, At, GoOn, Ended, None
<1>1. Types'
  <2>1. OpType'
    BY DEF Types, OpType
  <2>2. CapType'
    BY DEF Types, CapType
  <2>3. (ConfigType /\ FlagsType /\ SessionType /\ DetType /\ CtlType /\ BufferType)'
    BY DEF Types, ConfigType, FlagsType, SessionType, DetType, CtlType, BufferType
  <2>. QED  BY <2>1, <2>2, <2>3 DEF Types
<1> USE DEF Types, OpType, CapType
<1>2. JoinedAreGone'
  BY DEF JoinedAreGone, Ended
<1>3. EmptyBetween'
  BY DEF EmptyBetween
<1>4. DetectorIsReady'
  BY DEF DetectorIsReady, Launching, Ended
<1>5. FramesAreOrdered'
  BY DEF FramesAreOrdered
<1>6. DeathIsNoticed'
  BY DEF DeathIsNoticed
<1>7. BatchOfThisSession'
  BY DEF BatchOfThisSession
<1>. QED  BY <1>1, <1>2, <1>3, <1>4, <1>5, <1>6, <1>7

LEMMA CleanUpKeeps == IInv /\ CleanUp => IInv'
<1> SUFFICES ASSUME IInv, CleanUp PROVE IInv'
  OBVIOUS
<1> USE DEF IInv, CleanUp, At, GoOn, Cleared, Bumped, None
<1>1. Types'
  <2>1. OpType'
    BY DEF Types, OpType
  <2>2. SessionType'
    BY DEF Types, SessionType
  <2>3. DetType'
    BY DEF Types, DetType, Loadable
  <2>4. buffer.version + 1 \in Nat
    BY DEF Types, BufferType
  <2>5. BufferType'
    BY <2>4 DEF Types, BufferType
  <2>6. (ConfigType /\ FlagsType /\ CapType /\ CtlType)'
    BY DEF Types, ConfigType, FlagsType, CapType, CtlType
  <2>. QED  BY <2>1, <2>2, <2>3, <2>5, <2>6 DEF Types
<1> USE DEF Types, OpType, SessionType, DetType, BufferType
<1>2. JoinedAreGone'
  BY DEF JoinedAreGone
<1>3. EmptyBetween'
  BY DEF EmptyBetween
<1>4. DetectorIsReady'
  BY DEF DetectorIsReady, JoinedAreGone, Launching, Ended
<1>5. FramesAreOrdered'
  BY DEF FramesAreOrdered, DetType, CapType, CtlType, Uses, BufferType
<1>6. DeathIsNoticed'
  BY DEF DeathIsNoticed
<1>7. BatchOfThisSession'
  BY DEF BatchOfThisSession
<1>. QED  BY <1>1, <1>2, <1>3, <1>4, <1>5, <1>6, <1>7

LEMMA LoadModelKeeps == IInv /\ LoadModel => IInv'
<1> SUFFICES ASSUME IInv, LoadModel PROVE IInv'
  OBVIOUS
<1> USE DEF IInv, GoOn, GiveUp, None
<1>1. /\ op.at = "load" /\ det.at = "none" /\ cap.at = "none" /\ buffer.frame = None
      /\ UNCHANGED <<config, flags, ui, cap, ctl, buffer, budget>>
  BY DEF LoadModel, At, JoinedAreGone, EmptyBetween
<1>2. CASE GoOn("finished") /\ UNCHANGED <<det, session>>
  <2>1. Types'
    BY <1>1, <1>2 DEF Types, ConfigType, FlagsType, SessionType, OpType, DetType,
                         CapType, CtlType, BufferType
  <2>2. JoinedAreGone' /\ EmptyBetween' /\ DetectorIsReady'
    BY <1>1, <1>2 DEF Types, OpType, JoinedAreGone, EmptyBetween, DetectorIsReady,
       Launching, Ended
  <2>3. FramesAreOrdered' /\ DeathIsNoticed' /\ BatchOfThisSession'
    BY <1>1, <1>2 DEF FramesAreOrdered, DeathIsNoticed, BatchOfThisSession
  <2>. QED  BY <2>1, <2>2, <2>3
<1>3. CASE /\ GoOn("launch")
           /\ det' = [det EXCEPT !.exiting = FALSE, !.slot = None,
                                 !.loaded = config.model, !.scale = config.resolution]
           /\ session' = [session EXCEPT !.registered = TRUE]
  <2>1. Types'
    <3>1. OpType' /\ SessionType'
      BY <1>3 DEF Types, OpType, SessionType
    <3>2. DetType'
      BY <1>3 DEF Types, DetType, ConfigType, Loadable
    <3>. QED  BY <1>1, <3>1, <3>2 DEF Types, ConfigType, FlagsType, CapType, CtlType,
       BufferType
  <2>2. /\ op'.at = "launch" /\ det'.at = "none" /\ det'.loaded # None
       /\ session'.registered
        /\ det'.frame = det.frame /\ det'.slot = None /\ session'.number = session.number
    BY <1>1, <1>3 DEF Types, OpType, DetType, SessionType, ConfigType
  <2>3. JoinedAreGone' /\ EmptyBetween' /\ DetectorIsReady'
    BY <1>1, <2>2 DEF JoinedAreGone, EmptyBetween, DetectorIsReady, Ended
  <2>4. FramesAreOrdered' /\ DeathIsNoticed' /\ BatchOfThisSession'
    BY <1>1, <2>2 DEF Types, CapType, FramesAreOrdered, DeathIsNoticed, BatchOfThisSession
  <2>. QED  BY <2>1, <2>3, <2>4
<1>4. CASE /\ GoOn("finished") \/ GiveUp("request")
           /\ det' = [det EXCEPT !.exiting = FALSE, !.slot = None, !.loaded = None]
           /\ UNCHANGED session
  <2>1. Types'
    <3>1. OpType'
      BY <1>4 DEF Types, OpType
    <3>2. DetType'
      BY <1>4 DEF Types, DetType, Loadable
    <3>. QED  BY <1>1, <1>4, <3>1, <3>2 DEF Types, ConfigType, FlagsType, SessionType,
       CapType,
                                            CtlType, BufferType
  <2>2. /\ op'.at \in {"finished", "request"} /\ det'.at = "none"
        /\ det'.frame = det.frame /\ det'.slot = None
    BY <1>1, <1>4 DEF Types, OpType, DetType
  <2>3. JoinedAreGone' /\ EmptyBetween' /\ DetectorIsReady'
    BY <1>1, <1>4, <2>2 DEF JoinedAreGone, EmptyBetween, DetectorIsReady, Launching, Ended
  <2>4. FramesAreOrdered' /\ DeathIsNoticed' /\ BatchOfThisSession'
    BY <1>1, <1>4, <2>2 DEF Types, CapType, FramesAreOrdered, DeathIsNoticed,
       BatchOfThisSession
  <2>. QED  BY <2>1, <2>3, <2>4
<1>. QED  BY <1>2, <1>3, <1>4 DEF LoadModel

LEMMA LaunchCaptureKeeps == IInv /\ LaunchCapture => IInv'
<1> SUFFICES ASSUME IInv, LaunchCapture PROVE IInv'
  OBVIOUS
<1> USE DEF IInv, LaunchCapture, At, GoOn, GiveUp, CaptureStarts, None
<1>1. Types'
  <2>1. OpType'
    BY DEF Types, OpType
  <2>2. FlagsType'
    BY DEF Types, FlagsType
  <2>3. session.number + 1 \in Nat
    BY DEF Types, SessionType
  <2>4. SessionType'
    BY <2>3 DEF Types, SessionType
  <2>5. CapType'
    BY DEF Types, CapType
  <2>6. (ConfigType /\ DetType /\ CtlType /\ BufferType)'
    BY DEF Types, ConfigType, DetType, CtlType, BufferType
  <2>. QED  BY <2>1, <2>2, <2>4, <2>5, <2>6 DEF Types
<1> USE DEF Types, OpType, FlagsType, SessionType, CapType
<1>2. JoinedAreGone'
  BY DEF JoinedAreGone
<1>3. EmptyBetween'
  BY DEF EmptyBetween
<1>4. DetectorIsReady'
  BY DEF DetectorIsReady, Launching, Ended
<1>5. FramesAreOrdered'
  BY DEF FramesAreOrdered
<1>6. DeathIsNoticed'
  BY DEF DeathIsNoticed, JoinedAreGone
<1>7. BatchOfThisSession'
  BY DEF BatchOfThisSession, EmptyBetween
<1>. QED  BY <1>1, <1>2, <1>3, <1>4, <1>5, <1>6, <1>7

LEMMA LaunchDetectorKeeps == IInv /\ LaunchDetector => IInv'
<1> SUFFICES ASSUME IInv, LaunchDetector PROVE IInv'
  OBVIOUS
<1> USE DEF IInv, GoOn, GiveUp, None
<1>1. /\ op.at = "launchDetector" /\ det.at = "none" /\ buffer.frame = None
      /\ session.registered /\ det.loaded # None
      /\ UNCHANGED <<config, flags, session, ui, cap, buffer, budget>>
  BY DEF LaunchDetector, At, JoinedAreGone, EmptyBetween, DetectorIsReady, Launching
<1>2. CASE /\ GoOn("finished") /\ det' = [det EXCEPT !.at = "check"]
           /\ ctl' = [ctl EXCEPT !.at = "idle", !.pending = FALSE, !.consumed = -1]
  <2>1. Types'
    <3>1. OpType' /\ DetType'
      BY <1>2 DEF Types, OpType, DetType
    <3>2. CtlType'
      <4>1. -1 \in Int
        OBVIOUS
      <4>. QED  BY <1>2, <4>1 DEF Types, CtlType
    <3>. QED  BY <1>1, <3>1, <3>2 DEF Types, ConfigType, FlagsType, SessionType, CapType,
       BufferType
  <2>2. /\ op'.at = "finished" /\ det'.at = "check" /\ det'.loaded = det.loaded
        /\ det'.frame = det.frame /\ det'.slot = det.slot
        /\ ctl'.consumed = -1 /\ ctl'.used = ctl.used
    BY <1>2 DEF Types, OpType, DetType, CtlType
  <2>3. JoinedAreGone' /\ EmptyBetween' /\ DetectorIsReady'
    BY <1>1, <2>2 DEF JoinedAreGone, EmptyBetween, DetectorIsReady, Launching, Ended
  <2>4. FramesAreOrdered'
    BY <1>1, <2>2 DEF Types, BufferType, FramesAreOrdered
  <2>5. DeathIsNoticed' /\ BatchOfThisSession'
    BY <1>1, <2>2 DEF DeathIsNoticed, BatchOfThisSession
  <2>. QED  BY <2>1, <2>3, <2>4, <2>5
<1>3. CASE GiveUp("request") /\ UNCHANGED <<det, ctl>>
  <2>1. Types'
    <3>1. OpType'
      BY <1>3 DEF Types, OpType
    <3>. QED  BY <1>1, <1>3, <3>1 DEF Types, ConfigType, FlagsType, SessionType, DetType,
       CapType,
                                      CtlType, BufferType
  <2>2. op'.at = "request"
    BY <1>3 DEF Types, OpType
  <2>3. JoinedAreGone' /\ EmptyBetween' /\ DetectorIsReady'
    BY <1>1, <1>3, <2>2 DEF JoinedAreGone, EmptyBetween, DetectorIsReady, Launching, Ended
  <2>4. FramesAreOrdered' /\ DeathIsNoticed' /\ BatchOfThisSession'
    BY <1>1, <1>3 DEF FramesAreOrdered, DeathIsNoticed, BatchOfThisSession
  <2>. QED  BY <2>1, <2>3, <2>4
<1>. QED  BY <1>2, <1>3 DEF LaunchDetector

LEMMA ToggleKeeps == IInv /\ Toggle => IInv'
<1> SUFFICES ASSUME IInv, Toggle PROVE IInv'
  OBVIOUS
<1> USE DEF IInv, Toggle, UiFree, At, Begin, None
<1>1. Types'
  <2>1. OpType'
    BY DEF Types, OpType
  <2>2. (ConfigType /\ FlagsType /\ SessionType /\ DetType /\ CapType /\ CtlType
         /\ BufferType)'
    BY DEF Types, ConfigType, FlagsType, SessionType, DetType, CapType, CtlType, BufferType
  <2>. QED  BY <2>1, <2>2 DEF Types
<1> USE DEF Types, OpType
<1>2. JoinedAreGone'
  BY DEF JoinedAreGone
<1>3. EmptyBetween'
  BY DEF EmptyBetween
<1>4. DetectorIsReady'
  BY DEF DetectorIsReady, Launching, Ended
<1>5. FramesAreOrdered' /\ DeathIsNoticed' /\ BatchOfThisSession'
  BY DEF FramesAreOrdered, DeathIsNoticed, BatchOfThisSession
<1>. QED  BY <1>1, <1>2, <1>3, <1>4, <1>5

LEMMA CloseKeeps == IInv /\ Close => IInv'
<1> SUFFICES ASSUME IInv, Close PROVE IInv'
  OBVIOUS
<1> USE DEF IInv, Close, UiFree, At, CloseWindow, Accept, Begin, Idle, None
<1>1. Types'
  <2>1. OpType'
    BY DEF Types, OpType
  <2>2. FlagsType'
    BY DEF Types, FlagsType
  <2>3. (ConfigType /\ SessionType /\ DetType /\ CapType /\ CtlType /\ BufferType)'
    BY DEF Types, ConfigType, SessionType, DetType, CapType, CtlType, BufferType
  <2>. QED  BY <2>1, <2>2, <2>3 DEF Types
<1> USE DEF Types, OpType, FlagsType
<1>2. JoinedAreGone'
  BY DEF JoinedAreGone
<1>3. EmptyBetween'
  BY DEF EmptyBetween
<1>4. DetectorIsReady'
  BY DEF DetectorIsReady, Launching, Ended
<1>5. DeathIsNoticed'
  BY DEF DeathIsNoticed
<1>6. FramesAreOrdered' /\ BatchOfThisSession'
  BY DEF FramesAreOrdered, BatchOfThisSession
<1>. QED  BY <1>1, <1>2, <1>3, <1>4, <1>5, <1>6

LEMMA PollKeeps == IInv /\ Poll => IInv'
<1> SUFFICES ASSUME IInv, Poll PROVE IInv'
  OBVIOUS
<1> USE DEF IInv, Poll, UiFree, At, StopIfAsked, CloseWindow, Accept, Begin, Idle, None
<1>1. Types'
  <2>1. OpType'
    BY DEF Types, OpType
  <2>2. FlagsType'
    BY DEF Types, FlagsType
  <2>3. (ConfigType /\ SessionType /\ DetType /\ CapType /\ CtlType /\ BufferType)'
    BY DEF Types, ConfigType, SessionType, DetType, CapType, CtlType, BufferType
  <2>. QED  BY <2>1, <2>2, <2>3 DEF Types
<1> USE DEF Types, OpType, FlagsType
<1>2. JoinedAreGone'
  BY DEF JoinedAreGone
<1>3. EmptyBetween'
  BY DEF EmptyBetween
<1>4. DetectorIsReady'
  BY DEF DetectorIsReady, Launching, Ended
<1>5. DeathIsNoticed'
  BY DEF DeathIsNoticed
<1>6. FramesAreOrdered' /\ BatchOfThisSession'
  BY DEF FramesAreOrdered, BatchOfThisSession
<1>. QED  BY <1>1, <1>2, <1>3, <1>4, <1>5, <1>6

LEMMA FinalStopKeeps == IInv /\ FinalStop => IInv'
<1> SUFFICES ASSUME IInv, FinalStop PROVE IInv'
  OBVIOUS
<1> USE DEF IInv, FinalStop, At, Begin, None
<1>1. Types'
  <2>1. OpType'
    BY DEF Types, OpType
  <2>2. (ConfigType /\ FlagsType /\ SessionType /\ DetType /\ CapType /\ CtlType
         /\ BufferType)'
    BY DEF Types, ConfigType, FlagsType, SessionType, DetType, CapType, CtlType, BufferType
  <2>. QED  BY <2>1, <2>2 DEF Types
<1> USE DEF Types, OpType
<1>2. JoinedAreGone'
  BY DEF JoinedAreGone
<1>3. EmptyBetween'
  BY DEF EmptyBetween
<1>4. DetectorIsReady'
  BY DEF DetectorIsReady, Launching, Ended
<1>5. FramesAreOrdered' /\ DeathIsNoticed' /\ BatchOfThisSession'
  BY DEF FramesAreOrdered, DeathIsNoticed, BatchOfThisSession
<1>. QED  BY <1>1, <1>2, <1>3, <1>4, <1>5

LEMMA ExitKeeps == IInv /\ Exit => IInv'
<1> SUFFICES ASSUME IInv, Exit PROVE IInv'
  OBVIOUS
<1> USE DEF IInv, Exit, At, Idle, None
<1>1. Types'
  <2>1. OpType'
    BY DEF Types, OpType
  <2>2. (ConfigType /\ FlagsType /\ SessionType /\ DetType /\ CapType /\ CtlType
         /\ BufferType)'
    BY DEF Types, ConfigType, FlagsType, SessionType, DetType, CapType, CtlType, BufferType
  <2>. QED  BY <2>1, <2>2 DEF Types
<1> USE DEF Types, OpType
<1>2. JoinedAreGone'
  BY DEF JoinedAreGone
<1>3. EmptyBetween'
  BY DEF EmptyBetween
<1>4. DetectorIsReady'
  BY DEF DetectorIsReady, Launching, Ended
<1>5. FramesAreOrdered' /\ DeathIsNoticed' /\ BatchOfThisSession'
  BY DEF FramesAreOrdered, DeathIsNoticed, BatchOfThisSession
<1>. QED  BY <1>1, <1>2, <1>3, <1>4, <1>5

LEMMA ListenerCrashesKeeps == IInv /\ ListenerCrashes => IInv'
<1> SUFFICES ASSUME IInv, ListenerCrashes PROVE IInv'
  OBVIOUS
<1> USE DEF IInv, ListenerCrashes, None
<1>1. Types'
  <2>1. FlagsType'
    BY DEF Types, FlagsType
  <2>2. (ConfigType /\ SessionType /\ OpType /\ DetType /\ CapType /\ CtlType
         /\ BufferType)'
    BY DEF Types, ConfigType, SessionType, OpType, DetType, CapType, CtlType, BufferType
  <2>. QED  BY <2>1, <2>2 DEF Types
<1> USE DEF Types, FlagsType
<1>2. DeathIsNoticed'
  BY DEF DeathIsNoticed
<1>3. JoinedAreGone' /\ EmptyBetween' /\ DetectorIsReady' /\ FramesAreOrdered'
     /\ BatchOfThisSession'
  BY DEF JoinedAreGone, EmptyBetween, DetectorIsReady, FramesAreOrdered,
     BatchOfThisSession, Ended, Launching
<1>. QED  BY <1>1, <1>2, <1>3

LEMMA ChooseModelKeeps == IInv /\ ChooseModel => IInv'
<1> SUFFICES ASSUME IInv, ChooseModel PROVE IInv'
  OBVIOUS
<1> USE DEF IInv, ChooseModel, UiFree, None
<1>1. Types'
  <2>1. ConfigType'
    BY DEF Types, ConfigType
  <2>2. (FlagsType /\ SessionType /\ OpType /\ DetType /\ CapType /\ CtlType /\ BufferType)'
    BY DEF Types, FlagsType, SessionType, OpType, DetType, CapType, CtlType, BufferType
  <2>. QED  BY <2>1, <2>2 DEF Types
<1> USE DEF Types
<1>2. JoinedAreGone' /\ EmptyBetween' /\ DetectorIsReady' /\ FramesAreOrdered'
     /\ DeathIsNoticed' /\ BatchOfThisSession'
  BY DEF JoinedAreGone, EmptyBetween, DetectorIsReady, FramesAreOrdered, DeathIsNoticed,
     BatchOfThisSession, Ended, Launching
<1>. QED  BY <1>1, <1>2

LEMMA FlagModelKeeps == IInv /\ FlagModel => IInv'
<1> SUFFICES ASSUME IInv, FlagModel PROVE IInv'
  OBVIOUS
<1> USE DEF IInv, FlagModel, None
<1>1. Types'
  <2>1. FlagsType'
    BY DEF Types, FlagsType
  <2>2. (ConfigType /\ SessionType /\ OpType /\ DetType /\ CapType /\ CtlType
         /\ BufferType)'
    BY DEF Types, ConfigType, SessionType, OpType, DetType, CapType, CtlType, BufferType
  <2>. QED  BY <2>1, <2>2 DEF Types
<1> USE DEF Types, FlagsType
<1>2. DeathIsNoticed'
  BY DEF DeathIsNoticed
<1>3. JoinedAreGone' /\ EmptyBetween' /\ DetectorIsReady' /\ FramesAreOrdered'
     /\ BatchOfThisSession'
  BY DEF JoinedAreGone, EmptyBetween, DetectorIsReady, FramesAreOrdered,
     BatchOfThisSession, Ended, Launching
<1>. QED  BY <1>1, <1>2, <1>3

LEMMA FollowModelKeeps == IInv /\ FollowModel => IInv'
<1> SUFFICES ASSUME IInv, FollowModel PROVE IInv'
  OBVIOUS
<1> USE DEF IInv, FollowModel, None
<1>1. Types'
  <2>1. ConfigType'
    BY DEF Types, ConfigType, Resolutions
  <2>2. FlagsType'
    BY DEF Types, FlagsType
  <2>3. (SessionType /\ OpType /\ DetType /\ CapType /\ CtlType /\ BufferType)'
    BY DEF Types, SessionType, OpType, DetType, CapType, CtlType, BufferType
  <2>. QED  BY <2>1, <2>2, <2>3 DEF Types
<1> USE DEF Types, FlagsType
<1>2. DeathIsNoticed'
  BY DEF DeathIsNoticed
<1>3. JoinedAreGone' /\ EmptyBetween' /\ DetectorIsReady' /\ FramesAreOrdered'
     /\ BatchOfThisSession'
  BY DEF JoinedAreGone, EmptyBetween, DetectorIsReady, FramesAreOrdered,
     BatchOfThisSession, Ended, Launching
<1>. QED  BY <1>1, <1>2, <1>3

LEMMA FlagAgainKeeps == IInv /\ FlagAgain => IInv'
<1> SUFFICES ASSUME IInv, FlagAgain PROVE IInv'
  OBVIOUS
<1> USE DEF IInv, FlagAgain, None
<1>1. Types'
  <2>1. FlagsType'
    BY DEF Types, FlagsType
  <2>2. (ConfigType /\ SessionType /\ OpType /\ DetType /\ CapType /\ CtlType
         /\ BufferType)'
    BY DEF Types, ConfigType, SessionType, OpType, DetType, CapType, CtlType, BufferType
  <2>. QED  BY <2>1, <2>2 DEF Types
<1> USE DEF Types, FlagsType
<1>2. DeathIsNoticed'
  BY DEF DeathIsNoticed
<1>3. JoinedAreGone' /\ EmptyBetween' /\ DetectorIsReady' /\ FramesAreOrdered'
     /\ BatchOfThisSession'
  BY DEF JoinedAreGone, EmptyBetween, DetectorIsReady, FramesAreOrdered,
     BatchOfThisSession, Ended, Launching
<1>. QED  BY <1>1, <1>2, <1>3

LEMMA DetCheckKeeps == IInv /\ DetCheck => IInv'
<1> SUFFICES ASSUME IInv, DetCheck PROVE IInv'
  OBVIOUS
<1> USE DEF IInv, DetCheck, DetGoes, None
<1>1. Types'
  <2>1. DetType'
    BY DEF Types, DetType
  <2>2. (ConfigType /\ FlagsType /\ SessionType /\ OpType /\ CapType /\ CtlType
         /\ BufferType)'
    BY DEF Types, ConfigType, FlagsType, SessionType, OpType, CapType, CtlType, BufferType
  <2>. QED  BY <2>1, <2>2 DEF Types
<1> USE DEF Types, DetType
<1>2. JoinedAreGone'
  BY DEF JoinedAreGone
<1>3. DetectorIsReady'
  BY DEF DetectorIsReady, Launching, Ended
<1>4. FramesAreOrdered'
  BY DEF FramesAreOrdered
<1>5. DeathIsNoticed'
  BY DEF DeathIsNoticed
<1>6. EmptyBetween' /\ BatchOfThisSession'
  BY DEF EmptyBetween, BatchOfThisSession
<1>. QED  BY <1>1, <1>2, <1>3, <1>4, <1>5, <1>6

LEMMA DetSwitchKeeps == IInv /\ DetSwitch => IInv'
<1> SUFFICES ASSUME IInv, DetSwitch PROVE IInv'
  OBVIOUS
<1> USE DEF IInv, DetSwitch, None
<1>1. Types'
  <2>1. DetType'
    BY DEF Types, DetType, ConfigType, Loadable
  <2>2. (ConfigType /\ FlagsType /\ SessionType /\ OpType /\ CapType /\ CtlType
         /\ BufferType)'
    BY DEF Types, ConfigType, FlagsType, SessionType, OpType, CapType, CtlType, BufferType
  <2>. QED  BY <2>1, <2>2 DEF Types
<1> USE DEF Types, DetType
<1>2. JoinedAreGone'
  BY DEF JoinedAreGone
<1>3. DetectorIsReady'
  BY DEF DetectorIsReady, ConfigType, JoinedAreGone, Launching, Ended
<1>4. FramesAreOrdered'
  BY DEF FramesAreOrdered, DetType, CapType, CtlType, Uses, BufferType
<1>5. DeathIsNoticed'
  BY DEF DeathIsNoticed
<1>6. EmptyBetween' /\ BatchOfThisSession'
  BY DEF EmptyBetween, BatchOfThisSession
<1>. QED  BY <1>1, <1>2, <1>3, <1>4, <1>5, <1>6

LEMMA DetLoadKeeps == IInv /\ DetLoad => IInv'
<1> SUFFICES ASSUME IInv, DetLoad PROVE IInv'
  OBVIOUS
<1> USE DEF IInv, None
<1>1. /\ det.at = "loading" /\ det.wanted # None /\ session.registered
      /\ UNCHANGED <<config, session, op, ui, cap, ctl, buffer, budget>>
  BY DEF DetLoad, DetectorIsReady, Ended
<1>2. op.at \notin {"joinCapture", "clean", "load", "launch", "launchDetector"}
  BY <1>1 DEF JoinedAreGone
<1>3. CASE /\ det' = [det EXCEPT !.at = "switched", !.loaded = det.wanted,
                                 !.scale = config.resolution]
           /\ UNCHANGED flags
  <2>1. Types'
    <3>1. DetType'
      BY <1>3 DEF Types, DetType, ConfigType
    <3>. QED  BY <1>1, <1>3, <3>1 DEF Types, ConfigType, FlagsType, SessionType, OpType,
       CapType,
                                      CtlType, BufferType
  <2>2. /\ det'.at = "switched" /\ det'.loaded = det.wanted
        /\ det'.frame = det.frame /\ det'.slot = det.slot
    BY <1>3 DEF Types, DetType
  <2>3. JoinedAreGone' /\ EmptyBetween' /\ DetectorIsReady'
    BY <1>1, <1>2, <2>2 DEF JoinedAreGone, EmptyBetween, DetectorIsReady, Launching, Ended
  <2>4. FramesAreOrdered' /\ DeathIsNoticed' /\ BatchOfThisSession'
    BY <1>1, <1>3, <2>2 DEF FramesAreOrdered, DeathIsNoticed, BatchOfThisSession
  <2>. QED  BY <2>1, <2>3, <2>4
<1>4. CASE /\ flags' = [flags EXCEPT !.stop = TRUE]
           /\ det' = [det EXCEPT !.at = "closing", !.exiting = TRUE, !.slot = None]
  <2>1. Types'
    <3>1. FlagsType' /\ DetType'
      BY <1>4 DEF Types, FlagsType, DetType
    <3>. QED  BY <1>1, <3>1 DEF Types, ConfigType, SessionType, OpType, CapType, CtlType,
       BufferType
  <2>2. /\ det'.at = "closing" /\ det'.frame = det.frame /\ det'.slot = None /\ flags'.stop
    BY <1>4 DEF Types, DetType, FlagsType
  <2>3. JoinedAreGone' /\ EmptyBetween' /\ DetectorIsReady'
    BY <1>1, <1>2, <2>2 DEF JoinedAreGone, EmptyBetween, DetectorIsReady, Launching, Ended
  <2>4. FramesAreOrdered' /\ DeathIsNoticed' /\ BatchOfThisSession'
    BY <1>1, <2>2 DEF Types, CapType, FramesAreOrdered, DeathIsNoticed, BatchOfThisSession
  <2>. QED  BY <2>1, <2>3, <2>4
<1>. QED  BY <1>3, <1>4 DEF DetLoad

LEMMA DetSwitchedKeeps == IInv /\ DetSwitched => IInv'
<1> SUFFICES ASSUME IInv, DetSwitched PROVE IInv'
  OBVIOUS
<1> USE DEF IInv, DetSwitched, DetGoes, None
<1>1. Types'
  <2>1. DetType'
    BY DEF Types, DetType
  <2>2. FlagsType'
    BY DEF Types, FlagsType
  <2>3. (ConfigType /\ SessionType /\ OpType /\ CapType /\ CtlType /\ BufferType)'
    BY DEF Types, ConfigType, SessionType, OpType, CapType, CtlType, BufferType
  <2>. QED  BY <2>1, <2>2, <2>3 DEF Types
<1> USE DEF Types, DetType, FlagsType
<1>2. JoinedAreGone'
  BY DEF JoinedAreGone
<1>3. DetectorIsReady'
  BY DEF DetectorIsReady, Launching, Ended
<1>4. FramesAreOrdered'
  BY DEF FramesAreOrdered
<1>5. DeathIsNoticed'
  BY DEF DeathIsNoticed
<1>6. EmptyBetween' /\ BatchOfThisSession'
  BY DEF EmptyBetween, BatchOfThisSession
<1>. QED  BY <1>1, <1>2, <1>3, <1>4, <1>5, <1>6

LEMMA DetTakeKeeps == IInv /\ DetTake => IInv'
<1> SUFFICES ASSUME IInv, DetTake PROVE IInv'
  OBVIOUS
<1> USE DEF IInv, None
<1>1. /\ det.at = "waiting" /\ det.loaded # None /\ session.registered
      /\ UNCHANGED <<config, flags, session, op, ui, cap, ctl, buffer, budget>>
  BY DEF DetTake, DetectorIsReady, Ended
<1>2. Types'
  <2>1. DetType'
    BY DEF Types, DetType, DetTake
  <2>. QED  BY <1>1, <2>1 DEF Types, ConfigType, FlagsType, SessionType, OpType, CapType,
                              CtlType, BufferType
<1>3. /\ det'.loaded = det.loaded
      /\ \/ det'.at = "closing" /\ det'.frame = det.frame /\ det'.slot = det.slot
         \/ /\ det'.at = "inferring" /\ det'.frame = det.slot /\ det'.slot = None
            /\ det.slot # None
  BY DEF Types, DetType, DetTake
<1>4. JoinedAreGone' /\ EmptyBetween' /\ DetectorIsReady'
  BY <1>1, <1>3 DEF JoinedAreGone, EmptyBetween, DetectorIsReady, Launching, Ended
<1>5. FramesAreOrdered'
  BY <1>1, <1>3 DEF Types, DetType, CapType, CtlType, Uses, BufferType, FramesAreOrdered
<1>6. DeathIsNoticed' /\ BatchOfThisSession'
  BY <1>1, <1>3 DEF DeathIsNoticed, BatchOfThisSession
<1>. QED  BY <1>2, <1>4, <1>5, <1>6

LEMMA DetPublishKeeps == IInv /\ DetPublish => IInv'
<1> SUFFICES ASSUME IInv, DetPublish PROVE IInv'
  OBVIOUS
<1> USE DEF IInv, DetGoes, Bumped, None
<1>1. /\ det.at = "inferring" /\ det.loaded # None /\ session.registered
      /\ op.at \notin {"joinCapture", "clean", "load", "launch", "launchDetector"}
      /\ UNCHANGED <<config, flags, session, op, ui, cap, ctl, budget>>
  BY DEF DetPublish, DetectorIsReady, JoinedAreGone, Ended
<1>2. /\ DetType'
      /\ det'.at \in {"notify", "check"} /\ det'.loaded = det.loaded
      /\ det'.frame = det.frame /\ det'.slot = det.slot
  BY DEF DetPublish, Types, DetType
<1>3. \/ /\ BufferType' /\ buffer'.version = buffer.version + 1
         /\ buffer'.frame = det.frame /\ buffer'.session = session.number
      \/ UNCHANGED buffer
  <2>1. buffer.version + 1 \in Nat
    BY DEF Types, BufferType
  <2>. QED  BY <2>1 DEF DetPublish, Types, BufferType, DetType, SessionType
<1>4. Types'
  BY <1>1, <1>2, <1>3 DEF Types, ConfigType, FlagsType, SessionType, OpType, CapType,
                          CtlType, BufferType
<1>5. JoinedAreGone' /\ EmptyBetween' /\ DetectorIsReady'
  BY <1>1, <1>2 DEF JoinedAreGone, EmptyBetween, DetectorIsReady, Launching, Ended
<1>6. FramesAreOrdered'
  BY <1>1, <1>2, <1>3 DEF Types, DetType, CapType, CtlType, Uses, BufferType,
     FramesAreOrdered
<1>7. DeathIsNoticed' /\ BatchOfThisSession'
  BY <1>1, <1>2, <1>3 DEF DeathIsNoticed, BatchOfThisSession
<1>. QED  BY <1>4, <1>5, <1>6, <1>7

LEMMA DetNotifyKeeps == IInv /\ DetNotify => IInv'
<1> SUFFICES ASSUME IInv, DetNotify PROVE IInv'
  OBVIOUS
<1> USE DEF IInv, DetNotify, DetGoes, None
<1>1. Types'
  <2>1. DetType'
    BY DEF Types, DetType
  <2>2. CtlType'
    BY DEF Types, CtlType
  <2>3. (ConfigType /\ FlagsType /\ SessionType /\ OpType /\ CapType /\ BufferType)'
    BY DEF Types, ConfigType, FlagsType, SessionType, OpType, CapType, BufferType
  <2>. QED  BY <2>1, <2>2, <2>3 DEF Types
<1> USE DEF Types, DetType, CtlType
<1>2. JoinedAreGone'
  BY DEF JoinedAreGone
<1>3. DetectorIsReady'
  BY DEF DetectorIsReady, Launching, Ended
<1>4. FramesAreOrdered'
  BY DEF FramesAreOrdered
<1>5. DeathIsNoticed'
  BY DEF DeathIsNoticed
<1>6. EmptyBetween' /\ BatchOfThisSession'
  BY DEF EmptyBetween, BatchOfThisSession
<1>. QED  BY <1>1, <1>2, <1>3, <1>4, <1>5, <1>6

LEMMA DetCrashKeeps == IInv /\ DetCrash => IInv'
<1> SUFFICES ASSUME IInv, DetCrash PROVE IInv'
  OBVIOUS
<1> USE DEF IInv, DetCrash, DetGoes, None
<1>1. Types'
  <2>1. DetType'
    BY DEF Types, DetType
  <2>2. (ConfigType /\ FlagsType /\ SessionType /\ OpType /\ CapType /\ CtlType
         /\ BufferType)'
    BY DEF Types, ConfigType, FlagsType, SessionType, OpType, CapType, CtlType, BufferType
  <2>. QED  BY <2>1, <2>2 DEF Types
<1> USE DEF Types, DetType
<1>2. JoinedAreGone'
  BY DEF JoinedAreGone
<1>3. DetectorIsReady'
  BY DEF DetectorIsReady, Launching, Ended
<1>4. FramesAreOrdered'
  BY DEF FramesAreOrdered
<1>5. DeathIsNoticed'
  BY DEF DeathIsNoticed
<1>6. EmptyBetween' /\ BatchOfThisSession'
  BY DEF EmptyBetween, BatchOfThisSession
<1>. QED  BY <1>1, <1>2, <1>3, <1>4, <1>5, <1>6

LEMMA DetEndKeeps == IInv /\ DetEnd => IInv'
<1> SUFFICES ASSUME IInv, DetEnd PROVE IInv'
  OBVIOUS
<1> USE DEF IInv, DetEnd, DetGoes, None
<1>1. Types'
  <2>1. DetType'
    BY DEF Types, DetType
  <2>2. CtlType'
    BY DEF Types, CtlType
  <2>3. FlagsType'
    BY DEF Types, FlagsType
  <2>4. SessionType'
    BY DEF Types, SessionType
  <2>5. (ConfigType /\ OpType /\ CapType /\ BufferType)'
    BY DEF Types, ConfigType, OpType, CapType, BufferType
  <2>. QED  BY <2>1, <2>2, <2>3, <2>4, <2>5 DEF Types
<1> USE DEF Types, DetType, CtlType, FlagsType, SessionType
<1>2. JoinedAreGone'
  BY DEF JoinedAreGone
<1>3. DetectorIsReady'
  BY DEF DetectorIsReady, Launching, Ended
<1>4. FramesAreOrdered'
  BY DEF FramesAreOrdered
<1>5. DeathIsNoticed'
  BY DEF DeathIsNoticed
<1>6. BatchOfThisSession'
  BY DEF BatchOfThisSession
<1>7. EmptyBetween'
  BY DEF EmptyBetween
<1>. QED  BY <1>1, <1>2, <1>3, <1>4, <1>5, <1>6, <1>7

LEMMA CapSetupKeeps == IInv /\ CapSetup => IInv'
<1> SUFFICES ASSUME IInv, CapSetup PROVE IInv'
  OBVIOUS
<1> USE DEF IInv, CapSetup, Unavailable, Cleared, Bumped, None
<1>1. Types'
  <2>1. CapType'
    BY DEF Types, CapType
  <2>2. buffer.version + 1 \in Nat
    BY DEF Types, BufferType
  <2>3. BufferType'
    BY <2>2 DEF Types, BufferType
  <2>4. (ConfigType /\ FlagsType /\ SessionType /\ OpType /\ DetType /\ CtlType)'
    BY DEF Types, ConfigType, FlagsType, SessionType, OpType, DetType, CtlType
  <2>. QED  BY <2>1, <2>3, <2>4 DEF Types
<1> USE DEF Types, CapType, BufferType
<1>2. JoinedAreGone'
  BY DEF JoinedAreGone
<1>3. EmptyBetween'
  BY DEF EmptyBetween
<1>4. DetectorIsReady'
  BY DEF DetectorIsReady, Launching, Ended
<1>5. FramesAreOrdered'
  BY DEF FramesAreOrdered, DetType, CapType, CtlType, Uses, BufferType
<1>6. DeathIsNoticed'
  BY DEF DeathIsNoticed
<1>7. BatchOfThisSession'
  BY DEF BatchOfThisSession
<1>. QED  BY <1>1, <1>2, <1>3, <1>4, <1>5, <1>6, <1>7

LEMMA CapCrashKeeps == IInv /\ CapCrash => IInv'
<1> SUFFICES ASSUME IInv, CapCrash PROVE IInv'
  OBVIOUS
<1> USE DEF IInv, CapCrash, None
<1>1. Types'
  <2>1. CapType'
    BY DEF Types, CapType
  <2>2. FlagsType'
    BY DEF Types, FlagsType
  <2>3. SessionType'
    BY DEF Types, SessionType
  <2>4. (ConfigType /\ OpType /\ DetType /\ CtlType /\ BufferType)'
    BY DEF Types, ConfigType, OpType, DetType, CtlType, BufferType
  <2>. QED  BY <2>1, <2>2, <2>3, <2>4 DEF Types
<1> USE DEF Types, CapType, FlagsType, SessionType
<1>2. JoinedAreGone'
  BY DEF JoinedAreGone
<1>3. DetectorIsReady'
  BY DEF DetectorIsReady, Launching, Ended
<1>4. FramesAreOrdered'
  BY DEF FramesAreOrdered
<1>5. DeathIsNoticed'
  BY DEF DeathIsNoticed
<1>6. BatchOfThisSession'
  BY DEF BatchOfThisSession
<1>7. EmptyBetween'
  BY DEF EmptyBetween
<1>. QED  BY <1>1, <1>2, <1>3, <1>4, <1>5, <1>6, <1>7

LEMMA CapExitKeeps == IInv /\ CapExit => IInv'
<1> SUFFICES ASSUME IInv, CapExit PROVE IInv'
  OBVIOUS
<1> USE DEF IInv, CapExit, Stopping, None
<1>1. Types'
  <2>1. CapType'
    BY DEF Types, CapType
  <2>2. (ConfigType /\ FlagsType /\ SessionType /\ OpType /\ DetType /\ CtlType
         /\ BufferType)'
    BY DEF Types, ConfigType, FlagsType, SessionType, OpType, DetType, CtlType, BufferType
  <2>. QED  BY <2>1, <2>2 DEF Types
<1> USE DEF Types, CapType
<1>2. JoinedAreGone'
  BY DEF JoinedAreGone
<1>3. DetectorIsReady'
  BY DEF DetectorIsReady, Launching, Ended
<1>4. FramesAreOrdered'
  BY DEF FramesAreOrdered
<1>5. DeathIsNoticed'
  BY DEF DeathIsNoticed
<1>6. EmptyBetween' /\ BatchOfThisSession'
  BY DEF EmptyBetween, BatchOfThisSession
<1>. QED  BY <1>1, <1>2, <1>3, <1>4, <1>5, <1>6

LEMMA CapReopenKeeps == IInv /\ CapReopen => IInv'
<1> SUFFICES ASSUME IInv, CapReopen PROVE IInv'
  OBVIOUS
<1> USE DEF IInv, CapReopen, Stopping, Unavailable, Cleared, Bumped, None
<1>1. Types'
  <2>1. FlagsType'
    BY DEF Types, FlagsType
  <2>2. CapType'
    BY DEF Types, CapType
  <2>3. buffer.version + 1 \in Nat
    BY DEF Types, BufferType
  <2>4. BufferType'
    BY <2>3 DEF Types, BufferType
  <2>5. (ConfigType /\ SessionType /\ OpType /\ DetType /\ CtlType)'
    BY DEF Types, ConfigType, SessionType, OpType, DetType, CtlType
  <2>. QED  BY <2>1, <2>2, <2>4, <2>5 DEF Types
<1> USE DEF Types, FlagsType, CapType, BufferType
<1>2. JoinedAreGone'
  BY DEF JoinedAreGone
<1>3. EmptyBetween'
  BY DEF EmptyBetween
<1>4. DetectorIsReady'
  BY DEF DetectorIsReady, Launching, Ended
<1>5. FramesAreOrdered'
  BY DEF FramesAreOrdered, DetType, CapType, CtlType, Uses, BufferType
<1>6. DeathIsNoticed'
  BY DEF DeathIsNoticed
<1>7. BatchOfThisSession'
  BY DEF BatchOfThisSession
<1>. QED  BY <1>1, <1>2, <1>3, <1>4, <1>5, <1>6, <1>7

LEMMA CapNoFrameKeeps == IInv /\ CapNoFrame => IInv'
<1> SUFFICES ASSUME IInv, CapNoFrame PROVE IInv'
  OBVIOUS
<1> USE DEF IInv, CapNoFrame, Stopping, Unavailable, Cleared, Bumped, None
<1>1. Types'
  <2>1. CapType'
    BY DEF Types, CapType
  <2>2. buffer.version + 1 \in Nat
    BY DEF Types, BufferType
  <2>3. BufferType'
    BY <2>2 DEF Types, BufferType
  <2>4. (ConfigType /\ FlagsType /\ SessionType /\ OpType /\ DetType /\ CtlType)'
    BY DEF Types, ConfigType, FlagsType, SessionType, OpType, DetType, CtlType
  <2>. QED  BY <2>1, <2>3, <2>4 DEF Types
<1> USE DEF Types, CapType, BufferType
<1>2. JoinedAreGone'
  BY DEF JoinedAreGone
<1>3. EmptyBetween'
  BY DEF EmptyBetween
<1>4. DetectorIsReady'
  BY DEF DetectorIsReady, Launching, Ended
<1>5. FramesAreOrdered'
  BY DEF FramesAreOrdered, DetType, CapType, CtlType, Uses, BufferType
<1>6. DeathIsNoticed'
  BY DEF DeathIsNoticed
<1>7. BatchOfThisSession'
  BY DEF BatchOfThisSession
<1>. QED  BY <1>1, <1>2, <1>3, <1>4, <1>5, <1>6, <1>7

LEMMA CapFrameKeeps == IInv /\ CapFrame => IInv'
<1> SUFFICES ASSUME IInv, CapFrame PROVE IInv'
  OBVIOUS
<1> USE DEF IInv, None
<1>1. /\ cap.at = "loop" /\ session.registered
      /\ UNCHANGED <<config, flags, session, op, ui, ctl, buffer, budget>>
  BY DEF CapFrame, DetectorIsReady, Ended
<1>2. CapType' /\ cap'.at = "loop" /\ cap'.seq = cap.seq + 1
  <2>1. cap.seq + 1 \in 0..MaxFrames
    BY DEF CapFrame, Types, CapType
  <2>. QED  BY <2>1 DEF CapFrame, Types, CapType
<1>3. /\ DetType' /\ det'.at = det.at /\ det'.loaded = det.loaded
      /\ det'.wanted = det.wanted /\ det'.frame = det.frame
      /\ det'.slot \in {det.slot, cap.seq + 1}
  <2>1. cap.seq + 1 \in Nat
    BY DEF Types, CapType
  <2>. QED  BY <2>1 DEF CapFrame, Types, DetType
<1>4. Types'
  BY <1>1, <1>2, <1>3 DEF Types, ConfigType, FlagsType, SessionType, OpType, CtlType,
     BufferType
<1>5. JoinedAreGone' /\ EmptyBetween' /\ DetectorIsReady'
  BY <1>1, <1>2, <1>3 DEF JoinedAreGone, EmptyBetween, DetectorIsReady, Launching, Ended
<1>6. FramesAreOrdered'
  BY <1>1, <1>2, <1>3 DEF Types, DetType, CapType, FramesAreOrdered
<1>7. DeathIsNoticed' /\ BatchOfThisSession'
  BY <1>1, <1>2, <1>3 DEF DeathIsNoticed, BatchOfThisSession
<1>. QED  BY <1>4, <1>5, <1>6, <1>7

LEMMA CtlWakeKeeps == IInv /\ CtlWake => IInv'
<1> SUFFICES ASSUME IInv, CtlWake PROVE IInv'
  OBVIOUS
<1> USE DEF IInv, CtlWake, None
<1>1. Types'
  <2>1. CtlType'
    BY DEF Types, CtlType
  <2>2. (ConfigType /\ FlagsType /\ SessionType /\ OpType /\ DetType /\ CapType
         /\ BufferType)'
    BY DEF Types, ConfigType, FlagsType, SessionType, OpType, DetType, CapType, BufferType
  <2>. QED  BY <2>1, <2>2 DEF Types
<1> USE DEF Types, CtlType
<1>2. FramesAreOrdered'
  BY DEF FramesAreOrdered
<1>3. JoinedAreGone' /\ EmptyBetween' /\ DetectorIsReady' /\ DeathIsNoticed'
     /\ BatchOfThisSession'
  BY DEF JoinedAreGone, EmptyBetween, DetectorIsReady, DeathIsNoticed, BatchOfThisSession,
     Ended, Launching
<1>. QED  BY <1>1, <1>2, <1>3

(* What the controller takes out of the buffer: nothing, or a frame that   *)
(* is newer than all it has taken.                                         *)
LEMMA WhatIsRead ==
  ASSUME IInv, CtlRead
  PROVE  /\ CtlType'
         /\ \/ ctl'.used = ctl.used
            \/ ctl'.used.frame = buffer.frame /\ ctl.used.frame < buffer.frame
         /\ ctl'.consumed = ctl.consumed \/ ctl'.consumed = buffer.version
         /\ ctl'.used # ctl.used => ctl'.consumed = buffer.version
<1> DEFINE new == [frame |-> buffer.frame, version |-> buffer.version,
                   size |-> buffer.size, at |-> config.resolution]
<1> USE DEF IInv, Types, None
<1>1. new \in Uses /\ new.frame = buffer.frame
      /\ buffer.version \in Nat /\ buffer.version \in Int
  BY DEF ConfigType, BufferType, Uses
<1> HIDE DEF new
<1>2. CASE ctl' = [ctl EXCEPT !.at = "acting", !.seen = buffer.version]
  BY <1>1, <1>2 DEF CtlType
<1>3. CASE ctl' = [ctl EXCEPT !.at = "acting", !.seen = buffer.version,
                     !.consumed = buffer.version,
                     !.used = IF ctl.consumed # buffer.version /\ buffer.frame # None
                              THEN new ELSE @]
  <2>1. CASE ctl.consumed # buffer.version /\ buffer.frame # None
    <3>1. ctl.used.frame < buffer.frame
      BY <2>1 DEF FramesAreOrdered
    <3>2. ctl' = [ctl EXCEPT !.at = "acting", !.seen = buffer.version,
                             !.consumed = buffer.version, !.used = new]
      BY <1>3, <2>1
    <3>3. CtlType' /\ ctl'.used = new /\ ctl'.consumed = buffer.version
      BY <1>1, <3>2 DEF CtlType
    <3>. QED  BY <1>1, <3>1, <3>3
  <2>2. CASE ~(ctl.consumed # buffer.version /\ buffer.frame # None)
    <3>1. ctl' = [ctl EXCEPT !.at = "acting", !.seen = buffer.version,
                             !.consumed = buffer.version, !.used = ctl.used]
      BY <1>3, <2>2
    <3>2. CtlType' /\ ctl'.used = ctl.used /\ ctl'.consumed = buffer.version
      BY <1>1, <3>1 DEF CtlType
    <3>. QED  BY <3>2
  <2>. QED  BY <2>1, <2>2
<1>. QED  BY <1>2, <1>3 DEF CtlRead, new

LEMMA CtlReadKeeps == IInv /\ CtlRead => IInv'
<1> SUFFICES ASSUME IInv, CtlRead PROVE IInv'
  OBVIOUS
<1> USE DEF IInv, None
<1>1. UNCHANGED <<config, flags, session, op, ui, det, cap, buffer, budget>>
  BY DEF CtlRead
<1>2. Types'
  BY <1>1, WhatIsRead DEF Types, ConfigType, FlagsType, SessionType, OpType, DetType,
                          CapType, BufferType
<1>3. JoinedAreGone' /\ EmptyBetween' /\ DetectorIsReady'
  BY <1>1 DEF JoinedAreGone, EmptyBetween, DetectorIsReady, Launching, Ended
<1>4. FramesAreOrdered'
  BY <1>1, WhatIsRead DEF Types, DetType, CtlType, Uses, BufferType, FramesAreOrdered
<1>5. DeathIsNoticed' /\ BatchOfThisSession'
  BY <1>1 DEF DeathIsNoticed, BatchOfThisSession
<1>. QED  BY <1>2, <1>3, <1>4, <1>5

LEMMA CtlDoneKeeps == IInv /\ CtlDone => IInv'
<1> SUFFICES ASSUME IInv, CtlDone PROVE IInv'
  OBVIOUS
<1> USE DEF IInv, CtlDone, None
<1>1. Types'
  <2>1. CtlType'
    BY DEF Types, CtlType
  <2>2. (ConfigType /\ FlagsType /\ SessionType /\ OpType /\ DetType /\ CapType
         /\ BufferType)'
    BY DEF Types, ConfigType, FlagsType, SessionType, OpType, DetType, CapType, BufferType
  <2>. QED  BY <2>1, <2>2 DEF Types
<1> USE DEF Types, CtlType
<1>2. FramesAreOrdered'
  BY DEF FramesAreOrdered
<1>3. JoinedAreGone' /\ EmptyBetween' /\ DetectorIsReady' /\ DeathIsNoticed'
     /\ BatchOfThisSession'
  BY DEF JoinedAreGone, EmptyBetween, DetectorIsReady, DeathIsNoticed, BatchOfThisSession,
     Ended, Launching
<1>. QED  BY <1>1, <1>2, <1>3

LEMMA StutterKeeps == IInv /\ UNCHANGED vars => IInv'
<1> SUFFICES ASSUME IInv, UNCHANGED vars PROVE IInv'
  OBVIOUS
<1> USE DEF IInv, vars
<1>1. Types'
  BY DEF Types, ConfigType, FlagsType, SessionType, OpType, DetType, CapType, CtlType,
     BufferType
<1>2. JoinedAreGone' /\ EmptyBetween' /\ DetectorIsReady'
  BY DEF JoinedAreGone, EmptyBetween, DetectorIsReady, Launching, Ended
<1>3. FramesAreOrdered' /\ DeathIsNoticed' /\ BatchOfThisSession'
  BY DEF FramesAreOrdered, DeathIsNoticed, BatchOfThisSession
<1>. QED  BY <1>1, <1>2, <1>3

LEMMA InitEstablishes == Init => IInv
<1> SUFFICES ASSUME Init PROVE IInv
  OBVIOUS
<1> USE DEF Init, None, Idle
<1>1. ConfigType
  BY DEF ConfigType, Resolutions
<1>2. FlagsType /\ SessionType /\ OpType /\ DetType /\ CapType
  BY DEF FlagsType, SessionType, OpType, DetType, CapType, Loadable
<1>3. CtlType /\ BufferType
  BY DEF CtlType, BufferType, Uses
<1>4. JoinedAreGone /\ EmptyBetween /\ DetectorIsReady
  BY DEF JoinedAreGone, EmptyBetween, DetectorIsReady, Launching, Ended
<1>5. FramesAreOrdered /\ DeathIsNoticed /\ BatchOfThisSession
  BY DEF FramesAreOrdered, DeathIsNoticed, BatchOfThisSession
<1>. QED  BY <1>1, <1>2, <1>3, <1>4, <1>5 DEF IInv, Types

LEMMA StepKeeps == IInv /\ [Next]_vars => IInv'
<1> SUFFICES ASSUME IInv, [Next]_vars PROVE IInv'
  OBVIOUS
<1>1. CASE OpStep
  BY <1>1, OpBeginKeeps, RequestStopKeeps, JoinDetectorKeeps, JoinCaptureKeeps,
     CleanUpKeeps,
     LoadModelKeeps, LaunchCaptureKeeps, LaunchDetectorKeeps DEF OpStep
<1>2. CASE UiStep
  BY <1>2, PollKeeps, FinalStopKeeps, ExitKeeps, FlagModelKeeps, FollowModelKeeps,
     FlagAgainKeeps DEF UiStep
<1>3. CASE DetStep
  BY <1>3, DetCheckKeeps, DetSwitchKeeps, DetLoadKeeps, DetSwitchedKeeps, DetTakeKeeps,
     DetPublishKeeps, DetNotifyKeeps, DetEndKeeps DEF DetStep
<1>4. CASE CapStep
  BY <1>4, CapSetupKeeps, CapExitKeeps, CapReopenKeeps, CapNoFrameKeeps, CapFrameKeeps
     DEF CapStep
<1>5. CASE CtlStep
  BY <1>5, CtlWakeKeeps, CtlReadKeeps, CtlDoneKeeps DEF CtlStep
<1>6. CASE Toggle \/ Close \/ ChooseModel
  BY <1>6, ToggleKeeps, CloseKeeps, ChooseModelKeeps
<1>7. CASE ListenerCrashes \/ DetCrash \/ CapCrash
  BY <1>7, ListenerCrashesKeeps, DetCrashKeeps, CapCrashKeeps
<1>8. CASE UNCHANGED vars
  BY <1>8, StutterKeeps
<1>. QED  BY <1>1, <1>2, <1>3, <1>4, <1>5, <1>6, <1>7, <1>8 DEF Next, Over

LEMMA Invariance == Spec => []IInv
BY InitEstablishes, StepKeeps, PTL DEF Spec

(* While a worker of the pipeline runs, its detector is there, and one     *)
(* that ended has left a request to stop (inference_session.cpp:24-126,    *)
(* thread_guard.h), in every order of starting, stopping, closing,         *)
(* switching models and crashing.                                          *)
THEOREM SessionInvHolds == Spec => []SessionInv
<1>1. IInv => SessionInv
  <2> SUFFICES ASSUME IInv PROVE SessionInv
    OBVIOUS
  <2> USE DEF IInv, None
  <2>1. config \in [model : Models, resolution : {SizeOf(m) : m \in Models}]
    BY DEF Types, ConfigType, Resolutions
  <2>2. flags \in [stop : BOOLEAN, exit : BOOLEAN, model : BOOLEAN, resolution : BOOLEAN]
    BY DEF Types, FlagsType
  <2>3. /\ session.running \in BOOLEAN /\ session.registered \in BOOLEAN
        /\ det.loaded \in Models \cup {None}
    BY DEF Types, SessionType, DetType, Loadable
  <2>4. /\ det.slot \in 0..MaxFrames /\ buffer.frame \in 0..MaxFrames
        /\ ctl.consumed \in -1..buffer.version
    BY DEF Types, DetType, CapType, CtlType, BufferType, FramesAreOrdered
  <2>5. WorkersHaveDetector
    BY DEF WorkersHaveDetector, DetectorIsReady
  <2>. QED  BY <2>1, <2>2, <2>3, <2>4, <2>5 DEF SessionInv, TypeOK
<1>. QED  BY <1>1, Invariance, PTL

(* No detections outlive their session (DetectionBuffer is emptied between *)
(* the join of the old pipeline and the launch of the new one).            *)
THEOREM BatchOfThisSessionHolds == Spec => []BatchOfThisSession
<1>1. IInv => BatchOfThisSession
  BY DEF IInv
<1>. QED  BY <1>1, Invariance, PTL

(* The controller never acts twice on the detections of one frame, nor on  *)
(* an older frame after a newer one (latest_control_worker.h, the slot of  *)
(* processFrame, the version in aim_loop::tick).                           *)
THEOREM EachFrameUsedOnceHolds == Spec => EachFrameUsedOnce
<1>1. IInv /\ [Next]_vars
        => [ctl'.used # ctl.used => ctl'.used.frame > ctl.used.frame]_vars
  <2> SUFFICES ASSUME IInv, Next, ctl'.used # ctl.used
               PROVE  ctl'.used.frame > ctl.used.frame
    OBVIOUS
  <2>1. CASE CtlRead
    <3>1. ctl'.used.frame = buffer.frame /\ ctl.used.frame < buffer.frame
      BY <2>1, WhatIsRead
    <3>2. ctl.used.frame \in Nat /\ buffer.frame \in Nat
      BY DEF IInv, Types, CtlType, Uses, BufferType
    <3>. QED  BY <3>1, <3>2
  <2>2. CASE UNCHANGED ctl
    BY <2>2
  <2>3. CASE LaunchDetector \/ DetNotify \/ DetEnd \/ CtlWake \/ CtlDone
    BY <2>3 DEF LaunchDetector, DetNotify, DetEnd, CtlWake, CtlDone, IInv, Types, CtlType
  <2>. QED
    BY <2>1, <2>2, <2>3
       DEF Next, OpStep, OpBegin, RequestStop, JoinDetector, JoinCapture, CleanUp,
          LoadModel,
           LaunchCapture, UiStep, Poll, FinalStop, Exit, FlagModel, FollowModel, FlagAgain,
           DetStep, DetCheck, DetSwitch, DetLoad, DetSwitched, DetTake, DetPublish, CapStep,
           CapSetup, CapExit, CapReopen, CapNoFrame, CapFrame, CtlStep, Toggle, Close,
           ChooseModel, ListenerCrashes, DetCrash, CapCrash, Over, vars
<1>. QED  BY <1>1, Invariance, PTL DEF Spec, EachFrameUsedOnce
=============================================================================
